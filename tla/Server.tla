------------------------------- MODULE Server -------------------------------
(***************************************************************************)
(* The life of one flit server process: the accept loop and the signal     *)
(* handler of cmd_server.go, the idle checker, Shutdown, the connections   *)
(* and their sessions of server/jsonrpc.go, the goroutines that handle     *)
(* requests (flitrpc.Serve does not wait for them), and stdio mode.        *)
(*                                                                         *)
(* A request is "watch", "eden", "proc" or "tunnel", which makes the       *)
(* session hold something of that kind, "plain", or "shutdown".  Data for  *)
(* a tunnelled connection comes in notifications, which Serve handles      *)
(* itself before it reads on; the connection may end at any time (module   *)
(* Tunnel has all that the two do; here is what can panic the process).    *)
(***************************************************************************)
EXTENDS Naturals, FiniteSets

CONSTANTS
    Conns,           \* connections that can ever be made
    Modes,           \* subset of {"tcp", "stdio"}: how the server is started
    Requests,        \* the requests that clients make
    ShutdownCalls,   \* bound: the shutdown requests that are ever made
    Tunnellers,      \* bound: the connections whose clients use tunnels
    MaxHandlers      \* bound: handler goroutines of one connection at a time

ASSUME ServerAssumption ==
    /\ Modes \subseteq {"tcp", "stdio"}
    /\ Requests \subseteq {"watch", "eden", "proc", "tunnel", "plain", "shutdown"}
    /\ "signal" \notin ShutdownCalls /\ Tunnellers \subseteq Conns
    /\ IsFiniteSet(Conns) /\ IsFiniteSet(ShutdownCalls) /\ MaxHandlers \in Nat

VARIABLES
    mode,       \* how this server was started
    proc,       \* "run", "exited" or "crashed"
    listener,   \* the listening socket is open
    done,       \* the channel done is closed
    net,        \* per connection: "none", "dialed", "open", "shut" (by anyone)
    table,      \* Server.connections
    sess,       \* per connection: how far its session has come
    held,       \* per connection: kinds of resources its session holds
    handlers,   \* per connection: requests whose handler has not run
    idle,       \* the idle checker's stage
    stop,       \* others that call Shutdown: their stages
    inline,     \* sessions whose Serve is in SendData, past the look-up
    chan,       \* sessions with a tunnelled connection whose writeCh is closed
    straggler   \* history: connections that ended before their handlers

pipe == <<inline, chan>>
connVars == <<net, sess, held, handlers, pipe, straggler>>
vars == <<mode, proc, listener, done, connVars, table, idle, stop>>

Kinds == {"watch", "eden", "proc", "tunnel"}

\* A session, from HandleConnection's start to the end of Session.Close.
Stages == {"none", "new", "serving", "ending", "unwatched", "nowatcher",
           "closed"}

\* Who calls Shutdown besides the idle checker.
Stoppers == ShutdownCalls \cup {"signal"}
-----------------------------------------------------------------------------
(* Connections *)

\* A client connects; the kernel completes the handshake.
Dial(c) ==
    /\ listener /\ net[c] = "none"
    /\ net' = [net EXCEPT ![c] = "dialed"]
    /\ UNCHANGED <<mode, proc, listener, done, table, sess, held, handlers,
                   idle, stop, straggler, pipe>>

\* Accept returns a connection: go HandleConnection.
Accept(c) ==
    /\ listener /\ net[c] = "dialed"
    /\ net' = [net EXCEPT ![c] = "open"]
    /\ sess' = [sess EXCEPT ![c] = "new"]
    /\ UNCHANGED <<mode, proc, listener, done, table, held, handlers, idle,
                   stop, straggler, pipe>>

\* Accept fails once the listener is closed: the loop ends, and with it the
\* process, when done is closed, else it tries again.
AcceptFails ==
    /\ mode = "tcp" /\ ~listener /\ done
    /\ proc' = "exited"
    /\ UNCHANGED <<mode, listener, done, connVars, table, idle, stop>>

\* HandleConnection enters the connection in the table ...
Register(c) ==
    /\ sess[c] = "new" /\ c \notin table
    /\ table' = table \cup {c}
    /\ UNCHANGED <<mode, proc, listener, done, connVars, idle, stop>>

\* ... makes the session and starts to serve.
Serve(c) ==
    /\ sess[c] = "new" /\ c \in table
    /\ sess' = [sess EXCEPT ![c] = "serving"]
    /\ UNCHANGED <<mode, proc, listener, done, net, table, held, handlers,
                   idle, stop, straggler, pipe>>

\* Mutant: Shutdown's look at the table is thought to be enough.
OnDone_StdioOnly(c) ==
    /\ done /\ mode = "stdio"
    /\ proc' = "exited"
    /\ UNCHANGED <<mode, listener, done, connVars, table, idle, stop>>

\* The goroutine that waits for done: closes the connection, or in stdio mode
\* calls os.Exit.
OnDone(c) ==
    /\ done /\ sess[c] # "none" /\ sess[c] # "new"
    /\ IF mode = "stdio"
       THEN proc' = "exited" /\ UNCHANGED net
       ELSE net[c] # "shut" /\ net' = [net EXCEPT ![c] = "shut"] /\ UNCHANGED proc
    /\ UNCHANGED <<mode, listener, done, table, sess, held, handlers, idle,
                   stop, straggler, pipe>>

\* The client goes away (before the accept: like one that goes right after).
HangUp(c) ==
    /\ net[c] = "open"
    /\ net' = [net EXCEPT ![c] = "shut"]
    /\ UNCHANGED <<mode, proc, listener, done, table, sess, held, handlers,
                   idle, stop, straggler, pipe>>

\* flitrpc.Serve reads a request and starts its handler.  (Bound: a session has
\* one tunnelled connection at a time.)
Request(c, r) ==
    /\ sess[c] = "serving" /\ net[c] = "open"
    /\ c \notin inline
    /\ Cardinality(handlers[c]) < MaxHandlers /\ r \notin handlers[c]
    /\ r = "tunnel" => c \in Tunnellers /\ "tunnel" \notin held[c] /\ c \notin chan
    /\ r = "shutdown" => /\ \E s \in ShutdownCalls : stop[s] = "none"
                         /\ \A d \in Conns : r \notin handlers[d]
    /\ handlers' = [handlers EXCEPT ![c] = @ \cup {r}]
    /\ UNCHANGED <<mode, proc, listener, done, net, table, sess, held, idle,
                   stop, straggler, pipe>>

Late == {"unwatched", "nowatcher", "closed"}

\* What a request makes its session hold.
Gain(c, r) == {r} \cap (IF sess[c] \in Late THEN Kinds \ {"watch"} ELSE Kinds)

\* Mutant: NewSession does not make the watch map.
HandleProc_NilMap(c, r) ==
    IF r = "watch" /\ sess[c] \in Late \cup {"serving"} THEN {proc, "crashed"} ELSE {proc}

\* A watch that comes after Session.Close has set watchedPaths to nil: it fails,
\* or the process panics on the write to the map.  It gets there when the path
\* can still be added to the fsnotify watcher or, that one closed too, when
\* Watcher.Watch does not add it, for the pending entries kept in its watchInfo.
HandleProc(c, r) == IF r = "watch" /\ sess[c] \in Late THEN {proc, "crashed"} ELSE {proc}

\* A handler runs, perhaps after its connection is gone.
Handle(c, r) ==
    /\ r \in handlers[c]
    /\ handlers' = [handlers EXCEPT ![c] = @ \ {r}]
    /\ proc' \in HandleProc(c, r)
    /\ held' = [held EXCEPT ![c] = @ \cup Gain(c, r)]
    /\ IF r = "shutdown"
       THEN \E s \in ShutdownCalls :
               stop[s] = "none" /\ stop' = [stop EXCEPT ![s] = "sleep"]
       ELSE UNCHANGED stop
    /\ UNCHANGED <<mode, listener, done, net, table, sess, idle, straggler, pipe>>

\* Serve reads a tunnel/data frame and SendData finds the connection ...
LookUp(c) ==
    /\ sess[c] = "serving" /\ net[c] = "open"
    /\ c \notin inline /\ "tunnel" \in held[c]
    /\ inline' = inline \cup {c}
    /\ UNCHANGED <<mode, proc, listener, done, net, table, sess, held, handlers, idle,
                   stop, chan, straggler>>

\* ... and sends to its writeCh without having kept the lock.
Send(c) ==
    /\ c \in inline
    /\ IF c \in chan THEN proc' = "crashed" /\ UNCHANGED inline
                     ELSE inline' = inline \ {c} /\ UNCHANGED proc
    /\ UNCHANGED <<mode, listener, done, net, table, sess, held, handlers, idle, stop,
                   chan, straggler>>

\* The tunnelled connection ends by itself, and one of its loops cleans up:
\* closes writeCh ...
CleanUp(c) ==
    /\ "tunnel" \in held[c] /\ c \notin chan
    /\ chan' = chan \cup {c}
    /\ UNCHANGED <<mode, proc, listener, done, net, table, sess, held, handlers, idle,
                   stop, inline, straggler>>

\* ... then deletes the entry.  Only a SendData that has it still sees it.
Delete(c) ==
    /\ c \in chan
    /\ held' = [held EXCEPT ![c] = @ \ {"tunnel"}]
    /\ chan' = IF c \in inline THEN chan ELSE chan \ {c}
    /\ UNCHANGED <<mode, proc, listener, done, net, table, sess, handlers, idle, stop,
                   inline, straggler>>

\* Serve returns and HandleConnection's deferred function begins: the
\* connection is closed and leaves the table.  In stdio mode there is none.
ServeEnds(c) ==
    /\ sess[c] = "serving" /\ net[c] = "shut" /\ c \notin inline
    /\ sess' = [sess EXCEPT ![c] = "ending"]
    /\ table' = table \ {c}
    /\ straggler' = IF handlers[c] = {} THEN straggler ELSE straggler \cup {c}
    /\ UNCHANGED <<mode, proc, listener, done, net, held, handlers, idle, stop,
                   pipe>>

CloseStep(c, from, to, kinds) ==
    /\ sess[c] = from
    /\ sess' = [sess EXCEPT ![c] = to]
    /\ held' = [held EXCEPT ![c] = @ \ kinds]
    /\ UNCHANGED <<mode, proc, listener, done, net, table, handlers, idle,
                   stop, straggler, pipe>>

\* Mutant: the test for a watcher is the wrong way round.
SessionClose_NoWatcher(c) ==
    CloseStep(c, "ending", "closed", {"eden", "proc", "tunnel"})

\* Session.Close: unwatch everything and drop the map, close the watcher, stop
\* the Eden watchers, the processes and the tunnels.
SessionClose(c) ==
    \/ CloseStep(c, "ending", "unwatched", {"watch"})
    \/ CloseStep(c, "unwatched", "nowatcher", {"watch"})
    \/ CloseStep(c, "nowatcher", "closed", {"eden", "proc", "tunnel"})

\* HandleStdio returns, and so does main.
StdioEnds ==
    /\ mode = "stdio" /\ \E c \in Conns : sess[c] = "closed"
    /\ proc' = "exited"
    /\ UNCHANGED <<mode, listener, done, connVars, table, idle, stop>>
-----------------------------------------------------------------------------
(* Shutdown and those who call it *)

CloseDone ==
    /\ done' = TRUE
    /\ proc' = IF done THEN "crashed" ELSE proc

CloseConns == net' = [c \in Conns |-> IF c \in table THEN "shut" ELSE net[c]]

\* idleChecker on a tick reads an idle time beyond the timeout (any request
\* but shutdown's resets it; how long none comes is the environment's choice).
IdleTick ==
    /\ mode = "tcp" /\ idle = "wait" /\ ~done
    /\ idle' = "expired"
    /\ UNCHANGED <<mode, proc, listener, done, connVars, table, stop>>

\* ... then looks whether there are connections ...
IdleLook ==
    /\ idle = "expired"
    /\ idle' = IF table = {} THEN "decided" ELSE "wait"
    /\ UNCHANGED <<mode, proc, listener, done, connVars, table, stop>>

\* ... and calls Shutdown: close(done), which panics the second time ...
IdleDone ==
    /\ idle = "decided"
    /\ CloseDone
    /\ idle' = "closing"
    /\ UNCHANGED <<mode, listener, connVars, table, stop>>

\* ... and closes the connections of the table.
IdleConns ==
    /\ idle = "closing"
    /\ CloseConns
    /\ idle' = "over"
    /\ UNCHANGED <<mode, proc, listener, done, sess, held, handlers, straggler,
                   table, stop, pipe>>

\* SIGINT or SIGTERM; the handler of cmd_server.go closes the listener.
\* Stdio mode installs no handler: the process dies of the signal.
Signal ==
    /\ stop["signal"] = "none"
    /\ stop' = [stop EXCEPT !["signal"] = "sleep"]
    /\ listener' = FALSE
    /\ proc' = IF mode = "stdio" THEN "exited" ELSE proc
    /\ UNCHANGED <<mode, done, connVars, table, idle>>

\* Shutdown as called by the signal handler and, 5 s after the RPC, by the
\* goroutine of the shutdown handler.
StopDone(s) ==
    /\ stop[s] = "sleep"
    /\ CloseDone
    /\ stop' = [stop EXCEPT ![s] = "closing"]
    /\ UNCHANGED <<mode, listener, connVars, table, idle>>

StopConns(s) ==
    /\ stop[s] = "closing"
    /\ CloseConns
    /\ stop' = [stop EXCEPT ![s] = "over"]
    /\ UNCHANGED <<mode, proc, listener, done, sess, held, handlers, straggler,
                   table, idle, pipe>>

\* os.Exit of the signal handler.
Exit ==
    /\ stop["signal"] = "over"
    /\ proc' = "exited"
    /\ UNCHANGED <<mode, listener, done, connVars, table, idle, stop>>
-----------------------------------------------------------------------------
Init ==
    /\ mode \in Modes
    /\ proc = "run" /\ listener = (mode = "tcp") /\ done = FALSE
    /\ table = {} /\ straggler = {}
    /\ LET stdin == CHOOSE c \in Conns : TRUE
           At(a, b) == [c \in Conns |-> IF mode = "stdio" /\ c = stdin THEN a ELSE b]
       IN  net = At("open", "none") /\ sess = At("serving", "none")
    /\ held = [c \in Conns |-> {}]
    /\ handlers = [c \in Conns |-> {}]
    /\ inline = {} /\ chan = {}
    /\ idle = "wait"
    /\ stop = [s \in Stoppers |-> "none"]

Arrive(c) == Accept(c) \/ Register(c) \/ Serve(c)
Leave(c)  == ServeEnds(c) \/ SessionClose(c)
TunnelData(c) == LookUp(c) \/ Send(c)
TunnelEnds(c) == CleanUp(c) \/ Delete(c)
HandleAny(c) == \E r \in Requests : Handle(c, r)

Shutdown ==
    \/ IdleDone \/ IdleConns
    \/ \E s \in Stoppers : StopDone(s) \/ StopConns(s)
    \/ Exit \/ AcceptFails \/ StdioEnds

Environment ==
    \/ \E c \in Conns : Dial(c) \/ HangUp(c) \/ \E r \in Requests : Request(c, r)
    \/ Signal

Next ==
    /\ proc = "run"
    /\ \/ Environment
       \/ \E c \in Conns : Arrive(c) \/ HandleAny(c) \/ OnDone(c) \/ Leave(c)
                           \/ TunnelData(c) \/ TunnelEnds(c)
       \/ IdleTick \/ IdleLook
       \/ Shutdown

\* Every goroutine that can go on does (the first is a connection's own, which
\* serves it and closes its session); clients, signals, the ends of tunnelled
\* connections and the passing of the idle time owe nothing.
Fairness ==
    /\ \A c \in Conns :
          /\ WF_vars(proc = "run" /\ (Arrive(c) \/ Send(c) \/ Leave(c)))
          /\ WF_vars(proc = "run" /\ (HandleAny(c) \/ Delete(c)))
          /\ WF_vars(proc = "run" /\ OnDone(c))
    /\ WF_vars(proc = "run" /\ (IdleTick \/ IdleLook))
    /\ WF_vars(proc = "run" /\ Shutdown)

Spec == Init /\ [][Next]_vars /\ Fairness
-----------------------------------------------------------------------------
(* Properties *)

\* The types of the variables.
TypeOK ==
    /\ mode \in Modes /\ proc \in {"run", "exited", "crashed"}
    /\ listener \in BOOLEAN /\ done \in BOOLEAN
    /\ net \in [Conns -> {"none", "dialed", "open", "shut"}]
    /\ sess \in [Conns -> Stages]
    /\ table \subseteq {c \in Conns : sess[c] \in {"new", "serving"}}
    /\ held \in [Conns -> SUBSET Kinds]
    /\ handlers \in [Conns -> SUBSET Requests]
    /\ idle \in {"wait", "expired", "decided", "closing", "over"}
    /\ stop \in [Stoppers -> {"none", "sleep", "closing", "over"}]
    /\ inline \subseteq Conns /\ chan \subseteq Conns /\ straggler \subseteq Conns

\* Shutdown has been called from two places: done is closed twice.
StoppedTwice ==
    \E s \in Stoppers : /\ stop[s] \in {"closing", "over"}
                        /\ \/ idle \in {"closing", "over"}
                           \/ \E t \in Stoppers \ {s} : stop[t] \in {"closing", "over"}

\* Data for a tunnelled connection that was found before its clean-up deleted
\* the entry, in a session that is served: Session.Close, whose CloseAll closes
\* no writeCh, does not race with it.
SendsToCleanedUp == \E c \in inline \cap chan : sess[c] = "serving"

\* A server panics only when it is told twice to stop, when a request outlives
\* its session, or when tunnel data meets the clean-up of its connection.
CrashCauses ==
    proc = "crashed" => straggler # {} \/ StoppedTwice \/ SendsToCleanedUp

\* A closed session holds nothing, unless a handler outlived it.
ClosedHoldsNothing ==
    \A c \in Conns \ straggler : sess[c] = "closed" => held[c] = {}

\* Once the server shuts down every session is closed, those of connections
\* accepted meanwhile included.
ShutdownClosesSessions ==
    done ~> (proc # "run" \/ \A c \in Conns : sess[c] \in {"none", "closed"})
=============================================================================
