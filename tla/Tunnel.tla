------------------------------- MODULE Tunnel -------------------------------
(***************************************************************************)
(* One TCP tunnel between Emacs and the server: server/tunnel/tunnel.go    *)
(* with the tunnel functions of flit.el.                                   *)
(*                                                                         *)
(* A reverse tunnel listens on the server and connects to a local port of  *)
(* Emacs's machine; a forward tunnel listens there and connects to a port  *)
(* of the server.  The two sides exchange frames over one ordered          *)
(* connection.  The server handles notifications (tunnel/data) inline and  *)
(* each request in a goroutine of its own; Emacs runs one function at a    *)
(* time, but handles frames and local sockets while it waits for a reply.  *)
(* Data is abstracted to counts of chunks.                                 *)
(***************************************************************************)
EXTENDS Naturals, Sequences, FiniteSets

CONSTANTS
    Conns,      \* connection ids
    ChanCap,    \* capacity of writeCh (4096 in the code)
    MaxData     \* bound: chunks the two ends of the tunnel produce

ASSUME TunnelAssumption == ChanCap \in Nat \ {0} /\ MaxData \in Nat /\ "-" \notin Conns

NoConn == "-"
Requests == {"listen", "connect", "disconnect", "close"}
Replies == {"listening", "connected", "failed", "closed"}
Notices == {"accept", "data", "disconnect"}

VARIABLES
    dir,        \* the tunnel's direction
    \* Emacs
    tunnel,     \* the entry of flit--tunnels
    local,      \* the local socket of each connection and its :connections entry
    toServer,   \* frames on their way to the server
    \* the server
    toClient,   \* frames on their way to Emacs
    handlers,   \* request goroutines
    inline,     \* the connection the inline tunnel/data handler has looked up
    crashed,    \* a panic ended the process
    ended,      \* CloseAll has run
    listener,   \* the Listener, if any
    setup,      \* how far acceptLoop or Connect is with each connection
    conns,      \* Manager.conns
    closed,     \* Connection.closed
    chan,       \* writeCh is closed
    queue,      \* chunks in writeCh
    sock,       \* Connection.conn: eof when the peer has closed it
    inbox,      \* chunks received by conn, not read yet
    reader, writer,     \* readLoop and writeLoop
    \* history
    chunks, told, introduced

clientVars == <<dir, tunnel, local, introduced>>
wires      == <<toServer, toClient>>
connVars   == <<setup, conns, closed, chan, queue, sock, inbox, listener>>
vars == <<clientVars, wires, connVars, handlers, inline, crashed, ended, reader, writer,
          chunks, told>>

Loop == {"none", "run", "busy", "swap", "close", "delete", "notify", "done"}
Frame(k, c) == [kind |-> k, conn |-> c]
Frames == [kind : Requests \cup Replies \cup Notices, conn : Conns \cup {NoConn}]
Tasks == [kind : Requests \cup {"shut", "listening", "closed"}, conn : Conns \cup {NoConn}]

\* Type correctness; in particular writeCh never holds more than its capacity
\* and at most one tunnel/disconnect is ever sent for a connection.
TypeOK ==
    /\ dir \in {"reverse", "forward"}
    /\ tunnel \in {"none", "asked", "open", "closing", "closed"}
    /\ local \in [Conns -> {"none", "connecting", "open", "closed"}]
    /\ toServer \in Seq(Frames) /\ toClient \in Seq(Frames)
    /\ handlers \subseteq Tasks
    /\ inline \in Conns \cup {NoConn}
    /\ crashed \in BOOLEAN /\ ended \in BOOLEAN
    /\ listener \in {"none", "open", "closed"}
    /\ setup \in [Conns -> {"none", "accepted", "stored", "dialed", "running", "failed"}]
    /\ conns \subseteq Conns
    /\ closed \in [Conns -> BOOLEAN] /\ chan \in [Conns -> BOOLEAN]
    /\ queue \in [Conns -> 0..ChanCap]
    /\ sock \in [Conns -> {"none", "open", "eof", "closed"}]
    /\ inbox \in [Conns -> Nat]
    /\ reader \in [Conns -> Loop] /\ writer \in [Conns -> Loop]
    /\ chunks \in 0..MaxData
    /\ told \in [Conns -> 0..1]
    /\ introduced \subseteq Conns

-----------------------------------------------------------------------------
(* Sending and receiving frames.                                           *)

\* Goroutines outlive the session, but not a panic.
Alive == ~crashed

Ask(k, c) == toServer' = Append(toServer, Frame(k, c))
Tell(k, c) == toClient' = IF ended THEN toClient ELSE Append(toClient, Frame(k, c))

Arrives(k, c) == /\ toClient # <<>> /\ Head(toClient) = Frame(k, c)
                 /\ toClient' = Tail(toClient)

\* A disconnect for each of cs.  Each request has its own goroutine, so the
\* order does not matter.
Disconnects(cs) ==
    CHOOSE s \in [1..Cardinality(cs) -> {Frame("disconnect", c) : c \in cs}] :
        \A c \in cs : \E i \in DOMAIN s : s[i] = Frame("disconnect", c)

serverOnly == <<connVars, handlers, inline, crashed, ended, reader, writer, told>>

-----------------------------------------------------------------------------
(* Emacs.                                                                  *)

\* flit-tunnel-listen: the entry exists at once.  flit-reverse-tunnel-listen:
\* the entry is made when the reply to tunnel/listen is read.
OpenTunnel ==
    /\ tunnel = "none"
    /\ IF dir = "forward" THEN tunnel' = "open" /\ UNCHANGED toServer
                          ELSE tunnel' = "asked" /\ Ask("listen", NoConn)
    /\ UNCHANGED <<serverOnly, dir, local, introduced, toClient, chunks>>

HandleListening ==
    /\ Arrives("listening", NoConn)
    /\ tunnel' = IF tunnel = "asked" THEN "open" ELSE tunnel
    /\ UNCHANGED <<serverOnly, dir, local, introduced, toServer, chunks>>

\* flit-tunnel-close: local sockets are closed, tunnel/disconnect is sent for
\* each (their sentinels send it too), and tunnel/close for a reverse tunnel,
\* whose entry stays until the reply is read.
CloseTunnel ==
    /\ tunnel = "open"
    /\ tunnel' = IF dir = "reverse" THEN "closing" ELSE "closed"
    /\ local' = [c \in Conns |-> IF local[c] \in {"open", "connecting"} THEN "closed"
                                 ELSE local[c]]
    /\ toServer' = toServer \o Disconnects({c \in Conns : local[c] \in {"open", "connecting"}})
                    \o (IF dir = "reverse" THEN <<Frame("close", NoConn)>> ELSE <<>>)
    /\ UNCHANGED <<serverOnly, dir, introduced, toClient, chunks>>

HandleClosed ==
    /\ Arrives("closed", NoConn)
    /\ tunnel' = "closed"
    /\ UNCHANGED <<serverOnly, dir, local, introduced, toServer, chunks>>

\* The tunnel's entry is in flit--tunnels.
Known == tunnel \in {"open", "closing"}

\* flit--tunnel-accept-connection: a local client of a forward tunnel.
LocalAccept(c) ==
    /\ dir = "forward" /\ tunnel = "open" /\ local[c] = "none"
    /\ local' = [local EXCEPT ![c] = "connecting"]
    /\ introduced' = introduced \cup {c}
    /\ Ask("connect", c)
    /\ UNCHANGED <<serverOnly, dir, tunnel, toClient, chunks>>

\* The reply to tunnel/connect: only now is data forwarded.
HandleConnected(c) ==
    /\ Arrives("connected", c)
    /\ local' = IF local[c] = "connecting" THEN [local EXCEPT ![c] = "open"] ELSE local
    /\ UNCHANGED <<serverOnly, dir, tunnel, introduced, toServer, chunks>>

\* A failure deletes the local client, whose sentinel sends tunnel/disconnect.
HandleFailed(c) ==
    /\ Arrives("failed", c)
    /\ IF local[c] = "connecting"
       THEN local' = [local EXCEPT ![c] = "closed"] /\ Ask("disconnect", c)
       ELSE UNCHANGED <<local, toServer>>
    /\ UNCHANGED <<serverOnly, dir, tunnel, introduced, chunks>>

\* flit--handle-tunnel-accept: ignored for an unknown tunnel; answered with a
\* disconnect when the local port does not accept.
HandleAccept(c) ==
    /\ Arrives("accept", c)
    /\ introduced' = introduced \cup {c}
    /\ \/ ~Known /\ UNCHANGED <<local, toServer>>
       \/ Known /\ local' = [local EXCEPT ![c] = "open"] /\ UNCHANGED toServer
       \/ Known /\ Ask("disconnect", c) /\ UNCHANGED local
    /\ UNCHANGED <<serverOnly, dir, tunnel, chunks>>

\* flit--handle-tunnel-data: written to the local socket, or dropped.
HandleData(c) ==
    /\ Arrives("data", c)
    /\ UNCHANGED <<serverOnly, clientVars, toServer, chunks>>

\* flit--handle-tunnel-disconnect; the deleted process's sentinel answers.
HandleDisconnect(c) ==
    /\ Arrives("disconnect", c)
    /\ IF Known /\ local[c] \in {"open", "connecting"}
       THEN local' = [local EXCEPT ![c] = "closed"] /\ Ask("disconnect", c)
       ELSE UNCHANGED <<local, toServer>>
    /\ UNCHANGED <<serverOnly, dir, tunnel, introduced, chunks>>

LocalSends(c) ==
    /\ local[c] = "open" /\ chunks < MaxData
    /\ chunks' = chunks + 1
    /\ Ask("data", c)
    /\ UNCHANGED <<serverOnly, clientVars, toClient>>

\* flit--tunnel-local-disconnected; a timeout of tunnel/connect ends the same way.
LocalCloses(c) ==
    /\ local[c] \in {"open", "connecting"}
    /\ local' = [local EXCEPT ![c] = "closed"]
    /\ IF Known THEN Ask("disconnect", c) ELSE UNCHANGED toServer
    /\ UNCHANGED <<serverOnly, dir, tunnel, introduced, toClient, chunks>>

-----------------------------------------------------------------------------
(* The server: frames from Emacs.                                          *)

serverRest == <<clientVars, chunks, crashed, ended>>
loops == <<reader, writer>>

\* A request gets a goroutine.
Dispatch ==
    /\ Alive /\ inline = NoConn
    /\ toServer # <<>> /\ Head(toServer).kind \in Requests
    /\ toServer' = Tail(toServer)
    /\ handlers' = handlers \cup {Head(toServer)}
    /\ UNCHANGED <<serverRest, connVars, loops, told, toClient, inline>>

\* SendData: look the connection up ...
SendLookup ==
    /\ Alive /\ inline = NoConn
    /\ toServer # <<>> /\ Head(toServer).kind = "data"
    /\ toServer' = Tail(toServer)
    /\ inline' = IF Head(toServer).conn \in conns THEN Head(toServer).conn ELSE NoConn
    /\ UNCHANGED <<serverRest, connVars, loops, told, toClient, handlers>>

\* ... and, the lock released, send unless the channel is full.  Sending to a
\* closed channel panics.
SendQueue ==
    /\ Alive /\ inline # NoConn
    /\ inline' = NoConn
    /\ crashed' = chan[inline]
    /\ queue' = IF queue[inline] = ChanCap THEN queue ELSE [queue EXCEPT ![inline] = @ + 1]
    /\ UNCHANGED <<clientVars, chunks, ended, wires, setup, conns, closed, chan, sock, inbox,
                   listener, loops, told, handlers>>

Handles(k, c) == Alive /\ Frame(k, c) \in handlers
Done(k, c) == handlers' = handlers \ {Frame(k, c)}

\* Listen, then its reply; acceptLoop runs from here on.
Listen ==
    /\ Handles("listen", NoConn)
    /\ listener' = "open"
    /\ handlers' = (handlers \ {Frame("listen", NoConn)}) \cup {Frame("listening", NoConn)}
    /\ UNCHANGED <<serverRest, wires, setup, conns, closed, chan, queue, sock, inbox, loops,
                   told, inline>>

\* Manager.Close: the listener only.
Close ==
    /\ Handles("close", NoConn)
    /\ listener' = IF listener = "open" THEN "closed" ELSE listener
    /\ handlers' = (handlers \ {Frame("close", NoConn)}) \cup {Frame("closed", NoConn)}
    /\ UNCHANGED <<serverRest, wires, setup, conns, closed, chan, queue, sock, inbox, loops,
                   told, inline>>

Reply(k) ==
    /\ Handles(k, NoConn)
    /\ Done(k, NoConn)
    /\ Tell(k, NoConn)
    /\ UNCHANGED <<serverRest, toServer, connVars, loops, told, inline>>

\* Connect: dial with the lock released ...
Dial(c) ==
    /\ Handles("connect", c)
    /\ setup[c] = "none"
    /\ \/ /\ setup' = [setup EXCEPT ![c] = "dialed"]
          /\ sock' = [sock EXCEPT ![c] = "open"]
          /\ UNCHANGED <<handlers, toClient>>
       \/ /\ setup' = [setup EXCEPT ![c] = "failed"]
          /\ Done("connect", c)
          /\ Tell("failed", c)
          /\ UNCHANGED sock
    /\ UNCHANGED <<serverRest, toServer, conns, closed, chan, queue, inbox, listener, loops,
                   told, inline>>

\* ... register the connection and start its loops, then reply.
ConnectStore(c) ==
    /\ Handles("connect", c)
    /\ setup[c] = "dialed"
    /\ setup' = [setup EXCEPT ![c] = "running"]
    /\ conns' = conns \cup {c}
    /\ reader' = [reader EXCEPT ![c] = "run"] /\ writer' = [writer EXCEPT ![c] = "run"]
    /\ UNCHANGED <<serverRest, wires, closed, chan, queue, sock, inbox, listener, told, inline,
                   handlers>>

ConnectReply(c) ==
    /\ Handles("connect", c)
    /\ setup[c] = "running"
    /\ Done("connect", c)
    /\ Tell("connected", c)
    /\ UNCHANGED <<serverRest, toServer, connVars, loops, told, inline>>

\* Mutant: the connection stays in the map.
Disconnect_KeepEntry(c) ==
    /\ Handles("disconnect", c)
    /\ handlers' = (handlers \ {Frame("disconnect", c)})
                        \cup (IF c \in conns THEN {Frame("shut", c)} ELSE {})
    /\ UNCHANGED <<serverRest, wires, connVars, loops, told, inline>>

\* Disconnect: forget the connection ...
Disconnect(c) ==
    /\ Handles("disconnect", c)
    /\ conns' = conns \ {c}
    /\ handlers' = (handlers \ {Frame("disconnect", c)})
                        \cup (IF c \in conns THEN {Frame("shut", c)} ELSE {})
    /\ UNCHANGED <<serverRest, wires, setup, closed, chan, queue, sock, inbox, listener, loops,
                   told, inline>>

\* Mutant: the connection is forgotten but its socket stays open.
Shut_KeepSocket(c) ==
    /\ Handles("shut", c)
    /\ Done("shut", c)
    /\ closed' = [closed EXCEPT ![c] = TRUE]
    /\ UNCHANGED <<serverRest, wires, setup, conns, chan, queue, sock, inbox, listener, loops,
                   told, inline>>

\* ... and Connection.close it; writeCh stays open.
Shut(c) ==
    /\ Handles("shut", c)
    /\ Done("shut", c)
    /\ closed' = [closed EXCEPT ![c] = TRUE]
    /\ sock' = [sock EXCEPT ![c] = "closed"]
    /\ UNCHANGED <<serverRest, wires, setup, conns, chan, queue, inbox, listener, loops,
                   told, inline>>

-----------------------------------------------------------------------------
(* The server: acceptLoop.                                                 *)

Accept(c) ==
    /\ Alive /\ dir = "reverse" /\ listener = "open"
    /\ \A d \in Conns : setup[d] \notin {"accepted", "stored"}
    /\ setup[c] = "none"
    /\ setup' = [setup EXCEPT ![c] = "accepted"]
    /\ sock' = [sock EXCEPT ![c] = "open"]
    /\ UNCHANGED <<serverRest, wires, conns, closed, chan, queue, inbox, listener, loops, told,
                   inline, handlers>>

\* Mutant: the loops run before the client is told of the connection.
AcceptStore_StartLoops(c) ==
    /\ Alive /\ setup[c] = "accepted"
    /\ setup' = [setup EXCEPT ![c] = "stored"]
    /\ conns' = conns \cup {c}
    /\ reader' = [reader EXCEPT ![c] = "run"] /\ writer' = [writer EXCEPT ![c] = "run"]
    /\ UNCHANGED <<serverRest, wires, closed, chan, queue, sock, inbox, listener, told,
                   inline, handlers>>

AcceptStore(c) ==
    /\ Alive /\ setup[c] = "accepted"
    /\ setup' = [setup EXCEPT ![c] = "stored"]
    /\ conns' = conns \cup {c}
    /\ UNCHANGED <<serverRest, wires, closed, chan, queue, sock, inbox, listener, loops, told,
                   inline, handlers>>

\* tunnel/accept is written, then the loops start.
AcceptNotify(c) ==
    /\ Alive /\ setup[c] = "stored"
    /\ setup' = [setup EXCEPT ![c] = "running"]
    /\ Tell("accept", c)
    /\ reader' = [reader EXCEPT ![c] = "run"] /\ writer' = [writer EXCEPT ![c] = "run"]
    /\ UNCHANGED <<serverRest, toServer, conns, closed, chan, queue, sock, inbox, listener,
                   told, inline, handlers>>

-----------------------------------------------------------------------------
(* The server: readLoop, writeLoop and the cleanup both end with.          *)

ReadLoop(c, pc) == reader' = [reader EXCEPT ![c] = pc] /\ UNCHANGED writer
WriteLoop(c, pc) == writer' = [writer EXCEPT ![c] = pc] /\ UNCHANGED reader

Read(c) ==
    /\ Alive /\ reader[c] = "run" /\ sock[c] \in {"open", "eof"} /\ inbox[c] > 0
    /\ inbox' = [inbox EXCEPT ![c] = @ - 1]
    /\ ReadLoop(c, "busy")
    /\ UNCHANGED <<serverRest, wires, setup, conns, closed, chan, queue, sock, listener, told,
                   inline, handlers>>

ReadNotify(c) ==
    /\ Alive /\ reader[c] = "busy"
    /\ Tell("data", c)
    /\ ReadLoop(c, "run")
    /\ UNCHANGED <<serverRest, toServer, connVars, told, inline, handlers>>

ReadError(c) ==
    /\ Alive /\ reader[c] = "run"
    /\ sock[c] = "closed" \/ (sock[c] = "eof" /\ inbox[c] = 0)
    /\ ReadLoop(c, "swap")
    /\ UNCHANGED <<serverRest, wires, connVars, told, inline, handlers>>

WriteTake(c) ==
    /\ Alive /\ writer[c] = "run" /\ queue[c] > 0
    /\ queue' = [queue EXCEPT ![c] = @ - 1]
    /\ WriteLoop(c, "busy")
    /\ UNCHANGED <<serverRest, wires, setup, conns, closed, chan, sock, inbox, listener, told,
                   inline, handlers>>

WriteOk(c) ==
    /\ Alive /\ writer[c] = "busy" /\ sock[c] \in {"open", "eof"}
    /\ WriteLoop(c, "run")
    /\ UNCHANGED <<serverRest, wires, connVars, told, inline, handlers>>

WriteError(c) ==
    /\ Alive /\ writer[c] = "busy" /\ sock[c] \in {"eof", "closed"}
    /\ WriteLoop(c, "swap")
    /\ UNCHANGED <<serverRest, wires, connVars, told, inline, handlers>>

WriteEnd(c) ==
    /\ Alive /\ writer[c] = "run" /\ chan[c] /\ queue[c] = 0
    /\ WriteLoop(c, "done")
    /\ UNCHANGED <<serverRest, wires, connVars, told, inline, handlers>>

\* A cleanup step of either loop: from one program counter to the next.
Cleanup(c, from, to) ==
    /\ Alive
    /\ \/ reader[c] = from /\ ReadLoop(c, to)
       \/ writer[c] = from /\ WriteLoop(c, to)

\* Mutant: the flag is set without looking at its old value.
CleanupSwap_NoCheck(c) ==
    /\ closed' = [closed EXCEPT ![c] = TRUE]
    /\ Cleanup(c, "swap", "close")
    /\ UNCHANGED <<serverRest, wires, setup, conns, chan, queue, sock, inbox, listener, told,
                   inline, handlers>>

\* if c.closed.Swap(true) { return }
CleanupSwap(c) ==
    /\ closed' = [closed EXCEPT ![c] = TRUE]
    /\ Cleanup(c, "swap", IF closed[c] THEN "done" ELSE "close")
    /\ UNCHANGED <<serverRest, wires, setup, conns, chan, queue, sock, inbox, listener, told,
                   inline, handlers>>

CleanupClose(c) ==
    /\ Cleanup(c, "close", "delete")
    /\ sock' = [sock EXCEPT ![c] = "closed"]
    /\ chan' = [chan EXCEPT ![c] = TRUE]
    /\ UNCHANGED <<serverRest, wires, setup, conns, closed, queue, inbox, listener, told,
                   inline, handlers>>

CleanupDelete(c) ==
    /\ Cleanup(c, "delete", "notify")
    /\ conns' = conns \ {c}
    /\ UNCHANGED <<serverRest, wires, setup, closed, chan, queue, sock, inbox, listener, told,
                   inline, handlers>>

CleanupNotify(c) ==
    /\ Cleanup(c, "notify", "done")
    /\ Tell("disconnect", c)
    /\ told' = [told EXCEPT ![c] = @ + 1]
    /\ UNCHANGED <<serverRest, toServer, connVars, inline, handlers>>

-----------------------------------------------------------------------------
(* The session and the peers.                                              *)

\* CloseAll when the connection to Emacs is gone, and flit--cleanup-host-tunnels.
CloseAll ==
    /\ Alive /\ ~ended /\ inline = NoConn
    /\ ended' = TRUE
    /\ listener' = IF listener = "open" THEN "closed" ELSE listener
    /\ closed' = [c \in Conns |-> closed[c] \/ c \in conns]
    /\ sock' = [c \in Conns |-> IF c \in conns THEN "closed" ELSE sock[c]]
    /\ conns' = {}
    /\ toClient' = <<>> /\ toServer' = <<>>
    /\ tunnel' = "closed"
    /\ local' = [c \in Conns |-> IF local[c] = "none" THEN "none" ELSE "closed"]
    /\ UNCHANGED <<dir, introduced, chunks, crashed, setup, chan, queue, inbox, loops, told,
                   inline, handlers>>

PeerSends(c) ==
    /\ sock[c] = "open" /\ chunks < MaxData
    /\ chunks' = chunks + 1
    /\ inbox' = [inbox EXCEPT ![c] = @ + 1]
    /\ UNCHANGED <<clientVars, crashed, ended, wires, setup, conns, closed, chan, queue, sock,
                   listener, loops, told, inline, handlers>>

PeerCloses(c) ==
    /\ sock[c] = "open"
    /\ sock' = [sock EXCEPT ![c] = "eof"]
    /\ UNCHANGED <<serverRest, wires, setup, conns, closed, chan, queue, inbox, listener,
                   loops, told, inline, handlers>>

Init ==
    /\ dir \in {"reverse", "forward"}
    /\ tunnel = "none" /\ listener = "none"
    /\ local = [c \in Conns |-> "none"] /\ introduced = {}
    /\ toServer = <<>> /\ toClient = <<>> /\ handlers = {} /\ inline = NoConn
    /\ crashed = FALSE /\ ended = FALSE
    /\ setup = [c \in Conns |-> "none"]
    /\ conns = {}
    /\ closed = [c \in Conns |-> FALSE] /\ chan = [c \in Conns |-> FALSE]
    /\ queue = [c \in Conns |-> 0] /\ inbox = [c \in Conns |-> 0]
    /\ sock = [c \in Conns |-> "none"]
    /\ reader = [c \in Conns |-> "none"] /\ writer = [c \in Conns |-> "none"]
    /\ chunks = 0 /\ told = [c \in Conns |-> 0]

\* Emacs reads the frames that arrive.
EmacsReads(c) ==
    \/ HandleConnected(c) \/ HandleFailed(c) \/ HandleAccept(c)
    \/ HandleData(c) \/ HandleDisconnect(c)
HandlerStep(c) ==
    \/ Dial(c) \/ ConnectStore(c) \/ ConnectReply(c) \/ Disconnect(c) \/ Shut(c)
AcceptStep(c) == AcceptStore(c) \/ AcceptNotify(c)
LoopStep(c) ==
    \/ Read(c) \/ ReadNotify(c) \/ ReadError(c)
    \/ WriteTake(c) \/ WriteError(c) \/ WriteEnd(c)
    \/ CleanupSwap(c) \/ CleanupClose(c) \/ CleanupDelete(c) \/ CleanupNotify(c)
Inline == Dispatch \/ SendLookup \/ SendQueue \/ Listen \/ Close \/ \E k \in {"listening", "closed"} : Reply(k)

Next ==
    \/ OpenTunnel \/ HandleListening \/ CloseTunnel \/ HandleClosed \/ Inline \/ CloseAll
    \/ \E c \in Conns :
        \/ LocalAccept(c) \/ EmacsReads(c) \/ LocalSends(c) \/ LocalCloses(c)
        \/ HandlerStep(c) \/ Accept(c) \/ AcceptStep(c) \/ LoopStep(c) \/ WriteOk(c)
        \/ PeerSends(c) \/ PeerCloses(c)

\* Goroutines that can run do, Emacs reads its frames; peers and users need not
\* do anything, and a write may block for ever.
Fairness ==
    /\ WF_vars(HandleListening) /\ WF_vars(HandleClosed)
    /\ WF_vars(Dispatch \/ SendLookup) /\ WF_vars(SendQueue)
    /\ WF_vars(Listen) /\ WF_vars(Close)
    /\ \A k \in {"listening", "closed"} : WF_vars(Reply(k))
    /\ \A c \in Conns :
        /\ WF_vars(EmacsReads(c)) /\ WF_vars(AcceptStep(c))
        /\ WF_vars(Dial(c) \/ ConnectStore(c) \/ ConnectReply(c))
        /\ WF_vars(Disconnect(c)) /\ WF_vars(Shut(c))
        /\ WF_vars(reader[c] # "done" /\ LoopStep(c) /\ reader'[c] # reader[c])
        /\ WF_vars(writer[c] # "done" /\ LoopStep(c) /\ writer'[c] # writer[c])

Spec == Init /\ [][Next]_vars /\ Fairness

-----------------------------------------------------------------------------
(* Properties.                                                             *)

\* Emacs never gets data or a disconnect for a connection before it heard of
\* the connection: it would drop them, and keep a dead one (acceptLoop notifies
\* before it starts the loops; flit--tunnel-accept-connection stores first).
IntroducedFirst ==
    \A i \in DOMAIN toClient : toClient[i].kind \in {"data", "disconnect"} =>
        \/ toClient[i].conn \in introduced
        \/ \E j \in 1..(i - 1) : toClient[j] = Frame("accept", toClient[i].conn)

\* A connection whose loops are over is registered no longer, and no entry is
\* left behind for a socket the cleanup closed.
NoStaleEntry ==
    \A c \in conns : closed[c] => \E l \in {reader[c], writer[c]} : l \in {"close", "delete"}

\* Hanging up crosses the tunnel in both directions: when the server's peer
\* closes, Emacs's socket does not stay open while the tunnel is known; a
\* tunnel/disconnect on its way for a registered connection closes the server's
\* socket.
HangUpsCross ==
    \A c \in Conns :
        /\ sock[c] = "eof" ~> [](crashed \/ tunnel = "closed" \/ local[c] \in {"none", "closed"})
        /\ (c \in conns /\ (Frame("disconnect", c) \in handlers
                \/ \E i \in DOMAIN toServer : toServer[i] = Frame("disconnect", c)))
            ~> (crashed \/ ended \/ sock[c] = "closed")
=============================================================================
