------------------------------ MODULE Connect -------------------------------
(***************************************************************************)
(* Emacs' connections to one host (flit.el): the state shown and acted on, *)
(* the table of connections, and the attempts to connect, which are a      *)
(* process with a handshake (PtyBridge) and then an "init" request.        *)
(*                                                                         *)
(* Emacs has one thread, but a synchronous attempt waits in                *)
(* accept-process-output, where filters, sentinels and timers run and may  *)
(* start the next one: the waits form a stack.  C-g unwinds the innermost  *)
(* wait and leaves its attempt running.                                    *)
(***************************************************************************)
EXTENDS Naturals, Sequences

CONSTANTS
    Attempts,    \* bound: the attempts that are ever made
    Async,       \* subset of Attempts: those made with a callback
    None

ASSUME ConnectAssumption == Async \subseteq Attempts /\ None \notin Attempts

VARIABLES
    state,    \* flit--connection-states: the state of the host
    table,    \* flit--connections: its connection
    stage,    \* per attempt: how far it has come
    alive,    \* attempts whose process lives
    told,     \* history: connections that were sent EOF, to be closed
    waits,    \* the stack of synchronous waits, the innermost first
    overlap   \* history: an attempt was begun during a wait, or while the
              \* process of another lived

vars == <<state, table, stage, alive, told, waits, overlap>>

\* A wait for an attempt, or of flit--close-connection for the process of conn,
\* with what its caller does next.
Waits == [what : {"attempt"}, conn : Attempts]
         \cup [what : {"connect", "disconnect"}, conn : Attempts]

UnderWay == {a \in Attempts : stage[a] \in {"handshake", "init"}}
Alive(c) == c # None /\ c \in alive
Fresh(a) == stage[a] = "none"
Top      == Head(waits)
Innermost(what) == waits # <<>> /\ Top.what = what
-----------------------------------------------------------------------------
(* Connecting *)

\* Mutant: the wait is not protected against quitting.
GiveUp_Unprotected(a) ==
    /\ Innermost("attempt") /\ Top.conn = a
    /\ waits' = Tail(waits)
    /\ UNCHANGED <<state, table, stage, alive, overlap, told>>

\* flit--do-connect.  A synchronous attempt is waited for in state connecting.
\* An asynchronous one returns at once, and the cleanup that is to keep the
\* state from being stuck at connecting makes it failed.
DoConnect(a, rest) ==
    /\ Fresh(a)
    /\ stage' = [stage EXCEPT ![a] = "handshake"]
    /\ alive' = alive \cup {a}
    /\ overlap' = (overlap \/ alive # {} \/ rest # <<>>)
    /\ UNCHANGED told
    /\ IF a \in Async
       THEN state' = "failed" /\ waits' = rest
       ELSE /\ state' = "connecting"
            /\ waits' = <<[what |-> "attempt", conn |-> a]>> \o rest

\* The process cannot be made: both ways end in state failed.
CannotStart(a, rest) ==
    /\ Fresh(a)
    /\ stage' = [stage EXCEPT ![a] = "over"]
    /\ state' = "failed" /\ waits' = rest
    /\ UNCHANGED <<alive, overlap, told>>

Begin(a, rest) == DoConnect(a, rest) \/ CannotStart(a, rest)

\* flit--get-connection in tier connect, when it connects: by a command, or by
\* what runs during a wait.
GetConnection(a) ==
    /\ a \notin Async
    /\ state # "connecting" /\ ~(state = "connected" /\ Alive(table))
    /\ table' = IF state = "connected" THEN None ELSE table
    /\ Begin(a, waits)

\* flit-connect and flit-disconnect, unless flit-connect finds a live
\* connection: flit--close-connection takes the connection out of the table;
\* without a live process there is nothing to wait for.
FlitConnect(a) ==
    /\ ~Alive(table)
    /\ table' = None
    /\ Begin(a, waits)

FlitDisconnect ==
    /\ ~Alive(table)
    /\ table' = None /\ state' = "disconnected"
    /\ UNCHANGED <<stage, alive, waits, overlap, told>>

\* Else the process gets EOF, and is waited for.
Close(what) ==
    /\ Alive(table)
    /\ what = "connect" => state # "connected"
    /\ table' = None
    /\ waits' = <<[what |-> what, conn |-> table]>> \o waits
    /\ told' = told \cup {table}
    /\ UNCHANGED <<state, stage, alive, overlap>>

\* on-shutdown and then the callbacks of the pending requests, called by the
\* sentinel of a: it is the host's entry and state that change.
ShutDown(a) ==
    /\ stage' = [stage EXCEPT ![a] = "over"]
    /\ table' = None

\* After 0.5 s the process is killed, which runs its sentinel (that it has
\* ended before is Dies).
Kill ==
    /\ waits # <<>> /\ Top.what # "attempt" /\ Alive(Top.conn)
    /\ alive' = alive \ {Top.conn}
    /\ ShutDown(Top.conn)
    /\ state' = "pending"
    /\ UNCHANGED <<waits, overlap, told>>

\* The wait is over: flit-connect connects ...
ThenConnect(a) ==
    /\ Innermost("connect") /\ ~Alive(Top.conn)
    /\ Begin(a, Tail(waits))
    /\ UNCHANGED table

\* ... flit-disconnect sets the state.
ThenDisconnected ==
    /\ Innermost("disconnect") /\ ~Alive(Top.conn)
    /\ state' = "disconnected" /\ waits' = Tail(waits)
    /\ UNCHANGED <<table, stage, alive, overlap, told>>

\* The handshake succeeds; init is sent.  Emacs, waiting for its lines, has run
\* the sentinels of processes that had ended before.
HandshakeDone(a) ==
    /\ stage[a] = "handshake" /\ a \in alive
    /\ \A b \in Attempts \ alive : stage[b] \in {"none", "over"}
    /\ stage' = [stage EXCEPT ![a] = "init"]
    /\ UNCHANGED <<state, table, alive, waits, overlap, told>>

\* It fails; its process is killed.
HandshakeFails(a) ==
    /\ stage[a] = "handshake"
    /\ stage' = [stage EXCEPT ![a] = "over"]
    /\ alive' = alive \ {a}
    /\ state' = "failed"
    /\ UNCHANGED <<table, waits, overlap, told>>

\* Mutant: the state is set and the table is not.
InitDone_NoEntry(a) ==
    /\ stage[a] = "init" /\ a \in alive
    /\ stage' = [stage EXCEPT ![a] = "live"]
    /\ state' = "connected"
    /\ UNCHANGED <<table, alive, waits, overlap, told>>

\* The answer to init: the connection is entered.
InitDone(a) ==
    /\ stage[a] = "init" /\ a \in alive
    /\ stage' = [stage EXCEPT ![a] = "live"]
    /\ table' = a /\ state' = "connected"
    /\ UNCHANGED <<alive, waits, overlap, told>>

\* An error is the answer, or init cannot be sent: nobody ends the process.
InitFails(a) ==
    /\ stage[a] = "init"
    /\ stage' = [stage EXCEPT ![a] = "stray"]
    /\ state' = "failed"
    /\ UNCHANGED <<table, alive, waits, overlap, told>>

\* The loop of a synchronous attempt sees that it is done.
Done(a) ==
    /\ Innermost("attempt") /\ Top.conn = a /\ a \notin UnderWay
    /\ waits' = Tail(waits)
    /\ state' = IF state = "connecting" THEN "failed" ELSE state
    /\ UNCHANGED <<table, stage, alive, overlap, told>>

\* C-g, or the deadline of the loop: the attempt goes on without it.
GiveUp(a) ==
    /\ Innermost("attempt") /\ Top.conn = a
    /\ waits' = Tail(waits)
    /\ state' = IF state = "connecting" THEN "failed" ELSE state
    /\ UNCHANGED <<table, stage, alive, overlap, told>>

\* C-g in the wait of flit--close-connection.
GiveUpClose ==
    /\ waits # <<>> /\ Top.what # "attempt"
    /\ waits' = Tail(waits)
    /\ UNCHANGED <<state, table, stage, alive, overlap, told>>

\* The process of an attempt or of a connection ends ...
Dies(a) ==
    /\ a \in alive
    /\ alive' = alive \ {a}
    /\ UNCHANGED <<state, table, stage, waits, overlap, told>>

\* ... and later its sentinel runs: HandshakeFails, or on-shutdown, after
\* which the error handler of a pending init sets failed.
Sentinel(a) ==
    /\ a \notin alive /\ stage[a] \in {"init", "live", "stray"}
    /\ ShutDown(a)
    /\ state' = IF stage[a] = "init" THEN "failed" ELSE "pending"
    /\ UNCHANGED <<alive, waits, overlap, told>>
-----------------------------------------------------------------------------
Init ==
    /\ state = "pending" /\ table = None
    /\ stage = [a \in Attempts |-> "none"]
    /\ alive = {} /\ told = {} /\ waits = <<>> /\ overlap = FALSE

Next ==
    \/ \E a \in Attempts :
          \/ GetConnection(a) \/ FlitConnect(a) \/ ThenConnect(a)
          \/ HandshakeDone(a) \/ HandshakeFails(a) \/ InitDone(a) \/ InitFails(a)
          \/ Done(a) \/ GiveUp(a) \/ Dies(a) \/ Sentinel(a)
    \/ Len(waits) < 3 /\ \E what \in {"connect", "disconnect"} : Close(what)
    \/ FlitDisconnect \/ Kill \/ ThenDisconnected \/ GiveUpClose

Spec == Init /\ [][Next]_vars
-----------------------------------------------------------------------------
(* Properties *)

\* The types of the variables.
TypeOK ==
    /\ state \in {"pending", "connecting", "connected", "failed", "disconnected"}
    /\ table \in Attempts \cup {None}
    /\ stage \in [Attempts -> {"none", "handshake", "init", "live", "stray", "over"}]
    /\ alive \subseteq {a \in Attempts : stage[a] \notin {"none", "over"}}
    /\ told \subseteq Attempts /\ waits \in Seq(Waits)
    /\ overlap \in BOOLEAN

\* "ensure state never stays stuck at connecting": while it is shown, somebody
\* waits for an attempt, and that wait ends in another state.
NeverStuck ==
    state = "connecting" => \E i \in 1..Len(waits) : waits[i].what = "attempt"

\* As long as no attempt is made during a wait, or while the process of another
\* lives (one given up, asynchronous, being closed, or whose init failed), a
\* live connection is the one in the table and the state says connected, or it
\* was told to end.
OneAtATime ==
    ~overlap =>
        \A a \in alive :
            stage[a] = "live" =>
                \/ table = a /\ state = "connected"
                \/ a \in told
=============================================================================
