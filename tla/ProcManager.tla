---------------------------- MODULE ProcManager ----------------------------
(***************************************************************************)
(* The process manager of server/exec/handler.go: remote processes with    *)
(* their reader, writer and waiter goroutines, and the RPC handlers that   *)
(* start them, feed them and end them.                                     *)
(*                                                                         *)
(* Data is abstracted to counts of chunks.  A descendant that keeps the    *)
(* process's output open after its exit is not modelled.  Ids are unique,  *)
(* as flit--generate-proc-id makes them.                                   *)
(***************************************************************************)
EXTENDS Integers

CONSTANTS
    Procs,      \* process ids
    InputCap,   \* capacity of inputCh (1024 in the code)
    MaxOut      \* chunks a pipe or a PTY buffers

ASSUME ProcAssumption == InputCap \in Nat \ {0} /\ MaxOut \in Nat \ {0} /\ "none" \notin Procs

Streams == {"stdout", "stderr"}
NoProc == "none"

VARIABLES
    processes,  \* Manager.processes
    mode,       \* what Start was asked for
    start,      \* how far the exec/start handler is
    closed,     \* Manager.Close has run
    child,      \* the operating-system process
    stopped,    \* TCOOFF is in force
    unread,     \* chunks in each output pipe, or in the PTY
    truncated,  \* history: output was discarded unread
    slave,      \* the server's own descriptor of the PTY slave is open
    stdin,      \* the child's input; closed by the writer (eof) or by others (cut)
    canceled,   \* Process.cancel was called
    queue,      \* chunks in inputCh
    inputClosed, chanClosed,    \* the flag, and the channel itself
    input,      \* the process the inline exec/input handler has looked up
    closer,     \* the exec/close-input handler of each process
    reader, writer, waiter      \* the goroutines of each process

tableVars == <<processes, mode, start, closed>>
childVars == <<child, stopped, unread, truncated>>
fdVars    == <<slave, stdin, canceled>>
inputVars == <<queue, inputClosed, chanClosed, input, closer>>
routines  == <<reader, writer, waiter>>
vars == <<tableVars, childVars, fdVars, inputVars, routines>>

\* Type correctness; in particular inputCh never holds more than its capacity.
TypeOK ==
    /\ processes \subseteq Procs
    /\ mode \in [Procs -> {"none", "pty", "pipe"}]
    /\ start \in [Procs -> {"idle", "started", "stored", "failed"}]
    /\ closed \in BOOLEAN
    /\ child \in [Procs -> {"none", "running", "exited", "reaped"}]
    /\ stopped \in [Procs -> BOOLEAN]
    /\ unread \in [Procs -> [Streams -> 0..MaxOut]]
    /\ truncated \in [Procs -> BOOLEAN]
    /\ slave \in [Procs -> BOOLEAN]
    /\ stdin \in [Procs -> {"open", "eof", "cut"}]
    /\ canceled \in [Procs -> BOOLEAN]
    /\ queue \in [Procs -> 0..InputCap]
    /\ inputClosed \in [Procs -> BOOLEAN]
    /\ chanClosed \in [Procs -> BOOLEAN]
    /\ input \in Procs \cup {NoProc}
    /\ closer \in [Procs -> {"idle", "flag", "close"}]
    /\ reader \in [Procs -> [Streams -> {"none", "reading", "sending", "done"}]]
    /\ writer \in [Procs -> {"none", "idle", "writing", "done"}]
    /\ waiter \in [Procs -> {"none", "wait", "lookup", "flag", "close", "drain",
                             "delete", "notify", "done"}]

-----------------------------------------------------------------------------
(* Start.                                                                  *)

\* The process and its goroutines run from here on; it is not stored yet.
Start(p, m) ==
    /\ start[p] = "idle"
    /\ start'  = [start EXCEPT ![p] = "started"]
    /\ mode'   = [mode EXCEPT ![p] = m]
    /\ child'  = [child EXCEPT ![p] = "running"]
    /\ slave'  = [slave EXCEPT ![p] = (m = "pty")]
    /\ writer' = [writer EXCEPT ![p] = "idle"]
    /\ waiter' = [waiter EXCEPT ![p] = "wait"]
    /\ reader' = [reader EXCEPT ![p] =
            [s \in Streams |-> IF m = "pty" /\ s = "stderr" THEN "done" ELSE "reading"]]
    /\ UNCHANGED <<processes, closed, stopped, unread, truncated, stdin, canceled, inputVars>>

\* A pipe, the PTY or the command could not be made: an error, nothing kept.
StartFails(p) ==
    /\ start[p] = "idle"
    /\ start' = [start EXCEPT ![p] = "failed"]
    /\ UNCHANGED <<processes, mode, closed, childVars, fdVars, inputVars, routines>>

\* m.processes[procID] = proc
Store(p) ==
    /\ start[p] = "started"
    /\ start' = [start EXCEPT ![p] = "stored"]
    /\ processes' = processes \cup {p}
    /\ UNCHANGED <<mode, closed, childVars, fdVars, inputVars, routines>>

-----------------------------------------------------------------------------
(* The operating-system process.                                           *)

ChildWrites(p, s) ==
    /\ child[p] = "running" /\ ~stopped[p]
    /\ mode[p] = "pty" => s = "stdout"
    /\ unread[p][s] < MaxOut
    /\ unread' = [unread EXCEPT ![p][s] = @ + 1]
    /\ UNCHANGED <<child, stopped, truncated, tableVars, fdVars, inputVars, routines>>

ChildExits(p) ==
    /\ child[p] = "running"
    /\ child' = [child EXCEPT ![p] = "exited"]
    /\ UNCHANGED <<stopped, unread, truncated, tableVars, fdVars, inputVars, routines>>

\* The context was cancelled: the command is killed.
Killed(p) == canceled[p] /\ ChildExits(p)

\* exec/signal with a signal the process does not survive.
Signal(p) == p \in processes /\ ChildExits(p)

\* exec/ptyctl TCOOFF and TCOON, while the slave descriptor is usable.
PtyCtl(p, off) ==
    /\ p \in processes
    /\ mode[p] = "pty" /\ slave[p]
    /\ stopped' = [stopped EXCEPT ![p] = off]
    /\ UNCHANGED <<child, unread, truncated, tableVars, fdVars, inputVars, routines>>

-----------------------------------------------------------------------------
(* readOutput, one goroutine per stream.                                   *)

ReadChunk(p, s) ==
    /\ reader[p][s] = "reading" /\ unread[p][s] > 0
    /\ unread' = [unread EXCEPT ![p][s] = @ - 1]
    /\ reader' = [reader EXCEPT ![p][s] = "sending"]
    /\ UNCHANGED <<child, stopped, truncated, writer, waiter, tableVars, fdVars, inputVars>>

\* onOutput: the exec/output notification is written.
Output(p, s) ==
    /\ reader[p][s] = "sending"
    /\ reader' = [reader EXCEPT ![p][s] = "reading"]
    /\ UNCHANGED <<writer, waiter, tableVars, childVars, fdVars, inputVars>>

\* A pipe ends when its writer is gone; a PTY only when no descriptor of the
\* slave is left.  Both end at once when the server's own end is closed.
Ended(p) ==
    /\ child[p] \in {"exited", "reaped"}
    /\ ~slave[p]

ReadEnd(p, s) ==
    /\ reader[p][s] = "reading"
    /\ (Ended(p) /\ unread[p][s] = 0) \/ (mode[p] = "pty" /\ canceled[p])
    /\ reader' = [reader EXCEPT ![p][s] = "done"]
    /\ UNCHANGED <<writer, waiter, tableVars, childVars, fdVars, inputVars>>

-----------------------------------------------------------------------------
(* Input, CloseInput and inputWriter.                                      *)

\* Notifications are handled inline, so there is one exec/input at a time.
InputLookup(p) ==
    /\ ~closed /\ input = NoProc
    /\ p \in processes
    /\ input' = p
    /\ UNCHANGED <<queue, inputClosed, chanClosed, closer, tableVars, childVars, fdVars, routines>>

\* Mutant: the flag is not consulted.
InputSend_NoFlag(p) ==
    /\ input = p
    /\ input' = NoProc
    /\ queue' = IF queue[p] = InputCap THEN queue ELSE [queue EXCEPT ![p] = @ + 1]
    /\ UNCHANGED <<inputClosed, chanClosed, closer, tableVars, childVars, fdVars, routines>>

\* Under proc.mu: dropped after the close, an error if the buffer is full.
InputSend(p) ==
    /\ input = p
    /\ input' = NoProc
    /\ queue' = IF inputClosed[p] \/ queue[p] = InputCap THEN queue
                ELSE [queue EXCEPT ![p] = @ + 1]
    /\ UNCHANGED <<inputClosed, chanClosed, closer, tableVars, childVars, fdVars, routines>>

CloseInputLookup(p) ==
    /\ closer[p] = "idle"
    /\ p \in processes
    /\ closer' = [closer EXCEPT ![p] = "flag"]
    /\ UNCHANGED <<queue, inputClosed, chanClosed, input, tableVars, childVars, fdVars, routines>>

\* closeInputCh: the flag under proc.mu, then the channel, once.
CloseInputFlag(p) ==
    /\ closer[p] = "flag"
    /\ closer' = [closer EXCEPT ![p] = "close"]
    /\ inputClosed' = [inputClosed EXCEPT ![p] = TRUE]
    /\ UNCHANGED <<queue, chanClosed, input, tableVars, childVars, fdVars, routines>>

CloseInputChan(p) ==
    /\ closer[p] = "close"
    /\ closer' = [closer EXCEPT ![p] = "idle"]
    /\ chanClosed' = [chanClosed EXCEPT ![p] = TRUE]
    /\ UNCHANGED <<queue, inputClosed, input, tableVars, childVars, fdVars, routines>>

WriterTake(p) ==
    /\ writer[p] = "idle" /\ queue[p] > 0
    /\ queue' = [queue EXCEPT ![p] = @ - 1]
    /\ writer' = [writer EXCEPT ![p] = "writing"]
    /\ UNCHANGED <<inputClosed, chanClosed, input, closer, reader, waiter, tableVars, childVars, fdVars>>

\* The write completes when somebody holds the other end open; nobody has to
\* make room for it.
WriterDone(p) ==
    /\ writer[p] = "writing"
    /\ stdin[p] = "open" /\ ~canceled[p]
    /\ child[p] = "running" \/ slave[p]
    /\ writer' = [writer EXCEPT ![p] = "idle"]
    /\ UNCHANGED <<reader, waiter, tableVars, childVars, fdVars, inputVars>>

\* The write fails; the writer returns and closes nothing.
WriterFails(p) ==
    /\ writer[p] = "writing"
    /\ Ended(p) \/ stdin[p] = "cut" \/ canceled[p]
    /\ writer' = [writer EXCEPT ![p] = "done"]
    /\ UNCHANGED <<reader, waiter, tableVars, childVars, fdVars, inputVars>>

\* Mutant: the writer stops as soon as the channel is closed.
WriterEof_Early(p) ==
    /\ writer[p] = "idle" /\ chanClosed[p]
    /\ writer' = [writer EXCEPT ![p] = "done"]
    /\ stdin' = IF mode[p] = "pipe" /\ stdin[p] = "open"
                THEN [stdin EXCEPT ![p] = "eof"] ELSE stdin
    /\ UNCHANGED <<slave, canceled, reader, waiter, tableVars, childVars, inputVars>>

\* The channel is closed and drained: a pipe is closed, the child reads EOF.
WriterEof(p) ==
    /\ writer[p] = "idle" /\ chanClosed[p] /\ queue[p] = 0
    /\ writer' = [writer EXCEPT ![p] = "done"]
    /\ stdin' = IF mode[p] = "pipe" /\ stdin[p] = "open"
                THEN [stdin EXCEPT ![p] = "eof"] ELSE stdin
    /\ UNCHANGED <<slave, canceled, reader, waiter, tableVars, childVars, inputVars>>

-----------------------------------------------------------------------------
(* waitForExitWithWg.                                                      *)

Cut(p) == stdin' = IF stdin[p] = "open" THEN [stdin EXCEPT ![p] = "cut"] ELSE stdin

\* cmd.Wait closes the server's ends of the pipes when it has reaped the
\* process; what was not read by then is gone.
WaitReap(p) ==
    /\ waiter[p] = "wait" /\ child[p] = "exited"
    /\ waiter' = [waiter EXCEPT ![p] = "lookup"]
    /\ child' = [child EXCEPT ![p] = "reaped"]
    /\ IF mode[p] = "pipe"
       THEN /\ truncated' = [truncated EXCEPT ![p] = \E s \in Streams : unread[p][s] > 0]
            /\ unread' = [unread EXCEPT ![p] = [s \in Streams |-> 0]]
            /\ Cut(p)
       ELSE UNCHANGED <<truncated, unread, stdin>>
    /\ UNCHANGED <<stopped, slave, canceled, reader, writer, tableVars, inputVars>>

\* Mutant: the slave descriptor stays open.
WaitLookup_KeepSlave(p) ==
    /\ waiter[p] = "lookup"
    /\ waiter' = [waiter EXCEPT ![p] = IF p \in processes THEN "flag" ELSE "drain"]
    /\ UNCHANGED <<reader, writer, tableVars, childVars, fdVars, inputVars>>

\* The process is in the map only if Start got to store it.
WaitLookup(p) ==
    /\ waiter[p] = "lookup"
    /\ IF p \in processes
       THEN /\ slave' = [slave EXCEPT ![p] = FALSE]
            /\ waiter' = [waiter EXCEPT ![p] = "flag"]
       ELSE /\ waiter' = [waiter EXCEPT ![p] = "drain"]
            /\ UNCHANGED slave
    /\ UNCHANGED <<stdin, canceled, reader, writer, tableVars, childVars, inputVars>>

WaitFlag(p) ==
    /\ waiter[p] = "flag"
    /\ waiter' = [waiter EXCEPT ![p] = "close"]
    /\ inputClosed' = [inputClosed EXCEPT ![p] = TRUE]
    /\ UNCHANGED <<queue, chanClosed, input, closer, reader, writer, tableVars, childVars, fdVars>>

WaitClose(p) ==
    /\ waiter[p] = "close"
    /\ waiter' = [waiter EXCEPT ![p] = "drain"]
    /\ chanClosed' = [chanClosed EXCEPT ![p] = TRUE]
    /\ UNCHANGED <<queue, inputClosed, input, closer, reader, writer, tableVars, childVars, fdVars>>

\* Mutant: waitForExit passes no WaitGroup.
WaitDrain_NoGroup(p) ==
    /\ waiter[p] = "drain"
    /\ waiter' = [waiter EXCEPT ![p] = "delete"]
    /\ UNCHANGED <<reader, writer, tableVars, childVars, fdVars, inputVars>>

\* wg.Wait
WaitDrain(p) ==
    /\ waiter[p] = "drain"
    /\ \A s \in Streams : reader[p][s] = "done"
    /\ waiter' = [waiter EXCEPT ![p] = "delete"]
    /\ UNCHANGED <<reader, writer, tableVars, childVars, fdVars, inputVars>>

WaitDelete(p) ==
    /\ waiter[p] = "delete"
    /\ waiter' = [waiter EXCEPT ![p] = "notify"]
    /\ processes' = processes \ {p}
    /\ UNCHANGED <<mode, start, closed, reader, writer, childVars, fdVars, inputVars>>

\* onExit: the exec/exit notification is written.
WaitNotify(p) ==
    /\ waiter[p] = "notify"
    /\ waiter' = [waiter EXCEPT ![p] = "done"]
    /\ UNCHANGED <<reader, writer, tableVars, childVars, fdVars, inputVars>>

-----------------------------------------------------------------------------
\* Manager.Close, when the connection is gone.  It holds m.mu; the inline
\* handler has returned by then, other handlers may still run.
Close ==
    /\ ~closed /\ input = NoProc
    /\ closed' = TRUE
    /\ inputClosed' = [p \in Procs |-> inputClosed[p] \/ p \in processes]
    /\ chanClosed'  = [p \in Procs |-> chanClosed[p] \/ p \in processes]
    /\ slave'       = [p \in Procs |-> slave[p] /\ p \notin processes]
    /\ canceled'    = [p \in Procs |-> canceled[p] \/ p \in processes]
    /\ stdin' = [p \in Procs |-> IF p \in processes /\ mode[p] = "pipe" /\ stdin[p] = "open"
                                 THEN "cut" ELSE stdin[p]]
    /\ processes' = {}
    /\ UNCHANGED <<mode, start, childVars, queue, input, closer, routines>>

Init ==
    /\ processes = {} /\ closed = FALSE /\ input = NoProc
    /\ mode = [p \in Procs |-> "none"]
    /\ start = [p \in Procs |-> "idle"]
    /\ child = [p \in Procs |-> "none"]
    /\ stopped = [p \in Procs |-> FALSE]
    /\ unread = [p \in Procs |-> [s \in Streams |-> 0]]
    /\ truncated = [p \in Procs |-> FALSE]
    /\ slave = [p \in Procs |-> FALSE]
    /\ stdin = [p \in Procs |-> "open"]
    /\ canceled = [p \in Procs |-> FALSE]
    /\ queue = [p \in Procs |-> 0]
    /\ inputClosed = [p \in Procs |-> FALSE]
    /\ chanClosed = [p \in Procs |-> FALSE]
    /\ closer = [p \in Procs |-> "idle"]
    /\ reader = [p \in Procs |-> [s \in Streams |-> "none"]]
    /\ writer = [p \in Procs |-> "none"]
    /\ waiter = [p \in Procs |-> "none"]

\* What the server's goroutines do on their own for process p.
ReaderStep(p) == \E s \in Streams : ReadChunk(p, s) \/ Output(p, s) \/ ReadEnd(p, s)
WaiterStep(p) ==
    \/ WaitReap(p) \/ WaitLookup(p) \/ WaitFlag(p) \/ WaitClose(p)
    \/ WaitDrain(p) \/ WaitDelete(p) \/ WaitNotify(p)

InputStep(p) ==
    \/ InputLookup(p) \/ InputSend(p)
    \/ CloseInputLookup(p) \/ CloseInputFlag(p) \/ CloseInputChan(p)

ChildStep(p) ==
    \/ ChildExits(p) \/ Killed(p) \/ Signal(p)
    \/ \E s \in Streams : ChildWrites(p, s)
    \/ \E off \in BOOLEAN : PtyCtl(p, off)

StartStep(p) ==
    \/ \E m \in {"pty", "pipe"} : Start(p, m)
    \/ StartFails(p) \/ Store(p)

WriterStep(p) == WriterTake(p) \/ WriterDone(p) \/ WriterFails(p) \/ WriterEof(p)

Next ==
    \/ \E p \in Procs :
        \/ StartStep(p) \/ ChildStep(p) \/ ReaderStep(p)
        \/ InputStep(p) \/ WriterStep(p) \/ WaiterStep(p)
    \/ Close

\* Goroutines that can run do.  The child need not exit, write or read.
Fairness ==
    \A p \in Procs :
        /\ WF_vars(Store(p)) /\ WF_vars(Killed(p)) /\ WF_vars(WaiterStep(p))
        /\ WF_vars(CloseInputFlag(p) \/ CloseInputChan(p)) /\ WF_vars(InputSend(p))
        /\ WF_vars(WriterTake(p) \/ WriterFails(p) \/ WriterEof(p))
        /\ \A s \in Streams :
            WF_vars(ReadChunk(p, s) \/ Output(p, s) \/ ReadEnd(p, s))

Spec == Init /\ [][Next]_vars /\ Fairness

-----------------------------------------------------------------------------
(* Properties.                                                             *)

\* "prevents race where exit arrives before final output": once exec/exit is
\* about to be sent, no reader has anything left to send.
ExitIsLast ==
    \A p \in Procs : waiter[p] \in {"notify", "done"} =>
        \A s \in Streams : reader[p][s] = "done"

\* Closing the input discards nothing: the child sees EOF after all the input
\* that was accepted, and no input is accepted behind the EOF.
EofAfterInput ==
    \A p \in Procs : stdin[p] = "eof" => queue[p] = 0 /\ writer[p] = "done"

\* Nothing is ever sent to a closed inputCh (it would crash the server),
\* whichever of the three closers races with the handler.
NoSendOnClosed ==
    [][\A p \in Procs : chanClosed[p] => queue'[p] <= queue[p]]_vars

\* When a stored process exits, its exit is reported, its entry removed and its
\* writer goroutine ended, blocked write or not.
ExitReported ==
    \A p \in Procs :
        (p \in processes /\ waiter[p] = "wait" /\ child[p] = "exited")
            ~> (waiter[p] = "done" /\ writer[p] = "done" /\ p \notin processes)

\* handler.go: "Wait for output goroutines to finish sending all data before
\* sending exit notification".  Violated: cmd.Wait closes the pipes first.
AllOutputSent ==
    \A p \in Procs : waiter[p] = "done" => ~truncated[p] \/ canceled[p]
=============================================================================
