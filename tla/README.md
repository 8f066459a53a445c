# flit.el: a TLA+ verification project

flit edits remote files in Emacs. An Emacs client (`src/flit.el`, with the RPC
transport `src/flitrpc.el`) talks to a Go server (`src/server/`) over ssh's
stdin and stdout or TCP. This project models the concurrent parts of the two
programs in TLA+, checks the models with TLC and proves properties of them with
TLAPS.

## 1. Inventory

How the parts interact: the client sends *requests* and *notifications* as
frames over one ordered byte stream. The server reads frames in one goroutine
(`Serve`): each request is handled in a goroutine of its own, each notification
inline. Responses and server notifications share one writer mutex. Emacs is
single-threaded, but reads frames, runs timers and serves local sockets
whenever it waits for anything, including the response of a synchronous request.

| Component | State | Operations | What is hard | What makes it correct |
|---|---|---|---|---|
| File watcher, `fs/watcher.go` | `watches` (refcount, pending children), fsnotify's list | Watch, Unwatch, WatchPending, ClearPending, the event loop | the event loop takes and drops the lock several times per event; the kernel drops watches by itself; atomic rewrites | no count outlives its owner; needed watches stay armed; changes are reported |
| Debouncing, same file | burst count, window, timer per path | trigger, timer callback, drop | timers expire while they are reset or dropped | nothing is lost or postponed for ever |
| Session tables, `server/jsonrpc.go` | `watchedPaths`, `openFiles`, `richFetched` | fs/info, fs/open, fs/close, fs/watch, fs/unwatch, fs/forget, session/clearCache | handlers run concurrently and hold `watchedMu` over watcher calls | the session's view agrees with the watcher's |
| Process manager, `exec/handler.go` | `processes`, per process: input channel, descriptors, reader/writer/waiter | Start, Input, CloseInput, Signal, PtyCtl, Close | four goroutines per process, ended by each other in any order | exit is the last notification; EOF after input; no send on a closed channel; every exit is reported |
| Tunnels, `tunnel/tunnel.go` and `flit.el` | listeners, connections, their loops; the client's `flit--tunnels` | listen, connect, data, disconnect, close | both ends may hang up at once; accept notifications race with the setup | introduced before used; hanging up crosses; nothing stays behind |
| RPC transport, `flitrpc.go`, `flitrpc.el` | writer mutex, pending tables, chunk accumulators, frame buffer | request, notify, respond, parse, time out | chunks interleave; synchronous requests nest; late responses | each message is delivered once, whole, to its own request |
| Client cache and buffers, `flit.el` | `flit--cache`, buffers' visited modtime and stale mark | get-info, cache-put, fs/changed, entry and ancestor info | pushes, responses and events overtake each other | a quiet cache agrees with the disk, or the reason is known; unsaved edits survive |
| Writes, `fs/handler.go` and `flit.el` | file, expected mtime, echo state | fs/write, conflict, forced retry | check-then-write; mtime granularity | a save never loses another writer's change unasked, nor its own content |
| Pushed details, `jsonrpc.go`, `fs/handler.go`, `util/concurrency.go` | `richFetched`, wait groups | PrefetchAncestors, AsyncFetchChildEntries, fs/batch | test, watch, read and send are separate steps of several goroutines | children are fetched once and whole; nothing blocks at the limit |
| Connection, `flit.el` | connection state and table, attempts | connect, wait, give up, disconnect, sentinel | waits nest; processes die at any point; C-g leaves attempts running | the state is never stuck and the table tells the truth |
| PTY bridge and handshake, `cmd_pty_bridge.go`, `flit.el` | handshake machine, bridge PTY, remote script | prompts, deployment, copying, signals | reads end anywhere; questions are asked inside a filter that timers interrupt | each thing written finds its reader; the RPC layer gets the frames and nothing else |
| Client processes, `flit.el` | fake Emacs processes, output queues | start, filter, sentinel, flow control | output and exit during synchronous waits | output in order, one sentinel call |
| Server lifecycle, `cmd_server.go`, `jsonrpc.go` | connections, sessions, idle checker, done | accept, idle check, shutdown, session close | check-then-act on idle; handlers outlive their session; Shutdown from three places | every session is closed and holds nothing then; the server does not panic |
| Smaller parts | `eden/eden.go`, `server/log.go`, `exec/pty.go` | | | |

`PROJECT.json` lists every component with its status, the hazards at the lines
where they bite, and which property covers which.

## 2. Modules

| Module | Models | Runs |
|---|---|---|
| `FsWatcher` | `fs/watcher.go` with the session tables of `jsonrpc.go` and the machine's file changes | `watcher` (through `MCFsWatcher`) |
| `Notifier` | abstract: what is owed to the client is paid | refined by `Debounce` |
| `Debounce` | `triggerDebouncedNotification`, timers, clock | `debounce` |
| `FileSync` | one file end to end: callback, `fs/info`, `fs/write`, `fs/open`, `fs/close`, the client's cache entry and buffer | `filesync`, `filesync_force` (through `MCFileSync`) |
| `DirCache` | one directory's listing end to end: the same with prefetches, child fetches, `fs/batch`, `session/clearCache` | `dircache` |
| `ProcManager` | `exec/handler.go` | `proc`, `proc_output` |
| `Tunnel` | `tunnel/tunnel.go` and the tunnel functions of `flit.el`, end to end | `tunnel` |
| `Rpc` | abstract: a request is handled, answered and settled at most once | refined by `FlitRpc` |
| `FlitRpc` | `flitrpc.el`, `flitrpc.go` and the streams between them | `rpc` (through `MCFlitRpc`) |
| `PtyBridge` | `cmd_pty_bridge.go`, the remote script, the handshake machine of `flit.el` | `bridge` |
| `Connect` | the connections of Emacs to one host | `connect` |
| `Server` | `cmd_server.go`, connections, sessions and shutdown of `jsonrpc.go` | `server` |
| `FsWatcher_proofs`, `ProcManager_proofs`, `FlitRpc_proofs`, `Connect_proofs`, `Server_proofs`, `DirCache_proofs`, `FileSync_proofs`, `Tunnel_proofs` | proofs about the module of that name; `FsWatcher_proofs` also about `Debounce`, `Connect_proofs` also about `PtyBridge` | |

The modules meet at promises: `FsWatcher` delivers an event of a watched path to
the debouncer, `Debounce` a callback that starts after the event, `FileSync` and
`DirCache` begin with that callback and end in Emacs; `FlitRpc` delivers frames
once and in order, which the streams of `FileSync`, `DirCache` and `Tunnel`
assume; `PtyBridge` hands `FlitRpc` its first frame and gives `Connect` the
success or failure of a handshake; `Server` closes the sessions whose tables the
others keep.

Names follow the source: variables and operators are called what the code calls
the table or the function they stand for. Operators whose name has an
underscore (`Watch_NoCheck`) are mutants: a plausible bug in the definition
below them, which the property named in `PROJECT.json` detects.

### FsWatcher

One action is one critical section of `Watcher.mu` or one system call of the
event loop; a session call is one action, because it holds `watchedMu`
throughout and calls the watcher at most once under it. `ClearCacheState` holds
`watchedMu` over many watcher calls, so it is a sequence of actions
(`ClearStart`, `ClearOne`, `ClearFinish`) during which no other session call
and no notification callback (it needs `watchedMu`) runs, while the event loop
does. `watchParentForPending` is the longest: the listing (`RunPark`), the
unlocked `Add` (`RunParkAdd`), its undoing, the second stat, the re-add and the
clean-up, between any two of which session calls and file changes happen. The
goroutine's pointer to a `watchInfo` that somebody else has dropped meanwhile
is the flag `run.stale`.

fsnotify and the kernel are external, as fsnotify 1.9.0 (the version of `go.mod`)
does it with inotify. A watched file reports its own writes and removal, a
watched directory the creation, removal and renaming of its entries, and the
watch of an inode goes away with it. `events` is what the kernel has queued, then
what fsnotify sends; `FsnotifyRead` is its reader, which has one event in hand at
a time. The removal of an inode (`deletedSelf`) it drops when it then watches the
directory too, and when the path's watch was replaced meanwhile. So a rename over
a file whose directory is watched ends the file's watch with the directory's
creation event only, and the re-add after a removal does not happen: such a path
is in `lost`, which is history, until it is added or removed again (section 5).
Events that are queued are delivered even if their watch is removed first.

Abstracted: the mtime filter and payload of the callback (they are in
`FileSync` and `DirCache`), chmod events (skipped by the code), paths under `/tmp` and the like
(never watched), and `Watcher.Close` (`Server` has the end of a session).

- `RefsMatchSession` relates `refCount` to `Session.watchedPaths`: a count is
  at most one and never outlives the session's entry. Neither side alone
  ensures it; it needs the "already watching" check, the tables being changed
  together, and the run goroutine's clean-up of entries it parked.
- `LiveEntriesArmed`: once quiet, an entry somebody needs is on the kernel's
  list, if its path was never absent and fsnotify did not lose its watch. Both
  restrictions are the code's: a directory that is removed and recreated does
  lose the watches below it. What is left is the event loop's own part: a
  removal that is reported is answered by a re-add or a parked path, whatever
  calls and changes come between the two stats and the two adds.
- `FileChangesReported`: once quiet, no change of such a file is unreported. The
  rewrite that loses a watch is itself reported if the directory was watched when
  it happened.

Bounds: the chain `r`, `r/d`, `r/d/f`; three changes of the tree by other programs
and three session calls of any of the six kinds. An atomic rewrite and a removal
with another change before or after it, and a concurrent close, clear or
pending registration fit; 1,759,041 states, about a minute.

### Debounce and Notifier

One path, times kept as what remains (ticks to the end of the window, to each
timer's expiry), so the state is finite without bounding the number of events
or the run's length. A timer whose state was replaced or dropped keeps its
clock; `CallbackNotify` and `CallbackReset` are the two halves of its goroutine,
between which anything may happen. `Tick` waits until no timer is due and no
goroutine runnable: a synchrony assumption (goroutines take no time compared
with a second) that only `BoundedDelay` depends on. A further trigger must wait
until `Send` is done, as the event loop is one goroutine.

The run uses the code's burst limit 3, four ticks for the window and the
interval, and three timers. `Timers` bounds how many timer objects are alive at
once: an expired window makes a new state while the old timer runs on, so the
code itself has no such bound. `KeepsPromise` is a refinement: the debouncer
implements `Notifier`, whose liveness says what is owed is paid although
further changes keep postponing the timer; it holds because an expired window
brings a new burst allowance.

### ProcManager

Per process: the `exec/start` handler (`start`), the operating-system process
(`child`), a reader per stream, the input writer and the waiter, each with the
program counter the code has between two visible effects; the input handler,
inline and so one at a time; a close-input handler per process. `inputClosed`
and `chanClosed` are two variables because `closeInputCh` sets the flag under
the lock and closes the channel after it.

Abstracted: data is counted in chunks; the exit code, environment and window
size; a descendant that keeps the output open; a repeated process id
(`flit--generate-proc-id` makes them unique). `cmd.Wait` is external: as Go
documents, it closes the pipes made by `StdoutPipe` and `StderrPipe` once the
process is reaped. A signal the process survives is a stutter.

Fairness: goroutines that can run do. Nothing is assumed of the child: it need
not exit, read its input or write. `ExitReported` therefore starts from a
stored process that has exited.

Bounds: one process (processes share only the table and the input handler), two
chunks of input capacity, two chunks of output buffer, both modes; 36,969 states.

### Tunnel

Both ends and the two ordered streams between them. Emacs's functions are
atomic where they do not wait: `flit-tunnel-close` waits for the reply to
`tunnel/close`, so its end (`HandleClosed`, where the entry is removed) is an
action of its own, and so is the reply to `tunnel/connect`. A reply read
together with later frames is equivalent to one that was sent later, so the
function that waits for it may be taken to go on at once. The server's
handlers are a set of pending tasks, one goroutine each; `inline` is the
`tunnel/data` handler between its lookup and its send. Both loops share the
clean-up's program counters.

Data is counted in chunks; a connection id is used once, as the counters in
both programs ensure; one tunnel. `TypeOK` includes that `writeCh` keeps its
capacity and that a connection's end is reported at most once. `HangUpsCross`
excepts a closed tunnel and a crashed server, for which see section 5.

Fairness: handlers and loops that can run do, Emacs reads its frames. A write
may block for ever, peers and users need do nothing.

Bounds: one connection in either direction, a channel of one chunk, three
chunks in all (enough to fill the channel and to meet a closing connection);
56,291 states. Connections share only the manager's map.

### FlitRpc and Rpc

Emacs is one thread whose activations nest, so its control state is `stack`:
a synchronous request that waits (`wait`), a write that waits for room in the
pipe (`send`), the parse loop of the filter (`parse`) and a handler or callback
(`handle`). Timers, commands and handlers may start requests wherever Emacs
waits (`UserCode`). Every function of `flitrpc.el` that does not wait is one
action; the parse loop is one action per frame, because a frame's callback or
handler may wait, and nested filters then parse the same buffer. The server's
reading goroutine, its handlers, notifications, and the writer's mutex are one
action per frame read or written.

Reductions. Inside the parse loop the server does not step: its steps touch
only the streams, which the loop reads and writes at the far ends, and so may
be moved before or after an iteration. The filter reads everything written so
far, or only the beginning of a frame: what it reads later may as well be
written later. `Break` loses no written frame, as a lost frame may as well not
have been written.

Abstracted: the encoding, and with it frames that cannot be decoded other than
by interleaving (they end `Serve`, which is `Break`); an error response is a
response; callbacks of asynchronous requests do not signal; a write waits only
between a request's header and the rest. Payloads are sequences of parts, each
naming its message, so that `WholeMessages` sees every mix-up. The pending
entry of a synchronous request that C-g interrupts stays behind, as in the
code; its outcome `stale` is a callback that ran afterwards.

- `WholeMessages`, `AnswersOwn`: chunks of several messages interleave, ids of
  notifications are negative, late answers and stale entries exist; still
  every payload is whole and a request gets its own.
- `NothingLost`: a pending request is in exactly one place (request, handler,
  response, one of the buffers) while the connection is up, and so is the
  heartbeat the server waits for.
- `NoLateCallback`, `SyncReturns`: at most one outcome, and always one.
- `AtMostOnce` is a refinement: seen through where a request's only trace is
  (`Stage`: a request frame, a handler, a response frame, nowhere), the transport
  implements `Rpc`, in which a request is asked, handled, answered and taken
  once each, in this order, and succeeds by its own answer only. What is under
  way may disappear when the connection breaks, and at no other time. `Rpc`
  promises nothing about the order of different requests, and neither does the
  code, which handles each in a goroutine of its own.
- `SpuriousTimeout` says when an answered request can time out all the same:
  only behind another synchronous request's callback, which does happen
  (section 5).

Fairness: Emacs's own loops and handlers go on and deadlines pass (`Loops`,
`Filter`); nothing is assumed of server, stream or user.

Bounds: two requests, nested or not, beside one notification, input or
heartbeat; the first response and the notification have two chunks; 338,390
states. Two requests and one chunked message are what an interleaving of
chunks, a nesting and a stale entry take; a third request would only add depth
to the stack.

### FileSync

One file, one session, one Emacs with one buffer. Every system call and every
region of `watchedMu` between which others can run is an action: the callback
takes its stat (`CbStart`), reads (`CbRead`), stats again and sends (`CbSend`);
`fs/info` stats, watches and replies; `fs/read` reads, stats and replies;
`fs/write` checks, truncates, writes, stats and replies; `fs/open` stats before
it takes the lock. Messages travel in one ordered stream, and Emacs applies what
arrives while it waits for an answer (`Receive`); it reads no further frame
before the answer of a blocking request has been applied. Other programs write in
place or rename a file over it, which may then have a very old mtime (`Put`).

What the client caches follows `flit--cache-put`: a notification and a mismatch
bring the content, while `flit--cache-from-response` replaces the entry of an
`fs/info` or save answer by one without it (`NoContent`), and `fs/read`'s content
goes into the buffer and only its stat into the cache. So a visit or a revert is
`fs/info`, if nothing is cached, and then `fs/read`, unless a notification has
cached the content; each may answer with another version than the one before, and
notifications are handled between them (`Fetch`, `HandleInfo`, `HandleContent`).
The content that `fs/info` reads is not in the model: the client drops it.

A content is a version number, the empty file is 0, time is in whole seconds as
`Unix()` gives it. The debouncer is a set of event types: `Debounce` proves
that an event is followed by a callback that starts after it. The file exists
throughout, is below 1 MB, and is emptied by `fs/write` only; appending and
creating are left out.

`change`, `written` and `forced` are history. `change` says what became of the
last change of the disk: *owed* when the path was watched and the mtime is later
than the stored and the file's last one, *told* when a message with that version
went out, *hinted* when one with its stat only did, *overtaken* when an older
version was sent after that (a text that fills a new buffer, the answer to a
save, another callback's message), *adopted* when the stat that `fs/open` or
`fs/write` stores for the client's own view took it over, and *none* when the code
promises nothing (unwatched, or the same or an earlier mtime).

- `UnsavedEditsKept`: whatever arrives while the user edits, is asked, or saves,
  a modified buffer's text changes by typing only.
- `NoUnseenOverwrite`: an unforced save truncates a content only if its mtime is
  within the code's 2 seconds, or it came after the check.
- `OrdinaryChangesTold`: when nothing is under way, no owed change is left.
- `BufferCatchesUp`: once the stream is empty and nothing is asked, an unmodified
  buffer with no revert due shows the change the client was *told* of; one that
  was *hinted* at it shows, or has the mtime of. It is the end of a chain (callback,
  stream, cache and mark, auto-revert, `fs/info`, `fs/read`, insertion) whose
  links other messages come between; the cached entry alone does not ensure it,
  because the text of a revert is mostly read anew.
- `OnlyForcedSavesLost`: a text that counts as saved was on the disk, except
  after a forced retry (finding 2).

Bounds: one callback at a time, three contents, the seconds 0, 1 and 3 (on
either side of the tolerance), one `fs/open` and one `fs/close` under way.
A conflict, a forced retry and a change between any two of its steps fit;
5,064,602 states, under two minutes. The same properties hold with two callbacks
at once and two seconds (10,963,022 states), which takes too long for a
regular run; the proofs of section 4 are for any number.

### DirCache

One directory, whose listing the client caches. It matters more than a file's
content: a name that is not in a cached listing is taken for a file that does
not exist, without asking. The steps are those of `FileSync`, for every way in
which a listing reaches the client: `fs/info` (`Info`), `PrefetchAncestors`
(`Prefetch`), the directory that `fs/batch` pushes (`Batch`), the watcher
callback (`Cb...`), beside `fs/openDir`, whose reply is dropped but which
fetches children, and `session/clearCache` on both sides.

`AsyncFetch` is `shouldRichFetch` with the goroutine it starts; `FetchAdd`,
`FetchWork` and `FetchSend` are `GetChildEntries` with `BoundedWaitGroup.Add`,
`Done` and `Wait`. The children's own entries have no state here: what is pushed
for them stays until their own path is watched.

`fate` is history and says what became of the last change of the directory:
*owed*; *told*, when a listing with it was sent; *unwatched*, when it came
without a watch while a listing was cached or on its way; *sameSecond*, when its
mtime is the stored one, which the callback suppresses; *overtaken*, when an
older listing was sent after the newer one.

- `StaleListingCauses`: when nothing is under way, a cached listing that is not
  the directory's has one of the last three fates. In particular the order of
  `PrefetchAncestors` ("watch before fetching"), the callback's order of stat,
  store and read, and the ordered stream leave no other way. TLC reaches each of
  the three, so none is there for nothing.
- `RichFetchOnce`: children are fetched once between two clearings, however
  `fs/info`, `fs/openDir` and prefetches overlap.
- `PushComplete`, `FetchEnds`: `fs/entryInfo` is sent when all children are read,
  and a fetch ends with more children than workers.

Fairness: only the goroutines of a child fetch, which wait for nothing but each
other. Nothing is assumed of the client, of callbacks or of other handlers.

Bounds: two names (a directory of one child is below `MaxEntriesDefault` = 1, one
of two only below `MaxEntriesExplicit` = 2), one worker, two changes in two
seconds, two client operations, one callback and one fetch at a time; 1,445,690
states, about two minutes with `FetchEnds`.

### PtyBridge

Three parties in a row: Emacs' handshake machine (`Line`, `Answer`, `Decline`,
`Timeout`), the bridge (`ReadAuth`, `PassPassword`, `PassSize`, `WaitReady`,
`Transfer`, the two copying goroutines, `Cleanup`), and the far side of the PTY,
ssh with the remote script (`Prompt` ... `Exec`, then the server's
frames). The script is part of `flit.el` as a string and is modelled from there;
ssh is external.

Every message is two pieces, cut at the worst place, and a read returns any
number of pieces: so a read may end inside a prompt or the ready line, or hold
the ready line with the first frames. A question to the user is asked inside
the process filter, where timers and sentinels run but the filter is not
entered again (`asking`).

`cleanupPty` runs in up to two goroutines, the deferred one and that of the signal
handler, each with its own stage (`cleaner`): it closes the PTY, sends SIGTERM,
which fails once the child has been waited for (then it kills and returns), waits
half a second, kills, and waits. `reaped` says that a `Process.Wait` has had the
child; whichever goroutine returns first ends the process. The Ctrl-D is left
out, since the terminal is hung up right after it.

- `RightReader`: the password reaches ssh, the size and the binary the script
  (the binary in raw mode, or the terminal would change it), frames the server.
- `FramesInOrder`: what `flitrpc` is given are the server's frames from the
  first, without a piece of the handshake.
- `SuccessIsFinal`: no timer or sentinel fails a handshake that succeeded.
- `ChildEndsFirst`: the bridge exits only when its child has exited and has been
  waited for. The return after a failed SIGTERM waits for nothing, so this
  rests on the failure meaning that the other goroutine has.

Left out: a banner that contains the word password, a failing start of ssh, and a
ready line with another protocol version, which fails the handshake like a
timeout (`flit.el:1832-1839`).
Bounds: three prompts (a wrong password twice), a binary of three pieces, three
frames each way; 95,005 states.

### Connect

Emacs' state and table for one host, and the attempts to connect. A synchronous
attempt waits in `accept-process-output`, where filters, timers and sentinels
may start or close other connections: the waits are the stack `waits`, and only
the innermost returns. C-g (`GiveUp`, `GiveUpClose`) unwinds it and leaves its
attempt running. The process of an attempt may die at any time (`Dies`), and its
sentinel runs later (`Sentinel`).

- `NeverStuck`: "ensure state never stays stuck at connecting".
- `OneAtATime`: as long as attempts do not overlap, a live connection is the one
  in the table and the state says so, or it was told to end. `overlap` is
  history; with overlapping attempts the code has no such promise (section 5).

Bounds: three attempts, one of them asynchronous; no closing inside three nested
waits; 104,537 states. The choice of the method, plain TCP, and the re-registration of
watches after a reconnect (a loop of `fs/open` requests) are left out.

### Server

The accept loop, the connections with their sessions, handlers and the idle
checker, and everyone who calls `Shutdown`. `Accept`, `Register` and `Serve` are
separate, so a shutdown may come before a connection is in the table; handlers
are goroutines that `Serve` does not wait for, so they may run after, or during,
`Session.Close`, which is a step per resource. A connection that ended before
its handlers is recorded in `straggler`. A watch after `Session.Close` has dropped
the watch map fails or panics (`HandleProc`): it reaches the write to the map when
fsnotify can still add the path, and, the fsnotify watcher closed too, when
`Watcher.Watch` adds nothing because the path's `watchInfo` kept pending entries.

Of the tunnels the module has what can end the process: `tunnel/data` is a
notification, which `Serve` handles itself, in `SendData`'s two steps (`LookUp`,
`Send`), while the tunnelled connection ends by itself and one of its loops
closes the channel and deletes the entry (`CleanUp`, `Delete`). The rest of a
tunnel's life, `tunnel/disconnect` and `CloseAll` included, is in `Tunnel`; neither
closes the channel.

- `ClosedHoldsNothing`: a closed session holds no watch, Eden watcher, process or
  tunnel, unless a handler outlived it.
- `CrashCauses`: the server panics only if `done` is closed twice, a request
  outlives its session, or tunnel data meets the clean-up of its connection in a
  session that is served. All three happen. What it rules out is that closing a
  session, or a shutdown, panics a server by itself: the closing does not race
  with `SendData`, because `Serve` has returned.
- `ShutdownClosesSessions`: once `done` is closed every session is closed,
  those accepted meanwhile included.

Fairness: every goroutine that can go on does. Clients, signals and the passing
of idle time owe nothing, and the accept loop may block for ever.

Bounds: two connections, one handler each at a time, one shutdown request, one
signal, both modes; one of the connections uses a tunnel, with one tunnelled
connection at a time (tunnels of two sessions share nothing); 366,071 states.

## 3. Runs and findings

| Run | Shows |
|---|---|
| `watcher` | counts agree with the session, needed watches stay armed, changes of watched files are reported, except where fsnotify lost the watch |
| `debounce` | no change lost or delayed past window + interval; refinement of `Notifier`; no deadlock |
| `filesync` | unsaved edits kept, no unseen overwrite, ordinary changes told, the buffer shows what was told |
| `dircache` | three ways to a stale listing and no other; child fetches once, whole, and ending |
| `proc` | exit last, EOF after input, no send on a closed channel, exits reported |
| `tunnel` | introduced first, no stale entry, hanging up crosses |
| `rpc` | payloads whole, answers to their own requests, nothing lost, one outcome each; refinement of `Rpc` |
| `bridge` | everything written finds its reader, frames in order, success is final, no child left behind |
| `connect` | never stuck at connecting; table and state true without overlap |
| `server` | sessions closed and empty after a shutdown; the three causes of a panic |
| `proc_output` | violation: output lost at exit |
| `filesync_force` | violation: a confirmed overwrite writes an empty file |

Deadlock is checked in `debounce`. In the other runs the environment is bounded
or may stop, so a state without a successor is no error.

Each bound is the smallest at which the cases a property speaks of all happen;
every action and every disjunct of the next-state relations is taken in some
run, and every property is violated by a mutant of the code, which says that its
case is reached.

The violations are disagreements between the code and its own comments:

1. `waitForExitWithWg` waits for the process before the readers; `Wait` closes
   the pipes, so the output "all data" speaks of can be lost.
2. After a conflict `flit--write` "prompts user before overwriting" and sends
   the write again, forced, but as a plain request without the payload. `fs/write`
   takes the content from the payload only, so the file is truncated, and the
   buffer is marked as saved.

## 4. Proofs

All theorems hold for every value of the constants that satisfies the named
assumptions (`TreeAssumption`, `CallAssumption`, `BoundAssumption`,
`DebounceAssumption`, `ProcAssumption`, `RpcAssumption`, `PtyBridgeAssumption`,
`ConnectAssumption`, `ServerAssumption`, `DirCacheAssumption`,
`FileSyncAssumption`, `NoneAssumption`, `TunnelAssumption`), which TLC evaluates
on each run. The type invariants of `Debounce`, `ProcManager`, `FlitRpc`,
`PtyBridge`, `Connect`, `Server`, `FileSync` and `DirCache` are proved and no run
repeats them.

- `FsWatcher_proofs`, the watcher: `TypeCorrect` and `CountsAgree`
  (`RefsMatchSession`). The invariant is not inductive: a count must also keep its
  watcher entry (or the run goroutine's clean-up could drop an entry that is
  counted), and while a clear is going on the paths it has unwatched are still
  tracked, so what is left to unwatch must cover the counts, or the final reset
  would leave a count without an owner. `RefInv` adds both (`CountedIsTracked`,
  `ClearingCoversCounts`). `NeededAreArmed` (`LiveEntriesArmed`) and
  `ChangesReported` (`FileChangesReported`) follow from `WatchInv`, which says who
  is responsible while the run goroutine is at work: an entry that is needed and
  not on the kernel's list is being put there, a directory by the parking that
  made it, a file because its removal is queued or being handled; and a change
  that was not reported has an event, a handling or a timer. An event that
  fsnotify may still drop (`deletedSelf`) stands for a change only while its path
  is not armed; then dropping it makes the path `lost`.
- The debouncer: `DebounceTypeCorrect`, `NothingForgotten` (`OwedIsScheduled`) and
  `Prompt` (`BoundedDelay`). `PayInv` names a payer for an owed change: the
  sender, a callback, or a timer that expires while the change is young enough.
  A timer the current, unexpired state refers to may still be postponed, so for
  it the change must also be young enough to survive to the window's end.
- `ProcManager_proofs`: `TypeCorrect`; `ExitIsLastNotification` from `ExitInv`
  (a waiter past `wg.Wait` has ended readers; a process that was not started has
  no goroutines, so no reader starts behind the waiter); `InputBeforeEof` from
  `InputInv` (whoever has closed or is about to close the channel has set the
  flag, so an empty queue behind the EOF stays empty); `NoPanic` from the same
  invariant.
- `FlitRpc_proofs`: `TypeCorrect`, whose content is that frames are only ever
  taken apart as what they were put together as, through buffers, chunk tables
  and nested activations; and `CallbackRunsOnce` (`NoLateCallback`). The
  latter needs `CallInv`: ids are not reused, so an entry of `pending` stands
  for the call of its own number, that call has no outcome but C-g, calls that
  have not started have none, and every call on the stack has started (or a
  timeout could settle a call that is yet to be made).
  `MessagesWhole` and `OwnAnswers` (`WholeMessages`, `AnswersOwn`) come from an
  invariant on order: each chunk, wherever it is, continues what precedes it in
  its stream or what has been put together so far. For `NoneLost`
  (`NothingLost`) the traces of a request are followed through the places it can
  be in: it is in one of them at a time (`Travel`), as is the heartbeat
  (`AllBeating`). `TimeoutsExcused` (`SpuriousTimeout`) needs `ReadInv`: a response
  that has been read lies before a filter that will parse on above the waiting
  request, unless the callback of a synchronous call stopped it; that call was
  interrupted or still waits, since there is no response to a call that was
  not sent completely. `ImplementsRpc` (`AtMostOnce`) builds on `Travel`: the place of
  a trace determines its stage, and each step moves one trace one place on, or
  none; a request without an outcome is still registered, so its answer finds it.
- `DirCache_proofs`: `TypeCorrect` (with the limit of a wait group, from the
  library's facts about cardinality), `FetchedOnce`, `PushedWhole`, and
  `StaleListings` (`StaleListingCauses`). The last needs `CacheInv`: every listing
  on its way was true once and is true if it has the present number
  (`GoodTasks`, `GoodCb`, `GoodStream`); the stored mtime is not in the future
  (`Stored`), so an owed change is not suppressed; Emacs waits for one answer
  (`AskInv`), so a new `fs/info` does not replace one that is about to reply;
  `OwedInv`: an owed change has somebody who will bring it, or nobody holds a
  listing; `ToldInv`: of a told change the last listing on the way says so.
- `Connect_proofs`: `TypeCorrect`; `StateMovesOn` (`NeverStuck`), which is
  inductive with the types; `TruthfulTable` (`OneAtATime`) from `Clean`: without
  overlap there is one process (`Single`), while somebody waits for it to be
  closed it is told (`AllTold`), past its handshake the sentinels of earlier ones
  have run (`Alone`), or one of them would take the new connection out of the
  table, and it is the one entered (`Entered`).
- The handshake, in the same module: `PtyTypeCorrect`; `SuccessStays`
  (`SuccessIsFinal`) from `DoneInv`: a handshake that succeeded has no question
  open, because it succeeds in the filter; `ChildFirst` (`ChildEndsFirst`) from
  `ChildInv`: when a clean-up has returned, the child has been waited for, and a
  child that was waited for has exited; `RightReaders` and `FramesOrdered` (`RightReader`,
  `FramesInOrder`) from `Phases`, which says for each phase of the script what may
  lie in which direction of the PTY and what Emacs and the bridge, each behind
  the script by what is still unread, may be waiting for.
- `Server_proofs`: `TypeCorrect`; `NothingLeft` (`ClosedHoldsNothing`) from
  `Released`: unless a handler outlived the connection, none is left when
  `Session.Close` begins, so nothing comes back behind the steps that release;
  `OnlyTheseCrashes` (`CrashCauses`) from `CrashInv`: when `done` is closed
  somebody is past `close(done)`, so whoever closes it again is the second; and
  while `Serve` is in `SendData` its session is served (`InlineServed`), so a
  closed channel that it meets was closed by the connection's own clean-up.
- `FileSync_proofs`: `TypeCorrect`; `EditsSurvive` (`UnsavedEditsKept`);
  `OverwritesSeen` (`NoUnseenOverwrite`), as an unforced write past its check holds
  a stat within the tolerance of what the client expects (`CheckedInv`);
  `ToldIsShown` (`BufferCatchesUp`) from `CatchUpInv`: a change that was told or
  hinted at has a message in the stream with nothing harmful behind it (`Coming`),
  or it has arrived, and the buffer shows it, is marked or modified, or is being
  reverted, and a revert that has read something older has left a mark (`Heard`);
  a version is nobody's before it is made (`Below`, `NewVersion`), and the answer of
  `fs/read` carries what its handler read (`ReadKept`); `SavesWritten` (`OnlyForcedSavesLost`): each
  content under way, in a request or in the stream, was on the disk, and an
  unforced save writes the text the buffer shows and has written it when it is
  answered (`ReqSaves`, `StreamSaves`, `Accounted`); `ChangesTold`
  (`OrdinaryChangesTold`) from `OwedInv`: an owed change has an event that
  the stored stat does not suppress, a callback that will read it or has its
  content, or a write that replaces it or refuses for it (`Carried`); and what
  `fs/open` or `fs/write` is about to store is not later than the file
  (`Recent`), so it does not suppress the change either.
- `Tunnel_proofs`: `TypeCorrect`; `AnnouncedFirst` (`IntroducedFirst`) from
  `IntroInv`: a connection is in Emacs' table, or its introduction is ahead of
  whatever else of it is in the stream; `TableClean` (`NoStaleEntry`) from
  `LoopInv` and `TableInv`: one of the two loops cleans up (`OneCleaner`), and a
  closed connection is in the table only while that loop has yet to delete it;
  entries are made before the loops start.

Only model-checked: liveness (`KeepsPromise`, `ExitReported`, `HangUpsCross`,
`SyncReturns`, `FetchEnds`, `ShutdownClosesSessions`), as TLAPS has no support for
fairness; and that the violations of `proc_output` and `filesync_force` happen. Every
other property of the passing runs has its theorem.

## 5. Not modelled, and known disagreements without a run

Not modelled:

- Client processes of `flit.el`: the fake Emacs processes, their output queues
  and the terminal flow control. `ProcManager` has the notifications they
  consume; the client's side is one thread that appends to buffers.
- The Eden watcher (`eden/eden.go`), a goroutine that reads an external
  command's output, and with it the check of watched paths after a checkout.
- The file-system handlers that are one system call or a sequential loop over
  them (stat, copy, rename, delete, make-directory, ...), and missing files in
  `FileSync`; `MarkDirListed`; symbolic links' second cache key.
- `flitrpc-close` and `flitrpc-request-sync-with-payload`, which `flit.el` does
  not call; `exec/pty.go`, which no handler uses.
- Argument parsing, logging and its forwarding, formatting, msgpack, the Emacs
  file-name handlers, dired, completion and the user interface.

Behaviour met while modelling that differs from what a reader of the code may
expect, and is not kept as a run of its own; the properties above say where they
except it:

- `Session.CloseFile` returns early when fsnotify cannot remove the watch (an
  atomic rewrite had ended it), leaving `watchedPaths` set although the watcher
  has dropped its entry; the next `OpenFile` then does not watch
  (`jsonrpc.go:530`). A directory that is removed and recreated loses the watches
  below it (`watcher.go:156`).
- After an atomic rewrite the watch is to be re-added, "If the file still exists
  (atomic rewrite), re-add the watch" (`watcher.go:485-487`), but only in the branch
  of a removal. With the directory watched too, which `fs/info` on a directory and
  every parked path bring about, fsnotify 1.9.0 reports the creation only, whose
  branch re-adds what is pending and nothing else (`watcher.go:538-581`); with the
  directory watched between the rewrite and fsnotify's reading of the event, it
  reports nothing. The file's own watch is gone until the path is watched anew,
  and its changes are seen only as long as the directory's watch stays. `lost` in `FsWatcher` are these paths. The comment there says
  "fsnotify reports as Rename, not Create"; it is a Create.
- `fs/open` and `fs/write` store a stat that may be another writer's, which is
  then never reported (*adopted*). `fs/info` reads a directory before it watches it
  (`jsonrpc.go:1008`); for a file only the cached stat stays stale, as its
  content is read again.
- "Return cached value (has decoded content)" (`flit.el:2719`) and "Add the content
  we just wrote (raw bytes) before caching" (`flit.el:2794`): the entry cached
  last is the answer's `:cache` one, without content, in both places. Every
  first visit reads the file twice, and a revert after a save reads it again.
- The frame of an empty content has no payload, so an empty file's content is nil,
  `flit--read` returns nil, and `insert` of nil signals an error
  (`flit.el:2741-2747`, 3330-3355): an empty remote file cannot be visited or
  reverted to. `HandleContent` has this.
- A change that was told is lost to the buffer when the notification arrives while
  the text that fills a new buffer, or the answer to a save, is on its way: there
  is no buffer to mark, or it is modified (*overtaken*).
- "Any leftover data from the handshake filter is discarded. It contains flitrpc
  binary frames that were corrupted by the handshake's UTF-8 coding system"
  (`flit.el:1464-1466`): the handshake's coding is binary (`flit.el:1521`) and
  `flit--sm-filter` hands on what is behind the ready line (`flit.el:1790-1794`),
  intact. `FramesInOrder` states what the code does, and relies on it; the
  comment, if it were true, would lose the server's first frames.
- Listings are cached with no watch behind them although "watch-based
  invalidation handles staleness" (`flit.el:876`): `fs/batch` pushes parents and
  watches nothing (`jsonrpc.go:930`), and what was sent before
  `session/clearCache` is applied after the client dropped its entries, while
  "Watches will be re-established on next access" (`jsonrpc.go:853`) needs a miss.
  Prefetched children's entries go stale the same way. A second change of a
  directory within the second of the last is suppressed (`jsonrpc.go:251`). An
  older listing sent later overwrites a newer one.
- A PTY process that exits before `Start` stores it is not found by the waiter
  (`exec/handler.go:300`); `ExitReported` starts from a stored process. Input
  beyond the channel's capacity is refused, and Emacs does not look at the
  refusal of a notification (`exec/handler.go:370`).
- `TCOOFF` and `TCOON` are asynchronous requests, each handled in a goroutine of
  its own, and may be applied in the other order (`flit.el:4922`).
- `SendData` may send on a channel that `cleanup` closed since the lookup, which
  panics the server and with it every session (`tunnel.go:198`, 341;
  `CrashCauses`). `flit-tunnel-close` forgets a connection
  accepted while it waits for the reply (`flit.el:5273`).
- `sync-done` is one flag of the connection, though synchronous requests nest
  (`flitrpc.el:554`): a callback that sets it makes the parse loop return although
  the innermost request still waits. If the answers of two nested requests are
  read together, the second stays in the buffer until more data arrives, and
  its request times out. `SpuriousTimeout` says that this is the only way.
- `flitrpc--write-frame` writes a frame with several `process-send-string`
  (`flitrpc.el:456`); when the pipe is full these run timers and filters, which
  may write a frame of their own in between, and the server cannot decode what
  follows. `FlitRpc` has the broken stream as `Break`.
- A TCP server that shuts down for idleness keeps running: the accept loop
  looks at `done` only after `Accept` fails, and the idle checker does not close
  the listener (`cmd_server.go:162-183`).
- `Shutdown` from two places closes `done` twice; a watch request after
  `Session.Close` may write to a nil map. `CrashCauses` names both.
- A password prompt or `deploy_ready` split over two reads is missed
  (`cmd_pty_bridge.go:223`, 351), and the handshake then times out; a ready line
  behind an OSC escape sequence on the same line is not understood, as only CSI
  sequences are stripped (`flit.el:1770`).
- The late failure of an attempt that was given up sets the state failed though
  another connection is live; an asynchronous attempt is shown as failed at once
  (`flit.el:1379`); `on-shutdown` takes out the host's entry even if it is
  another connection's (`flit.el:1436`). `OneAtATime` excepts overlaps.
- A process' sentinel is called twice when the connection closes
  (`flit.el:2254`), and after kill-process followed by `exec/exit`. Eden's `Stop`
  racing with its start leaves `eden notify` running (`eden.go:106`).
