------------------------------ MODULE FsWatcher ------------------------------
(***************************************************************************)
(* The file watcher of the server (server/fs/watcher.go) with the          *)
(* per-session tables that drive it (server/server/jsonrpc.go).            *)
(*                                                                         *)
(* Three kinds of process run concurrently:                                *)
(*   - the machine: other programs create, edit, replace and remove files; *)
(*     fsnotify turns what happens under its watch list into events;       *)
(*   - RPC handlers, one goroutine per request, which hold                 *)
(*     Session.watchedMu and, inside it, Watcher.mu;                       *)
(*   - Watcher.run, which takes one event at a time and acquires and       *)
(*     releases Watcher.mu several times while it handles it.              *)
(* One action is one critical section or one system call.                  *)
(*                                                                         *)
(* Abstracted: the debounce arithmetic (module Debounce), the mtime        *)
(* filter and the payload of a notification.                               *)
(***************************************************************************)
EXTENDS Naturals, Sequences, FiniteSets

CONSTANTS
    Paths,      \* the paths of the modelled tree
    Root,       \* a directory that always exists
    Parent,     \* filepath.Dir, with Parent[Root] = Root
    Dirs,       \* the paths that are directories whenever they exist
    Calls,      \* the session calls the client makes, a subset of CallNames
    MaxDisk,    \* bound: changes made by other programs
    MaxCalls    \* bound: session calls

ASSUME TreeAssumption ==
    /\ Root \in Dirs
    /\ Dirs \subseteq Paths
    /\ Parent \in [Paths -> Dirs]
    /\ Parent[Root] = Root

CallNames == {"watch", "open", "unwatch", "close", "clear", "pending"}

ASSUME CallAssumption == Calls \subseteq CallNames

ASSUME BoundAssumption == MaxDisk \in Nat /\ MaxCalls \in Nat

VARIABLES
    disk,       \* the paths that exist
    removed,    \* history: paths that were absent at some time
    armed,      \* the paths that the kernel watches for fsnotify
    lost,       \* history: paths whose watch went with an inode and was not reported
    events,     \* what the kernel has for fsnotify, then its Events channel
    entry,      \* the keys of Watcher.watches
    ref,        \* watchInfo.refCount
    pend,       \* pend[a][p]: how often p is listed in watches[a].pending
    due,        \* paths whose debounce timer is pending
    run,        \* the run goroutine
    tracked,    \* the keys of Session.watchedPaths
    open,       \* Session.openFiles
    clearing,   \* ClearCacheState in progress: it holds watchedMu
    reg,        \* WatchPendingFile in progress
    missed,     \* history: watched files that changed and were not notified since
    diskOps,    \* changes made so far
    calls       \* calls made so far

diskVars    == <<disk, removed, diskOps>>
watchList   == <<armed, lost>>
kernelVars  == <<watchList, events>>
tableVars   == <<entry, ref, pend>>
sessionVars == <<tracked, open, clearing, reg, calls>>
vars == <<diskVars, kernelVars, tableVars, due, run, sessionVars, missed>>

Kinds == {"modified", "created", "deleted", "renamed"}

\* The kernel tells the removal of an inode's name (IN_DELETE, to the directory's
\* watch) from that of the inode (IN_DELETE_SELF, to its own).
KernelKinds == Kinds \cup {"deletedSelf"}

RunPcs == {"idle", "stat", "readd", "park", "parkAdd", "parkUndo", "parkCheck",
           "parkReadd", "parkClean", "parkTell", "pop", "recheck", "popAdd",
           "popTell", "emit", "tell"}

NoRegistration == [pc |-> "idle", path |-> Root, anc |-> Root]
NotClearing    == [on |-> FALSE, left |-> {}]
IdleRun        == [pc |-> "idle", path |-> Root, kind |-> "modified",
                   todo |-> {}, cur |-> Root, stale |-> FALSE]

Event        == [kind : KernelKinds, path : Paths]
Counts       == [Paths -> Nat]
RunState     == [pc : RunPcs, path : Paths, kind : Kinds,
                 todo : SUBSET Paths, cur : Paths, stale : BOOLEAN]
Clearing     == [on : BOOLEAN, left : SUBSET Paths]
Registration == [pc : {"idle", "dir", "pending"}, path : Paths, anc : Paths]

TypeOK ==
    /\ disk \subseteq Paths /\ removed \subseteq Paths
    /\ armed \subseteq Paths /\ lost \subseteq Paths
    /\ events \in Seq(Event)
    /\ entry \subseteq Paths
    /\ ref \in Counts
    /\ pend \in [Paths -> Counts]
    /\ due \subseteq Paths
    /\ run \in RunState
    /\ tracked \subseteq Paths /\ open \subseteq Paths
    /\ clearing \in Clearing
    /\ reg \in Registration
    /\ missed \subseteq Paths
    /\ diskOps \in Nat /\ calls \in Nat

-----------------------------------------------------------------------------
(* The tables of the Watcher.                                              *)

\* The ancestors of p in the tree, p excluded; trees of depth two suffice for
\* the checks, and nothing else depends on the depth.
Under(a, p) == p # a /\ p # Root /\ (Parent[p] = a \/ Parent[Parent[p]] = a)

\* The first component of p below its ancestor a: the key of the pending map.
ChildOf(a, p) == IF Parent[p] = a THEN p ELSE Parent[p]

NoPaths == [p \in Paths |-> 0]
Pending(a) == {p \in Paths : pend[a][p] > 0}

\* refCount is 0 and the pending map is empty.
Unused(p) == ref[p] = 0 /\ Pending(p) = {}

isDirectlyWatched(p) == p \in entry /\ ref[p] > 0

\* delete(w.watches, p)
DropEntry(p) ==
    /\ entry' = entry \ {p}
    /\ ref'  = [ref EXCEPT ![p] = 0]
    /\ pend' = [pend EXCEPT ![p] = NoPaths]

\* The run goroutine keeps a pointer to its parent's watchInfo across unlocks;
\* when somebody else drops that entry the pointer no longer is in the map.
HoldsInfo(p) ==
    run.pc \in {"parkAdd", "parkUndo", "parkCheck", "parkReadd", "parkClean"}
        /\ Parent[run.path] = p
Orphan(p) == run' = [run EXCEPT !.stale = @ \/ HoldsInfo(p)]

\* fsnotify's Add and Remove.
Arm(p)    == armed' = armed \cup {p} /\ lost' = lost \ {p}
Disarm(p) == armed' = armed \ {p} /\ lost' = lost \ {p}

\* Watcher.Watch(p) returns nil.
WatchOk(p) ==
    /\ Unused(p) => p \in disk
    /\ IF Unused(p) THEN Arm(p) ELSE UNCHANGED watchList
    /\ entry' = entry \cup {p}
    /\ ref' = [ref EXCEPT ![p] = @ + 1]
    /\ missed' = missed \ {p}
    /\ UNCHANGED <<pend, due, run, events>>

\* Watcher.Watch(p) fails: fsnotify cannot add a path that does not exist.
WatchFails(p) ==
    /\ Unused(p) /\ p \notin disk
    /\ DropEntry(p)
    /\ Orphan(p)
    /\ UNCHANGED <<kernelVars, due, missed>>

\* Watcher.Unwatch(p); fsnotify's Remove fails when the kernel had already
\* dropped the watch, after the Watcher's own tables were changed.
UnwatchFails(p) == isDirectlyWatched(p) /\ ref[p] = 1 /\ Pending(p) = {} /\ p \notin armed

WatcherUnwatch(p) ==
    /\ IF ~isDirectlyWatched(p)
       THEN UNCHANGED <<tableVars, due, watchList, run>>
       ELSE IF ref[p] = 1 /\ Pending(p) = {}
       THEN /\ DropEntry(p)
            /\ Orphan(p)
            /\ due' = due \ {p}
            /\ Disarm(p)
       ELSE /\ ref' = [ref EXCEPT ![p] = @ - 1]
            /\ UNCHANGED <<entry, pend, due, watchList, run>>
    /\ UNCHANGED <<events, missed>>

-----------------------------------------------------------------------------
(* Session calls.  Each takes watchedMu, so none overlaps ClearCacheState. *)

Call(c) == c \in Calls /\ ~clearing.on /\ calls < MaxCalls /\ calls' = calls + 1

\* Mutant: no "already watching" check.
Watch_NoCheck(p) ==
    /\ Call("watch")
    /\ \/ WatchOk(p) /\ tracked' = tracked \cup {p}
       \/ WatchFails(p) /\ UNCHANGED tracked
    /\ UNCHANGED <<diskVars, open, clearing, reg>>

\* Session.Watch, WatchFile, WatchDir: fs/watch, fs/info, fs/openDir, prefetch.
Watch(p) ==
    /\ Call("watch")
    /\ p \notin tracked
    /\ \/ WatchOk(p) /\ tracked' = tracked \cup {p}
       \/ WatchFails(p) /\ UNCHANGED tracked
    /\ UNCHANGED <<diskVars, open, clearing, reg>>

\* Session.OpenFile: fs/open.  The file counts as open even if the watch fails.
OpenFile(p) ==
    /\ Call("open")
    /\ p \notin Dirs
    /\ open' = open \cup {p}
    /\ \/ p \in tracked /\ UNCHANGED <<kernelVars, tableVars, due, run, missed, tracked>>
       \/ p \notin tracked /\ WatchOk(p) /\ tracked' = tracked \cup {p}
       \/ p \notin tracked /\ WatchFails(p) /\ UNCHANGED tracked
    /\ UNCHANGED <<diskVars, clearing, reg>>

\* Session.Unwatch: fs/unwatch, fs/forget.
Unwatch(p) ==
    /\ Call("unwatch")
    /\ p \in tracked
    /\ WatcherUnwatch(p)
    /\ tracked' = IF UnwatchFails(p) THEN tracked ELSE tracked \ {p}
    /\ UNCHANGED <<diskVars, open, clearing, reg>>

\* Session.CloseFile: fs/close, for a path that need not be open (any more).
CloseFile(p) ==
    /\ Call("close")
    /\ open' = open \ {p}
    /\ \/ /\ p \in tracked
          /\ WatcherUnwatch(p)
          /\ tracked' = IF UnwatchFails(p) THEN tracked ELSE tracked \ {p}
       \/ /\ p \notin tracked
          /\ UNCHANGED <<kernelVars, tableVars, due, run, missed, tracked>>
    /\ UNCHANGED <<diskVars, clearing, reg>>

\* Session.ClearCacheState, session/clearCache: unwatch every path, in any
\* order, then ClearPending; watchedMu is held throughout, Watcher.mu is not.
ClearStart ==
    /\ Call("clear")
    /\ clearing' = [on |-> TRUE, left |-> tracked]
    /\ UNCHANGED <<diskVars, kernelVars, tableVars, due, run, tracked, open, reg, missed>>

ClearOne(p) ==
    /\ p \in clearing.left
    /\ WatcherUnwatch(p)
    /\ clearing' = [clearing EXCEPT !.left = @ \ {p}]
    /\ UNCHANGED <<diskVars, tracked, open, reg, calls>>

ClearFinish ==
    /\ clearing.on /\ clearing.left = {}
    /\ pend' = [p \in Paths |-> NoPaths]
    /\ tracked' = {} /\ open' = {}
    /\ clearing' = NotClearing
    /\ UNCHANGED <<diskVars, kernelVars, entry, ref, due, run, reg, missed, calls>>

\* Session.WatchPendingFile: find the closest existing directory above p ...
RegisterStart(p) ==
    /\ Call("pending")
    /\ reg.pc = "idle"
    /\ \E a \in Dirs :
        /\ Under(a, p) /\ a \in disk
        /\ \A b \in Dirs \cap disk : Under(b, p) => ~Under(a, b)
        /\ reg' = [pc |-> "dir", path |-> p, anc |-> a]
    /\ UNCHANGED <<diskVars, kernelVars, tableVars, due, run, tracked, open, clearing, missed>>

\* ... watch it, giving up when that fails ...
RegisterDir ==
    /\ reg.pc = "dir" /\ ~clearing.on
    /\ \/ /\ reg.anc \in tracked
          /\ reg' = [reg EXCEPT !.pc = "pending"]
          /\ UNCHANGED <<kernelVars, tableVars, due, run, missed, tracked>>
       \/ /\ reg.anc \notin tracked /\ WatchOk(reg.anc)
          /\ tracked' = tracked \cup {reg.anc}
          /\ reg' = [reg EXCEPT !.pc = "pending"]
       \/ /\ reg.anc \notin tracked /\ WatchFails(reg.anc)
          /\ reg' = NoRegistration
          /\ UNCHANGED tracked
    /\ UNCHANGED <<diskVars, open, clearing, calls>>

\* ... and, watchedMu released, Watcher.WatchPending: a no-op without an entry.
RegisterPending ==
    /\ reg.pc = "pending"
    /\ pend' = IF reg.anc \in entry
               THEN [pend EXCEPT ![reg.anc][reg.path] = @ + 1]
               ELSE pend
    /\ reg' = NoRegistration
    /\ UNCHANGED <<diskVars, kernelVars, entry, ref, due, run, tracked, open, clearing,
                   calls, missed>>

-----------------------------------------------------------------------------
(* The machine: what other programs do, and what the kernel has to report of *)
(* it to the watch of the directory and to the path's own (fsnotify 1.9.0,    *)
(* inotify).  The path's own watch goes with its inode.                      *)

Change(p) ==
    /\ diskOps < MaxDisk /\ diskOps' = diskOps + 1
    /\ missed' = IF isDirectlyWatched(p) THEN missed \cup {p} ELSE missed
    /\ UNCHANGED <<tableVars, due, run, sessionVars, lost>>

Told(kind, p, heard) == IF heard THEN <<[kind |-> kind, path |-> p]>> ELSE <<>>

\* The directory's watch is told first.
Report(p, inDir, own) ==
    events' = events \o Told(inDir, p, Parent[p] \in armed) \o Told(own, p, p \in armed)

Childless(p) == \A q \in disk : Parent[q] = p => q = p

Modify(p) ==
    /\ p \in disk \ Dirs
    /\ Change(p)
    /\ Report(p, "modified", "modified")
    /\ UNCHANGED <<disk, removed, armed>>

Create(p) ==
    /\ p \notin disk /\ Parent[p] \in disk
    /\ Change(p)
    /\ disk' = disk \cup {p}
    /\ events' = events \o Told("created", p, Parent[p] \in armed)
    /\ UNCHANGED <<removed, armed>>

Vanish(p) ==
    /\ p \in disk \ {Root} /\ Childless(p)
    /\ Change(p)
    /\ disk' = disk \ {p}
    /\ removed' = removed \cup {p}
    /\ armed' = armed \ {p}

Remove(p) == Vanish(p) /\ Report(p, "deleted", "deletedSelf")
RenameAway(p) == p \notin Dirs /\ Vanish(p) /\ Report(p, "renamed", "renamed")

\* An atomic rewrite: write a temporary file, rename it over p.  To the directory
\* it is a creation (IN_MOVED_TO), to the old inode's watch a removal.
Rewrite(p) ==
    /\ p \in disk \ Dirs
    /\ Change(p)
    /\ armed' = armed \ {p}
    /\ Report(p, "created", "deletedSelf")
    /\ UNCHANGED <<disk, removed>>

\* fsnotify reads the next event as soon as the one before was received (Events
\* has no buffer).  It drops the removal of a watched inode when it watches the
\* directory too, which it takes to report the removal, and when the path's watch
\* was replaced meanwhile.
FsnotifyRead ==
    /\ events # <<>> /\ Head(events).kind = "deletedSelf"
    /\ LET p == Head(events).path IN
       IF Parent[p] \in armed \/ p \in armed
       THEN events' = Tail(events) /\ lost' = lost \cup ({p} \ armed)
       ELSE events' = [events EXCEPT ![1].kind = "deleted"] /\ UNCHANGED lost
    /\ UNCHANGED <<diskVars, armed, tableVars, due, run, sessionVars, missed>>

-----------------------------------------------------------------------------
(* Watcher.run.  run.path and run.kind are the event it handles.           *)

Goto(pc) == run' = [run EXCEPT !.pc = pc]

Parked == run.kind = "renamed"      \* a parked rename ends the event

\* fsnotify.Add: fails, and is only logged, for a path that does not exist.
ReAdd(p) == IF p \in disk THEN Arm(p) ELSE UNCHANGED watchList

\* The callback of Session.InitWatcher starts by taking watchedMu.
Notify(p) == ~clearing.on /\ missed' = missed \ {p}

runOnly == <<diskVars, events, tableVars, due, sessionVars>>

\* Receive an event; a removed or renamed path that is directly watched is looked at again.
RunTake ==
    /\ run.pc = "idle" /\ events # <<>> /\ Head(events).kind # "deletedSelf"
    /\ LET e == Head(events) IN
       run' = [pc |-> CASE e.kind = "modified" -> "emit"
                        [] e.kind = "created"  -> "pop"
                        [] e.kind = "deleted" -> IF isDirectlyWatched(e.path) THEN "stat" ELSE "emit"
                        [] e.kind = "renamed" -> IF isDirectlyWatched(e.path) THEN "stat" ELSE "pop",
               path |-> e.path, kind |-> e.kind, todo |-> {}, cur |-> e.path, stale |-> FALSE]
    /\ events' = Tail(events)
    /\ UNCHANGED <<diskVars, watchList, tableVars, due, sessionVars, missed>>

RunStat ==
    /\ run.pc = "stat"
    /\ Goto(IF run.path \in disk THEN "readd" ELSE "park")
    /\ UNCHANGED <<runOnly, watchList, missed>>

\* Mutant: the re-added path is not put back on fsnotify's list.
RunReAdd_NotArmed ==
    /\ run.pc = "readd"
    /\ Goto(IF run.kind = "deleted" THEN "emit" ELSE "pop")
    /\ UNCHANGED <<runOnly, watchList, missed>>

\* Mutant: the event ends with the re-add, as it does after a recreation.
RunReAdd_Continue ==
    /\ run.pc = "readd"
    /\ ReAdd(run.path)
    /\ Goto("idle")
    /\ UNCHANGED <<runOnly, missed>>

RunReAdd ==
    /\ run.pc = "readd"
    /\ ReAdd(run.path)
    /\ Goto(IF run.kind = "deleted" THEN "emit" ELSE "pop")
    /\ UNCHANGED <<runOnly, missed>>

\* watchParentForPending: list the path in its parent's entry ...
RunPark ==
    /\ run.pc = "park"
    /\ LET a == Parent[run.path] IN
       /\ Goto(IF Unused(a) THEN "parkAdd" ELSE "parkCheck")
       /\ entry' = entry \cup {a}
       /\ pend' = [pend EXCEPT ![a][run.path] = @ + 1]
    /\ UNCHANGED <<diskVars, kernelVars, ref, due, sessionVars, missed>>

\* ... with the lock released, watch the parent if nobody did ...
RunParkAdd ==
    /\ run.pc = "parkAdd"
    /\ ReAdd(Parent[run.path])
    /\ Goto(IF Parent[run.path] \in disk THEN "parkCheck" ELSE "parkUndo")
    /\ UNCHANGED <<runOnly, missed>>

AfterPark == IF Parked THEN "idle" ELSE "emit"

\* ... on failure forget the listing.  A stale info is empty and unused, so its
\* clean-up deletes whatever entry the path has by now.
RunParkUndo ==
    /\ run.pc = "parkUndo"
    /\ LET a == Parent[run.path]
           left == [p \in Paths |-> IF Under(a, p) /\ ChildOf(a, p) = run.path
                                    THEN 0 ELSE pend[a][p]]
       IN IF run.stale \/ (ref[a] = 0 /\ \A p \in Paths : left[p] = 0)
          THEN DropEntry(a)
          ELSE pend' = [pend EXCEPT ![a] = left] /\ UNCHANGED <<entry, ref>>
    /\ Goto(AfterPark)
    /\ UNCHANGED <<diskVars, kernelVars, due, sessionVars, missed>>

\* ... look whether the file came back meanwhile ...
RunParkCheck ==
    /\ run.pc = "parkCheck"
    /\ Goto(IF run.path \in disk THEN "parkReadd" ELSE AfterPark)
    /\ UNCHANGED <<runOnly, watchList, missed>>

RunParkReAdd ==
    /\ run.pc = "parkReadd"
    /\ ReAdd(run.path)
    /\ Goto("parkClean")
    /\ UNCHANGED <<runOnly, missed>>

\* Mutant: the listing is taken to be still there, though the lock was released.
RunParkClean_NoLookup ==
    /\ run.pc = "parkClean"
    /\ pend' = [pend EXCEPT ![Parent[run.path]][run.path] = @ - 1]
    /\ Goto("parkTell")
    /\ UNCHANGED <<diskVars, kernelVars, entry, ref, due, sessionVars, missed>>

\* ... and if so unlist one occurrence and drop the parent's entry if unused.
RunParkClean ==
    /\ run.pc = "parkClean"
    /\ LET a == Parent[run.path]
           left == [pend[a] EXCEPT ![run.path] = IF @ > 0 THEN @ - 1 ELSE 0]
       IN IF run.stale \/ (ref[a] = 0 /\ \A p \in Paths : left[p] = 0)
          THEN DropEntry(a) /\ due' = due \ {a} /\ Disarm(a)
          ELSE pend' = [pend EXCEPT ![a] = left] /\ UNCHANGED <<entry, ref, due, watchList>>
    /\ Goto("parkTell")
    /\ UNCHANGED <<diskVars, events, sessionVars, missed>>

RunParkTell ==
    /\ run.pc = "parkTell"
    /\ Notify(run.path)
    /\ Goto("idle")
    /\ UNCHANGED <<runOnly, watchList>>

\* popPendingForChild, then one round per popped path.
RunPop ==
    /\ run.pc = "pop"
    /\ LET a == Parent[run.path]
           popped == {p \in Pending(a) : Under(a, p) /\ ChildOf(a, p) = run.path}
           left == [p \in Paths |-> IF p \in popped THEN 0 ELSE pend[a][p]]
       IN /\ run' = [run EXCEPT !.pc = "recheck",
                                !.todo = IF a \in entry THEN popped ELSE {}]
          /\ IF a \in entry /\ ref[a] = 0 /\ \A p \in Paths : left[p] = 0
             THEN DropEntry(a) /\ due' = due \ {a} /\ Disarm(a)
             ELSE pend' = [pend EXCEPT ![a] = left] /\ UNCHANGED <<entry, ref, due, watchList>>
    /\ UNCHANGED <<diskVars, events, sessionVars, missed>>

RunRecheck ==
    /\ run.pc = "recheck"
    /\ \/ run.todo = {} /\ Goto("emit")
       \/ \E p \in run.todo :
            run' = [run EXCEPT !.pc = IF isDirectlyWatched(p) THEN "popAdd" ELSE "popTell",
                               !.todo = @ \ {p}, !.cur = p]
    /\ UNCHANGED <<runOnly, watchList, missed>>

RunPopAdd ==
    /\ run.pc = "popAdd"
    /\ ReAdd(run.cur)
    /\ Goto("popTell")
    /\ UNCHANGED <<runOnly, missed>>

RunPopTell ==
    /\ run.pc = "popTell"
    /\ Notify(run.cur)
    /\ Goto("recheck")
    /\ UNCHANGED <<runOnly, watchList>>

\* Choose the path to report: the event's own if it is directly watched, else
\* its directory; triggerDebouncedNotification reports it now or arms a timer.
RunEmit ==
    /\ run.pc = "emit"
    /\ LET self == isDirectlyWatched(run.path)
           dest == IF self THEN run.path ELSE Parent[run.path]
       IN IF self \/ isDirectlyWatched(dest)
          THEN \/ run' = [run EXCEPT !.pc = "tell", !.cur = dest] /\ UNCHANGED due
               \/ due' = due \cup {dest} /\ Goto("idle")
          ELSE Goto("idle") /\ UNCHANGED due
    /\ UNCHANGED <<diskVars, kernelVars, tableVars, sessionVars, missed>>

RunTell ==
    /\ run.pc = "tell"
    /\ Notify(run.cur)
    /\ Goto("idle")
    /\ UNCHANGED <<runOnly, watchList>>

\* The time.AfterFunc goroutine of a debounced notification.
DebounceFire(p) ==
    /\ p \in due
    /\ Notify(p)
    /\ due' = due \ {p}
    /\ UNCHANGED <<diskVars, kernelVars, tableVars, run, sessionVars>>

-----------------------------------------------------------------------------
Init ==
    /\ \E live \in SUBSET Paths :
        /\ Root \in live /\ \A p \in live : Parent[p] \in live
        /\ disk = live /\ removed = Paths \ live
    /\ armed = {} /\ lost = {} /\ events = <<>>
    /\ entry = {} /\ ref = NoPaths /\ pend = [p \in Paths |-> NoPaths]
    /\ due = {} /\ run = IdleRun
    /\ tracked = {} /\ open = {} /\ clearing = NotClearing /\ reg = NoRegistration
    /\ missed = {} /\ diskOps = 0 /\ calls = 0

SessionStep ==
    \/ \E p \in Paths : Watch(p) \/ OpenFile(p) \/ Unwatch(p) \/ CloseFile(p)
                           \/ RegisterStart(p) \/ ClearOne(p)
    \/ ClearStart \/ ClearFinish \/ RegisterDir \/ RegisterPending

DiskStep == \E p \in Paths : Modify(p) \/ Create(p) \/ Remove(p) \/ RenameAway(p) \/ Rewrite(p)

RunStep ==
    \/ RunTake \/ RunStat \/ RunReAdd \/ RunPark \/ RunParkAdd \/ RunParkUndo
    \/ RunParkCheck \/ RunParkReAdd \/ RunParkClean \/ RunParkTell
    \/ RunPop \/ RunRecheck \/ RunPopAdd \/ RunPopTell \/ RunEmit \/ RunTell

Next == SessionStep \/ DiskStep \/ FsnotifyRead \/ RunStep \/ \E p \in Paths : DebounceFire(p)

Spec == Init /\ [][Next]_vars

-----------------------------------------------------------------------------
(* Properties.                                                             *)

Files == Paths \ Dirs

\* No event is queued, being handled or awaiting a debounce timer.
Quiet == events = <<>> /\ run.pc = "idle" /\ due = {}

\* The session's table makes the watcher's reference count a flag, and no
\* count survives the table's entry: what fs/close, fs/unwatch and
\* session/clearCache forget is really released (jsonrpc.go Unwatch, CloseFile,
\* ClearCacheState against watcher.go Watch and Unwatch).
RefsMatchSession == \A p \in Paths : ref[p] <= 1 /\ (ref[p] = 1 => p \in tracked)

\* Once the run loop is quiet, every entry that somebody needs and whose path was
\* never absent is watched by the kernel, unless fsnotify dropped the report that
\* the watch went: an atomic rewrite that is reported, however it interleaves with
\* opens, closes and clears, never disarms a watch for good (watcher.go run, "File
\* still exists - re-add the watch").  The exception is not what that comment says.
LiveEntriesArmed ==
    Quiet => \A p \in entry \ (removed \cup lost) : ~Unused(p) => p \in armed

\* Once the run loop is quiet, no change of a watched file that was never absent
\* is left unreported, whichever way the event was queued, parked or debounced,
\* with the same exception.
FileChangesReported ==
    Quiet => \A p \in Files \ (removed \cup lost) : isDirectlyWatched(p) => p \notin missed
=============================================================================
