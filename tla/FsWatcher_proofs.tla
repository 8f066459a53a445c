-------------------------- MODULE FsWatcher_proofs --------------------------
(***************************************************************************)
(* Proofs about FsWatcher, for every tree and every bound: its types, the   *)
(* agreement of the watcher's counts with the session's table, and that a   *)
(* quiet run loop has re-armed every watch and reported every change.  At   *)
(* the end, proofs about Debounce, which times those reports.               *)
(***************************************************************************)
EXTENDS FsWatcher, Debounce, TLAPS

USE DEF vars, diskVars, watchList, kernelVars, tableVars, sessionVars, runOnly, Arm, Disarm

LEMMA PathFacts ==
    /\ Root \in Paths /\ Dirs \subseteq Paths
    /\ \A p \in Paths : Parent[p] \in Paths
BY TreeAssumption

LEMMA NoPathsType == NoPaths \in Counts
BY DEF NoPaths, Counts

LEMMA InitType == Init => TypeOK
<1> SUFFICES ASSUME Init PROVE TypeOK
  OBVIOUS
<1>1. IdleRun \in RunState /\ NoRegistration \in Registration /\ NotClearing \in Clearing
  BY PathFacts DEF IdleRun, RunState, RunPcs, Kinds, NoRegistration, Registration,
     NotClearing, Clearing
<1>2. pend \in [Paths -> Counts] /\ ref \in Counts
  BY NoPathsType DEF Init
<1>3. events \in Seq(Event)
  BY DEF Init
<1> QED BY <1>1, <1>2, <1>3 DEF Init, TypeOK

LEMMA CountsEdit ==
    ASSUME NEW c \in Counts, NEW p \in Paths, NEW n \in Nat
    PROVE  c[p] \in Nat /\ [c EXCEPT ![p] = n] \in Counts
BY DEF Counts

LEMMA PendEdit ==
    ASSUME TypeOK, NEW a \in Paths, NEW c \in Counts
    PROVE  /\ pend[a] \in Counts
           /\ [pend EXCEPT ![a] = c] \in [Paths -> Counts]
<1>1. pend \in [Paths -> Counts]
  BY DEF TypeOK
<1> QED BY <1>1

\* Listing one more occurrence of p under a.
LEMMA PendAdd ==
    ASSUME TypeOK, NEW a \in Paths, NEW p \in Paths
    PROVE  [pend EXCEPT ![a][p] = @ + 1] \in [Paths -> Counts]
<1>1. pend[a] \in Counts
  BY PendEdit, NoPathsType
<1>2. pend[a][p] + 1 \in Nat
  BY <1>1 DEF Counts
<1>3. [pend[a] EXCEPT ![p] = pend[a][p] + 1] \in Counts
  BY <1>1, <1>2, CountsEdit
<1> QED BY <1>3, PendEdit

\* What the shared table operators keep typed.
LEMMA DropEntryType ==
    ASSUME TypeOK, NEW p \in Paths, DropEntry(p)
    PROVE  entry' \subseteq Paths /\ ref' \in Counts /\ pend' \in [Paths -> Counts]
<1>1. pend' \in [Paths -> Counts]
  BY NoPathsType DEF TypeOK, DropEntry
<1>2. ref' \in Counts
  BY DEF TypeOK, DropEntry, Counts
<1> QED BY <1>1, <1>2 DEF TypeOK, DropEntry

LEMMA RunGoto ==
    ASSUME NEW s \in RunState, NEW pc \in RunPcs
    PROVE  [s EXCEPT !.pc = pc] \in RunState
BY DEF RunState

LEMMA RunPick ==
    ASSUME NEW s \in RunState, NEW pc \in RunPcs, NEW cur \in Paths
    PROVE  [s EXCEPT !.pc = pc, !.cur = cur] \in RunState
BY DEF RunState

LEMMA RunCollect ==
    ASSUME NEW s \in RunState, NEW pc \in RunPcs, NEW todo \in SUBSET Paths
    PROVE  [s EXCEPT !.pc = pc, !.todo = todo] \in RunState
BY DEF RunState

LEMMA OrphanType ==
    ASSUME TypeOK, NEW p, Orphan(p)
    PROVE  run' \in RunState
<1>1. HoldsInfo(p) \in BOOLEAN /\ run.stale \in BOOLEAN
  BY DEF HoldsInfo, TypeOK, RunState
<1> QED BY <1>1 DEF Orphan, TypeOK, RunState

LEMMA WatchOkType ==
    ASSUME TypeOK, NEW p \in Paths, WatchOk(p)
    PROVE  /\ armed' \subseteq Paths /\ lost' \subseteq Paths
           /\ entry' \subseteq Paths /\ ref' \in Counts
           /\ missed' \subseteq Paths
           /\ UNCHANGED <<pend, due, run, events>>
BY DEF TypeOK, WatchOk, Counts

LEMMA WatchFailsType ==
    ASSUME TypeOK, NEW p \in Paths, WatchFails(p)
    PROVE  /\ entry' \subseteq Paths /\ ref' \in Counts /\ pend' \in [Paths -> Counts]
           /\ run' \in RunState
           /\ UNCHANGED <<kernelVars, due, missed>>
BY DropEntryType, OrphanType DEF WatchFails

LEMMA WatcherUnwatchType ==
    ASSUME TypeOK, NEW p \in Paths, WatcherUnwatch(p)
    PROVE  /\ entry' \subseteq Paths /\ ref' \in Counts /\ pend' \in [Paths -> Counts]
           /\ due' \subseteq Paths /\ armed' \subseteq Paths /\ lost' \subseteq Paths
           /\ run' \in RunState
           /\ UNCHANGED <<events, missed>>
<1>1. CASE ~isDirectlyWatched(p)
  BY <1>1 DEF TypeOK, WatcherUnwatch
<1>2. CASE isDirectlyWatched(p) /\ ref[p] = 1 /\ Pending(p) = {}
  <2>1. /\ DropEntry(p) /\ Orphan(p)
        /\ due' = due \ {p} /\ Disarm(p)
        /\ UNCHANGED <<events, missed>>
    BY <1>2 DEF WatcherUnwatch
  <2> QED BY <2>1, OrphanType, DropEntryType DEF TypeOK
<1>3. CASE isDirectlyWatched(p) /\ ~(ref[p] = 1 /\ Pending(p) = {})
  <2>1. /\ ref' = [ref EXCEPT ![p] = @ - 1]
        /\ UNCHANGED <<entry, pend, due, watchList, run, events, missed>>
    BY <1>3 DEF WatcherUnwatch
  <2>2. ref[p] > 0 /\ ref \in [Paths -> Nat]
    BY <1>3 DEF isDirectlyWatched, TypeOK, Counts
  <2>3. ref' \in Counts
    BY <2>1, <2>2 DEF Counts
  <2> QED BY <2>1, <2>3 DEF TypeOK
<1> QED BY <1>1, <1>2, <1>3

LEMMA CallType == ASSUME TypeOK, NEW c, Call(c) PROVE calls' \in Nat
BY DEF TypeOK, Call

LEMMA SessionStepType == TypeOK /\ SessionStep => TypeOK'
<1> SUFFICES ASSUME TypeOK, SessionStep PROVE TypeOK'
  OBVIOUS
<1>1. ASSUME NEW p \in Paths, Watch(p) PROVE TypeOK'
  <2>1. CASE WatchOk(p) /\ tracked' = tracked \cup {p}
    BY <1>1, <2>1, WatchOkType, CallType DEF Watch, TypeOK
  <2>2. CASE WatchFails(p) /\ UNCHANGED tracked
    BY <1>1, <2>2, WatchFailsType, CallType DEF Watch, TypeOK
  <2> QED BY <1>1, <2>1, <2>2 DEF Watch
<1>2. ASSUME NEW p \in Paths, OpenFile(p) PROVE TypeOK'
  <2>0. calls' \in Nat /\ open' \subseteq Paths /\ UNCHANGED <<diskVars, clearing, reg>>
    BY <1>2, CallType DEF OpenFile, TypeOK
  <2>1. CASE UNCHANGED <<kernelVars, tableVars, due, run, missed, tracked>>
    BY <2>0, <2>1 DEF TypeOK
  <2>2. CASE WatchOk(p) /\ tracked' = tracked \cup {p}
    BY <2>0, <2>2, WatchOkType DEF TypeOK
  <2>3. CASE WatchFails(p) /\ UNCHANGED tracked
    BY <2>0, <2>3, WatchFailsType DEF TypeOK
  <2> QED BY <1>2, <2>1, <2>2, <2>3 DEF OpenFile
<1>3. ASSUME NEW p \in Paths, Unwatch(p) PROVE TypeOK'
  BY <1>3, WatcherUnwatchType, CallType DEF Unwatch, TypeOK
<1>4. ASSUME NEW p \in Paths, CloseFile(p) PROVE TypeOK'
  <2>0. calls' \in Nat /\ open' \subseteq Paths /\ UNCHANGED <<diskVars, clearing, reg>>
    BY <1>4, CallType DEF CloseFile, TypeOK
  <2>1. CASE UNCHANGED <<kernelVars, tableVars, due, run, missed, tracked>>
    BY <2>0, <2>1 DEF TypeOK
  <2>2. CASE /\ WatcherUnwatch(p)
             /\ tracked' = IF UnwatchFails(p) THEN tracked ELSE tracked \ {p}
    BY <2>0, <2>2, WatcherUnwatchType DEF TypeOK
  <2> QED BY <1>4, <2>1, <2>2 DEF CloseFile
<1>5. ASSUME NEW p \in Paths, RegisterStart(p) PROVE TypeOK'
  <2>1. PICK a \in Dirs : reg' = [pc |-> "dir", path |-> p, anc |-> a]
    BY <1>5 DEF RegisterStart
  <2>2. reg' \in Registration
    BY <2>1, PathFacts DEF Registration
  <2> QED BY <1>5, <2>2, CallType DEF RegisterStart, TypeOK
<1>6. ASSUME NEW p \in Paths, ClearOne(p) PROVE TypeOK'
  <2>1. clearing' \in Clearing
    BY <1>6 DEF ClearOne, TypeOK, Clearing
  <2> QED BY <1>6, <2>1, WatcherUnwatchType DEF ClearOne, TypeOK
<1>7. CASE ClearStart
  <2>1. clearing' \in Clearing
    BY <1>7 DEF ClearStart, TypeOK, Clearing
  <2> QED BY <1>7, <2>1, CallType DEF ClearStart, TypeOK
<1>8. CASE ClearFinish
  <2>1. NotClearing \in Clearing /\ pend' \in [Paths -> Counts]
    BY <1>8, NoPathsType DEF ClearFinish, NotClearing, Clearing
  <2> QED BY <1>8, <2>1 DEF ClearFinish, TypeOK
<1>9. CASE RegisterDir
  <2>0. /\ reg.anc \in Paths /\ NoRegistration \in Registration
        /\ [reg EXCEPT !.pc = "pending"] \in Registration
    BY PathFacts DEF TypeOK, Registration, NoRegistration
  <2>1. reg' \in Registration /\ UNCHANGED <<diskVars, open, clearing, calls>>
    BY <1>9, <2>0 DEF RegisterDir
  <2>2. CASE UNCHANGED <<kernelVars, tableVars, due, run, missed, tracked>>
    BY <2>1, <2>2 DEF TypeOK
  <2>3. CASE WatchOk(reg.anc) /\ tracked' = tracked \cup {reg.anc}
    BY <2>0, <2>1, <2>3, WatchOkType DEF TypeOK
  <2>4. CASE WatchFails(reg.anc) /\ UNCHANGED tracked
    BY <2>0, <2>1, <2>4, WatchFailsType DEF TypeOK
  <2> QED BY <1>9, <2>2, <2>3, <2>4 DEF RegisterDir
<1>10. CASE RegisterPending
  <2>0. /\ reg.anc \in Paths /\ reg.path \in Paths
        /\ NoRegistration \in Registration
    BY PathFacts DEF TypeOK, Registration, NoRegistration
  <2>1. pend' \in [Paths -> Counts]
    BY <1>10, <2>0, PendAdd DEF RegisterPending, TypeOK
  <2> QED BY <1>10, <2>0, <2>1 DEF RegisterPending, TypeOK
<1> QED BY <1>1, <1>2, <1>3, <1>4, <1>5, <1>6, <1>7, <1>8, <1>9, <1>10 DEF SessionStep

LEMMA ToldType ==
    ASSUME NEW k \in KernelKinds, NEW p \in Paths, NEW heard
    PROVE  Told(k, p, heard) \in Seq(Event)
<1>1. [kind |-> k, path |-> p] \in Event
  BY DEF Event
<1> QED BY <1>1 DEF Told

LEMMA ReportType ==
    ASSUME TypeOK, NEW p \in Paths, NEW k \in KernelKinds, NEW l \in KernelKinds,
           Report(p, k, l)
    PROVE  events' \in Seq(Event)
<1> DEFINE first == Told(k, p, Parent[p] \in armed)
           second == Told(l, p, p \in armed)
<1>1. first \in Seq(Event) /\ second \in Seq(Event) /\ events \in Seq(Event)
  BY ToldType DEF TypeOK
<1>2. events' = events \o first \o second
  BY DEF Report
<1> HIDE DEF first, second
<1> QED BY <1>1, <1>2

LEMMA DiskStepType == TypeOK /\ DiskStep => TypeOK'
<1> SUFFICES ASSUME TypeOK, NEW p \in Paths,
                    Modify(p) \/ Create(p) \/ Remove(p) \/ RenameAway(p) \/ Rewrite(p)
             PROVE  TypeOK'
  BY DEF DiskStep
<1>0. {"modified", "created", "deleted", "renamed", "deletedSelf"} \subseteq KernelKinds
  BY DEF Kinds, KernelKinds
<1>1. ASSUME Change(p)
      PROVE  diskOps' \in Nat /\ missed' \subseteq Paths
             /\ UNCHANGED <<tableVars, due, run, sessionVars, lost>>
  BY <1>1 DEF Change, TypeOK
<1>2. CASE Modify(p)
  BY <1>0, <1>1, <1>2, ReportType DEF Modify, TypeOK
<1>3. CASE Create(p)
  <2>1. events' \in Seq(Event)
    BY <1>0, <1>3, ToldType DEF Create, TypeOK
  <2> QED BY <1>1, <1>3, <2>1 DEF Create, TypeOK
<1>4. ASSUME Vanish(p), events' \in Seq(Event) PROVE TypeOK'
  BY <1>1, <1>4 DEF Vanish, TypeOK
<1>5. CASE Remove(p) \/ RenameAway(p)
  BY <1>0, <1>4, <1>5, ReportType DEF Remove, RenameAway
<1>6. CASE Rewrite(p)
  BY <1>0, <1>1, <1>6, ReportType DEF Rewrite, TypeOK
<1> QED BY <1>2, <1>3, <1>5, <1>6

LEMMA ReadType == TypeOK /\ FsnotifyRead => TypeOK'
<1> SUFFICES ASSUME TypeOK, FsnotifyRead PROVE TypeOK'
  OBVIOUS
<1> DEFINE e == Head(events)
<1>1. /\ events \in Seq(Event) /\ events # <<>> /\ e \in Event /\ e = events[1]
      /\ e.path \in Paths
  <2>1. events \in Seq(Event) /\ events # <<>>
    BY DEF FsnotifyRead, TypeOK
  <2>2. e \in Event /\ e = events[1]
    BY <2>1
  <2> QED BY <2>1, <2>2 DEF Event
<1>2. CASE Parent[e.path] \in armed \/ e.path \in armed
  <2>1. events' = Tail(events) /\ lost' = lost \cup ({e.path} \ armed)
    BY <1>2 DEF FsnotifyRead
  <2> QED BY <1>1, <2>1 DEF FsnotifyRead, TypeOK
<1>3. CASE ~(Parent[e.path] \in armed \/ e.path \in armed)
  <2>1. events' = [events EXCEPT ![1].kind = "deleted"] /\ lost' = lost
    BY <1>3 DEF FsnotifyRead
  <2>2. [events[1] EXCEPT !.kind = "deleted"] \in Event
    BY <1>1 DEF Event, Kinds, KernelKinds
  <2>3. events' \in Seq(Event)
    BY <1>1, <2>1, <2>2
  <2> QED BY <2>1, <2>3 DEF FsnotifyRead, TypeOK
<1> QED BY <1>2, <1>3

LEMMA RunStepType == TypeOK /\ RunStep => TypeOK'
<1> SUFFICES ASSUME TypeOK, RunStep PROVE TypeOK'
  OBVIOUS
<1>0. /\ run \in RunState /\ run.path \in Paths /\ run.cur \in Paths
      /\ Parent[run.path] \in Paths /\ run.todo \subseteq Paths
  BY PathFacts DEF TypeOK, RunState
<1>1. ASSUME NEW pc \in RunPcs, Goto(pc) PROVE run' \in RunState
  BY <1>0, <1>1, RunGoto DEF Goto
<1>2. ASSUME NEW p \in Paths, ReAdd(p) PROVE armed' \subseteq Paths /\ lost' \subseteq Paths
  BY <1>2 DEF ReAdd, TypeOK
<1>3. ASSUME NEW p \in Paths, Notify(p) PROVE missed' \subseteq Paths
  BY <1>3 DEF Notify, TypeOK
<1>4. AfterPark \in RunPcs
  BY DEF AfterPark, RunPcs
<1>5. ASSUME NEW a \in Paths, NEW left \in Counts, pend' = [pend EXCEPT ![a] = left]
      PROVE  pend' \in [Paths -> Counts]
  BY <1>5, PendEdit
<1>6. CASE RunTake
  <2>1. /\ Head(events) \in Event /\ Tail(events) \in Seq(Event)
    BY <1>6 DEF RunTake, TypeOK
  <2>2. PICK pc \in RunPcs :
            run' = [pc |-> pc, path |-> Head(events).path, kind |-> Head(events).kind,
                    todo |-> {}, cur |-> Head(events).path, stale |-> FALSE]
    BY <1>6, <2>1 DEF RunTake, RunPcs, Event, Kinds, KernelKinds
  <2>3. run' \in RunState
    <3>1. Head(events).path \in Paths /\ Head(events).kind \in Kinds
      BY <1>6, <2>1 DEF RunTake, Event, KernelKinds
    <3> QED BY <2>2, <3>1 DEF RunState
  <2> QED BY <1>6, <2>1, <2>3 DEF RunTake, TypeOK
<1>7. CASE RunStat
  BY <1>1, <1>7 DEF RunStat, RunPcs, TypeOK
<1>8. CASE RunReAdd
  BY <1>0, <1>1, <1>2, <1>8 DEF RunReAdd, RunPcs, TypeOK
<1>9. CASE RunPark
  <2>1. pend' \in [Paths -> Counts]
    BY <1>0, <1>9, PendAdd DEF RunPark
  <2> QED BY <1>0, <1>1, <1>9, <2>1 DEF RunPark, RunPcs, TypeOK
<1>10. CASE RunParkAdd
  BY <1>0, <1>1, <1>2, <1>10 DEF RunParkAdd, RunPcs, TypeOK
<1>11. CASE RunParkUndo
  <2> DEFINE a == Parent[run.path]
             left == [p \in Paths |-> IF Under(a, p) /\ ChildOf(a, p) = run.path
                                      THEN 0 ELSE pend[a][p]]
  <2>1. left \in Counts
    <3>1. pend[a] \in Counts
      BY <1>0, PendEdit, NoPathsType
    <3> QED BY <3>1 DEF Counts
  <2>2. \/ DropEntry(a)
        \/ pend' = [pend EXCEPT ![a] = left] /\ UNCHANGED <<entry, ref>>
    BY <1>11 DEF RunParkUndo
  <2>3. entry' \subseteq Paths /\ ref' \in Counts /\ pend' \in [Paths -> Counts]
    <3> HIDE DEF left
    <3> QED BY <1>0, <1>5, <2>1, <2>2, DropEntryType DEF TypeOK
  <2> QED BY <1>1, <1>4, <1>11, <2>3 DEF RunParkUndo, TypeOK
<1>12. CASE RunParkCheck
  BY <1>1, <1>4, <1>12 DEF RunParkCheck, RunPcs, TypeOK
<1>13. CASE RunParkReAdd
  BY <1>0, <1>1, <1>2, <1>13 DEF RunParkReAdd, RunPcs, TypeOK
<1>14. CASE RunParkClean
  <2> DEFINE a == Parent[run.path]
             left == [pend[a] EXCEPT ![run.path] = IF @ > 0 THEN @ - 1 ELSE 0]
  <2>1. left \in Counts
    <3>1. pend[a] \in Counts
      BY <1>0, PendEdit, NoPathsType
    <3> QED BY <1>0, <3>1 DEF Counts
  <2>2. \/ DropEntry(a) /\ due' = due \ {a} /\ Disarm(a)
        \/ pend' = [pend EXCEPT ![a] = left] /\ UNCHANGED <<entry, ref, due, watchList>>
    BY <1>14 DEF RunParkClean
  <2>3. /\ entry' \subseteq Paths /\ ref' \in Counts /\ pend' \in [Paths -> Counts]
        /\ due' \subseteq Paths /\ armed' \subseteq Paths /\ lost' \subseteq Paths
    <3> HIDE DEF left
    <3> QED BY <1>0, <1>5, <2>1, <2>2, DropEntryType DEF TypeOK
  <2> QED BY <1>1, <1>14, <2>3 DEF RunParkClean, RunPcs, TypeOK
<1>15. CASE RunParkTell
  BY <1>0, <1>1, <1>3, <1>15 DEF RunParkTell, RunPcs, TypeOK
<1>16. CASE RunPop
  <2> DEFINE a == Parent[run.path]
             popped == {p \in Pending(a) : Under(a, p) /\ ChildOf(a, p) = run.path}
             left == [p \in Paths |-> IF p \in popped THEN 0 ELSE pend[a][p]]
  <2>1. left \in Counts /\ popped \subseteq Paths
    <3>1. pend[a] \in Counts
      BY <1>0, PendEdit, NoPathsType
    <3> QED BY <3>1 DEF Counts, Pending
  <2>2. \/ DropEntry(a) /\ due' = due \ {a} /\ Disarm(a)
        \/ pend' = [pend EXCEPT ![a] = left] /\ UNCHANGED <<entry, ref, due, watchList>>
    BY <1>16 DEF RunPop
  <2>3. /\ entry' \subseteq Paths /\ ref' \in Counts /\ pend' \in [Paths -> Counts]
        /\ due' \subseteq Paths /\ armed' \subseteq Paths /\ lost' \subseteq Paths
    <3> HIDE DEF left
    <3> QED BY <1>0, <1>5, <2>1, <2>2, DropEntryType DEF TypeOK
  <2>4. run' \in RunState
    <3>1. run' = [run EXCEPT !.pc = "recheck", !.todo = IF a \in entry THEN popped ELSE {}]
      BY <1>16 DEF RunPop
    <3>2. "recheck" \in RunPcs
      BY DEF RunPcs
    <3> HIDE DEF popped
    <3> QED BY <1>0, <2>1, <3>1, <3>2, RunCollect
  <2> QED BY <1>16, <2>3, <2>4 DEF RunPop, TypeOK
<1>17. CASE RunRecheck
  <2>1. run' \in RunState
    <3>1. CASE Goto("emit")
      BY <1>1, <3>1 DEF RunPcs
    <3>2. ASSUME NEW p \in run.todo, NEW pc \in RunPcs,
                 run' = [run EXCEPT !.pc = pc, !.todo = @ \ {p}, !.cur = p]
          PROVE  run' \in RunState
      BY <1>0, <3>2 DEF RunState
    <3> QED BY <1>17, <3>1, <3>2, Zenon DEF RunRecheck, RunPcs
  <2>2. UNCHANGED <<runOnly, watchList, missed>>
    BY <1>17 DEF RunRecheck
  <2> QED BY <2>1, <2>2 DEF TypeOK, runOnly
<1>18. CASE RunPopAdd
  BY <1>0, <1>1, <1>2, <1>18 DEF RunPopAdd, RunPcs, TypeOK
<1>19. CASE RunPopTell
  BY <1>0, <1>1, <1>3, <1>19 DEF RunPopTell, RunPcs, TypeOK
<1>20. CASE RunEmit
  <2> DEFINE dest == IF isDirectlyWatched(run.path) THEN run.path ELSE Parent[run.path]
  <2>1. dest \in Paths /\ "tell" \in RunPcs /\ "idle" \in RunPcs
    BY <1>0 DEF RunPcs
  <2>2. \/ run' = [run EXCEPT !.pc = "tell", !.cur = dest] /\ UNCHANGED due
        \/ due' = due \cup {dest} /\ Goto("idle")
        \/ Goto("idle") /\ UNCHANGED due
    BY <1>20 DEF RunEmit
  <2>3. run' \in RunState /\ due' \subseteq Paths
    <3> HIDE DEF dest
    <3>1. Goto("idle") => run' \in RunState
      BY <1>1, <2>1
    <3>2. [run EXCEPT !.pc = "tell", !.cur = dest] \in RunState
      BY <1>0, <2>1, RunPick
    <3> QED BY <2>1, <2>2, <3>1, <3>2 DEF TypeOK
  <2> QED BY <1>20, <2>3 DEF RunEmit, TypeOK
<1>21. CASE RunTell
  BY <1>0, <1>1, <1>3, <1>21 DEF RunTell, RunPcs, TypeOK
<1> QED BY <1>6, <1>7, <1>8, <1>9, <1>10, <1>11, <1>12, <1>13, <1>14, <1>15, <1>16,
           <1>17, <1>18, <1>19, <1>20, <1>21 DEF RunStep

LEMMA StepType == TypeOK /\ [Next]_vars => TypeOK'
<1> SUFFICES ASSUME TypeOK, [Next]_vars PROVE TypeOK'
  OBVIOUS
<1>1. ASSUME NEW p \in Paths, DebounceFire(p) PROVE TypeOK'
  BY <1>1 DEF DebounceFire, Notify, TypeOK
<1>2. CASE UNCHANGED vars
  BY <1>2 DEF TypeOK
<1> QED BY <1>1, <1>2, SessionStepType, DiskStepType, ReadType, RunStepType DEF Next

\* Every variable keeps its type, for every tree and every bound.
THEOREM TypeCorrect == Spec => []TypeOK
BY InitType, StepType, PTL DEF Spec

-----------------------------------------------------------------------------
(***************************************************************************)
(* RefsMatchSession.  It is not inductive alone: releasing a count needs    *)
(* the path's entry to be in the map, and the end of ClearCacheState, which *)
(* empties the session's table at once, needs every count to be released    *)
(* by then, so all counted paths must still be on its list.                *)
(***************************************************************************)
CountedOnce == \A p \in Paths : ref[p] <= 1
CountedIsTracked == \A p \in Paths : ref[p] > 0 => p \in tracked /\ p \in entry
ClearingCoversCounts ==
    /\ clearing.left # {} => clearing.on
    /\ clearing.on => \A p \in Paths : ref[p] > 0 => p \in clearing.left

RefInv == TypeOK /\ CountedOnce /\ CountedIsTracked /\ ClearingCoversCounts

LEMMA RefInit == Init => RefInv
<1> SUFFICES ASSUME Init PROVE RefInv
  OBVIOUS
<1>1. \A p \in Paths : ref[p] = 0
  BY DEF Init, NoPaths
<1>2. clearing.on = FALSE /\ clearing.left = {}
  BY DEF Init, NotClearing
<1> QED BY <1>1, <1>2, InitType DEF RefInv, CountedOnce, CountedIsTracked, ClearingCoversCounts

\* A step that only lowers counts, keeps counted entries and leaves the session alone.
LEMMA LoweringKeepsRefInv ==
    ASSUME RefInv, TypeOK', UNCHANGED <<tracked, clearing>>,
           \A p \in Paths : \/ ref'[p] = 0
                            \/ ref'[p] = ref[p] /\ (p \in entry => p \in entry')
    PROVE  RefInv'
<1>1. \A p \in Paths : ref[p] \in Nat /\ ref'[p] \in Nat
  BY DEF RefInv, TypeOK, Counts
<1> QED BY <1>1 DEF RefInv, CountedOnce, CountedIsTracked, ClearingCoversCounts

LEMMA DropLowers ==
    ASSUME TypeOK, NEW a \in Paths, DropEntry(a)
    PROVE  \A p \in Paths : \/ ref'[p] = 0
                            \/ ref'[p] = ref[p] /\ (p \in entry => p \in entry')
BY DEF TypeOK, Counts, DropEntry

\* Watching a path that has no count yet gives it one.
LEMMA WatchOkKeepsRefInv ==
    ASSUME RefInv, TypeOK', NEW a \in Paths, a \notin tracked, ~clearing.on,
           WatchOk(a), tracked' = tracked \cup {a}, UNCHANGED clearing
    PROVE  RefInv'
<1>1. ref[a] = 0 /\ ref \in [Paths -> Nat]
  BY DEF RefInv, CountedIsTracked, TypeOK, Counts
<1>2. /\ ref'[a] = 1 /\ a \in entry' /\ a \in tracked'
      /\ \A p \in Paths \ {a} : ref'[p] = ref[p]
      /\ entry \subseteq entry' /\ tracked \subseteq tracked'
  BY <1>1 DEF WatchOk
<1> QED BY <1>2 DEF RefInv, CountedOnce, CountedIsTracked, ClearingCoversCounts

LEMMA WatchFailsKeepsRefInv ==
    ASSUME RefInv, TypeOK', NEW a \in Paths, WatchFails(a), UNCHANGED <<tracked, clearing>>
    PROVE  RefInv'
BY DropLowers, LoweringKeepsRefInv DEF WatchFails, RefInv

\* Under RefInv, Watcher.Unwatch leaves no count on its path.
LEMMA UnwatchLowers ==
    ASSUME RefInv, NEW a \in Paths, WatcherUnwatch(a)
    PROVE  /\ ref'[a] = 0
           /\ \A p \in Paths : \/ ref'[p] = 0
                               \/ ref'[p] = ref[p] /\ (p \in entry => p \in entry')
<1>1. ref \in [Paths -> Nat] /\ ref[a] <= 1 /\ (ref[a] > 0 => a \in entry)
  BY DEF RefInv, TypeOK, Counts, CountedOnce, CountedIsTracked
<1>2. CASE ~isDirectlyWatched(a)
  BY <1>1, <1>2 DEF WatcherUnwatch, isDirectlyWatched
<1>3. CASE isDirectlyWatched(a) /\ ref[a] = 1 /\ Pending(a) = {}
  <2>1. DropEntry(a)
    BY <1>3 DEF WatcherUnwatch
  <2> QED BY <1>1, <2>1 DEF DropEntry
<1>4. CASE isDirectlyWatched(a) /\ ~(ref[a] = 1 /\ Pending(a) = {})
  <2>1. ref' = [ref EXCEPT ![a] = @ - 1] /\ entry' = entry
    BY <1>4 DEF WatcherUnwatch
  <2>2. ref[a] = 1
    BY <1>1, <1>4 DEF isDirectlyWatched
  <2> QED BY <1>1, <2>1, <2>2
<1> QED BY <1>2, <1>3, <1>4

\* Unwatching and forgetting a path.
LEMMA ReleaseKeepsRefInv ==
    ASSUME RefInv, TypeOK', NEW a \in Paths, WatcherUnwatch(a), UNCHANGED clearing,
           tracked' = tracked \/ tracked' = tracked \ {a}
    PROVE  RefInv'
<1>1. \A p \in Paths : ref[p] \in Nat /\ ref'[p] \in Nat
  BY DEF RefInv, TypeOK, Counts
<1> QED BY <1>1, UnwatchLowers DEF RefInv, CountedOnce, CountedIsTracked, ClearingCoversCounts

LEMMA SessionKeepsRefInv == RefInv /\ SessionStep => RefInv'
<1> SUFFICES ASSUME RefInv, SessionStep PROVE RefInv'
  OBVIOUS
<1>0. TypeOK /\ TypeOK'
  BY SessionStepType DEF RefInv
<1>1. ASSUME NEW p \in Paths, Watch(p) PROVE RefInv'
  <2>1. CASE WatchOk(p) /\ tracked' = tracked \cup {p}
    BY <1>0, <1>1, <2>1, WatchOkKeepsRefInv DEF Watch, Call
  <2>2. CASE WatchFails(p) /\ UNCHANGED tracked
    BY <1>0, <1>1, <2>2, WatchFailsKeepsRefInv DEF Watch
  <2> QED BY <1>1, <2>1, <2>2 DEF Watch
<1>2. ASSUME NEW p \in Paths, OpenFile(p) PROVE RefInv'
  <2>1. CASE UNCHANGED <<kernelVars, tableVars, due, run, missed, tracked>>
    BY <1>0, <1>2, <2>1, LoweringKeepsRefInv DEF OpenFile
  <2>2. CASE p \notin tracked /\ WatchOk(p) /\ tracked' = tracked \cup {p}
    BY <1>0, <1>2, <2>2, WatchOkKeepsRefInv DEF OpenFile, Call
  <2>3. CASE WatchFails(p) /\ UNCHANGED tracked
    BY <1>0, <1>2, <2>3, WatchFailsKeepsRefInv DEF OpenFile
  <2> QED BY <1>2, <2>1, <2>2, <2>3 DEF OpenFile
<1>3. ASSUME NEW p \in Paths, Unwatch(p) PROVE RefInv'
  BY <1>0, <1>3, ReleaseKeepsRefInv DEF Unwatch
<1>4. ASSUME NEW p \in Paths, CloseFile(p) PROVE RefInv'
  <2>1. CASE UNCHANGED <<kernelVars, tableVars, due, run, missed, tracked>>
    BY <1>0, <1>4, <2>1, LoweringKeepsRefInv DEF CloseFile
  <2>2. CASE /\ p \in tracked /\ WatcherUnwatch(p)
             /\ tracked' = IF UnwatchFails(p) THEN tracked ELSE tracked \ {p}
    BY <1>0, <1>4, <2>2, ReleaseKeepsRefInv DEF CloseFile
  <2> QED BY <1>4, <2>1, <2>2 DEF CloseFile
<1>5. ASSUME NEW p \in Paths, RegisterStart(p) PROVE RefInv'
  BY <1>0, <1>5, LoweringKeepsRefInv DEF RegisterStart
<1>6. ASSUME NEW p \in Paths, ClearOne(p) PROVE RefInv'
  <2>1. /\ clearing.on /\ clearing'.on = clearing.on
        /\ clearing'.left = clearing.left \ {p}
    BY <1>0, <1>6 DEF ClearOne, RefInv, ClearingCoversCounts, TypeOK, Clearing
  <2>2. \A q \in Paths : ref[q] \in Nat /\ ref'[q] \in Nat
    BY <1>0 DEF TypeOK, Counts
  <2>3. tracked' = tracked /\ WatcherUnwatch(p)
    BY <1>6 DEF ClearOne
  <2> QED BY <1>0, <2>1, <2>2, <2>3, UnwatchLowers
             DEF RefInv, CountedOnce, CountedIsTracked, ClearingCoversCounts
<1>7. CASE ClearStart
  BY <1>0, <1>7 DEF ClearStart, RefInv, CountedOnce, CountedIsTracked, ClearingCoversCounts
<1>8. CASE ClearFinish
  <2>1. \A p \in Paths : ref[p] = 0
    BY <1>0, <1>8 DEF ClearFinish, RefInv, ClearingCoversCounts, TypeOK, Counts
  <2>2. ref' = ref /\ clearing'.on = FALSE /\ clearing'.left = {}
    BY <1>8 DEF ClearFinish, NotClearing
  <2> QED BY <1>0, <2>1, <2>2 DEF RefInv, CountedOnce, CountedIsTracked, ClearingCoversCounts
<1>9. CASE RegisterDir
  <2>0. reg.anc \in Paths
    BY <1>0 DEF TypeOK, Registration
  <2>1. CASE UNCHANGED <<kernelVars, tableVars, due, run, missed, tracked>>
    BY <1>0, <1>9, <2>1, LoweringKeepsRefInv DEF RegisterDir
  <2>2. CASE reg.anc \notin tracked /\ WatchOk(reg.anc) /\ tracked' = tracked \cup {reg.anc}
    BY <1>0, <1>9, <2>0, <2>2, WatchOkKeepsRefInv DEF RegisterDir
  <2>3. CASE WatchFails(reg.anc) /\ UNCHANGED tracked
    BY <1>0, <1>9, <2>0, <2>3, WatchFailsKeepsRefInv DEF RegisterDir
  <2> QED BY <1>9, <2>1, <2>2, <2>3 DEF RegisterDir
<1>10. CASE RegisterPending
  BY <1>0, <1>10, LoweringKeepsRefInv DEF RegisterPending
<1> QED BY <1>1, <1>2, <1>3, <1>4, <1>5, <1>6, <1>7, <1>8, <1>9, <1>10 DEF SessionStep

\* Neither the machine nor a timer touches a count.
LEMMA DiskKeepsRefInv == RefInv /\ DiskStep => RefInv'
<1> SUFFICES ASSUME RefInv, DiskStep PROVE RefInv'
  OBVIOUS
<1>1. TypeOK'
  BY DiskStepType DEF RefInv
<1>2. UNCHANGED <<ref, entry, tracked, clearing>>
  BY DEF DiskStep, Modify, Create, Remove, RenameAway, Vanish, Rewrite, Change
<1> QED BY <1>1, <1>2, LoweringKeepsRefInv

LEMMA ReadKeepsRefInv == RefInv /\ FsnotifyRead => RefInv'
<1> SUFFICES ASSUME RefInv, FsnotifyRead PROVE RefInv'
  OBVIOUS
<1>1. TypeOK' /\ UNCHANGED <<ref, entry, tracked, clearing>>
  BY ReadType DEF RefInv, FsnotifyRead
<1> QED BY <1>1, LoweringKeepsRefInv

\* The run goroutine only drops entries, with their counts, or lists pending paths.
LEMMA RunKeepsRefInv == RefInv /\ RunStep => RefInv'
<1> SUFFICES ASSUME RefInv, RunStep PROVE RefInv'
  OBVIOUS
<1>0. TypeOK /\ TypeOK' /\ Parent[run.path] \in Paths
  <2>1. TypeOK /\ TypeOK'
    BY RunStepType DEF RefInv
  <2>2. run.path \in Paths
    BY <2>1 DEF TypeOK, RunState
  <2> QED BY <2>1, <2>2, PathFacts
<1>1. UNCHANGED <<tracked, clearing>>
  BY Zenon DEF RunStep, RunTake, RunStat, RunReAdd, RunPark, RunParkAdd, RunParkUndo, RunParkCheck,
     RunParkReAdd, RunParkClean, RunParkTell, RunPop, RunRecheck, RunPopAdd, RunPopTell,
     RunEmit, RunTell
<1>2. \/ DropEntry(Parent[run.path])
      \/ ref' = ref /\ entry \subseteq entry'
  BY Zenon DEF RunStep, RunTake, RunStat, RunReAdd, RunPark, RunParkAdd, RunParkUndo, RunParkCheck,
     RunParkReAdd, RunParkClean, RunParkTell, RunPop, RunRecheck, RunPopAdd, RunPopTell,
     RunEmit, RunTell
<1> QED BY <1>0, <1>1, <1>2, DropLowers, LoweringKeepsRefInv

LEMMA RefStep == RefInv /\ [Next]_vars => RefInv'
<1> SUFFICES ASSUME RefInv, [Next]_vars PROVE RefInv'
  OBVIOUS
<1>1. TypeOK'
  BY StepType DEF RefInv
<1>2. ASSUME NEW p \in Paths, DebounceFire(p) PROVE RefInv'
  BY <1>1, <1>2, LoweringKeepsRefInv DEF DebounceFire
<1>3. CASE UNCHANGED vars
  BY <1>1, <1>3, LoweringKeepsRefInv
<1> QED BY <1>2, <1>3, SessionKeepsRefInv, DiskKeepsRefInv, ReadKeepsRefInv, RunKeepsRefInv
           DEF Next

\* For every tree and every bound: a path is counted at most once, and only
\* while the session's table lists it.
THEOREM CountsAgree == Spec => []RefsMatchSession
<1>1. RefInv => RefsMatchSession
  BY DEF RefInv, CountedOnce, CountedIsTracked, RefsMatchSession
<1> QED BY <1>1, RefInit, RefStep, PTL DEF Spec

-----------------------------------------------------------------------------
(***************************************************************************)
(* LiveEntriesArmed and FileChangesReported say something of quiet states   *)
(* only.  In between, an entry that is not on the kernel's list is being    *)
(* put there: a directory by the parking that made its entry, a file by the *)
(* removal event of its rewrite, queued or at its first steps.  In the same *)
(* way an unreported change has an event queued or handled, or a timer.  An *)
(* event that fsnotify may still drop counts only while its path is not     *)
(* armed: then the path is lost with the event.                             *)
(***************************************************************************)
SeenOrGone == disk \cup removed = Paths

Owners ==
    /\ reg.anc \in Dirs
    /\ \A a \in Paths, p \in Paths : pend[a][p] > 0 => a \in entry \cap Dirs

Parking(a) == run.pc = "parkAdd" /\ Parent[run.path] = a

Queued(p) ==
    \E k \in 1..Len(events) : /\ events[k].path = p
                              /\ events[k].kind = "deletedSelf" => p \notin armed

Disarmed(p) ==
    \/ \E k \in 1..Len(events) : /\ events[k].path = p
                                 /\ events[k].kind \in {"deleted", "deletedSelf"}
    \/ run.path = p /\ run.pc \in {"stat", "readd"}

OnItsWay(p) ==
    \/ Queued(p)
    \/ run.path = p /\ run.pc \in {"stat", "readd", "pop", "recheck", "popAdd", "popTell", "emit",
                                  "parkReadd", "parkClean", "parkTell"}
    \/ run.cur = p /\ run.pc \in {"popAdd", "popTell", "tell"}
    \/ p \in due

DirsArmed == \A a \in (entry \cap Dirs) \ removed : a \in armed \/ Parking(a)
FilesArmed == \A p \in Files \ removed : isDirectlyWatched(p) => p \in armed \cup lost \/ Disarmed(p)
Unreported(p) == isDirectlyWatched(p) /\ p \in missed
Reporting == \A p \in Files \ removed : Unreported(p) => p \in lost \/ OnItsWay(p)

WatchInv == RefInv /\ SeenOrGone /\ Owners /\ DirsArmed /\ FilesArmed /\ Reporting

LEMMA WatchInit == Init => WatchInv
<1> SUFFICES ASSUME Init PROVE WatchInv
  OBVIOUS
<1>1. SeenOrGone
  BY DEF Init, SeenOrGone
<1>2. Owners
  BY TreeAssumption DEF Init, Owners, NoRegistration, NoPaths
<1>3. DirsArmed /\ FilesArmed /\ Reporting
  BY DEF Init, DirsArmed, FilesArmed, Reporting, Unreported, isDirectlyWatched
<1> QED BY <1>1, <1>2, <1>3, RefInit DEF WatchInv

\* What calls and the run goroutine may do to the tables ...
Careful ==
    /\ UNCHANGED <<disk, removed>>
    /\ \A p \in Paths : p \in entry' => p \in entry \/ p \in armed' \/ Parking(p)'
    /\ \A p \in Paths : p \in entry' /\ p \in armed => p \in armed'
    /\ \A p \in Files : isDirectlyWatched(p)' => isDirectlyWatched(p) \/ p \in armed'
    /\ \A p \in Files : isDirectlyWatched(p)' /\ p \in lost => p \in lost' \cup armed'
    /\ \A p \in Files : Unreported(p)' => Unreported(p)

\* ... and to what is on its way.
Onward ==
    /\ \A a \in Paths : Parking(a) => Parking(a)' \/ a \in armed' \cup removed
    /\ \A p \in Files : isDirectlyWatched(p) /\ Disarmed(p)
                            => Disarmed(p)' \/ p \in armed' \cup removed \cup lost'
    /\ \A p \in Files : Unreported(p) /\ (OnItsWay(p) \/ p \in lost) /\ Unreported(p)'
                            => OnItsWay(p)' \/ p \in removed \cup lost'

LEMMA CarefulKeeps ==
    ASSUME WatchInv, RefInv', Careful, Onward, Owners'
    PROVE  WatchInv'
<1>1. DirsArmed'
  <2> SUFFICES ASSUME NEW a \in Dirs, a \in entry', a \notin removed'
               PROVE  a \in armed' \/ Parking(a)'
    BY DEF DirsArmed
  <2>1. a \in Paths /\ removed' = removed
    BY PathFacts DEF Careful
  <2>2. CASE a \in entry
    BY <2>1, <2>2 DEF WatchInv, DirsArmed, Careful, Onward
  <2>3. CASE a \notin entry
    BY <2>1, <2>3 DEF Careful
  <2> QED BY <2>2, <2>3
<1>2. FilesArmed'
  BY DEF WatchInv, FilesArmed, Careful, Onward, Files, isDirectlyWatched
<1>3. Reporting'
  BY DEF WatchInv, Reporting, Careful, Onward, Files
<1>4. SeenOrGone'
  BY DEF WatchInv, SeenOrGone, Careful
<1> QED BY <1>1, <1>2, <1>3, <1>4 DEF WatchInv

\* The Watcher's calls.
TablesKept ==
    /\ \A p \in Paths : p \in entry' => p \in entry \/ p \in armed'
    /\ \A p \in Paths : p \in entry' /\ p \in armed => p \in armed'
    /\ \A p \in Files : isDirectlyWatched(p)' => isDirectlyWatched(p) \/ p \in armed'
    /\ \A p \in Files : isDirectlyWatched(p)' /\ p \in lost => p \in lost' \cup armed'
    /\ \A p \in Files : Unreported(p)' => /\ Unreported(p)
                                          /\ p \in armed' => p \in armed
                                          /\ p \in lost => p \in lost'
    /\ \A p \in due : p \in entry' => p \in due'
    /\ run'.pc = run.pc /\ run'.path = run.path /\ run'.cur = run.cur
    /\ events' = events
    /\ \A a \in Paths, p \in Paths : pend'[a][p] > 0 => pend[a][p] > 0 /\ (a \in entry => a \in entry')

LEMMA UsedHasEntry ==
    ASSUME WatchInv, NEW p \in Paths, ~Unused(p)
    PROVE  p \in entry /\ (p \in Files => isDirectlyWatched(p))
<1>1. ref[p] \in Nat /\ (ref[p] > 0 => p \in entry)
  BY DEF WatchInv, RefInv, TypeOK, Counts, CountedIsTracked
<1>2. CASE ref[p] = 0
  <2>1. PICK q \in Paths : pend[p][q] > 0
    BY <1>2 DEF Unused, Pending
  <2> QED BY <2>1 DEF WatchInv, Owners, Files
<1>3. CASE ref[p] > 0
  BY <1>1, <1>3 DEF isDirectlyWatched
<1> QED BY <1>1, <1>2, <1>3

LEMMA WatchOkCareful ==
    ASSUME WatchInv, NEW a \in Paths, WatchOk(a)
    PROVE  TablesKept
<1>1. /\ ref \in [Paths -> Nat]
      /\ ref' = [ref EXCEPT ![a] = @ + 1]
      /\ entry' = entry \cup {a} /\ missed' = missed \ {a}
      /\ armed \subseteq armed' /\ (Unused(a) => a \in armed')
      /\ armed' \subseteq armed \cup {a} /\ lost \subseteq lost' \cup {a}
      /\ (a \in lost => a \in lost' \cup armed')
      /\ UNCHANGED <<pend, due, run, events>>
  BY DEF WatchOk, WatchInv, RefInv, TypeOK, Counts
<1>2. a \in armed' \/ (a \in entry /\ (a \in Files => isDirectlyWatched(a)))
  BY <1>1, UsedHasEntry
<1>3. \A p \in Paths \ {a} : (isDirectlyWatched(p)' <=> isDirectlyWatched(p))
  BY <1>1 DEF isDirectlyWatched
<1>4. \A p \in Files : isDirectlyWatched(p)' => isDirectlyWatched(p) \/ p \in armed'
  BY <1>2, <1>3 DEF Files
<1>5. \A p \in Files : Unreported(p)' => Unreported(p) /\ p # a
  BY <1>1, <1>3 DEF Files, Unreported
<1> QED BY <1>1, <1>2, <1>4, <1>5 DEF TablesKept

LEMMA DropCareful ==
    ASSUME TypeOK, NEW a \in Paths, DropEntry(a)
    PROVE  /\ entry' = entry \ {a}
           /\ \A p \in Paths : isDirectlyWatched(p)' => isDirectlyWatched(p) /\ p # a
           /\ \A b \in Paths, p \in Paths :
                 pend'[b][p] > 0 => pend[b][p] > 0 /\ (b \in entry => b \in entry')
<1>1. \A p \in Paths : isDirectlyWatched(p)' => isDirectlyWatched(p) /\ p # a
  BY DEF TypeOK, Counts, DropEntry, isDirectlyWatched
<1>2. ASSUME NEW b \in Paths, NEW p \in Paths, pend'[b][p] > 0
      PROVE  pend[b][p] > 0 /\ b # a
  BY <1>2 DEF TypeOK, Counts, DropEntry, NoPaths
<1> QED BY <1>1, <1>2 DEF DropEntry

LEMMA OrphanKeeps ==
    ASSUME TypeOK, NEW a, Orphan(a)
    PROVE  run'.pc = run.pc /\ run'.path = run.path /\ run'.cur = run.cur
BY DEF TypeOK, RunState, Orphan

LEMMA WatchFailsCareful ==
    ASSUME WatchInv, NEW a \in Paths, WatchFails(a)
    PROVE  TablesKept
<1>1. TypeOK /\ DropEntry(a) /\ Orphan(a) /\ UNCHANGED <<kernelVars, due, missed>>
  BY DEF WatchFails, WatchInv, RefInv
<1> QED BY <1>1, DropCareful, OrphanKeeps DEF TablesKept, Unreported, Files

LEMMA UnwatchCareful ==
    ASSUME WatchInv, NEW a \in Paths, WatcherUnwatch(a)
    PROVE  TablesKept
<1>0. TypeOK /\ ref \in [Paths -> Nat] /\ UNCHANGED <<events, missed>>
  BY DEF WatcherUnwatch, WatchInv, RefInv, TypeOK, Counts
<1>1. CASE ~isDirectlyWatched(a)
  BY <1>0, <1>1 DEF WatcherUnwatch, TablesKept, isDirectlyWatched, Unreported
<1>2. CASE isDirectlyWatched(a) /\ ref[a] = 1 /\ Pending(a) = {}
  <2>1. DropEntry(a) /\ Orphan(a) /\ due' = due \ {a} /\ Disarm(a)
    BY <1>2 DEF WatcherUnwatch
  <2> QED BY <1>0, <2>1, DropCareful, OrphanKeeps DEF TablesKept, Unreported, Files
<1>3. CASE isDirectlyWatched(a) /\ ~(ref[a] = 1 /\ Pending(a) = {})
  <2>1. ref' = [ref EXCEPT ![a] = @ - 1] /\ UNCHANGED <<entry, pend, due, watchList, run>>
    BY <1>3 DEF WatcherUnwatch
  <2>2. \A p \in Paths : isDirectlyWatched(p)' => isDirectlyWatched(p)
    BY <1>0, <1>3, <2>1 DEF isDirectlyWatched
  <2> QED BY <1>0, <2>1, <2>2 DEF TablesKept, Unreported, Files
<1> QED BY <1>1, <1>2, <1>3

LEMMA CallKeeps ==
    ASSUME WatchInv, RefInv', TablesKept, UNCHANGED <<disk, removed>>, reg'.anc \in Dirs
    PROVE  WatchInv'
<1>1. Careful
  <2>1. \A p \in Files : Unreported(p)' => Unreported(p)
    BY DEF TablesKept
  <2> QED BY <2>1 DEF TablesKept, Careful
<1>2. Owners'
  BY DEF TablesKept, WatchInv, Owners
<1>3. \A p \in Files : /\ Disarmed(p) => Disarmed(p)'
                       /\ OnItsWay(p) /\ Unreported(p)' => OnItsWay(p)'
                       /\ p \in lost /\ Unreported(p)' => p \in lost'
  <2>1. \A p \in Files : Disarmed(p) => Disarmed(p)'
    BY DEF TablesKept, Disarmed
  <2>2. \A p \in Files : Unreported(p)' =>
            /\ Queued(p) => Queued(p)'
            /\ p \in due => p \in due'
            /\ p \in lost => p \in lost'
    BY DEF TablesKept, Queued, Unreported, isDirectlyWatched
  <2> QED BY <2>1, <2>2 DEF TablesKept, OnItsWay
<1>4. \A a \in Paths : Parking(a) => Parking(a)'
  BY DEF TablesKept, Parking
<1> QED BY <1>1, <1>2, <1>3, <1>4, CarefulKeeps DEF Onward

LEMMA NothingWatched ==
    ASSUME UNCHANGED <<kernelVars, tableVars, due, run, missed>>
    PROVE  TablesKept
BY DEF TablesKept, Unreported, isDirectlyWatched

LEMMA SessionKeepsWatchInv == WatchInv /\ SessionStep => WatchInv'
<1> SUFFICES ASSUME WatchInv, SessionStep PROVE WatchInv'
  OBVIOUS
<1>0. RefInv' /\ reg.anc \in Dirs /\ reg.anc \in Paths /\ TypeOK
  BY SessionKeepsRefInv, PathFacts DEF WatchInv, Owners, RefInv
<1>1. ASSUME NEW p \in Paths, Watch(p) PROVE WatchInv'
  BY <1>0, <1>1, WatchOkCareful, WatchFailsCareful, CallKeeps DEF Watch
<1>2. ASSUME NEW p \in Paths, OpenFile(p) PROVE WatchInv'
  BY <1>0, <1>2, WatchOkCareful, WatchFailsCareful, NothingWatched, CallKeeps DEF OpenFile
<1>3. ASSUME NEW p \in Paths, Unwatch(p) PROVE WatchInv'
  BY <1>0, <1>3, UnwatchCareful, CallKeeps DEF Unwatch
<1>4. ASSUME NEW p \in Paths, CloseFile(p) PROVE WatchInv'
  BY <1>0, <1>4, UnwatchCareful, NothingWatched, CallKeeps DEF CloseFile
<1>5. ASSUME NEW p \in Paths, RegisterStart(p) PROVE WatchInv'
  <2>1. reg'.anc \in Dirs
    BY <1>5 DEF RegisterStart
  <2> QED BY <1>0, <1>5, <2>1, NothingWatched, CallKeeps DEF RegisterStart
<1>6. ASSUME NEW p \in Paths, ClearOne(p) PROVE WatchInv'
  BY <1>0, <1>6, UnwatchCareful, CallKeeps DEF ClearOne
<1>7. CASE ClearStart
  BY <1>0, <1>7, NothingWatched, CallKeeps DEF ClearStart
<1>8. CASE ClearFinish
  <2>1. \A a \in Paths, p \in Paths : ~(pend'[a][p] > 0)
    BY <1>8 DEF ClearFinish, NoPaths
  <2>2. UNCHANGED <<kernelVars, entry, ref, due, run, missed>>
    BY <1>8 DEF ClearFinish
  <2>3. TablesKept
    BY <2>1, <2>2 DEF TablesKept, Unreported, isDirectlyWatched
  <2> QED BY <1>0, <1>8, <2>3, CallKeeps DEF ClearFinish
<1>9. CASE RegisterDir
  <2>1. reg'.anc \in Dirs
    BY <1>0, <1>9, TreeAssumption DEF RegisterDir, NoRegistration, TypeOK, Registration
  <2>2. TablesKept
    BY <1>0, <1>9, WatchOkCareful, WatchFailsCareful, NothingWatched DEF RegisterDir
  <2> QED BY <1>0, <1>9, <2>1, <2>2, CallKeeps DEF RegisterDir
<1>10. CASE RegisterPending
  <2>1. UNCHANGED <<diskVars, kernelVars, entry, ref, due, run, missed>> /\ reg'.anc \in Dirs
    BY <1>10, TreeAssumption DEF RegisterPending, NoRegistration
  <2>2. Careful /\ Onward
    BY <2>1 DEF Careful, Onward, Unreported, isDirectlyWatched, Parking, Disarmed, OnItsWay, Queued
  <2>3. \A a \in Paths, p \in Paths :
          pend'[a][p] > 0 => pend[a][p] > 0 \/ (a = reg.anc /\ a \in entry)
    BY <1>0, <1>10 DEF RegisterPending, TypeOK, Counts
  <2>4. Owners'
    BY <1>0, <2>1, <2>3 DEF WatchInv, Owners
  <2> QED BY <1>0, <2>2, <2>4, CarefulKeeps
<1> QED BY <1>1, <1>2, <1>3, <1>4, <1>5, <1>6, <1>7, <1>8, <1>9, <1>10 DEF SessionStep

\* The machine.  Its events are appended to the queue, which loses nothing.
Longer == Len(events) <= Len(events') /\ \A k \in 1..Len(events) : events'[k] = events[k]

LEMMA Lengthened ==
    ASSUME NEW S, NEW s \in Seq(S), NEW t \in Seq(S)
    PROVE  /\ s \o t \in Seq(S) /\ Len(s \o t) = Len(s) + Len(t)
           /\ Len(s) \in Nat /\ Len(t) \in Nat
           /\ \A k \in 1..Len(s) : (s \o t)[k] = s[k]
           /\ \A k \in 1..Len(t) : (s \o t)[Len(s) + k] = t[k]
OBVIOUS

LEMMA Reported ==
    ASSUME TypeOK, NEW p \in Paths, NEW k \in KernelKinds, NEW l \in KernelKinds,
           Report(p, k, l)
    PROVE  /\ Longer
           /\ p \in armed => \E n \in 1..Len(events') : /\ events'[n].path = p
                                                        /\ events'[n].kind = l
<1> DEFINE first == events \o Told(k, p, Parent[p] \in armed)
           own == Told(l, p, p \in armed)
<1>1. events \in Seq(Event) /\ Told(k, p, Parent[p] \in armed) \in Seq(Event)
  BY ToldType DEF TypeOK
<1>2. /\ first \in Seq(Event) /\ Len(events) \in Nat /\ Len(first) \in Nat
      /\ Len(events) <= Len(first) /\ \A n \in 1..Len(events) : first[n] = events[n]
  BY <1>1, Lengthened
<1>3. own \in Seq(Event) /\ events' = first \o own
  BY ToldType DEF Report
<1>4. p \in armed => own = <<[kind |-> l, path |-> p]>>
  BY DEF Told
<1>5. p \in armed => own[1].path = p /\ own[1].kind = l
  BY <1>4
<1>9. p \in armed => Len(own) = 1
  BY <1>4
<1> HIDE DEF first, own
<1>6. /\ Len(events') = Len(first) + Len(own) /\ Len(own) \in Nat
      /\ \A n \in 1..Len(first) : events'[n] = first[n]
      /\ \A n \in 1..Len(own) : events'[Len(first) + n] = own[n]
  BY <1>2, <1>3, Lengthened
<1>7. Longer
  BY <1>2, <1>6 DEF Longer
<1>8. ASSUME p \in armed
      PROVE  \E n \in 1..Len(events') : events'[n].path = p /\ events'[n].kind = l
  <2>1. Len(own) = 1 /\ 1 \in 1..Len(own)
    BY <1>8, <1>9
  <2>2. events'[Len(first) + 1] = own[1]
    BY <1>6, <2>1
  <2>3. Len(first) + 1 \in 1..Len(events')
    BY <1>2, <1>6, <2>1
  <2> QED BY <1>5, <1>8, <2>2, <2>3
<1> QED BY <1>7, <1>8

\* What a change of p leaves alone, and what is left to show of p itself.
Changed(p) ==
    /\ UNCHANGED <<tableVars, due, run, sessionVars, lost>>
    /\ removed \subseteq removed' /\ disk' \cup removed' = disk \cup removed \cup {p}
    /\ armed' \subseteq armed
    /\ \A q \in Paths \ {p} : /\ q \in armed => q \in armed'
                              /\ q \in missed' => q \in missed
    /\ Longer
    /\ p \in removed' \/ ( /\ p \in Dirs /\ p \in armed => p \in armed'
                           /\ p \in Files /\ p \in armed \ armed' => Disarmed(p)'
                           /\ p \in Files /\ p \in armed => Queued(p)' )

LEMMA ChangeKeeps ==
    ASSUME WatchInv, RefInv', NEW p \in Paths, Changed(p)
    PROVE  WatchInv'
<1>1. SeenOrGone' /\ Owners'
  BY DEF WatchInv, SeenOrGone, Owners, Changed
<1>2. \A q \in Paths : /\ Parking(q) => Parking(q)'
                       /\ isDirectlyWatched(q)' <=> isDirectlyWatched(q)
  BY DEF Changed, Parking, isDirectlyWatched
<1>3. \A q \in Paths : Queued(q) => Queued(q)'
  <2>1. Len(events) \in Nat /\ Len(events') \in Nat
    BY DEF WatchInv, RefInv, TypeOK
  <2> QED BY <2>1 DEF Changed, Longer, Queued
<1>4. \A q \in Paths : Disarmed(q) => Disarmed(q)' /\ (q \notin armed => OnItsWay(q))
  <2>1. Len(events) \in Nat /\ Len(events') \in Nat
    BY DEF WatchInv, RefInv, TypeOK
  <2> QED BY <2>1 DEF Changed, Longer, Disarmed, OnItsWay, Queued
<1>5. \A q \in Paths : OnItsWay(q) => OnItsWay(q)'
  BY <1>3 DEF Changed, OnItsWay
<1>6. DirsArmed'
  <2> SUFFICES ASSUME NEW a \in Dirs, a \in entry', a \notin removed'
               PROVE  a \in armed' \/ Parking(a)'
    BY DEF DirsArmed
  <2>1. a \in Paths /\ a \in entry /\ a \notin removed
    BY PathFacts DEF Changed
  <2>2. a \in armed \/ Parking(a)
    BY <2>1 DEF WatchInv, DirsArmed
  <2> QED BY <1>2, <2>1, <2>2 DEF Changed
<1>7. ASSUME NEW q \in Files, q \notin removed', isDirectlyWatched(q)'
      PROVE  q \in armed' \cup lost' \/ Disarmed(q)'
  <2>1. q \in Paths /\ isDirectlyWatched(q) /\ q \notin removed
    BY <1>2, <1>7 DEF Files, Changed
  <2>2. q \in armed \cup lost \/ Disarmed(q)
    BY <2>1 DEF WatchInv, FilesArmed
  <2> QED BY <1>4, <1>7, <2>1, <2>2 DEF Changed
<1>8. ASSUME NEW q \in Files, q \notin removed', Unreported(q)'
      PROVE  q \in lost' \/ OnItsWay(q)'
  <2>1. q \in Paths /\ isDirectlyWatched(q) /\ q \notin removed
    BY <1>2, <1>8 DEF Files, Changed, Unreported
  <2>2. CASE q = p
    <3>1. q \in armed \cup lost \/ Disarmed(q)
      BY <2>1 DEF WatchInv, FilesArmed
    <3>2. q \in armed => Queued(q)'
      BY <1>8, <2>2 DEF Changed
    <3> QED BY <1>4, <1>5, <2>1, <3>1, <3>2 DEF OnItsWay, Changed
  <2>3. CASE q # p
    BY <1>5, <1>8, <2>1, <2>3 DEF WatchInv, Reporting, Unreported, Changed
  <2> QED BY <2>2, <2>3
<1>9. FilesArmed' /\ Reporting'
  BY <1>7, <1>8 DEF FilesArmed, Reporting
<1> QED BY <1>1, <1>6, <1>9 DEF WatchInv

LEMMA DiskKeepsWatchInv == WatchInv /\ DiskStep => WatchInv'
<1> SUFFICES ASSUME WatchInv, DiskStep PROVE WatchInv'
  OBVIOUS
<1>0. RefInv' /\ TypeOK /\ Len(events) \in Nat /\ disk \cup removed = Paths
  BY DiskKeepsRefInv DEF WatchInv, RefInv, TypeOK, SeenOrGone
<1>5. {"modified", "created", "deleted", "renamed", "deletedSelf"} \subseteq KernelKinds
  BY DEF Kinds, KernelKinds
<1>1. ASSUME NEW p \in Paths, Modify(p) PROVE WatchInv'
  <2>1. Change(p) /\ UNCHANGED <<disk, removed, armed>> /\ p \in disk
    BY <1>1 DEF Modify
  <2>2. Longer /\ (p \in armed => Queued(p)')
    BY <1>0, <1>1, <1>5, Reported DEF Modify, Queued
  <2>3. Changed(p)
    BY <2>1, <2>2 DEF Change, Changed
  <2> QED BY <1>0, <2>3, ChangeKeeps
<1>2. ASSUME NEW p \in Paths, Create(p) PROVE WatchInv'
  <2>1. Change(p) /\ UNCHANGED <<removed, armed>> /\ disk' = disk \cup {p} /\ p \in removed
    BY <1>0, <1>2 DEF Create
  <2>2. Longer
    <3>1. Told("created", p, Parent[p] \in armed) \in Seq(Event) /\ events \in Seq(Event)
      BY <1>0, <1>5, ToldType DEF TypeOK
    <3> QED BY <1>2, <3>1, Lengthened DEF Create, Longer
  <2>3. Changed(p)
    BY <2>1, <2>2 DEF Change, Changed
  <2> QED BY <1>0, <2>3, ChangeKeeps
<1>3. ASSUME NEW p \in Paths, Remove(p) \/ RenameAway(p) PROVE WatchInv'
  <2>1. /\ Change(p) /\ disk' = disk \ {p} /\ removed' = removed \cup {p}
        /\ armed' = armed \ {p} /\ p \in disk
    BY <1>3 DEF Remove, RenameAway, Vanish
  <2>2. Longer
    BY <1>0, <1>3, <1>5, Reported DEF Remove, RenameAway
  <2>3. Changed(p)
    BY <2>1, <2>2 DEF Change, Changed
  <2> QED BY <1>0, <2>3, ChangeKeeps
<1>4. ASSUME NEW p \in Paths, Rewrite(p) PROVE WatchInv'
  <2>1. /\ Change(p) /\ UNCHANGED <<disk, removed>> /\ armed' = armed \ {p}
        /\ p \in disk /\ p \notin Dirs
    BY <1>4 DEF Rewrite
  <2>2. /\ Longer
        /\ p \in armed => \E n \in 1..Len(events') : /\ events'[n].path = p
                                                     /\ events'[n].kind = "deletedSelf"
    BY <1>0, <1>4, <1>5, Reported DEF Rewrite
  <2>3. p \in armed => Disarmed(p)' /\ Queued(p)'
    BY <2>1, <2>2 DEF Disarmed, Queued
  <2>4. Changed(p)
    BY <2>1, <2>2, <2>3 DEF Change, Changed
  <2> QED BY <1>0, <2>4, ChangeKeeps
<1> QED BY <1>1, <1>2, <1>3, <1>4 DEF DiskStep

\* fsnotify.  A removal that it passes on stays queued; with one that it drops, a
\* path that is not armed is lost.
LEMMA ReadKeepsWatchInv == WatchInv /\ FsnotifyRead => WatchInv'
<1> SUFFICES ASSUME WatchInv, FsnotifyRead PROVE WatchInv'
  OBVIOUS
<1> DEFINE e == Head(events)
           dropped == Parent[e.path] \in armed \/ e.path \in armed
<1>0. /\ events \in Seq(Event) /\ events # <<>> /\ e = events[1]
      /\ UNCHANGED <<diskVars, armed, tableVars, due, run, sessionVars, missed>>
      /\ RefInv'
  BY ReadKeepsRefInv DEF FsnotifyRead, WatchInv, RefInv, TypeOK
<1>1. /\ dropped => events' = Tail(events) /\ lost' = lost \cup ({e.path} \ armed)
      /\ ~dropped => events' = [events EXCEPT ![1].kind = "deleted"] /\ lost' = lost
  BY DEF FsnotifyRead
<1>2. e \in Event /\ e.kind = "deletedSelf"
  BY <1>0 DEF FsnotifyRead
<1>3. \A k \in 1..Len(events) :
          \/ k = 1
          \/ \E j \in 1..Len(events') : events'[j] = events[k]
  <2> SUFFICES ASSUME NEW k \in 1..Len(events), k # 1
               PROVE  \E j \in 1..Len(events') : events'[j] = events[k]
    OBVIOUS
  <2>1. CASE dropped
    <3>1. k - 1 \in 1..Len(events') /\ events'[k - 1] = events[k]
      BY <1>0, <1>1, <2>1
    <3> QED BY <3>1
  <2>2. CASE ~dropped
    <3>1. Len(events') = Len(events) /\ events'[k] = events[k]
      BY <1>0, <1>1, <2>2
    <3> QED BY <3>1
  <2> QED BY <2>1, <2>2
<1>4. ~dropped => /\ 1 \in 1..Len(events') /\ events'[1].path = e.path
                  /\ events'[1].kind = "deleted"
  BY <1>0, <1>1, <1>2 DEF Event
<1> HIDE DEF e, dropped
<1>5. \A p \in Files : Disarmed(p) => Disarmed(p)' \/ p \in armed' \cup lost'
  BY <1>0, <1>1, <1>3, <1>4 DEF Disarmed
<1>6. \A p \in Files : OnItsWay(p) => OnItsWay(p)' \/ p \in lost'
  <2> SUFFICES ASSUME NEW p \in Files, Queued(p)
               PROVE  Queued(p)' \/ p \in lost'
    BY <1>0 DEF OnItsWay
  <2>1. PICK k \in 1..Len(events) : /\ events[k].path = p
                                    /\ events[k].kind = "deletedSelf" => p \notin armed
    BY DEF Queued
  <2>2. CASE k = 1
    <3>1. p = e.path /\ p \notin armed
      BY <1>0, <1>2, <2>1, <2>2
    <3> QED BY <1>0, <1>1, <1>4, <3>1 DEF Queued
  <2>3. CASE k # 1
    BY <1>0, <1>3, <2>1, <2>3 DEF Queued
  <2> QED BY <2>2, <2>3
<1>7. lost \subseteq lost'
  BY <1>1
<1>8. Careful /\ Owners'
  BY <1>0, <1>7 DEF WatchInv, Owners, Careful, Unreported, isDirectlyWatched
<1>9. Onward
  BY <1>0, <1>5, <1>6, <1>7 DEF Onward, Parking
<1> QED BY <1>0, <1>8, <1>9, CarefulKeeps

\* The run goroutine.  First the steps that leave the Watcher's maps alone:
\* they may put a path on the kernel's list and report one.
Moves ==
    /\ UNCHANGED <<diskVars, events, tableVars, due, sessionVars>>
    /\ armed \subseteq armed' /\ missed' \subseteq missed
    /\ lost \subseteq lost' \cup armed'
    /\ \A p \in Files : p \in armed' \ armed \/ p \in lost \ lost' =>
          \/ p = run.path /\ run.pc \in {"readd", "parkReadd"}
          \/ p = run.cur /\ run.pc = "popAdd"

LEMMA MovesCareful ==
    ASSUME WatchInv, Moves
    PROVE  /\ Careful /\ Owners'
           /\ \A p \in Files : Unreported(p)' => Unreported(p) /\ p \notin missed \ missed'
<1>1. \A p \in Paths : isDirectlyWatched(p)' <=> isDirectlyWatched(p)
  BY DEF Moves, isDirectlyWatched
<1>2. \A p \in Files : Unreported(p)' => Unreported(p) /\ p \notin missed \ missed'
  BY <1>1 DEF Moves, Unreported, Files
<1>3. Owners'
  BY DEF WatchInv, Owners, Moves
<1> QED BY <1>1, <1>2, <1>3 DEF Careful, Moves, Files

\* Where the event being handled may go on to.
LEMMA MovesOnward ==
    ASSUME WatchInv, RefInv', Moves, run'.path = run.path,
           run.pc = "parkAdd" => Parent[run.path] \in armed' \cup removed,
           run.pc \in {"stat", "readd"} =>
               \/ run'.pc \in {"stat", "readd"}
               \/ run.path \in removed
               \/ run.path \in armed' /\ run'.pc \in {"emit", "pop"},
           run.pc \in {"pop", "recheck", "popAdd", "popTell"} =>
               run'.pc \in {"pop", "recheck", "popAdd", "popTell", "emit"},
           run.pc = "popAdd" => run'.pc = "popTell" /\ run'.cur = run.cur,
           run.pc \in {"parkReadd", "parkClean"} => run'.pc \in {"parkClean", "parkTell"},
           run.pc = "parkTell" => run.path \notin missed',
           run.pc = "emit" => run'.pc = "tell" /\ run'.cur = run.path,
           run.pc \in {"tell", "popTell"} => run.cur \notin missed'
    PROVE  WatchInv'
<1>0. Careful /\ Owners' /\ TypeOK /\ events' = events /\ due' = due
      /\ \A p \in Files : Unreported(p)' => p \in missed'
  BY MovesCareful DEF WatchInv, RefInv, Moves, Unreported
<1>1. \A a \in Paths : Parking(a) => Parking(a)' \/ a \in armed' \cup removed
  BY DEF Parking
<1>2. \A p \in Files : Disarmed(p) => Disarmed(p)' \/ p \in armed' \cup removed
  BY <1>0 DEF Disarmed
<1>3. \A p \in Files : p \in armed' \ armed \/ p \in lost \ lost' =>
                          OnItsWay(p)' \/ p \in removed
  BY DEF Moves, OnItsWay
<1>4. \A p \in Files : OnItsWay(p) /\ Unreported(p)' => OnItsWay(p)' \/ p \in removed
  BY <1>0, <1>3 DEF OnItsWay, Queued
<1> QED BY <1>0, <1>1, <1>2, <1>3, <1>4, CarefulKeeps DEF Onward

LEMMA RunFacts ==
    ASSUME WatchInv
    PROVE  /\ TypeOK /\ run \in RunState /\ run.path \in Paths
           /\ Parent[run.path] \in Dirs /\ Parent[run.path] \in Paths
           /\ \A p \in Paths : p \in disk \/ p \in removed
<1>1. TypeOK /\ run \in RunState /\ run.path \in Paths
  BY DEF WatchInv, RefInv, TypeOK, RunState
<1> QED BY <1>1, TreeAssumption DEF WatchInv, SeenOrGone

LEMMA GotoFacts ==
    ASSUME run \in RunState, NEW pc, Goto(pc)
    PROVE  run'.pc = pc /\ run'.path = run.path /\ run'.cur = run.cur
BY DEF Goto, RunState

LEMMA LookKeeps ==
    ASSUME WatchInv, RefInv',
           RunStat \/ RunReAdd \/ RunParkAdd \/ RunParkCheck \/ RunParkReAdd \/ RunParkTell
    PROVE  WatchInv'
<1>0. run \in RunState /\ \A p \in Paths : p \in disk \/ p \in removed
  BY RunFacts
<1>1. CASE RunStat
  BY <1>0, <1>1, RunFacts, GotoFacts, MovesOnward DEF RunStat, Moves
<1>2. CASE RunReAdd
  <2>1. Moves
    BY <1>2 DEF RunReAdd, ReAdd, Moves
  <2>2. run.pc = "readd" /\ run'.path = run.path /\ run'.pc \in {"emit", "pop"}
    BY <1>0, <1>2, GotoFacts DEF RunReAdd
  <2>3. run.path \in armed' \cup removed
    BY <1>0, <1>2, RunFacts DEF RunReAdd, ReAdd
  <2> QED BY <2>1, <2>2, <2>3, MovesOnward
<1>3. CASE RunParkAdd
  <2>1. Parent[run.path] \notin Files
    BY RunFacts DEF Files
  <2>2. Moves
    BY <1>3, <2>1 DEF RunParkAdd, ReAdd, Moves
  <2>3. /\ run.pc = "parkAdd" /\ run'.path = run.path
        /\ Parent[run.path] \in armed' \cup removed
    BY <1>0, <1>3, RunFacts, GotoFacts DEF RunParkAdd, ReAdd
  <2> QED BY <2>2, <2>3, MovesOnward
<1>4. CASE RunParkCheck
  BY <1>0, <1>4, GotoFacts, MovesOnward DEF RunParkCheck, Moves
<1>5. CASE RunParkReAdd
  BY <1>0, <1>5, GotoFacts, MovesOnward DEF RunParkReAdd, ReAdd, Moves
<1>6. CASE RunParkTell
  BY <1>0, <1>6, GotoFacts, MovesOnward DEF RunParkTell, Notify, Moves
<1> QED BY <1>1, <1>2, <1>3, <1>4, <1>5, <1>6

LEMMA RoundKeeps ==
    ASSUME WatchInv, RefInv', RunRecheck \/ RunPopAdd \/ RunPopTell \/ RunTell
    PROVE  WatchInv'
<1>0. run \in RunState
  BY RunFacts
<1>1. CASE RunRecheck
  <2>1. run.pc = "recheck" /\ Moves
    BY <1>1 DEF RunRecheck, Moves
  <2>2. run'.pc \in {"emit", "popAdd", "popTell"} /\ run'.path = run.path
    BY <1>0, <1>1 DEF RunRecheck, Goto, RunState
  <2> QED BY <2>1, <2>2, MovesOnward
<1>2. CASE RunPopAdd
  BY <1>0, <1>2, GotoFacts, MovesOnward DEF RunPopAdd, ReAdd, Moves
<1>3. CASE RunPopTell
  BY <1>0, <1>3, GotoFacts, MovesOnward DEF RunPopTell, Notify, Moves
<1>4. CASE RunTell
  BY <1>0, <1>4, GotoFacts, MovesOnward DEF RunTell, Notify, Moves
<1> QED BY <1>1, <1>2, <1>3, <1>4

\* A watched path is reported, now or by its timer.
LEMMA EmitKeeps ==
    ASSUME WatchInv, RefInv', RunEmit
    PROVE  WatchInv'
<1>0. run \in RunState /\ run.pc = "emit"
      /\ UNCHANGED <<diskVars, kernelVars, tableVars, sessionVars, missed>>
  BY RunFacts DEF RunEmit
<1>1. isDirectlyWatched(run.path) =>
          (run'.pc = "tell" /\ run'.cur = run.path) \/ run.path \in due'
  BY <1>0 DEF RunEmit, RunState
<1>2. due \subseteq due'
  BY DEF RunEmit
<1>3. Careful /\ Owners'
  BY <1>0 DEF WatchInv, Owners, Careful, Unreported, isDirectlyWatched
<1>4. \A a \in Paths : ~Parking(a)
  BY <1>0 DEF Parking
<1>5. \A p \in Files : Disarmed(p) => Disarmed(p)'
  BY <1>0 DEF Disarmed
<1>6. \A p \in Files : OnItsWay(p) /\ Unreported(p) => OnItsWay(p)'
  BY <1>0, <1>1, <1>2 DEF OnItsWay, Queued, Unreported
<1>7. Onward
  BY <1>0, <1>4, <1>5, <1>6 DEF Onward
<1> QED BY <1>3, <1>7, CarefulKeeps

\* The event at the head of the queue becomes the one being handled; a removal
\* of a watched path is looked at first.
LEMMA TakeKeeps ==
    ASSUME WatchInv, RefInv', RunTake
    PROVE  WatchInv'
<1> DEFINE e == Head(events)
<1>0. /\ events \in Seq(Event) /\ events # <<>> /\ run.pc = "idle"
      /\ events' = Tail(events)
      /\ UNCHANGED <<diskVars, watchList, tableVars, due, sessionVars, missed>>
  BY RunFacts DEF RunTake, TypeOK
<1>1. e \in Event
  BY <1>0
<1>2. run'.path = e.path /\ run'.pc \in {"emit", "pop", "stat"}
      /\ (e.kind = "deleted" /\ isDirectlyWatched(e.path) => run'.pc = "stat")
      /\ e.kind # "deletedSelf"
  BY <1>1 DEF RunTake, Event, Kinds, KernelKinds
<1>3. \A k \in 1..Len(events) : events[k] = e \/ \E j \in 1..Len(events') : events'[j] = events[k]
  <2> SUFFICES ASSUME NEW k \in 1..Len(events), k # 1
               PROVE  \E j \in 1..Len(events') : events'[j] = events[k]
    BY <1>0
  <2>1. k - 1 \in 1..Len(events') /\ events'[k - 1] = events[k]
    BY <1>0
  <2> QED BY <2>1
<1> HIDE DEF e
<1>4. Careful /\ Owners'
  BY <1>0 DEF WatchInv, Owners, Careful, Unreported, isDirectlyWatched
<1>5. \A a \in Paths : ~Parking(a)
  BY <1>0 DEF Parking
<1>6. \A p \in Files : isDirectlyWatched(p) /\ Disarmed(p) => Disarmed(p)'
  BY <1>0, <1>2, <1>3 DEF Disarmed
<1>7. \A p \in Files : OnItsWay(p) => OnItsWay(p)'
  <2> SUFFICES ASSUME NEW p \in Files, OnItsWay(p) PROVE OnItsWay(p)'
    OBVIOUS
  <2>1. CASE Queued(p)
    <3>1. PICK k \in 1..Len(events) :
             events[k].path = p /\ (events[k].kind = "deletedSelf" => p \notin armed)
      BY <2>1 DEF Queued
    <3>2. CASE events[k] = e
      BY <1>2, <3>1, <3>2 DEF OnItsWay
    <3>3. CASE \E j \in 1..Len(events') : events'[j] = events[k]
      BY <1>0, <3>1, <3>3 DEF OnItsWay, Queued
    <3> QED BY <1>3, <3>2, <3>3
  <2>2. CASE ~Queued(p)
    BY <1>0, <2>2 DEF OnItsWay
  <2> QED BY <2>1, <2>2
<1>8. Onward
  BY <1>0, <1>5, <1>6, <1>7 DEF Onward
<1> QED BY <1>4, <1>8, CarefulKeeps

\* The steps that edit the parent's entry: listing, unlisting, popping.
LEMMA ParkKeeps ==
    ASSUME WatchInv, RefInv', RunPark
    PROVE  WatchInv'
<1> DEFINE a == Parent[run.path]
<1>0. /\ run \in RunState /\ run.path \in Paths /\ run.pc = "park" /\ a \in Dirs /\ a \in Paths
      /\ UNCHANGED <<diskVars, kernelVars, ref, due, sessionVars, missed>>
      /\ entry' = entry \cup {a}
  BY RunFacts DEF RunPark
<1>1. pend' = [pend EXCEPT ![a][run.path] = @ + 1]
  BY DEF RunPark
<1>2. run'.pc = (IF Unused(a) THEN "parkAdd" ELSE "parkCheck") /\ run'.path = run.path
  BY <1>0, GotoFacts DEF RunPark
<1>3. \A p \in Paths : p \in entry' => p \in entry \/ Parking(p)'
  BY <1>0, <1>2, UsedHasEntry DEF Parking
<1>4. \A p \in Files : isDirectlyWatched(p)' => isDirectlyWatched(p)
  BY <1>0 DEF isDirectlyWatched, Files
<1>5. Careful
  BY <1>0, <1>3, <1>4 DEF Careful, Unreported
<1>6. \A b \in Paths, p \in Paths : pend'[b][p] > 0 => pend[b][p] > 0 \/ b = a
  BY <1>0, <1>1, RunFacts DEF TypeOK, Counts
<1>7. Owners'
  BY <1>0, <1>6 DEF WatchInv, Owners
<1>8. Onward
  BY <1>0 DEF Onward, Parking, Disarmed, OnItsWay, Queued
<1> QED BY <1>5, <1>7, <1>8, CarefulKeeps

\* Either the entry goes, and with it its place on the kernel's list and its
\* timer, or its pending map shrinks.
Edited(a) ==
    /\ UNCHANGED <<diskVars, events, sessionVars, missed>>
    /\ armed' \subseteq armed /\ lost \ {a} \subseteq lost'
    /\ \/ DropEntry(a) /\ armed \ {a} \subseteq armed' /\ due \ {a} \subseteq due'
       \/ /\ UNCHANGED <<entry, ref, due, watchList>>
          /\ \A b \in Paths, p \in Paths : pend'[b][p] > 0 => pend[b][p] > 0

LEMMA EditedKeeps ==
    ASSUME WatchInv, RefInv', NEW a \in Paths, Edited(a), run'.path = run.path,
           run.pc \in {"parkUndo", "parkClean", "pop"},
           run.pc = "pop" => run'.pc = "recheck",
           run.pc = "parkClean" => run'.pc = "parkTell"
    PROVE  WatchInv'
<1>1. /\ \A p \in Paths : p \in entry' => p \in entry
      /\ \A p \in Paths : p \in entry' /\ p \in armed => p \in armed'
      /\ \A p \in Paths : isDirectlyWatched(p)' => isDirectlyWatched(p)
      /\ \A p \in lost : isDirectlyWatched(p)' => p \in lost'
      /\ \A p \in due : p \in entry' => p \in due'
      /\ Owners'
  <2>1. CASE DropEntry(a) /\ armed \ {a} \subseteq armed' /\ due \ {a} \subseteq due'
    BY <2>1, DropCareful, RunFacts DEF WatchInv, Owners, Edited, isDirectlyWatched
  <2>2. CASE /\ UNCHANGED <<entry, ref, due, watchList>>
             /\ \A b \in Paths, p \in Paths : pend'[b][p] > 0 => pend[b][p] > 0
    BY <2>2 DEF WatchInv, Owners, isDirectlyWatched, Edited
  <2> QED BY <2>1, <2>2 DEF Edited
<1>2. Careful
  BY <1>1 DEF Careful, Unreported, Files, Edited
<1>3. Onward
  BY <1>1 DEF Onward, Parking, Disarmed, OnItsWay, Queued, Unreported, isDirectlyWatched, Edited
<1> QED BY <1>1, <1>2, <1>3, CarefulKeeps

LEMMA UndoKeeps ==
    ASSUME WatchInv, RefInv', RunParkUndo
    PROVE  WatchInv'
<1> DEFINE a == Parent[run.path]
           left == [p \in Paths |-> IF Under(a, p) /\ ChildOf(a, p) = run.path
                                    THEN 0 ELSE pend[a][p]]
<1>0. a \in Paths /\ run.pc = "parkUndo" /\ run'.path = run.path /\ TypeOK
  BY RunFacts, GotoFacts DEF RunParkUndo
<1>1. \A p \in Paths : left[p] > 0 => pend[a][p] > 0
  OBVIOUS
<1>2. DropEntry(a) \/ (pend' = [pend EXCEPT ![a] = left] /\ UNCHANGED <<entry, ref>>)
  BY DEF RunParkUndo
<1>3. UNCHANGED <<diskVars, kernelVars, due, sessionVars, missed>>
  BY DEF RunParkUndo
<1> HIDE DEF left
<1>4. Edited(a)
  BY <1>0, <1>1, <1>2, <1>3 DEF Edited, TypeOK, Counts
<1> QED BY <1>0, <1>4, EditedKeeps

LEMMA CleanKeeps ==
    ASSUME WatchInv, RefInv', RunParkClean
    PROVE  WatchInv'
<1> DEFINE a == Parent[run.path]
           left == [pend[a] EXCEPT ![run.path] = IF @ > 0 THEN @ - 1 ELSE 0]
<1>0. /\ a \in Paths /\ run.pc = "parkClean" /\ run'.path = run.path /\ run'.pc = "parkTell"
      /\ TypeOK
  BY RunFacts, GotoFacts DEF RunParkClean
<1>1. \A p \in Paths : left[p] > 0 => pend[a][p] > 0
  BY <1>0 DEF TypeOK, Counts
<1>2. \/ DropEntry(a) /\ due' = due \ {a} /\ Disarm(a)
      \/ pend' = [pend EXCEPT ![a] = left] /\ UNCHANGED <<entry, ref, due, watchList>>
  BY DEF RunParkClean
<1>3. UNCHANGED <<diskVars, events, sessionVars, missed>>
  BY DEF RunParkClean
<1> HIDE DEF left
<1>4. Edited(a)
  BY <1>0, <1>1, <1>2, <1>3 DEF Edited, TypeOK, Counts
<1> QED BY <1>0, <1>4, EditedKeeps

LEMMA PopKeeps ==
    ASSUME WatchInv, RefInv', RunPop
    PROVE  WatchInv'
<1> DEFINE a == Parent[run.path]
           popped == {p \in Pending(a) : Under(a, p) /\ ChildOf(a, p) = run.path}
           left == [p \in Paths |-> IF p \in popped THEN 0 ELSE pend[a][p]]
<1>0. a \in Paths /\ run.pc = "pop" /\ TypeOK
  BY RunFacts DEF RunPop
<1>1. run'.path = run.path /\ run'.pc = "recheck"
  BY RunFacts DEF RunPop, RunState
<1>2. \A p \in Paths : left[p] > 0 => pend[a][p] > 0
  OBVIOUS
<1>3. \/ DropEntry(a) /\ due' = due \ {a} /\ Disarm(a)
      \/ pend' = [pend EXCEPT ![a] = left] /\ UNCHANGED <<entry, ref, due, watchList>>
  BY DEF RunPop
<1>4. UNCHANGED <<diskVars, events, sessionVars, missed>>
  BY DEF RunPop
<1> HIDE DEF left
<1>5. Edited(a)
  BY <1>0, <1>2, <1>3, <1>4 DEF Edited, TypeOK, Counts
<1> QED BY <1>0, <1>1, <1>5, EditedKeeps

LEMMA RunKeepsWatchInv == WatchInv /\ RunStep => WatchInv'
<1> SUFFICES ASSUME WatchInv, RunStep PROVE WatchInv'
  OBVIOUS
<1>1. RefInv'
  BY RunKeepsRefInv DEF WatchInv
<1> QED BY <1>1, LookKeeps, RoundKeeps, EmitKeeps, TakeKeeps, ParkKeeps, UndoKeeps,
           CleanKeeps, PopKeeps DEF RunStep

\* A timer that fires reports its path.
LEMMA FireKeeps ==
    ASSUME WatchInv, RefInv', NEW a \in Paths, DebounceFire(a)
    PROVE  WatchInv'
<1>0. /\ UNCHANGED <<diskVars, kernelVars, tableVars, run, sessionVars>>
      /\ missed' = missed \ {a} /\ due' = due \ {a}
  BY DEF DebounceFire, Notify
<1>1. Careful /\ Owners'
  BY <1>0 DEF WatchInv, Owners, Careful, Unreported, isDirectlyWatched
<1>2. Onward
  BY <1>0 DEF Onward, Parking, Disarmed, OnItsWay, Queued, Unreported
<1> QED BY <1>1, <1>2, CarefulKeeps

LEMMA WatchStep == WatchInv /\ [Next]_vars => WatchInv'
<1> SUFFICES ASSUME WatchInv, [Next]_vars PROVE WatchInv'
  OBVIOUS
<1>1. RefInv'
  BY RefStep DEF WatchInv
<1>2. CASE UNCHANGED vars
  <2>1. Careful /\ Owners'
    BY <1>2 DEF WatchInv, Owners, Careful, Unreported, isDirectlyWatched
  <2>2. Onward
    BY <1>2 DEF Onward, Parking, Disarmed, OnItsWay, Queued
  <2> QED BY <1>1, <2>1, <2>2, CarefulKeeps
<1> QED BY <1>1, <1>2, SessionKeepsWatchInv, DiskKeepsWatchInv, ReadKeepsWatchInv,
           RunKeepsWatchInv, FireKeeps DEF Next

\* For every tree, in every order of calls, changes and the goroutine's steps:
\* when the run loop is quiet, each entry that is needed and was never absent is
\* on the kernel's list, or fsnotify dropped the report that its watch went
\* (LiveEntriesArmed).
THEOREM NeededAreArmed == Spec => []LiveEntriesArmed
<1>1. WatchInv => LiveEntriesArmed
  <2> SUFFICES ASSUME WatchInv, Quiet, NEW p \in entry \ (removed \cup lost), ~Unused(p)
               PROVE  p \in armed
    BY DEF LiveEntriesArmed
  <2>1. p \in Paths /\ ~Parking(p) /\ ~Disarmed(p)
    BY DEF WatchInv, RefInv, TypeOK, Quiet, Parking, Disarmed
  <2>2. p \in Files => isDirectlyWatched(p)
    BY <2>1, UsedHasEntry
  <2> QED BY <2>1, <2>2 DEF WatchInv, DirsArmed, FilesArmed, Files
<1> QED BY <1>1, WatchInit, WatchStep, PTL DEF Spec

\* And no change of a watched file is left unreported, with the same exception
\* (FileChangesReported).
THEOREM ChangesReported == Spec => []FileChangesReported
<1>1. WatchInv => FileChangesReported
  BY DEF WatchInv, Reporting, Unreported, OnItsWay, Queued, Quiet, FileChangesReported
<1> QED BY <1>1, WatchInit, WatchStep, PTL DEF Spec

-----------------------------------------------------------------------------
(* The debouncer of the watcher's notifications.                           *)

USE DebounceAssumption

(* Edits of a state and of the timers are states and timers again.         *)
LEMMA StateEdits ==
    ASSUME NEW s \in States
    PROVE  /\ NewWindow \in States /\ NoState \in States
           /\ NewWindow.timer = NoTimer /\ NewWindow.count = 0 /\ NewWindow.left = burstWindow
           /\ s.count \in 0..burstLimit /\ s.left \in -1..burstWindow
           /\ s.timer \in Timers \cup {NoTimer}
           /\ s.count < burstLimit => [s EXCEPT !.count = @ + 1] \in States
           /\ \A t \in Timers : [s EXCEPT !.timer = t] \in States
           /\ [s EXCEPT !.left = IF @ >= 0 THEN @ - 1 ELSE @] \in States
BY DEF States, NewWindow, NoState

LEMMA ClockEdits ==
    ASSUME NEW c \in Clocks, NEW t \in Timers
    PROVE  /\ c[t] \in Off..debounceInterval
           /\ [c EXCEPT ![t] = debounceInterval] \in Clocks
           /\ [c EXCEPT ![t] = Off] \in Clocks
           /\ [u \in Timers |-> IF c[u] # Off THEN c[u] - 1 ELSE Off] \in Clocks
<1>1. c[t] \in Off..debounceInterval
  BY DEF Clocks
<1>2. \A v \in Off..debounceInterval : [c EXCEPT ![t] = v] \in Clocks
  BY DEF Clocks
<1>3. Off \in Off..debounceInterval /\ debounceInterval \in Off..debounceInterval
  BY DEF Off
<1>4. [u \in Timers |-> IF c[u] # Off THEN c[u] - 1 ELSE Off] \in Clocks
  BY DEF Clocks, Off
<1> QED BY <1>1, <1>2, <1>3, <1>4

(* The state a trigger works on: the present one, in its window, or a new   *)
(* one without a timer.                                                    *)
LEMMA CurrentState ==
    ASSUME DebounceTypeOK
    PROVE  /\ Current \in States
           /\ Current.timer # NoTimer => Current = state /\ ~Expired
BY StateEdits DEF DebounceTypeOK, Current

-----------------------------------------------------------------------------
(* Type correctness.                                                       *)

LEMMA DebounceInitType == DebounceInit => DebounceTypeOK
<1> SUFFICES ASSUME DebounceInit PROVE DebounceTypeOK
  OBVIOUS
<1>1. state \in States
  BY DEF DebounceInit, States, NoState
<1>2. clock \in Clocks
  BY DEF DebounceInit, Clocks, Off
<1>3. age \in None..MaxAge
  BY DEF DebounceInit, None, MaxAge
<1> QED BY <1>1, <1>2, <1>3 DEF DebounceInit, DebounceTypeOK

LEMMA OweType ==
    ASSUME DebounceTypeOK, Owe
    PROVE  age' \in None..MaxAge /\ age' # None
BY DEF DebounceTypeOK, Owe, Owed, None, MaxAge

LEMMA NextType ==
    ASSUME DebounceTypeOK, [DebounceNext]_debounceVars
    PROVE  DebounceTypeOK'
<1> USE DEF DebounceTypeOK
<1>1. CASE TriggerPostpone
  BY <1>1, CurrentState, OweType, ClockEdits, StateEdits DEF TriggerPostpone
<1>2. CASE TriggerBurst
  BY <1>2, CurrentState, OweType, StateEdits DEF TriggerBurst
<1>3. CASE TriggerDebounce
  <2>1. PICK t \in Timers : /\ state' = [Current EXCEPT !.timer = t]
                            /\ clock' = [clock EXCEPT ![t] = debounceInterval]
    BY <1>3 DEF TriggerDebounce
  <2>2. state' \in States /\ clock' \in Clocks
    BY <2>1, CurrentState, ClockEdits, StateEdits
  <2> QED BY <1>3, <2>2, OweType DEF TriggerDebounce
<1>n. None \in None..MaxAge
  BY DEF None, MaxAge
<1>4. CASE Send
  BY <1>4, <1>n DEF Send
<1>5. CASE CallbackNotify
  <2>1. notifying' \in Nat /\ resetting' \in Nat
    BY <1>5 DEF CallbackNotify
  <2> QED BY <1>5, <1>n, <2>1 DEF CallbackNotify
<1>6. CASE CallbackReset
  <2>1. resetting' \in Nat
    BY <1>6 DEF CallbackReset
  <2>2. state' \in States
    BY <1>6, StateEdits DEF CallbackReset
  <2> QED BY <1>6, <2>1, <2>2 DEF CallbackReset
<1>7. CASE Forget
  <2>1. clock' \in Clocks
    BY <1>7, StateEdits, ClockEdits DEF Forget
  <2> QED BY <1>7, <1>n, <2>1, StateEdits DEF Forget
<1>8. CASE Tick
  <2>1. clock' \in Clocks
    BY <1>8, ClockEdits, DebounceAssumption DEF Tick, Scheduled
  <2>2. age' \in None..MaxAge
    BY <1>8 DEF Tick, Owed, None, MaxAge
  <2> QED BY <1>8, <2>1, <2>2, StateEdits DEF Tick
<1>9. ASSUME NEW t \in Timers, Fire(t) PROVE DebounceTypeOK'
  <2>1. clock' \in Clocks
    BY <1>9, ClockEdits DEF Fire
  <2>2. notifying' \in Nat
    BY <1>9 DEF Fire
  <2> QED BY <1>9, <2>1, <2>2 DEF Fire
<1>10. CASE UNCHANGED debounceVars
  BY <1>10 DEF debounceVars
<1> QED BY <1>1, <1>2, <1>3, <1>4, <1>5, <1>6, <1>7, <1>8, <1>9, <1>10 DEF DebounceNext, Trigger

(* The debounce state and its timers always have their types; the burst     *)
(* count never exceeds the limit.                                          *)
THEOREM DebounceTypeCorrect == DebounceSpec => []DebounceTypeOK
BY DebounceInitType, NextType, PTL DEF DebounceSpec

-----------------------------------------------------------------------------
(* The strengthening of OwedIsScheduled and BoundedDelay.  The timer that   *)
(* will pay may be one whose state was replaced, and then nobody postpones  *)
(* it; the timer of the current state is postponed only within the window,  *)
(* and what it owes is not older than the window.                          *)
Payer(t) ==
    /\ Scheduled(t)
    /\ age + clock[t] <= burstWindow + debounceInterval
    /\ t = state.timer /\ ~Expired => age + state.left <= burstWindow

PayInv ==
    /\ DebounceTypeOK
    /\ BoundedDelay
    /\ Owed => sending \/ notifying > 0 \/ \E t \in Timers : Payer(t)

LEMMA InitPay == DebounceInit => PayInv
BY DebounceInitType DEF DebounceInit, PayInv, BoundedDelay, Owed, None

(* A step that leaves the owed change, its age and its payer alone.         *)
LEMMA SamePayer ==
    ASSUME DebounceTypeOK, NEW t \in Timers, Payer(t),
           age' = age, clock'[t] = clock[t],
           \/ state' = state
           \/ state'.timer # t
    PROVE  Payer(t)'
BY DEF Payer, Scheduled, Expired

LEMMA NextPay ==
    ASSUME PayInv, [DebounceNext]_debounceVars
    PROVE  PayInv'
<1> USE DEF PayInv
<1>t. DebounceTypeOK'
  BY NextType
<1> DEFINE Paid == sending \/ notifying > 0 \/ \E t \in Timers : Payer(t)
<1>1. CASE TriggerPostpone
  <2> DEFINE s == state.timer
  <2>1. s \in Timers /\ ~Expired /\ state' = state /\ clock' = [clock EXCEPT ![s] = debounceInterval]
    BY <1>1, CurrentState, StateEdits DEF TriggerPostpone, DebounceTypeOK
  <2>2. clock[s] \in Int /\ clock'[s] = debounceInterval /\ state.left \in 0..burstWindow
    <3>1. clock \in Clocks /\ state.left \in -1..burstWindow
      BY StateEdits DEF DebounceTypeOK
    <3> QED BY <2>1, <3>1 DEF Clocks, Expired, Off
  <2>3. BoundedDelay'
    BY <1>1 DEF TriggerPostpone, Owe, BoundedDelay, DebounceTypeOK
  <2>4. CASE ~Owed
    <3>1. age' = 0
      BY <1>1, <2>4 DEF TriggerPostpone, Owe
    <3>2. Payer(s)'
      BY <2>1, <2>2, <3>1 DEF Payer, Scheduled, Off, Expired
    <3> QED BY <1>t, <2>1, <2>3, <3>2
  <2>5. CASE Owed
    <3>1. age' = age
      BY <1>1, <2>5 DEF TriggerPostpone, Owe
    <3>2. CASE notifying > 0
      BY <1>1, <1>t, <2>3, <3>2 DEF TriggerPostpone
    <3>3. CASE ~(notifying > 0)
      <4>1. PICK t \in Timers : Payer(t)
        BY <1>1, <2>5, <3>3 DEF TriggerPostpone
      <4>2. CASE t = s
        <5>1. age + state.left <= burstWindow
          BY <2>1, <4>1, <4>2 DEF Payer
        <5>2. Payer(s)'
          BY <2>1, <2>2, <3>1, <5>1 DEF Payer, Scheduled, Off, Expired, DebounceTypeOK, None
        <5> QED BY <1>t, <2>1, <2>3, <5>2
      <4>3. CASE t # s
        <5>1. clock'[t] = clock[t]
          BY <2>1, <4>3 DEF DebounceTypeOK, Clocks
        <5>2. Payer(t)'
          BY <2>1, <3>1, <4>1, <5>1, SamePayer
        <5> QED BY <1>t, <2>3, <5>2
      <4> QED BY <4>2, <4>3
    <3> QED BY <3>2, <3>3
  <2> QED BY <2>4, <2>5
<1>2. CASE TriggerBurst
  BY <1>2, <1>t DEF TriggerBurst, BoundedDelay, Owe
<1>3. CASE TriggerDebounce
  <2>1. PICK n \in Timers : /\ Fresh(n)
                            /\ state' = [Current EXCEPT !.timer = n]
                            /\ clock' = [clock EXCEPT ![n] = debounceInterval]
    BY <1>3 DEF TriggerDebounce
  <2>2. /\ clock'[n] = debounceInterval /\ state'.timer = n
        /\ state'.left \in -1..burstWindow
        /\ ~Scheduled(n)
    BY <1>t, <2>1, CurrentState DEF DebounceTypeOK, Clocks, States, Fresh
  <2>3. BoundedDelay'
    BY <1>3 DEF TriggerDebounce, Owe, BoundedDelay
  <2>4. CASE ~Owed
    <3>1. age' = 0
      BY <1>3, <2>4 DEF TriggerDebounce, Owe
    <3>2. Payer(n)'
      BY <2>2, <3>1 DEF Payer, Scheduled, Off
    <3> QED BY <1>t, <2>3, <3>2
  <2>5. CASE Owed /\ notifying > 0
    BY <1>3, <1>t, <2>3, <2>5 DEF TriggerDebounce
  <2>6. CASE Owed /\ ~(notifying > 0)
    <3>1. age' = age
      BY <1>3, <2>6 DEF TriggerDebounce, Owe
    <3>2. PICK t \in Timers : Payer(t)
      BY <1>3, <2>6 DEF TriggerDebounce
    <3>3. t # n
      BY <2>2, <3>2 DEF Payer
    <3>4. clock'[t] = clock[t]
      BY <2>1, <3>3 DEF DebounceTypeOK, Clocks
    <3>5. Payer(t)'
      BY <2>2, <3>1, <3>2, <3>3, <3>4, SamePayer
    <3> QED BY <1>t, <2>3, <3>5
  <2> QED BY <2>4, <2>5, <2>6
<1>4. CASE Send
  BY <1>4, <1>t DEF Send, BoundedDelay, Owed, None
<1>5. CASE CallbackNotify
  BY <1>5, <1>t DEF CallbackNotify, BoundedDelay, Owed, None
<1>6. CASE CallbackReset
  <2>1. age' = age /\ clock' = clock /\ sending' = sending /\ notifying' = notifying
    BY <1>6 DEF CallbackReset
  <2>2. state' = state \/ state'.timer = NoTimer
    BY <1>6 DEF CallbackReset, NewWindow
  <2>3. BoundedDelay' /\ (Owed' <=> Owed)
    BY <2>1 DEF BoundedDelay, Owed
  <2>4. \A t \in Timers : Payer(t) => Payer(t)'
    <3> SUFFICES ASSUME NEW t \in Timers, Payer(t) PROVE Payer(t)'
      OBVIOUS
    <3>1. NoTimer # t
      BY DebounceAssumption
    <3> QED BY <2>1, <2>2, <3>1, SamePayer
  <2> QED BY <1>t, <2>1, <2>3, <2>4
<1>7. CASE Forget
  BY <1>7, <1>t DEF Forget, BoundedDelay, Owed, None
<1>8. CASE Tick
  <2>1. CASE ~Owed
    BY <1>8, <1>t, <2>1 DEF Tick, BoundedDelay, Owed, None
  <2>2. CASE Owed
    <3>1. PICK t \in Timers : Payer(t)
      BY <1>8, <2>2 DEF Tick, DebounceTypeOK
    <3>2. clock[t] \in 1..debounceInterval /\ clock'[t] = clock[t] - 1
      BY <1>8, <3>1 DEF Tick, Payer, Scheduled, DebounceTypeOK, Clocks, Off
    <3>3. age \in 0..MaxAge /\ age + clock[t] <= burstWindow + debounceInterval
      BY <2>2, <3>1 DEF Owed, DebounceTypeOK, None, Payer, MaxAge
    <3>4. age' = age + 1 /\ age + 1 <= burstWindow + debounceInterval
      BY <1>8, <2>2, <3>2, <3>3 DEF Tick, MaxAge
    <3>5. /\ state'.timer = state.timer
          /\ ~Expired' => ~Expired /\ state'.left = state.left - 1 /\ state.left \in Int
      BY <1>8 DEF Tick, DebounceTypeOK, States, Expired
    <3>6. Payer(t)'
      <4>1. Scheduled(t)'
        BY <3>2 DEF Scheduled, Off
      <4>2. age' + clock'[t] <= burstWindow + debounceInterval
        BY <3>2, <3>3, <3>4
      <4>3. ASSUME t = state'.timer, ~Expired' PROVE age' + state'.left <= burstWindow
        BY <3>1, <3>3, <3>4, <3>5, <4>3 DEF Payer
      <4> QED BY <4>1, <4>2, <4>3 DEF Payer
    <3> QED BY <1>t, <3>4, <3>6 DEF BoundedDelay
  <2> QED BY <2>1, <2>2
<1>9. ASSUME NEW t \in Timers, Fire(t) PROVE PayInv'
  BY <1>9, <1>t DEF Fire, BoundedDelay, DebounceTypeOK
<1>10. CASE UNCHANGED debounceVars
  BY <1>10, <1>t DEF debounceVars, BoundedDelay, Owed, Payer, Scheduled, Expired
<1> QED BY <1>1, <1>2, <1>3, <1>4, <1>5, <1>6, <1>7, <1>8, <1>9, <1>10 DEF DebounceNext, Trigger

LEMMA PayInvariant == DebounceSpec => []PayInv
BY InitPay, NextPay, PTL DEF DebounceSpec

(* No reported change is forgotten: a timer, a callback or the run goroutine *)
(* is about to notify it, whatever windows expired and callbacks raced.     *)
THEOREM NothingForgotten == DebounceSpec => []OwedIsScheduled
<1>1. PayInv => OwedIsScheduled
  BY DEF PayInv, OwedIsScheduled, Payer
<1> QED BY <1>1, PayInvariant, PTL

(* A change waits for one burst window and one debounce interval at most,    *)
(* for any stream of further changes that postpone the timer.              *)
THEOREM Prompt == DebounceSpec => []BoundedDelay
<1>1. PayInv => BoundedDelay
  BY DEF PayInv
<1> QED BY <1>1, PayInvariant, PTL
=============================================================================
