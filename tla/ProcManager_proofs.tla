------------------------ MODULE ProcManager_proofs ------------------------
(***************************************************************************)
(* For every set of processes and every capacity: the exit notification is *)
(* the last one, input ends after all that was accepted, and nothing is    *)
(* sent to a closed channel.                                               *)
(***************************************************************************)
EXTENDS ProcManager, TLAPS

USE ProcAssumption
USE DEF vars, tableVars, childVars, fdVars, inputVars, routines

(* The steps of one process, one disjunct per action.                      *)
Step(p) ==
    \/ \E m \in {"pty", "pipe"} : Start(p, m)
    \/ StartFails(p) \/ Store(p)
    \/ \E s \in Streams : ChildWrites(p, s)
    \/ ChildExits(p) \/ \E off \in BOOLEAN : PtyCtl(p, off)
    \/ \E s \in Streams : ReadChunk(p, s)
    \/ \E s \in Streams : Output(p, s) \/ ReadEnd(p, s)
    \/ InputLookup(p) \/ InputSend(p) \/ CloseInputLookup(p)
    \/ CloseInputFlag(p) \/ CloseInputChan(p)
    \/ WriterTake(p) \/ WriterDone(p) \/ WriterFails(p) \/ WriterEof(p)
    \/ WaitReap(p) \/ WaitLookup(p) \/ WaitFlag(p) \/ WaitClose(p)
    \/ WaitDrain(p) \/ WaitDelete(p) \/ WaitNotify(p)

LEMMA NextSteps ==
    ASSUME [Next]_vars
    PROVE  (\E p \in Procs : Step(p)) \/ Close \/ UNCHANGED vars
BY DEF Next, StartStep, ChildStep, ReaderStep, InputStep, WriterStep, WaiterStep,
       Killed, Signal, Step

-----------------------------------------------------------------------------
(* Type correctness.                                                       *)

LEMMA InitType == Init => TypeOK
<1> SUFFICES ASSUME Init PROVE TypeOK
  OBVIOUS
<1>1. unread \in [Procs -> [Streams -> 0..MaxOut]] /\ queue \in [Procs -> 0..InputCap]
  BY DEF Init
<1>2. reader \in [Procs -> [Streams -> {"none", "reading", "sending", "done"}]]
  BY DEF Init
<1>3. processes \subseteq Procs /\ input \in Procs \cup {NoProc} /\ closed \in BOOLEAN
  BY DEF Init, NoProc
<1>4. /\ stopped \in [Procs -> BOOLEAN] /\ truncated \in [Procs -> BOOLEAN]
      /\ slave \in [Procs -> BOOLEAN] /\ canceled \in [Procs -> BOOLEAN]
      /\ inputClosed \in [Procs -> BOOLEAN] /\ chanClosed \in [Procs -> BOOLEAN]
  BY DEF Init
<1> QED BY <1>1, <1>2, <1>3, <1>4 DEF Init, TypeOK

LEMMA QueueEdit ==
    ASSUME NEW q \in [Procs -> 0..InputCap], NEW p \in Procs, q[p] # InputCap
    PROVE  [q EXCEPT ![p] = @ + 1] \in [Procs -> 0..InputCap]
OBVIOUS

LEMMA StepType ==
    ASSUME TypeOK, NEW p \in Procs, Step(p)
    PROVE  TypeOK'
<1> USE DEF TypeOK
<1>1. ASSUME NEW m \in {"pty", "pipe"}, Start(p, m) PROVE TypeOK'
  BY <1>1 DEF Start
<1>2. CASE StartFails(p)
  BY <1>2 DEF StartFails
<1>3. CASE Store(p)
  BY <1>3 DEF Store
<1>4. ASSUME NEW s \in Streams, ChildWrites(p, s) PROVE TypeOK'
  BY <1>4 DEF ChildWrites
<1>5. CASE ChildExits(p)
  BY <1>5 DEF ChildExits
<1>6. ASSUME NEW off \in BOOLEAN, PtyCtl(p, off) PROVE TypeOK'
  BY <1>6 DEF PtyCtl
<1>7. ASSUME NEW s \in Streams, ReadChunk(p, s) PROVE TypeOK'
  BY <1>7 DEF ReadChunk
<1>8. ASSUME NEW s \in Streams, Output(p, s) PROVE TypeOK'
  BY <1>8 DEF Output
<1>9. ASSUME NEW s \in Streams, ReadEnd(p, s) PROVE TypeOK'
  BY <1>9 DEF ReadEnd
<1>10. CASE InputLookup(p)
  BY <1>10 DEF InputLookup
<1>11. CASE InputSend(p)
  <2>1. queue' \in [Procs -> 0..InputCap]
    <3>1. CASE inputClosed[p] \/ queue[p] = InputCap
      BY <1>11, <3>1 DEF InputSend
    <3>2. CASE ~(inputClosed[p] \/ queue[p] = InputCap)
      <4>1. queue' = [queue EXCEPT ![p] = @ + 1] /\ queue[p] # InputCap
        BY <1>11, <3>2, Zenon DEF InputSend
      <4> QED BY <4>1, QueueEdit
    <3> QED BY <3>1, <3>2
  <2> QED BY <1>11, <2>1 DEF InputSend
<1>12. CASE CloseInputLookup(p)
  BY <1>12 DEF CloseInputLookup
<1>13. CASE CloseInputFlag(p)
  BY <1>13 DEF CloseInputFlag
<1>14. CASE CloseInputChan(p)
  BY <1>14 DEF CloseInputChan
<1>15. CASE WriterTake(p)
  BY <1>15 DEF WriterTake
<1>16. CASE WriterDone(p)
  <2>1. writer' = [writer EXCEPT ![p] = "idle"]
    BY <1>16 DEF WriterDone
  <2> QED BY <1>16, <2>1 DEF WriterDone
<1>17. CASE WriterFails(p)
  <2>1. writer' = [writer EXCEPT ![p] = "done"]
    BY <1>17 DEF WriterFails
  <2> QED BY <1>17, <2>1 DEF WriterFails
<1>18. CASE WriterEof(p)
  BY <1>18 DEF WriterEof
<1>19. CASE WaitReap(p)
  <2> DEFINE Same == UNCHANGED <<stopped, slave, canceled, reader, writer, tableVars, inputVars>>
  <2>1. waiter' = [waiter EXCEPT ![p] = "lookup"] /\ child' = [child EXCEPT ![p] = "reaped"] /\ Same
    BY <1>19 DEF WaitReap
  <2>2. stdin' \in [Procs -> {"open", "eof", "cut"}]
    <3>1. stdin' = stdin \/ stdin' = [stdin EXCEPT ![p] = "cut"]
      BY <1>19 DEF WaitReap, Cut
    <3> QED BY <3>1
  <2>3. truncated' \in [Procs -> BOOLEAN]
    BY <1>19 DEF WaitReap
  <2>4. unread' \in [Procs -> [Streams -> 0..MaxOut]]
    <3> DEFINE nothing == [s \in Streams |-> 0]
    <3>1. unread' = unread \/ unread' = [unread EXCEPT ![p] = nothing]
      BY <1>19 DEF WaitReap
    <3>2. nothing \in [Streams -> 0..MaxOut] /\ unread \in [Procs -> [Streams -> 0..MaxOut]]
      OBVIOUS
    <3> HIDE DEF nothing
    <3> QED BY ONLY <3>1, <3>2
  <2> QED BY <2>1, <2>2, <2>3, <2>4
<1>20. CASE WaitLookup(p)
  <2>1. slave' \in [Procs -> BOOLEAN]
    <3>1. slave \in [Procs -> BOOLEAN]
      OBVIOUS
    <3>2. slave' = slave \/ slave' = [slave EXCEPT ![p] = FALSE]
      BY <1>20 DEF WaitLookup
    <3> QED BY ONLY <3>1, <3>2
  <2>2. waiter' = [waiter EXCEPT ![p] = "flag"] \/ waiter' = [waiter EXCEPT ![p] = "drain"]
    BY <1>20 DEF WaitLookup
  <2>3. waiter' \in [Procs -> {"none", "wait", "lookup", "flag", "close", "drain",
                            "delete", "notify", "done"}]
    BY <2>2
  <2> QED BY <1>20, <2>1, <2>3 DEF WaitLookup
<1>21. CASE WaitFlag(p)
  BY <1>21 DEF WaitFlag
<1>22. CASE WaitClose(p)
  BY <1>22 DEF WaitClose
<1>23. CASE WaitDrain(p)
  BY <1>23 DEF WaitDrain
<1>24. CASE WaitNotify(p)
  BY <1>24 DEF WaitNotify
<1>25. CASE WaitDelete(p)
  BY <1>25 DEF WaitDelete
<1> QED BY <1>1, <1>2, <1>3, <1>4, <1>5, <1>6, <1>7, <1>8, <1>9, <1>10, <1>11, <1>12,
           <1>13, <1>14, <1>15, <1>16, <1>17, <1>18, <1>19, <1>20, <1>21, <1>22, <1>23,
           <1>24, <1>25 DEF Step

LEMMA NextType ==
    ASSUME TypeOK, [Next]_vars
    PROVE  TypeOK'
<1>1. CASE Close
  BY <1>1 DEF Close, TypeOK
<1>2. CASE UNCHANGED vars
  BY <1>2 DEF TypeOK
<1> QED BY <1>1, <1>2, NextSteps, StepType

(* The manager's state always has its type; inputCh is never over-full.     *)
THEOREM TypeCorrect == Spec => []TypeOK
BY InitType, NextType, PTL DEF Spec
-----------------------------------------------------------------------------
(* The exit is the last notification.  The waiter passes wg.Wait only when  *)
(* all readers are done, and a reader is started only with its waiter.     *)

Fresh(p) == start[p] = "idle" =>
    waiter[p] = "none" /\ writer[p] = "none" /\ p \notin processes
Drained(p) == waiter[p] \in {"delete", "notify", "done"} =>
    \A s \in Streams : reader[p][s] = "done"

ExitInv == TypeOK /\ \A p \in Procs : Fresh(p) /\ Drained(p)

LEMMA InitExit == Init => ExitInv
BY InitType DEF Init, ExitInv, Fresh, Drained

(* A step touches the goroutines of one process only.                       *)
LEMMA StepLocal ==
    ASSUME TypeOK, NEW p \in Procs, Step(p), NEW q \in Procs, q # p
    PROVE  /\ start'[q] = start[q] /\ waiter'[q] = waiter[q] /\ writer'[q] = writer[q]
           /\ reader'[q] = reader[q] /\ stdin'[q] = stdin[q]
           /\ queue'[q] = queue[q] /\ closer'[q] = closer[q]
           /\ inputClosed'[q] = inputClosed[q] /\ chanClosed'[q] = chanClosed[q]
           /\ q \in processes' <=> q \in processes
BY DEF TypeOK, Step, Start, StartFails, Store, ChildWrites, ChildExits, PtyCtl, ReadChunk,
       Output, ReadEnd, InputLookup, InputSend, CloseInputLookup, CloseInputFlag,
       CloseInputChan, WriterTake, WriterDone, WriterFails, WriterEof, WaitReap, Cut,
       WaitLookup, WaitFlag, WaitClose, WaitDrain, WaitDelete, WaitNotify

LEMMA StepExit ==
    ASSUME ExitInv, NEW p \in Procs, Step(p)
    PROVE  Fresh(p)' /\ Drained(p)'
<1> USE DEF ExitInv
<1>1. Fresh(p)'
  BY DEF Fresh, TypeOK, Step, Start, StartFails, Store, ChildWrites, ChildExits, PtyCtl,
         ReadChunk, Output, ReadEnd, InputLookup, InputSend, CloseInputLookup,
         CloseInputFlag, CloseInputChan, WriterTake, WriterDone, WriterFails, WriterEof,
         WaitReap, WaitLookup, WaitFlag, WaitClose, WaitDrain, WaitDelete, WaitNotify
<1>2. Drained(p)'
  <2>1. ASSUME NEW m \in {"pty", "pipe"}, Start(p, m) PROVE Drained(p)'
    BY <2>1 DEF Drained, TypeOK, Start
  <2>2. ASSUME NEW s \in Streams, ReadChunk(p, s) \/ Output(p, s) \/ ReadEnd(p, s)
        PROVE  Drained(p)'
    <3>1. waiter[p] \notin {"delete", "notify", "done"} /\ waiter' = waiter
      BY <2>2 DEF ReadChunk, Output, ReadEnd, Drained
    <3> QED BY <3>1 DEF Drained
  <2>3. CASE WaitDrain(p)
    BY <2>3 DEF WaitDrain, Drained, TypeOK
  <2>4. CASE WaitDelete(p)
    BY <2>4 DEF WaitDelete, Drained, TypeOK
  <2>5. CASE WaitNotify(p)
    BY <2>5 DEF WaitNotify, Drained, TypeOK
  <2>6. CASE /\ reader' = reader
             /\ waiter'[p] = waiter[p] \/ waiter'[p] \notin {"delete", "notify", "done"}
    BY <2>6 DEF Drained
  <2> QED BY <2>1, <2>2, <2>3, <2>4, <2>5, <2>6
      DEF TypeOK, Step, StartFails, Store, ChildWrites, ChildExits, PtyCtl, InputLookup,
          InputSend, CloseInputLookup, CloseInputFlag, CloseInputChan, WriterTake,
          WriterDone, WriterFails, WriterEof, WaitReap, WaitLookup, WaitFlag, WaitClose
<1> QED BY <1>1, <1>2

LEMMA NextExit ==
    ASSUME ExitInv, [Next]_vars
    PROVE  ExitInv'
<1>t. TypeOK'
  BY NextType DEF ExitInv
<1>1. ASSUME NEW p \in Procs, Step(p) PROVE ExitInv'
  <2> SUFFICES ASSUME NEW q \in Procs PROVE Fresh(q)' /\ Drained(q)'
    BY <1>t DEF ExitInv
  <2>1. CASE q = p
    BY <1>1, <2>1, StepExit
  <2>2. CASE q # p
    BY <1>1, <2>2, StepLocal DEF ExitInv, Fresh, Drained
  <2> QED BY <2>1, <2>2
<1>2. CASE Close
  BY <1>2, <1>t DEF Close, ExitInv, Fresh, Drained
<1>3. CASE UNCHANGED vars
  BY <1>3, <1>t DEF ExitInv, Fresh, Drained
<1> QED BY <1>1, <1>2, <1>3, NextSteps

LEMMA ExitInvariant == Spec => []ExitInv
BY InitExit, NextExit, PTL DEF Spec

(* No exec/output follows a process's exec/exit.                            *)
THEOREM ExitIsLastNotification == Spec => []ExitIsLast
<1>1. ExitInv => ExitIsLast
  BY DEF ExitInv, ExitIsLast, Drained
<1> QED BY <1>1, ExitInvariant, PTL

-----------------------------------------------------------------------------
(* Input.  The flag is raised before the channel is closed, by whichever of *)
(* the closers; from then on the queue only shrinks, and the writer closes  *)
(* the child's input when it is empty.                                     *)

Flagged(p) ==
    chanClosed[p] \/ closer[p] = "close" \/ waiter[p] = "close" => inputClosed[p]
AtEof(p) == stdin[p] = "eof" => queue[p] = 0 /\ writer[p] = "done" /\ chanClosed[p]

InputInv == ExitInv /\ \A p \in Procs : Flagged(p) /\ AtEof(p)

LEMMA InitInput == Init => InputInv
BY InitExit DEF Init, InputInv, Flagged, AtEof

LEMMA StepInput ==
    ASSUME InputInv, NEW p \in Procs, Step(p)
    PROVE  Flagged(p)' /\ AtEof(p)'
<1> USE DEF InputInv, ExitInv
<1>1. Flagged(p)'
  BY DEF Flagged, TypeOK, Step, Start, StartFails, Store, ChildWrites, ChildExits, PtyCtl,
         ReadChunk, Output, ReadEnd, InputLookup, InputSend, CloseInputLookup,
         CloseInputFlag, CloseInputChan, WriterTake, WriterDone, WriterFails, WriterEof,
         WaitReap, WaitLookup, WaitFlag, WaitClose, WaitDrain, WaitDelete, WaitNotify
<1>2. AtEof(p)'
  <2>1. ASSUME NEW m \in {"pty", "pipe"}, Start(p, m) PROVE AtEof(p)'
    BY <2>1 DEF AtEof, Fresh, Start
  <2>2. CASE InputSend(p)
    BY <2>2 DEF InputSend, AtEof, Flagged
  <2>3. CASE CloseInputChan(p)
    BY <2>3 DEF CloseInputChan, AtEof, TypeOK
  <2>4. CASE WriterTake(p)
    BY <2>4 DEF WriterTake, AtEof
  <2>5. CASE WriterDone(p) \/ WriterFails(p)
    BY <2>5 DEF WriterDone, WriterFails, AtEof
  <2>6. CASE WriterEof(p)
    BY <2>6 DEF WriterEof, AtEof, TypeOK
  <2>7. CASE WaitReap(p)
    <3>1. stdin'[p] = stdin[p] \/ stdin'[p] = "cut"
      BY <2>7 DEF WaitReap, Cut, TypeOK
    <3>2. writer' = writer /\ queue' = queue /\ chanClosed' = chanClosed
      BY <2>7 DEF WaitReap
    <3> QED BY <3>1, <3>2 DEF AtEof
  <2>8. CASE WaitClose(p)
    BY <2>8 DEF WaitClose, AtEof, TypeOK
  <2>9. CASE UNCHANGED <<stdin, queue, writer, chanClosed>>
    BY <2>9 DEF AtEof
  <2> QED BY <2>1, <2>2, <2>3, <2>4, <2>5, <2>6, <2>7, <2>8, <2>9
      DEF Step, StartFails, Store, ChildWrites, ChildExits, PtyCtl, ReadChunk, Output,
          ReadEnd, InputLookup, CloseInputLookup, CloseInputFlag, WaitLookup, WaitFlag,
          WaitDrain, WaitDelete, WaitNotify
<1> QED BY <1>1, <1>2

LEMMA NextInput ==
    ASSUME InputInv, [Next]_vars
    PROVE  InputInv'
<1>t. ExitInv'
  BY NextExit DEF InputInv
<1>1. ASSUME NEW p \in Procs, Step(p) PROVE InputInv'
  <2> SUFFICES ASSUME NEW q \in Procs PROVE Flagged(q)' /\ AtEof(q)'
    BY <1>t DEF InputInv
  <2>1. CASE q = p
    BY <1>1, <2>1, StepInput
  <2>2. CASE q # p
    BY <1>1, <2>2, StepLocal DEF InputInv, ExitInv, Flagged, AtEof
  <2> QED BY <2>1, <2>2
<1>2. CASE Close
  BY <1>2, <1>t DEF Close, InputInv, Flagged, AtEof
<1>3. CASE UNCHANGED vars
  BY <1>3, <1>t DEF InputInv, Flagged, AtEof
<1> QED BY <1>1, <1>2, <1>3, NextSteps

LEMMA InputInvariant == Spec => []InputInv
BY InitInput, NextInput, PTL DEF Spec

(* The child's EOF comes after everything that was accepted for it.         *)
THEOREM InputBeforeEof == Spec => []EofAfterInput
<1>1. InputInv => EofAfterInput
  BY DEF InputInv, EofAfterInput, AtEof
<1> QED BY <1>1, InputInvariant, PTL

(* No handler ever sends to a closed channel.                               *)
THEOREM NoPanic == Spec => NoSendOnClosed
<1> DEFINE NoSend == \A p \in Procs : chanClosed[p] => queue'[p] <= queue[p]
<1>1. ASSUME InputInv, [Next]_vars PROVE [NoSend]_vars
  <2>1. ASSUME NEW p \in Procs, Step(p) PROVE NoSend
    <3> SUFFICES ASSUME NEW q \in Procs, chanClosed[q] PROVE queue'[q] <= queue[q]
      OBVIOUS
    <3>1. queue[q] \in Int
      BY <1>1 DEF InputInv, ExitInv, TypeOK
    <3>2. CASE q # p
      BY <1>1, <2>1, <3>1, <3>2, StepLocal DEF InputInv, ExitInv
    <3>3. CASE q = p
      <4>1. inputClosed[p]
        BY <1>1, <3>3 DEF InputInv, Flagged
      <4>2. queue' = queue \/ queue'[p] = queue[p] - 1
        BY <1>1, <2>1, <4>1 DEF InputInv, ExitInv, TypeOK, Step, Start, StartFails, Store,
           ChildWrites, ChildExits, PtyCtl, ReadChunk, Output, ReadEnd, InputLookup,
           InputSend, CloseInputLookup, CloseInputFlag, CloseInputChan, WriterTake,
           WriterDone, WriterFails, WriterEof, WaitReap, WaitLookup, WaitFlag, WaitClose,
           WaitDrain, WaitDelete, WaitNotify
      <4> QED BY <3>1, <3>3, <4>2
    <3> QED BY <3>2, <3>3
  <2>2. CASE Close
    <3>1. queue' = queue
      BY <2>2 DEF Close
    <3>2. \A p \in Procs : queue[p] \in Int
      BY <1>1 DEF InputInv, ExitInv, TypeOK
    <3> QED BY <3>1, <3>2
  <2>3. CASE UNCHANGED vars
    BY <2>3
  <2> QED BY <1>1, <2>1, <2>2, <2>3, NextSteps
<1> QED BY <1>1, InputInvariant, PTL DEF Spec, NoSendOnClosed
=============================================================================
