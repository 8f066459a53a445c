--------------------------- MODULE Connect_proofs ---------------------------
(***************************************************************************)
(* For any number of attempts, nested and given up in any way: the state   *)
(* is never stuck at connecting, and without overlapping attempts the      *)
(* table and the state tell the truth about the live connection.  The      *)
(* second part is about PtyBridge, the handshake of one attempt: what is   *)
(* written finds its reader, and flitrpc is given the server's frames.     *)
(***************************************************************************)
EXTENDS Connect, PtyBridge, SequenceTheorems, TLAPS

USE ConnectAssumption DEF ConnectAssumption

\* The actions, without their grouping.
Step(a) == \/ GetConnection(a) \/ FlitConnect(a) \/ ThenConnect(a)
           \/ HandshakeDone(a) \/ HandshakeFails(a) \/ InitDone(a) \/ InitFails(a)
           \/ Done(a) \/ GiveUp(a) \/ Dies(a) \/ Sentinel(a)

Closing == \/ \E what \in {"connect", "disconnect"} : Close(what)
           \/ FlitDisconnect \/ Kill \/ ThenDisconnected \/ GiveUpClose

LEMMA NextSteps ==
    ASSUME [Next]_vars
    PROVE  (\E a \in Attempts : Step(a)) \/ Closing \/ UNCHANGED vars
BY DEF Next, Step, Closing
-----------------------------------------------------------------------------
(* The stack of waits.                                                     *)

LEMMA Pushed ==
    ASSUME NEW w \in Seq(Waits), NEW x \in Waits
    PROVE  /\ <<x>> \o w \in Seq(Waits)
           /\ Len(<<x>> \o w) = Len(w) + 1
           /\ (<<x>> \o w)[1] = x
           /\ \A i \in 1..Len(w) : (<<x>> \o w)[i + 1] = w[i]
           /\ \A i \in 2..Len(w) + 1 : (<<x>> \o w)[i] = w[i - 1]
OBVIOUS

LEMMA Popped ==
    ASSUME NEW w \in Seq(Waits), w # <<>>
    PROVE  /\ Tail(w) \in Seq(Waits) /\ Head(w) \in Waits
           /\ Head(w) = w[1] /\ Len(w) \in Nat /\ Len(w) > 0
           /\ Len(Tail(w)) = Len(w) - 1
           /\ \A i \in 1..Len(Tail(w)) : Tail(w)[i] = w[i + 1]
OBVIOUS

LEMMA WaitShape ==
    /\ \A c \in Attempts, what \in {"attempt", "connect", "disconnect"} :
          [what |-> what, conn |-> c] \in Waits
    /\ \A w \in Waits : w.conn \in Attempts
BY DEF Waits
-----------------------------------------------------------------------------
(* Type correctness.                                                       *)

Processes == alive \subseteq {a \in Attempts : stage[a] \notin {"none", "over"}}
Staged    == stage \in [Attempts -> {"none", "handshake", "init", "live", "stray", "over"}]
Shown     == /\ state \in {"pending", "connecting", "connected", "failed", "disconnected"}
             /\ table \in Attempts \cup {None}

Stacked   == told \subseteq Attempts /\ waits \in Seq(Waits)
Flag      == overlap \in BOOLEAN

TypeInv == Processes /\ Staged /\ Shown /\ Stacked /\ Flag

LEMMA BeginType ==
    ASSUME TypeInv, NEW a \in Attempts, NEW rest \in Seq(Waits), Begin(a, rest)
    PROVE  /\ Processes' /\ Staged' /\ Stacked' /\ Flag'
           /\ state' \in {"failed", "connecting"}
<1> USE DEF TypeInv
<1>1. CASE DoConnect(a, rest)
  <2>1. Processes' /\ Staged'
    BY <1>1 DEF DoConnect, Fresh, Processes, Staged
  <2>2. state' \in {"failed", "connecting"} /\ told' = told
    BY <1>1 DEF DoConnect
  <2>3. Flag'
    BY <1>1, Zenon DEF DoConnect, Flag
  <2>4. waits' \in Seq(Waits)
    <3>1. [what |-> "attempt", conn |-> a] \in Waits
      BY WaitShape
    <3>2. <<[what |-> "attempt", conn |-> a]>> \o rest \in Seq(Waits)
      BY <3>1, Pushed
    <3> QED BY <1>1, <3>2 DEF DoConnect
  <2> QED BY <2>1, <2>2, <2>3, <2>4 DEF Stacked
<1>2. CASE CannotStart(a, rest)
  <2>1. Flag'
    BY <1>2, Zenon DEF CannotStart, Flag
  <2>2. Processes' /\ Staged' /\ Stacked' /\ state' = "failed"
    BY <1>2 DEF CannotStart, Fresh, Processes, Staged, Stacked
  <2> QED BY <2>1, <2>2
<1> QED BY <1>1, <1>2 DEF Begin

\* A step that leaves overlap alone.
LEMMA FlagKept == ASSUME Flag, UNCHANGED overlap PROVE Flag'
BY Zenon DEF Flag

LEMMA StepType == ASSUME TypeInv, NEW a \in Attempts, Step(a) PROVE TypeInv'
<1> USE DEF TypeInv
<1>1. CASE GetConnection(a) \/ FlitConnect(a)
  <2>1. Begin(a, waits) /\ table' \in {None, table}
    BY <1>1 DEF GetConnection, FlitConnect
  <2>2. waits \in Seq(Waits)
    BY DEF Stacked
  <2>3. /\ Processes' /\ Staged' /\ Stacked' /\ Flag'
        /\ state' \in {"failed", "connecting"}
    BY <2>1, <2>2, BeginType
  <2> QED BY <2>1, <2>3 DEF Shown
<1>2. CASE ThenConnect(a)
  <2>1. Tail(waits) \in Seq(Waits)
    BY <1>2, Popped DEF ThenConnect, Innermost, Stacked
  <2>2. /\ Processes' /\ Staged' /\ Stacked' /\ Flag'
        /\ state' \in {"failed", "connecting"}
    BY <1>2, <2>1, BeginType DEF ThenConnect
  <2> QED BY <1>2, <2>2 DEF ThenConnect, Shown
<1>3. CASE \/ HandshakeDone(a) \/ HandshakeFails(a) \/ InitDone(a) \/ InitFails(a)
           \/ Dies(a) \/ Sentinel(a)
  <2> USE DEF HandshakeDone, HandshakeFails, InitDone, InitFails, Dies, Sentinel, ShutDown
  <2>1. Processes' /\ Staged'
    BY <1>3 DEF Processes, Staged
  <2>2. Shown'
    BY <1>3 DEF Shown
  <2>3. UNCHANGED <<told, waits, overlap>>
    BY <1>3
  <2>4. Flag'
    BY <2>3, FlagKept
  <2> QED BY <2>1, <2>2, <2>3, <2>4 DEF Stacked
<1>4. CASE Done(a) \/ GiveUp(a)
  <2>1. Tail(waits) \in Seq(Waits)
    BY <1>4, Popped DEF Done, GiveUp, Innermost, Stacked
  <2>2. UNCHANGED <<table, stage, alive, told, overlap>> /\ waits' = Tail(waits)
    BY <1>4 DEF Done, GiveUp
  <2>3. Shown'
    BY <1>4, <2>2 DEF Done, GiveUp, Shown
  <2>4. Flag'
    BY <2>2, FlagKept
  <2> QED BY <2>1, <2>2, <2>3, <2>4 DEF Processes, Staged, Stacked
<1> QED BY <1>1, <1>2, <1>3, <1>4 DEF Step

LEMMA ClosingType == ASSUME TypeInv, Closing PROVE TypeInv'
<1> USE DEF TypeInv
<1>1. UNCHANGED overlap
  BY DEF Closing, Close, FlitDisconnect, Kill, ThenDisconnected, GiveUpClose
<1>2. Flag'
  BY <1>1, FlagKept
<1>3. ASSUME NEW what \in {"connect", "disconnect"}, Close(what)
      PROVE  Processes' /\ Staged' /\ Shown' /\ Stacked'
  <2>1. table \in Attempts
    BY <1>3 DEF Close, Alive, Processes
  <2>2. <<[what |-> what, conn |-> table]>> \o waits \in Seq(Waits)
    BY <2>1, WaitShape, Pushed DEF Stacked
  <2> QED BY <1>3, <2>1, <2>2 DEF Close, Processes, Staged, Shown, Stacked
<1>4. CASE FlitDisconnect
  BY <1>2, <1>4 DEF FlitDisconnect, Processes, Staged, Shown, Stacked
<1>5. CASE Kill
  <2>1. Top.conn \in Attempts
    BY <1>5, Popped, WaitShape DEF Kill, Top, Stacked
  <2>2. UNCHANGED <<told, waits>> /\ Shown'
    BY <1>5 DEF Kill, ShutDown, Shown
  <2>3. Processes' /\ Staged'
    BY <1>5, <2>1 DEF Kill, ShutDown, Processes, Staged
  <2> QED BY <1>2, <2>2, <2>3 DEF Stacked
<1>6. CASE ThenDisconnected \/ GiveUpClose
  <2>1. Tail(waits) \in Seq(Waits)
    BY <1>6, Popped DEF ThenDisconnected, GiveUpClose, Innermost, Stacked
  <2>2. UNCHANGED <<table, stage, alive, told>> /\ waits' = Tail(waits)
    BY <1>6 DEF ThenDisconnected, GiveUpClose
  <2>3. Shown'
    BY <1>6 DEF ThenDisconnected, GiveUpClose, Shown
  <2> QED BY <1>2, <2>1, <2>2, <2>3 DEF Processes, Staged, Stacked
<1> QED BY <1>2, <1>3, <1>4, <1>5, <1>6 DEF Closing

LEMMA InitType == Init => TypeInv
<1> SUFFICES ASSUME Init PROVE TypeInv
  OBVIOUS
<1>1. Flag
  BY Zenon DEF Init, Flag
<1>2. Processes /\ Staged /\ Shown /\ Stacked
  BY DEF Init, Processes, Staged, Shown, Stacked
<1> QED BY <1>1, <1>2 DEF TypeInv

LEMMA TypeStep == TypeInv /\ [Next]_vars => TypeInv'
<1>1. ASSUME TypeInv, UNCHANGED vars PROVE TypeInv'
  <2>1. Flag'
    BY <1>1, FlagKept DEF vars, TypeInv
  <2> QED BY <1>1, <2>1 DEF vars, TypeInv, Processes, Staged, Shown, Stacked
<1> QED BY <1>1, NextSteps, StepType, ClosingType

\* The state, the table, the attempts and the stack of waits stay well typed,
\* and no process of an attempt that is over is alive.
THEOREM TypeCorrect == Spec => []TypeOK
<1>1. TypeInv => TypeOK
  BY DEF TypeInv, Processes, Staged, Shown, Stacked, Flag, TypeOK
<1> QED BY <1>1, InitType, TypeStep, PTL DEF Spec
-----------------------------------------------------------------------------
(* The state connecting.                                                   *)

LEMMA NotStuckStep == ASSUME TypeInv, NeverStuck, [Next]_vars PROVE NeverStuck'
<1> USE DEF NeverStuck
<1>0. waits \in Seq(Waits)
  BY DEF TypeInv, Stacked
<1>1. ASSUME NEW a \in Attempts, NEW rest \in Seq(Waits), Begin(a, rest)
      PROVE  NeverStuck'
  <2>1. CASE state' # "connecting"
    BY <2>1
  <2>2. CASE state' = "connecting"
    <3>1. waits' = <<[what |-> "attempt", conn |-> a]>> \o rest
      BY <1>1, <2>2 DEF Begin, DoConnect, CannotStart
    <3>2. [what |-> "attempt", conn |-> a] \in Waits
      BY WaitShape
    <3>3. waits'[1].what = "attempt" /\ 1 \in 1..Len(waits')
      BY <3>1, <3>2, Pushed
    <3> QED BY <3>3
  <2> QED BY <2>1, <2>2
<1>2. ASSUME NEW a \in Attempts, Step(a) PROVE NeverStuck'
  <2>1. CASE GetConnection(a) \/ FlitConnect(a)
    BY <2>1, <1>0, <1>1 DEF GetConnection, FlitConnect
  <2>2. CASE ThenConnect(a)
    BY <2>2, <1>0, <1>1, Popped DEF ThenConnect, Innermost
  <2>3. CASE HandshakeDone(a) \/ Dies(a)
    BY <2>3 DEF HandshakeDone, Dies
  <2>4. CASE HandshakeFails(a) \/ InitDone(a) \/ InitFails(a) \/ Sentinel(a)
    BY <2>4 DEF HandshakeFails, InitDone, InitFails, Sentinel
  <2>5. CASE Done(a) \/ GiveUp(a)
    BY <2>5 DEF Done, GiveUp
  <2> QED BY <1>2, <2>1, <2>2, <2>3, <2>4, <2>5 DEF Step
<1>3. ASSUME NEW what \in {"connect", "disconnect"}, Close(what) PROVE NeverStuck'
  <2>1. CASE state # "connecting"
    BY <1>3, <2>1 DEF Close
  <2>2. CASE state = "connecting"
    <3>1. PICK i \in 1..Len(waits) : waits[i].what = "attempt"
      BY <2>2
    <3>2. [what |-> what, conn |-> table] \in Waits
      BY <1>3, WaitShape DEF TypeInv, Close, Alive, Processes
    <3>3. /\ Len(waits') = Len(waits) + 1
          /\ waits'[i + 1] = waits[i] /\ Len(waits) \in Nat
      BY <1>0, <1>3, <3>2, Pushed DEF Close
    <3> QED BY <3>1, <3>3
  <2> QED BY <2>1, <2>2
<1>4. CASE FlitDisconnect \/ Kill \/ ThenDisconnected
  BY <1>4 DEF FlitDisconnect, Kill, ThenDisconnected
<1>5. CASE GiveUpClose
  <2>1. waits # <<>> /\ waits[1].what # "attempt" /\ waits' = Tail(waits) /\ state' = state
    BY <1>5, <1>0, Popped DEF GiveUpClose, Top
  <2>2. CASE state # "connecting"
    BY <2>1, <2>2
  <2>3. CASE state = "connecting"
    <3>1. PICK i \in 1..Len(waits) : waits[i].what = "attempt"
      BY <2>3
    <3>2. i # 1 /\ i - 1 \in 1..Len(waits') /\ waits'[i - 1] = waits[i]
      BY <1>0, <2>1, <3>1, Popped
    <3> QED BY <3>1, <3>2
  <2> QED BY <2>2, <2>3
<1>6. CASE UNCHANGED vars
  BY <1>6 DEF vars
<1> QED BY <1>2, <1>3, <1>4, <1>5, <1>6, NextSteps DEF Closing

\* The state of a host is connecting only while somebody waits for an attempt
\* whose wait, however it ends, sets another (flit--do-connect).
THEOREM StateMovesOn == Spec => []NeverStuck
<1>1. Init => NeverStuck
  BY DEF Init, NeverStuck
<1> QED BY <1>1, InitType, TypeStep, NotStuckStep, PTL DEF Spec
-----------------------------------------------------------------------------
(* The live connection.                                                    *)

\* Without overlapping attempts: there is one process; while somebody waits for
\* one to be closed, it is told; past the handshake of a process every sentinel
\* of an earlier one has run; and the connection is the one in the table.
Single == \A a, b \in alive : a = b

AllTold == (\E i \in 1..Len(waits) : waits[i].what # "attempt") => alive \subseteq told

Alone == \A a \in alive :
            stage[a] \in {"init", "live", "stray"} =>
                \A b \in Attempts \ alive : stage[b] \in {"none", "over"}

Entered == \A a \in alive :
              stage[a] = "live" => (table = a /\ state = "connected") \/ a \in told

Clean == Single /\ AllTold /\ Alone /\ Entered

LEMMA CleanProperty == (~overlap => Clean) => OneAtATime
BY DEF Clean, Entered, OneAtATime

LEMMA MadeClean ==
    ASSUME TypeInv, NEW a \in Attempts, DoConnect(a, <<>>), alive = {}
    PROVE  Clean'
<1>1. alive' = {a} /\ stage' = [stage EXCEPT ![a] = "handshake"]
  BY DEF DoConnect
<1>2. \A i \in 1..Len(waits') : waits'[i].what = "attempt"
  BY DEF DoConnect
<1>3. stage'[a] = "handshake"
  BY <1>1 DEF TypeInv, Staged
<1> QED BY <1>1, <1>2, <1>3 DEF Clean, Single, AllTold, Alone, Entered

\* A wait that ends was the innermost.
LEMMA AllToldPopped ==
    ASSUME TypeInv, AllTold, waits # <<>>, waits' = Tail(waits), UNCHANGED <<alive, told>>
    PROVE  AllTold'
<1> SUFFICES ASSUME NEW i \in 1..Len(waits'), waits'[i].what # "attempt"
             PROVE  alive \subseteq told
  BY DEF AllTold
<1>1. waits'[i] = waits[i + 1] /\ i + 1 \in 1..Len(waits)
  BY Popped DEF TypeInv, Stacked
<1> QED BY <1>1 DEF AllTold

\* The innermost wait is one of the waits.
LEMMA InnermostTold ==
    ASSUME TypeInv, AllTold, waits # <<>>, Top.what # "attempt"
    PROVE  alive \subseteq told
<1>1. 1 \in 1..Len(waits) /\ waits[1].what # "attempt"
  BY Popped DEF TypeInv, Stacked, Top
<1> QED BY <1>1 DEF AllTold

\* What changes only the state or the table disturbs nothing but Entered.
LEMMA Quiet ==
    ASSUME TypeInv, Clean, UNCHANGED <<stage, alive, told>>,
           waits' = waits \/ (waits # <<>> /\ waits' = Tail(waits)),
           Entered'
    PROVE  Clean'
<1>1. AllTold'
  <2>1. CASE waits' = waits
    BY <2>1 DEF Clean, AllTold
  <2> QED BY <2>1, AllToldPopped DEF Clean
<1> QED BY <1>1 DEF Clean, Single, Alone

\* An attempt whose process cannot be made.
LEMMA NotMadeClean ==
    ASSUME TypeInv, Clean, NEW a \in Attempts, NEW rest, CannotStart(a, rest),
           rest = waits \/ (waits # <<>> /\ rest = Tail(waits)),
           \A c \in alive : stage[c] = "live" => c \in told
    PROVE  Clean'
<1>1. /\ UNCHANGED <<alive, told>> /\ waits' = rest
      /\ stage' = [stage EXCEPT ![a] = "over"] /\ a \notin alive
  BY DEF CannotStart, Fresh, TypeInv, Processes
<1>2. \A c \in alive : stage'[c] = stage[c]
  BY <1>1 DEF TypeInv, Processes, Staged
<1>3. \A b \in Attempts : stage'[b] = stage[b] \/ stage'[b] = "over"
  BY <1>1 DEF TypeInv, Staged
<1>4. Single' /\ Entered'
  BY <1>1, <1>2 DEF Clean, Single, Entered
<1>5. Alone'
  BY <1>1, <1>2, <1>3 DEF Clean, Alone
<1>6. AllTold'
  <2>1. CASE rest = waits
    BY <1>1, <2>1 DEF Clean, AllTold
  <2> QED BY <1>1, <2>1, AllToldPopped DEF Clean
<1> QED BY <1>4, <1>5, <1>6 DEF Clean

LEMMA BeginClean ==
    ASSUME TypeInv, Clean, NEW a \in Attempts, NEW rest, Begin(a, rest), ~overlap',
           rest = waits \/ (waits # <<>> /\ rest = Tail(waits)),
           \A c \in alive : stage[c] = "live" => c \in told
    PROVE  Clean'
<1>1. CASE DoConnect(a, rest)
  <2>1. alive = {} /\ rest = <<>>
    BY <1>1, Zenon DEF DoConnect
  <2> QED BY <1>1, <2>1, MadeClean
<1>2. CASE CannotStart(a, rest)
  BY <1>2, NotMadeClean
<1> QED BY <1>1, <1>2 DEF Begin

LEMMA BeginsClean ==
    ASSUME TypeInv, Clean, ~overlap', NEW a \in Attempts,
           GetConnection(a) \/ FlitConnect(a) \/ ThenConnect(a)
    PROVE  Clean'
<1>1. CASE GetConnection(a) \/ FlitConnect(a)
  <2>1. \A c \in alive : stage[c] = "live" => c \in told
    BY <1>1 DEF GetConnection, FlitConnect, Alive, Clean, Entered, TypeInv, Processes
  <2>2. Begin(a, waits)
    BY <1>1 DEF GetConnection, FlitConnect
  <2> QED BY <2>1, <2>2, BeginClean
<1>2. CASE ThenConnect(a)
  <2>1. waits # <<>> /\ Top.what # "attempt" /\ Begin(a, Tail(waits))
    BY <1>2 DEF ThenConnect, Innermost
  <2>2. alive \subseteq told
    BY <2>1, InnermostTold DEF Clean
  <2> QED BY <2>1, <2>2, BeginClean
<1> QED BY <1>1, <1>2

\* What ends the process of an attempt, or changes how far one has come, without
\* a live connection beside it.
LEMMA AttemptClean ==
    ASSUME TypeInv, Clean, NEW a \in Attempts,
           \/ HandshakeDone(a) \/ HandshakeFails(a) \/ InitDone(a) \/ InitFails(a)
           \/ Dies(a) \/ Sentinel(a)
    PROVE  Clean'
<1> USE DEF HandshakeDone, HandshakeFails, InitDone, InitFails, Dies, Sentinel, ShutDown
<1>1. UNCHANGED <<waits, told>> /\ alive' \subseteq alive
  OBVIOUS
<1>2. Single' /\ AllTold'
  BY <1>1 DEF Clean, Single, AllTold
<1>3. \A b \in Attempts \ {a} : stage'[b] = stage[b]
  BY DEF TypeInv, Staged
<1>4. Alone'
  <2>1. CASE HandshakeDone(a)
    BY <1>3, <2>1 DEF Clean, Single, Alone, TypeInv, Staged, Processes
  <2>2. CASE HandshakeFails(a)
    BY <1>3, <2>2 DEF Clean, Single, Alone, TypeInv, Staged, Processes
  <2>3. CASE InitDone(a) \/ InitFails(a)
    BY <1>3, <2>3 DEF Clean, Single, Alone, TypeInv, Staged, Processes
  <2>4. CASE Dies(a)
    <3>1. alive' = {}
      BY <2>4 DEF Clean, Single
    <3> QED BY <3>1 DEF Alone
  <2>5. CASE Sentinel(a)
    BY <1>3, <2>5 DEF Clean, Single, Alone, TypeInv, Staged, Processes
  <2> QED BY <2>1, <2>2, <2>3, <2>4, <2>5
<1>5. Entered'
  <2>1. CASE HandshakeDone(a)
    BY <1>3, <2>1 DEF Clean, Single, Alone, Entered, TypeInv, Staged, Processes
  <2>2. CASE HandshakeFails(a)
    BY <1>3, <2>2 DEF Clean, Single, Alone, Entered, TypeInv, Staged, Processes
  <2>3. CASE InitDone(a) \/ InitFails(a)
    BY <1>3, <2>3 DEF Clean, Single, Alone, Entered, TypeInv, Staged, Processes
  <2>4. CASE Dies(a)
    <3>1. alive' = {}
      BY <2>4 DEF Clean, Single
    <3> QED BY <3>1 DEF Entered
  <2>5. CASE Sentinel(a)
    BY <1>3, <2>5 DEF Clean, Single, Alone, Entered, TypeInv, Staged, Processes
  <2> QED BY <2>1, <2>2, <2>3, <2>4, <2>5
<1> QED BY <1>2, <1>4, <1>5 DEF Clean

LEMMA WaitClean ==
    ASSUME TypeInv, Clean, NEW a \in Attempts, Done(a) \/ GiveUp(a)
    PROVE  Clean'
<1>1. /\ UNCHANGED <<stage, alive, told, table>> /\ waits # <<>> /\ waits' = Tail(waits)
      /\ state = "connected" => state' = "connected"
  BY DEF Done, GiveUp, Innermost
<1>2. Entered'
  BY <1>1 DEF Clean, Entered
<1> QED BY <1>1, <1>2, Quiet

LEMMA ClosingClean == ASSUME TypeInv, Clean, Closing PROVE Clean'
<1>1. ASSUME NEW what \in {"connect", "disconnect"}, Close(what) PROVE Clean'
  <2>1. alive \subseteq told'
    BY <1>1 DEF Close, Alive, Clean, Single
  <2> QED BY <1>1, <2>1 DEF Close, Clean, Single, AllTold, Alone, Entered
<1>2. CASE FlitDisconnect
  <2>1. \A c \in alive : stage[c] = "live" => c \in told
    BY <1>2 DEF FlitDisconnect, Alive, Clean, Entered, TypeInv, Processes
  <2>2. UNCHANGED <<stage, alive, waits, told>>
    BY <1>2 DEF FlitDisconnect
  <2>3. Entered'
    BY <2>1, <2>2 DEF Entered
  <2> QED BY <2>2, <2>3, Quiet
<1>3. CASE Kill
  <2>1. alive' = {} /\ UNCHANGED <<told, waits>>
    BY <1>3 DEF Kill, Alive, Clean, Single
  <2> QED BY <2>1 DEF Clean, Single, AllTold, Alone, Entered
<1>4. CASE ThenDisconnected \/ GiveUpClose
  <2>1. /\ waits # <<>> /\ Top.what # "attempt" /\ waits' = Tail(waits)
        /\ UNCHANGED <<stage, alive, told>>
    BY <1>4 DEF ThenDisconnected, GiveUpClose, Innermost
  <2>2. alive \subseteq told
    BY <2>1, InnermostTold DEF Clean
  <2>3. Entered'
    BY <2>1, <2>2 DEF Entered
  <2> QED BY <2>1, <2>3, Quiet
<1> QED BY <1>1, <1>2, <1>3, <1>4 DEF Closing

\* Without overlapping attempts, a live connection that is not being closed is
\* the one in flit--connections, and the state says connected.
THEOREM TruthfulTable == Spec => []OneAtATime
<1> DEFINE Inv == ~overlap => Clean
<1>1. Init => Inv
  BY DEF Init, Clean, Single, AllTold, Alone, Entered
<1>2. ASSUME TypeInv, Inv, [Next]_vars PROVE Inv'
  <2> SUFFICES ASSUME ~overlap' PROVE Clean'
    OBVIOUS
  <2>1. ~overlap
    BY <1>2, Zenon DEF Next, vars, GetConnection, FlitConnect, ThenConnect, Begin,
       DoConnect, CannotStart, HandshakeDone, HandshakeFails, InitDone, InitFails,
       Done, GiveUp, Dies, Sentinel, Close, FlitDisconnect, Kill, ThenDisconnected,
       GiveUpClose
  <2>2. Clean
    BY <1>2, <2>1
  <2>3. ASSUME NEW a \in Attempts, Step(a) PROVE Clean'
    BY <1>2, <2>2, <2>3, BeginsClean, AttemptClean, WaitClean DEF Step
  <2>4. CASE UNCHANGED vars
    BY <2>2, <2>4 DEF vars, Clean, Single, AllTold, Alone, Entered
  <2> QED BY <1>2, <2>2, <2>3, <2>4, NextSteps, ClosingClean
<1> QED BY <1>1, <1>2, InitType, TypeStep, CleanProperty, PTL DEF Spec
-----------------------------------------------------------------------------
(* The bridge that brings a connection up.                                 *)

HIDE ConnectAssumption DEF ConnectAssumption
USE PtyBridgeAssumption
USE DEF ptyVars, remoteVars, bridgeVars, cleanVars, clientVars

RemoteStep == Remote /\ UNCHANGED <<bridgeVars, clientVars>>

\* What the bridge does before its clean-up, and in it.
Work == \/ \E n \in 1..Len(out) : ReadAuth(n) \/ WaitReady(n)
        \/ PassPassword \/ PassSize \/ Transfer \/ CopyUp \/ CopyDown \/ PtyFails
Tidy == Signal \/ MainCleanup \/ Reap \/ \E g \in Cleaners : Terminate(g) \/ Waited(g)

BridgeStep == (Work \/ Tidy \/ Exit) /\ UNCHANGED clientVars

LEMMA TidyKeeps ==
    ASSUME Tidy
    PROVE  /\ UNCHANGED <<remoteVars, out, in, bridge, pending, copied, up, down, clientVars>>
           /\ ptmx' \in {ptmx, FALSE}
BY DEF Tidy, Signal, MainCleanup, StartsCleanup, Reap, Terminate, Waited

\* The remote side leaves the bridge and Emacs alone, the bridge leaves Emacs;
\* to kill the child is one of the ways in which the remote side exits.
LEMMA Separate ==
    ASSUME PtyNext
    PROVE  RemoteStep \/ BridgeStep \/ Emacs
<1>1. CASE Remote
  BY <1>1 DEF Remote, RemoteStep, Prompt, ReadPassword, Script, ReadSize,
     DeployReady, Head_c, Exec, SendFrame, ReadFrame, RemoteExits
<1>2. CASE Bridge
  <2>1. CASE Work
    BY <2>1 DEF BridgeStep, Work, ReadAuth, WaitReady, PassPassword, PassSize,
       Transfer, CopyUp, CopyDown, PtyFails
  <2>2. CASE Tidy \/ Exit
    BY <2>2, TidyKeeps DEF BridgeStep, Exit
  <2>3. ASSUME NEW g \in Cleaners, KillChild(g) PROVE RemoteStep
    BY <2>3 DEF KillChild, RemoteStep, Remote, RemoteExits
  <2> QED BY <1>2, <2>1, <2>2, <2>3 DEF Bridge, Cleanup, Work, Tidy
<1> QED BY <1>1, <1>2 DEF PtyNext
-----------------------------------------------------------------------------
(* Type correctness, with the count of what is still to be copied.         *)

Flags == raw \in BOOLEAN /\ ptmx \in BOOLEAN /\ reaped \in BOOLEAN
Cleaned == cleaner \in [Cleaners -> {"no", "term", "wait", "returned"}]

Counts == /\ prompts \in 0..MaxPrompts /\ sent \in 0..MaxFrames
          /\ copied \in 0..Binary
          /\ bridge = "transfer" => copied < Binary

Stages ==
    /\ remote \in {"auth", "asked", "size", "raw", "head", "exec", "serve", "exited"}
    /\ bridge \in {"auth", "password", "deploy", "wait", "transfer", "copy",
                   "cleanup", "exited", "killed"}
    /\ client \in {"waiting", "deploying", "done", "failed"}
    /\ asking \in {"none", "prompt", "not_found"}
    /\ result \in {"none", "ok", "failed"}

PtyTypeInv == Flags /\ Cleaned /\ Counts /\ Stages

LEMMA RemoteType == ASSUME PtyTypeInv, RemoteStep PROVE PtyTypeInv'
<1> USE DEF PtyTypeInv, RemoteStep
<1>1. Stages'
  BY DEF Stages, Remote, Prompt, ReadPassword, Script, ReadSize, DeployReady, Head_c,
     Exec, SendFrame, ReadFrame, RemoteExits
<1>2. Counts'
  BY DEF Counts, Remote, Prompt, ReadPassword, Script, ReadSize, DeployReady, Head_c,
     Exec, SendFrame, ReadFrame, RemoteExits
<1>3. Flags'
  <2>1. raw' \in BOOLEAN
    BY Zenon DEF Flags, Remote, Prompt, ReadPassword, Script, ReadSize, DeployReady,
       Head_c, Exec, SendFrame, ReadFrame, RemoteExits
  <2> QED BY <2>1 DEF Flags
<1>4. Cleaned'
  BY DEF Cleaned
<1> QED BY <1>1, <1>2, <1>3, <1>4

LEMMA BridgeType == ASSUME PtyTypeInv, BridgeStep PROVE PtyTypeInv'
<1> USE DEF PtyTypeInv, BridgeStep
<1>1. CASE Work
  <2> USE DEF Work, ReadAuth, WaitReady, PassPassword, PassSize, Transfer, CopyUp,
          CopyDown, PtyFails
  <2>1. UNCHANGED cleaner
    BY <1>1
  <2>2. Flags'
    BY <1>1, Zenon DEF Flags
  <2>3. Counts' /\ Stages'
    BY <1>1 DEF Counts, Stages
  <2> QED BY <2>1, <2>2, <2>3 DEF Cleaned
<1>2. CASE Tidy
  <2>1. Flags'
    BY <1>2, Zenon DEF Tidy, Signal, MainCleanup, StartsCleanup, Reap, Terminate, Waited, Flags
  <2>2. Cleaned'
    BY <1>2 DEF Tidy, Signal, MainCleanup, StartsCleanup, Reap, Terminate, Waited, Cleaned, Cleaners
  <2> QED BY <1>2, <2>1, <2>2, TidyKeeps DEF Counts, Stages
<1>3. CASE Exit
  <2>1. Flags'
    BY <1>3, Zenon DEF Exit, Flags
  <2> QED BY <1>3, <2>1 DEF Exit, Cleaned, Counts, Stages
<1> QED BY <1>1, <1>2, <1>3

LEMMA EmacsType == ASSUME PtyTypeInv, Emacs PROVE PtyTypeInv'
<1> USE DEF PtyTypeInv, Fail, Complete, Running
<1>1. Flags'
  BY Zenon DEF Flags, Emacs, Line, Answer, Decline, Timeout, SendRpc, ReceiveRpc
<1>2. Counts'
  BY DEF Counts, Emacs, Line, Answer, Decline, Timeout, SendRpc, ReceiveRpc
<1>3. Stages'
  BY DEF Stages, Emacs, Line, Answer, Decline, Timeout, SendRpc, ReceiveRpc, InFilter
<1>4. Cleaned'
  BY DEF Cleaned, Emacs, Line, Answer, Decline, Timeout, SendRpc, ReceiveRpc
<1> QED BY <1>1, <1>2, <1>3, <1>4

LEMMA PtyTypeInvariant == PtySpec => []PtyTypeInv
<1>1. PtyInit => PtyTypeInv
  <2>1. PtyInit => Flags
    BY Zenon DEF PtyInit, Flags
  <2>2. PtyInit => Cleaned /\ Counts /\ Stages
    BY DEF PtyInit, Cleaned, Counts, Stages
  <2> QED BY <2>1, <2>2 DEF PtyTypeInv
<1>2. PtyTypeInv /\ [PtyNext]_ptyVars => PtyTypeInv'
  <2> SUFFICES ASSUME PtyTypeInv, [PtyNext]_ptyVars PROVE PtyTypeInv'
    OBVIOUS
  <2>1. CASE UNCHANGED ptyVars
    <3>1. Flags'
      BY <2>1, Zenon DEF PtyTypeInv, Flags
    <3> QED BY <2>1, <3>1 DEF PtyTypeInv, Cleaned, Counts, Stages
  <2> QED BY <2>1, Separate, RemoteType, BridgeType, EmacsType
<1> QED BY <1>1, <1>2, PTL DEF PtySpec

\* The states of the script, the bridge and the handshake stay well typed, and
\* no more of the binary is passed on than its size (handleDeploy's CopyN).
THEOREM PtyTypeCorrect == PtySpec => []PtyTypeOK
<1>1. PtyTypeInv => PtyTypeOK
  BY DEF PtyTypeInv, Flags, Cleaned, Counts, Stages, PtyTypeOK
<1> QED BY <1>1, PtyTypeInvariant, PTL
-----------------------------------------------------------------------------
(* The child of the bridge.                                                *)

\* A goroutine's cleanupPty has returned, and the bridge has exited by itself,
\* only after somebody has waited for the child; that is once it has exited, and
\* it stays so.
ChildInv ==
    /\ reaped => remote = "exited"
    /\ \A g \in Cleaners : cleaner[g] = "returned" => reaped
    /\ bridge = "exited" => reaped

LEMMA ChildStep == ASSUME PtyTypeInv, ChildInv, [PtyNext]_ptyVars PROVE ChildInv'
<1> USE DEF ChildInv
<1>1. CASE RemoteStep
  <2>1. remote = "exited" => remote' = "exited"
    BY <1>1 DEF RemoteStep, Remote, Prompt, ReadPassword, Script, ReadSize,
       DeployReady, Head_c, Exec, SendFrame, ReadFrame, RemoteExits
  <2> QED BY <1>1, <2>1 DEF RemoteStep
<1>2. CASE Work
  <2>1. UNCHANGED <<remote, cleaner, reaped>> /\ bridge' # "exited"
    BY <1>2 DEF Work, ReadAuth, WaitReady, PassPassword, PassSize, Transfer, CopyUp,
       CopyDown, PtyFails
  <2> QED BY <2>1
<1>3. CASE Signal \/ MainCleanup
  <2>1. PICK g \in Cleaners : StartsCleanup(g)
    BY <1>3 DEF Signal, MainCleanup, Cleaners
  <2>2. \A h \in Cleaners : cleaner'[h] = "returned" => cleaner[h] = "returned"
    BY <2>1 DEF StartsCleanup, PtyTypeInv, Cleaned
  <2> QED BY <2>1, <2>2 DEF StartsCleanup
<1>4. CASE Reap
  BY <1>4 DEF Reap
<1>5. ASSUME NEW g \in Cleaners, Terminate(g) \/ Waited(g) PROVE ChildInv'
  <2>1. /\ UNCHANGED <<remote, reaped, bridge>>
        /\ \A h \in Cleaners : cleaner'[h] = "returned" => cleaner[h] = "returned" \/ reaped
    BY <1>5 DEF Terminate, Waited, PtyTypeInv, Cleaned
  <2> QED BY <2>1
<1>6. CASE Exit
  BY <1>6 DEF Exit
<1>7. CASE Emacs
  <2>1. UNCHANGED <<remote, cleaner, reaped>> /\ bridge' \in {bridge, "killed"}
    BY <1>7 DEF Emacs, Line, Answer, Decline, Timeout, SendRpc, ReceiveRpc, Fail,
       Complete, Running
  <2> QED BY <2>1
<1>8. CASE UNCHANGED ptyVars
  BY <1>8
<1> QED BY <1>1, <1>2, <1>3, <1>4, <1>5, <1>6, <1>7, <1>8, Separate DEF BridgeStep, Tidy

\* The bridge process does not exit by itself before its child has exited and
\* has been waited for: whether cleanupPty runs in the main goroutine, in the
\* signal handler's or in both, and also when it returns without waiting.
THEOREM ChildFirst == PtySpec => []ChildEndsFirst
<1>1. PtyInit => ChildInv
  BY DEF PtyInit, ChildInv
<1>2. ChildInv => ChildEndsFirst
  BY DEF ChildInv, ChildEndsFirst
<1> QED BY <1>1, <1>2, PtyTypeInvariant, ChildStep, PTL DEF PtySpec
-----------------------------------------------------------------------------
(* The end of the handshake.                                               *)

\* A handshake that succeeded has no question open: it succeeds in the filter,
\* which is not entered while one is.
DoneInv == /\ result = "ok" => client = "done"
           /\ client = "done" => asking = "none"

LEMMA DoneStep ==
    ASSUME DoneInv, [PtyNext]_ptyVars
    PROVE  DoneInv' /\ (result = "ok" => result' = "ok")
<1> USE DEF DoneInv
<1>1. CASE RemoteStep \/ BridgeStep
  BY <1>1 DEF RemoteStep, BridgeStep
<1>2. CASE Line
  BY <1>2 DEF Line, InFilter, Complete
<1>3. CASE Answer \/ Decline
  BY <1>3 DEF Answer, Decline, InFilter, Fail
<1>4. CASE Timeout
  BY <1>4 DEF Timeout, Fail
<1>5. CASE SendRpc \/ ReceiveRpc
  BY <1>5 DEF SendRpc, ReceiveRpc
<1>6. CASE UNCHANGED ptyVars
  BY <1>6
<1> QED BY <1>1, <1>2, <1>3, <1>4, <1>5, <1>6, Separate DEF Emacs

\* A handshake that succeeded never fails afterwards, whatever timer, sentinel
\* or question was about (flit--sm-cleanup removes them).
THEOREM SuccessStays == PtySpec => SuccessIsFinal
<1>1. PtyInit => DoneInv
  BY DEF PtyInit, DoneInv
<1>2. DoneInv /\ [PtyNext]_ptyVars => DoneInv'
  BY DoneStep
<1>3. DoneInv /\ [PtyNext]_ptyVars => [result = "ok" => result' = "ok"]_ptyVars
  BY DoneStep
<1> QED BY <1>1, <1>2, <1>3, PTL DEF PtySpec, SuccessIsFinal
-----------------------------------------------------------------------------
(* Sequences.                                                              *)

LEMMA Cut ==
    ASSUME NEW S, NEW s \in Seq(S), NEW n \in 0..Len(s)
    PROVE  /\ SubSeq(s, 1, n) \in Seq(S) /\ Len(SubSeq(s, 1, n)) = n
           /\ \A i \in 1..n : SubSeq(s, 1, n)[i] = s[i]
           /\ SubSeq(s, n + 1, Len(s)) \in Seq(S)
           /\ Len(SubSeq(s, n + 1, Len(s))) = Len(s) - n
           /\ \A i \in 1..Len(s) - n : SubSeq(s, n + 1, Len(s))[i] = s[n + i]
OBVIOUS

LEMMA Glue ==
    ASSUME NEW S, NEW s \in Seq(S), NEW t \in Seq(S)
    PROVE  /\ s \o t \in Seq(S) /\ Len(s \o t) = Len(s) + Len(t)
           /\ \A i \in 1..Len(s) : (s \o t)[i] = s[i]
           /\ \A i \in 1..Len(t) : (s \o t)[Len(s) + i] = t[i]
OBVIOUS

LEMMA Added ==
    ASSUME NEW S, NEW s \in Seq(S), NEW e \in S
    PROVE  /\ Append(s, e) \in Seq(S) /\ Len(Append(s, e)) = Len(s) + 1
           /\ \A i \in 1..Len(s) : Append(s, e)[i] = s[i]
           /\ Append(s, e)[Len(s) + 1] = e
OBVIOUS

LEMMA Rest ==
    ASSUME NEW S, NEW s \in Seq(S), s # <<>>
    PROVE  /\ Head(s) \in S /\ Head(s) = s[1] /\ Len(s) \in Nat \ {0}
           /\ Tail(s) \in Seq(S) /\ Len(Tail(s)) = Len(s) - 1
           /\ \A i \in 1..Len(s) - 1 : Tail(s)[i] = s[i + 1]
OBVIOUS

LEMMA Nothing ==
    ASSUME NEW S, NEW s \in Seq(S)
    PROVE  Len(s) \in Nat /\ (Len(s) = 0 <=> s = <<>>)
OBVIOUS

LEMMA SinglePiece ==
    ASSUME NEW S, NEW s \in Seq(S), Len(s) = 1
    PROVE  s = <<s[1]>>
OBVIOUS
-----------------------------------------------------------------------------
(* The readers of the PTY, and the order of the frames.                    *)

\* What is on its way.
Piece == {"prompt", "osc", "not_found", "deploy_ready", "deploy_done", "ready", "frame"}
         \X Nat
Answers == {"password", "size", "deploy", "binary", "rpc"}

Shapes == /\ out \in Seq(Piece) /\ pending \in Seq(Piece)
          /\ down \in Seq(Piece) /\ rpc \in Seq(Piece)
          /\ up \in Seq(Answers) /\ in \in Seq(Answers \X BOOLEAN)

\* The frames after the first a ones.
Framed(s, a) == \A i \in 1..Len(s) : s[i] = <<"frame", a + i>>

\* Piece i of the text g and of the frames that follow it.
At(g, i) == IF i <= Len(g) THEN g[i] ELSE <<"frame", i - Len(g)>>

\* A message, or one behind an escape sequence.
Osc == <<<<"osc", 1>>>>
Says(m) == {Pieces(m), <<<<"osc", 1>>, <<m, 1>>, <<m, 2>>>>}
Texts == {<<>>, Osc, Pieces("prompt")} \cup Says("not_found") \cup Says("ready")
            \cup Says("deploy_done")

\* What the remote side has printed since pending was reset, and how far it
\* is when it has.
Printed(g) ==
    \/ g = <<>> /\ remote \in {"auth", "asked", "head", "exec", "exited"} /\ sent = 0
    \/ g = Osc /\ remote \in {"exec", "exited"} /\ sent = 0
    \/ g = Pieces("prompt") /\ remote \in {"asked", "exited"} /\ in = <<>> /\ sent = 0
    \/ g \in Says("not_found") /\ remote \in {"size", "exited"} /\ in = <<>> /\ sent = 0
    \/ g \in Says("ready") /\ remote \in {"serve", "exited"}
    \/ g \in Says("deploy_done") /\ remote = "exited" /\ sent = 0

Flows(g) == /\ Len(pending) + Len(out) = Len(g) + sent
            /\ \A i \in 1..Len(pending) : pending[i] = At(g, i)
            /\ \A i \in 1..Len(out) : out[i] = At(g, Len(pending) + i)

\* The input of a stage is for that stage.
InInv ==
    /\ remote \in {"auth", "raw", "exec"} => in = <<>>
    /\ remote = "asked" => Len(in) <= 1 /\ \A i \in 1..Len(in) : in[i][1] = "password"
    /\ remote = "size" => Len(in) <= 1 /\ \A i \in 1..Len(in) : in[i][1] = "size"
    /\ remote = "head" => /\ Len(in) <= Binary
                          /\ \A i \in 1..Len(in) : in[i] = <<"binary", TRUE>>
    /\ remote = "serve" => \A i \in 1..Len(in) : in[i][1] = "rpc"

RawInv == remote \in {"raw", "head"} => raw = TRUE
UnsentInv == remote \notin {"serve", "exited"} => sent = 0

\* Nothing is asked of Emacs.
Calm == down = <<>> /\ asking = "none" /\ client \in {"waiting", "deploying"}

Binaries(n) == Len(up) = n /\ \A i \in 1..Len(up) : up[i] = "binary"

\* A question goes to Emacs, is open, or is no more.
Asks(what) ==
    /\ client \in {"waiting", "deploying"}
    /\ \/ down = <<<<what, 0>>>> /\ asking = "none" /\ up = <<>>
       \/ down = <<>> /\ asking = what /\ up = <<>>
       \/ down = <<>> /\ asking = "none"

AuthInv == bridge = "auth" =>
    /\ Calm /\ up = <<>>
    /\ \E g \in Texts : Printed(g) /\ Flows(g)
PasswordInv == bridge = "password" =>
    /\ out = <<>> /\ pending = <<>> /\ sent = 0 /\ in = <<>>
    /\ remote \in {"asked", "exited"}
    /\ Asks("prompt") /\ up \in {<<>>, <<"password">>}
DeployInv == bridge = "deploy" =>
    /\ out = <<>> /\ pending = <<>> /\ sent = 0 /\ in = <<>>
    /\ remote \in {"size", "exited"}
    /\ Asks("not_found")
    /\ up # <<>> => /\ Len(up) = Binary + 1 /\ up[1] = "deploy"
                    /\ \A i \in 2..Len(up) : up[i] = "binary"
WaitInv == bridge = "wait" =>
    /\ pending = <<>> /\ sent = 0 /\ Calm /\ Binaries(Binary)
    /\ \/ remote \in {"size", "raw"} /\ out = <<>>
       \/ /\ (remote = "head" /\ in = <<>>) \/ remote = "exited"
          /\ out \in {<<>>, <<<<"deploy_ready", 2>>>>, Pieces("deploy_ready")}
TransferInv == bridge = "transfer" =>
    /\ pending = <<>> /\ out = <<>> /\ sent = 0 /\ Calm /\ Binaries(Binary - copied)
    /\ (remote = "head" /\ Len(in) = copied) \/ remote = "exited"

\* Emacs has been given k frames' worth of what follows the greeting, or will
\* never look for it.
Greeting(s, k) ==
    \E m \in {"ready", "deploy_done"} : \E g \in Says(m) :
       Len(s) = Len(g) + k /\ \A i \in 1..Len(s) : s[i] = At(g, i)
Mute(s) == \A i \in 1..Len(s) : s[i][1] = "frame"
Told == client = "done" /\ Framed(rpc, 0) /\ Framed(down, Len(rpc))

CopyInv == bridge = "copy" =>
    /\ remote \in {"serve", "exited"} /\ asking = "none"
    /\ \A i \in 1..Len(up) : up[i] = "rpc"
    /\ Len(out) <= sent /\ Framed(out, sent - Len(out))
    /\ \/ Told /\ Len(rpc) + Len(down) = sent - Len(out)
       \/ /\ client \in {"waiting", "deploying"} /\ rpc = <<>>
          /\ Greeting(down, sent - Len(out)) \/ Mute(down)

\* The bridge passes nothing more on: Emacs has heard all of the greeting, or
\* less of it.
Over ==
    \/ Told
    \/ /\ client # "done" /\ rpc = <<>>
       /\ \/ down \in {<<<<"prompt", 0>>>>, <<<<"not_found", 0>>>>}
          \/ Mute(down)
          \/ \E k \in 0..sent : Greeting(down, k)
DeadInv == bridge \in {"cleanup", "exited", "killed"} => Over

ClientInv == /\ client # "done" => rpc = <<>>
             /\ client = "failed" => bridge \in {"exited", "killed"}
             /\ client = "done" => bridge \in {"copy", "cleanup", "exited", "killed"}

LEMMA Spelled ==
    /\ \A m \in {"prompt", "not_found", "deploy_ready", "deploy_done", "ready"} :
          /\ Pieces(m) \in Seq(Piece) /\ Len(Pieces(m)) = 2
          /\ Pieces(m)[1] = <<m, 1>> /\ Pieces(m)[2] = <<m, 2>>
          /\ <<<<"osc", 1>>>> \o Pieces(m) = <<<<"osc", 1>>, <<m, 1>>, <<m, 2>>>>
          /\ <<>> \o Pieces(m) = Pieces(m)
          /\ <<<<m, 0>>>> \in Seq(Piece) /\ <<m, 0>> \in Piece
    /\ <<>> \in Seq(Piece) /\ <<<<"osc", 1>>>> \in Seq(Piece)
    /\ \A i \in Nat : <<<<"frame", i>>>> \in Seq(Piece)
<1>1. \A m \in {"prompt", "not_found", "deploy_ready", "deploy_done", "ready"}, i \in 0..2 :
        <<m, i>> \in Piece
  BY DEF Piece
<1>2. <<"osc", 1>> \in Piece /\ \A i \in Nat : <<"frame", i>> \in Piece
  BY DEF Piece
<1>3. ASSUME NEW m \in {"prompt", "not_found", "deploy_ready", "deploy_done", "ready"}
      PROVE  /\ Pieces(m) \in Seq(Piece) /\ Len(Pieces(m)) = 2
             /\ Pieces(m)[1] = <<m, 1>> /\ Pieces(m)[2] = <<m, 2>>
             /\ <<<<"osc", 1>>>> \o Pieces(m) = <<<<"osc", 1>>, <<m, 1>>, <<m, 2>>>>
             /\ <<>> \o Pieces(m) = Pieces(m)
             /\ <<<<m, 0>>>> \in Seq(Piece) /\ <<m, 0>> \in Piece
  <2>1. <<m, 0>> \in Piece /\ <<m, 1>> \in Piece /\ <<m, 2>> \in Piece
    BY <1>1
  <2>2. Pieces(m) \in Seq(Piece) /\ <<<<m, 0>>>> \in Seq(Piece)
    BY <2>1 DEF Pieces
  <2>3. Len(Pieces(m)) = 2 /\ Pieces(m)[1] = <<m, 1>> /\ Pieces(m)[2] = <<m, 2>>
    BY DEF Pieces
  <2>4. <<>> \o Pieces(m) = Pieces(m)
    BY <2>2, ConcatEmptySeq
  <2>5. <<<<"osc", 1>>>> \o Pieces(m) = <<<<"osc", 1>>, <<m, 1>>, <<m, 2>>>>
    <3> DEFINE o == <<<<"osc", 1>>>>
               p == Pieces(m)
               a == o \o p
               b == <<<<"osc", 1>>, <<m, 1>>, <<m, 2>>>>
    <3>1. a \in Seq(Piece) /\ Len(a) = 3 /\ a[1] = <<"osc", 1>> /\ a[2] = <<m, 1>>
          /\ a[3] = <<m, 2>>
      <4>1. o \in Seq(Piece) /\ Len(o) = 1 /\ o[1] = <<"osc", 1>>
        BY <1>2
      <4>2. p \in Seq(Piece) /\ Len(p) = 2 /\ p[1] = <<m, 1>> /\ p[2] = <<m, 2>>
        BY <2>2, <2>3
      <4> HIDE DEF o, p
      <4>3. o \o p \in Seq(Piece) /\ Len(o \o p) = 3
        <5>1. o \o p \in Seq(Piece) /\ Len(o \o p) = Len(o) + Len(p)
          BY <4>1, <4>2, Glue
        <5>2. Len(o) + Len(p) = 3
          BY <4>1, <4>2
        <5> QED BY <5>1, <5>2
      <4>4. (o \o p)[1] = o[1]
        <5>1. 1 \in 1..Len(o)
          BY <4>1
        <5>2. o \in Seq(Piece) /\ p \in Seq(Piece)
          BY <4>1, <4>2
        <5>3. \A i \in 1..Len(o) : (o \o p)[i] = o[i]
          BY ONLY <5>2, Glue
        <5> QED BY <5>1, <5>3
      <4>5. (o \o p)[2] = p[1] /\ (o \o p)[3] = p[2]
        <5>1. (o \o p)[Len(o) + 1] = p[1] /\ (o \o p)[Len(o) + 2] = p[2]
          BY <4>1, <4>2, Glue
        <5>2. Len(o) + 1 = 2 /\ Len(o) + 2 = 3
          BY <4>1
        <5> QED BY <5>1, <5>2
      <4> QED BY <4>1, <4>2, <4>3, <4>4, <4>5
    <3>2. b \in Seq(Piece) /\ Len(b) = 3
      BY <1>2, <2>1
    <3>3. b[1] = <<"osc", 1>> /\ b[2] = <<m, 1>> /\ b[3] = <<m, 2>>
      OBVIOUS
    <3> HIDE DEF a, b
    <3>4. \A i \in 1..Len(a) : a[i] = b[i]
      BY <3>1, <3>3
    <3>5. a = b
      BY <3>1, <3>2, <3>4, SeqEqual
    <3> QED BY <3>5 DEF a, b
  <2> QED BY <2>1, <2>2, <2>3, <2>4, <2>5
<1>4. <<>> \in Seq(Piece) /\ <<<<"osc", 1>>>> \in Seq(Piece)
  BY <1>2
<1>5. ASSUME NEW i \in Nat PROVE <<<<"frame", i>>>> \in Seq(Piece)
  <2>1. <<"frame", i>> \in Piece
    BY <1>2
  <2> QED BY <2>1
<1> QED BY <1>3, <1>4, <1>5

LEMMA EmitShape ==
    ASSUME PtyTypeInv, Shapes, NEW s \in Seq(Piece), Emit(s)
    PROVE  out' \in Seq(Piece)
BY Glue DEF Shapes, Emit

LEMMA RemoteShapes == ASSUME PtyTypeInv, Shapes, RemoteStep PROVE Shapes'
<1>0. UNCHANGED <<pending, rpc, up, down>>
  BY DEF RemoteStep, Remote, Prompt, ReadPassword, Script, ReadSize, DeployReady, Head_c,
     Exec, SendFrame, ReadFrame, RemoteExits
<1>1. CASE Prompt \/ Script \/ DeployReady \/ Exec \/ SendFrame
  <2>1. in' = in
    BY <1>1 DEF Prompt, Script, DeployReady, Exec, SendFrame
  <2>2. \E s \in Seq(Piece) : Emit(s)
    <3>1. CASE Prompt \/ DeployReady \/ Exec
      BY <3>1, Spelled DEF Prompt, DeployReady, Exec
    <3>2. CASE Script
      <4>1. \A j \in {<<>>, <<<<"osc", 1>>>>} : j \in Seq(Piece) /\ j \o Pieces("not_found") \in Seq(Piece)
        BY Spelled, Glue
      <4> QED BY <3>2, <4>1 DEF Script
    <3>3. CASE SendFrame
      <4>1. sent + 1 \in Nat
        BY DEF PtyTypeInv, Counts
      <4> QED BY <3>3, <4>1, Spelled DEF SendFrame
    <3> QED BY <1>1, <3>1, <3>2, <3>3
  <2>3. out' \in Seq(Piece)
    BY <2>2, EmitShape
  <2> QED BY <1>0, <2>1, <2>3 DEF Shapes
<1>2. CASE ReadPassword \/ ReadSize \/ ReadFrame
  <2>1. out' = out /\ in # <<>> /\ in' = Tail(in)
    BY <1>2 DEF ReadPassword, ReadSize, ReadFrame
  <2> QED BY <1>0, <2>1, Rest DEF Shapes
<1>3. CASE Head_c
  <2>1. out' = out /\ in' = SubSeq(in, Binary + 1, Len(in)) /\ Binary \in 0..Len(in)
    BY <1>3 DEF Head_c, Shapes
  <2> QED BY <1>0, <2>1, Cut DEF Shapes
<1>4. CASE RemoteExits
  BY <1>0, <1>4 DEF RemoteExits, Shapes
<1> QED BY <1>1, <1>2, <1>3, <1>4 DEF RemoteStep, Remote

\* A read of the PTY.
LEMMA ReadShape ==
    ASSUME Shapes, NEW n \in 1..Len(out), Reads(n)
    PROVE  /\ n \in 0..Len(out) /\ Len(out) \in Nat
           /\ SubSeq(out, 1, n) \in Seq(Piece) /\ Len(SubSeq(out, 1, n)) = n
           /\ \A i \in 1..n : SubSeq(out, 1, n)[i] = out[i]
           /\ out' \in Seq(Piece) /\ Len(out') = Len(out) - n
           /\ \A i \in 1..Len(out) - n : out'[i] = out[n + i]
<1>1. n \in 0..Len(out) /\ Len(out) \in Nat
  BY DEF Shapes
<1>2. out \in Seq(Piece) /\ out' = SubSeq(out, n + 1, Len(out))
  BY DEF Shapes, Reads
<1> QED BY <1>1, <1>2, Cut

LEMMA BridgeShapes == ASSUME PtyTypeInv, Shapes, BridgeStep PROVE Shapes'
<1>0. rpc' = rpc
  BY DEF BridgeStep
<1>1. ASSUME NEW n \in 1..Len(out), ReadAuth(n) PROVE Shapes'
  <2>1. Reads(n) /\ UNCHANGED <<in, up>>
    BY <1>1 DEF ReadAuth
  <2>2. SubSeq(out, 1, n) \in Seq(Piece) /\ out' \in Seq(Piece)
    BY <2>1, ReadShape
  <2>3. pending \o SubSeq(out, 1, n) \in Seq(Piece)
    BY <2>2, Glue DEF Shapes
  <2>4. down \o (pending \o SubSeq(out, 1, n)) \in Seq(Piece)
    BY <2>3, Glue DEF Shapes
  <2>5. pending' \in Seq(Piece)
    BY <1>1, <2>3, Spelled DEF ReadAuth
  <2>6. down' \in Seq(Piece)
    <3>1. \A m \in {"prompt", "not_found"} : Append(down, <<m, 0>>) \in Seq(Piece)
      BY Added, Spelled DEF Shapes
    <3> QED BY <1>1, <2>4, <3>1 DEF ReadAuth, Shapes
  <2> QED BY <1>0, <2>1, <2>2, <2>5, <2>6 DEF Shapes
<1>2. ASSUME NEW n \in 1..Len(out), WaitReady(n) PROVE Shapes'
  <2>1. Reads(n) /\ UNCHANGED <<in, up, down, pending>>
    BY <1>2 DEF WaitReady
  <2> QED BY <1>0, <2>1, ReadShape DEF Shapes
<1>3. CASE PassPassword \/ PassSize \/ Transfer \/ CopyUp
  <2>1. UNCHANGED <<out, pending, down>> /\ up # <<>> /\ up' = Tail(up)
    BY <1>3 DEF PassPassword, PassSize, Transfer, CopyUp
  <2>2. Head(up) \in Answers /\ up' \in Seq(Answers)
    BY <2>1, Rest DEF Shapes
  <2>3. \A a \in Answers : <<a, raw>> \in Answers \X BOOLEAN
    BY DEF PtyTypeInv, Flags
  <2>4. \A a \in Answers : Append(in, <<a, raw>>) \in Seq(Answers \X BOOLEAN)
    BY <2>3, Added DEF Shapes
  <2>5. in' = in \/ \E a \in Answers : in' = Append(in, <<a, raw>>)
    BY <1>3, <2>2 DEF PassPassword, PassSize, Transfer, CopyUp, Write, Answers
  <2> QED BY <1>0, <2>1, <2>2, <2>4, <2>5 DEF Shapes
<1>4. CASE CopyDown
  <2>1. Reads(1) /\ 1 \in 1..Len(out) /\ UNCHANGED <<in, up, pending>> /\ down' = Append(down, Head(out))
    BY <1>4 DEF CopyDown, Reads
  <2>2. out # <<>>
    BY <2>1 DEF Shapes
  <2>3. Head(out) \in Piece
    BY <2>2, Rest DEF Shapes
  <2> QED BY <1>0, <2>1, <2>3, Added, ReadShape DEF Shapes
<1>5. CASE PtyFails \/ Tidy \/ Exit
  BY <1>0, <1>5, TidyKeeps DEF PtyFails, Exit, Shapes
<1> QED BY <1>1, <1>2, <1>3, <1>4, <1>5 DEF BridgeStep, Work

\* A line is one to three pieces.
LEMMA LineShape ==
    ASSUME Shapes, Line
    PROVE  /\ LineLength \in 1..Len(down) /\ LineLength \in 0..Len(down) /\ Len(down) \in Nat
           /\ down' \in Seq(Piece) /\ Len(down') = Len(down) - LineLength
           /\ \A i \in 1..Len(down) - LineLength : down'[i] = down[LineLength + i]
           /\ Head(down) = down[1] /\ down # <<>>
<1>1. down \in Seq(Piece) /\ down # <<>> /\ LineLength <= Len(down)
      /\ down' = SubSeq(down, LineLength + 1, Len(down))
  BY DEF Line, Shapes
<1>2. LineLength \in {1, 2, 3}
  BY DEF LineLength
<1>3. Len(down) \in Nat /\ Head(down) = down[1]
  BY <1>1, Rest
<1>4. LineLength \in 0..Len(down) /\ LineLength \in 1..Len(down)
  BY <1>1, <1>2, <1>3
<1> QED BY <1>1, <1>3, <1>4, Cut

LEMMA EmacsShapes == ASSUME PtyTypeInv, Shapes, Emacs PROVE Shapes'
<1>1. CASE Line
  <2>1. UNCHANGED <<out, in, pending, up, rpc>>
    BY <1>1 DEF Line
  <2> QED BY <1>1, <2>1, LineShape DEF Shapes
<1>2. CASE Answer
  <2>1. UNCHANGED <<out, in, pending, down, rpc>>
    BY <1>2 DEF Answer
  <2>2. [i \in 1..Binary |-> "binary"] \in Seq(Answers) /\ "deploy" \in Answers
        /\ "password" \in Answers
    BY DEF Answers
  <2>3. Append(up, "password") \in Seq(Answers) /\ Append(up, "deploy") \in Seq(Answers)
    BY <2>2, Added DEF Shapes
  <2>4. Append(up, "deploy") \o [i \in 1..Binary |-> "binary"] \in Seq(Answers)
    BY <2>2, <2>3, Glue
  <2>5. up' \in Seq(Answers)
    BY <1>2, <2>3, <2>4 DEF Answer, Shapes
  <2> QED BY <2>1, <2>5 DEF Shapes
<1>3. CASE Decline \/ Timeout
  BY <1>3 DEF Decline, Timeout, Fail, Shapes
<1>4. CASE SendRpc
  <2>1. "rpc" \in Answers
    BY DEF Answers
  <2> QED BY <1>4, <2>1, Added DEF SendRpc, Shapes
<1>5. CASE ReceiveRpc
  <2>1. UNCHANGED <<out, in, pending, up>> /\ down # <<>> /\ down' = Tail(down)
        /\ rpc' = Append(rpc, Head(down))
    BY <1>5 DEF ReceiveRpc
  <2>2. Head(down) \in Piece /\ down' \in Seq(Piece)
    BY <2>1, Rest DEF Shapes
  <2> QED BY <2>1, <2>2, Added DEF Shapes
<1> QED BY <1>1, <1>2, <1>3, <1>4, <1>5 DEF Emacs

Messages == {"prompt", "not_found", "ready", "deploy_done"}

\* A message ends a text.
LEMMA LastPiece ==
    ASSUME NEW g \in Texts
    PROVE  /\ Len(g) \in 0..3
           /\ \A i \in 1..Len(g), m \in Messages : g[i] = <<m, 2>> =>
                 i = Len(g) /\ g \in Says(m) /\ (m = "prompt" => g = Pieces("prompt"))
<1>1. CASE g = <<>>
  <2>1. Len(g) = 0
    BY <1>1
  <2> QED BY <2>1
<1>2. CASE g = Osc
  <2>1. Len(g) = 1 /\ g[1] = <<"osc", 1>>
    BY <1>2 DEF Osc
  <2>2. \A m \in Messages : <<"osc", 1>> # <<m, 2>>
    OBVIOUS
  <2> QED BY <2>1, <2>2
<1>3. ASSUME NEW w \in Messages, g = Pieces(w)
      PROVE  /\ Len(g) \in 0..3
             /\ \A i \in 1..Len(g), m \in Messages : g[i] = <<m, 2>> => i = Len(g) /\ m = w
  <2>1. Len(g) = 2 /\ g[1] = <<w, 1>> /\ g[2] = <<w, 2>>
    BY <1>3 DEF Pieces
  <2>2. \A m \in Messages : <<w, 1>> # <<m, 2>> /\ (<<w, 2>> = <<m, 2>> => m = w)
    OBVIOUS
  <2>3. \A i \in 1..Len(g) : i = 1 \/ i = 2
    BY <2>1
  <2> QED BY <2>1, <2>2, <2>3
<1>4. ASSUME NEW w \in Messages, g = <<<<"osc", 1>>, <<w, 1>>, <<w, 2>>>>
      PROVE  /\ Len(g) \in 0..3
             /\ \A i \in 1..Len(g), m \in Messages : g[i] = <<m, 2>> => i = Len(g) /\ m = w
  <2>1. Len(g) = 3 /\ g[1] = <<"osc", 1>> /\ g[2] = <<w, 1>> /\ g[3] = <<w, 2>>
    BY <1>4
  <2>2. \A m \in Messages : /\ <<w, 1>> # <<m, 2>> /\ (<<w, 2>> = <<m, 2>> => m = w)
                            /\ <<"osc", 1>> # <<m, 2>>
    OBVIOUS
  <2>3. \A i \in 1..Len(g) : i = 1 \/ i = 2 \/ i = 3
    BY <2>1
  <2> QED BY <2>1, <2>2, <2>3
<1>5. \A w \in Messages : g \in Says(w) <=> \/ g = Pieces(w)
                                            \/ g = <<<<"osc", 1>>, <<w, 1>>, <<w, 2>>>>
  BY DEF Says
<1>6. CASE g = Pieces("prompt")
  <2>1. "prompt" \in Messages
    BY DEF Messages
  <2> QED BY <1>3, <1>5, <1>6, <2>1
<1>7. CASE \E w \in {"not_found", "ready", "deploy_done"} : g \in Says(w)
  <2>1. PICK w \in {"not_found", "ready", "deploy_done"} : g \in Says(w)
    BY <1>7
  <2>2. w \in Messages /\ w # "prompt"
    BY DEF Messages
  <2> QED BY <1>3, <1>4, <1>5, <2>1, <2>2
<1> QED BY <1>1, <1>2, <1>6, <1>7 DEF Texts

LEMMA Heard ==
    ASSUME NEW s \in Seq(Piece), NEW m \in Messages, Whole(s, m)
    PROVE  \E i \in 2..Len(s) : s[i] = <<m, 2>>
<1>1. PICK i \in 1..(Len(s) - 1) : SubSeq(s, i, i + 1) = Pieces(m)
  BY DEF Whole
<1>2. Len(s) \in Nat
  OBVIOUS
<1>3. i \in Int /\ i + 1 \in 2..Len(s)
  BY <1>2
<1>4. \A j \in i..(i + 1) : s[j] \in Piece
  BY <1>2, <1>3
<1>5. SubSeq(s, i, i + 1)[2] = s[i + 2 - 1]
  <2>1. \A j \in 1..(i + 1) - i + 1 : SubSeq(s, i, i + 1)[j] = s[i + j - 1]
    BY <1>3, <1>4, SubSeqProperties
  <2>2. 2 \in 1..(i + 1) - i + 1
    BY <1>3
  <2> QED BY <2>1, <2>2
<1>6. i + 2 - 1 = i + 1
  BY <1>3
<1>7. Pieces(m)[2] = <<m, 2>>
  BY DEF Pieces
<1> QED BY <1>1, <1>3, <1>5, <1>6, <1>7

\* Which message was heard in a part of what was printed, it is the last one.
LEMMA HeardWhat ==
    ASSUME NEW g \in Texts, NEW i \in Nat \ {0}, NEW m \in Messages, At(g, i) = <<m, 2>>
    PROVE  i = Len(g) /\ g \in Says(m) /\ (m = "prompt" => g = Pieces("prompt"))
<1>1. Len(g) \in 0..3
  BY LastPiece
<1>2. CASE i <= Len(g)
  <2>1. i \in 1..Len(g) /\ g[i] = <<m, 2>>
    BY <1>1, <1>2 DEF At
  <2> QED BY <2>1, LastPiece
<1>3. CASE ~(i <= Len(g))
  <2>1. <<"frame", i - Len(g)>> = <<m, 2>>
    BY <1>3 DEF At
  <2> QED BY <2>1 DEF Messages
<1> QED BY <1>2, <1>3

\* A read takes the next n pieces.
LEMMA ReadFlows ==
    ASSUME PtyTypeInv, Shapes, NEW g \in Texts, Flows(g), NEW n \in 1..Len(out), Reads(n)
    PROVE  LET all == pending \o SubSeq(out, 1, n)
           IN  /\ all \in Seq(Piece) /\ Len(all) = Len(pending) + n
               /\ Len(all) \in Nat /\ Len(out') \in Nat /\ Len(g) \in 0..3 /\ sent \in Nat
               /\ Len(all) + Len(out') = Len(g) + sent
               /\ \A i \in 1..Len(all) : all[i] = At(g, i)
               /\ \A i \in 1..Len(out') : out'[i] = At(g, Len(all) + i)
<1> DEFINE chunk == SubSeq(out, 1, n)
           all == pending \o chunk
<1>1. /\ chunk \in Seq(Piece) /\ Len(chunk) = n /\ \A i \in 1..n : chunk[i] = out[i]
      /\ out' \in Seq(Piece) /\ Len(out') = Len(out) - n
      /\ \A i \in 1..Len(out) - n : out'[i] = out[n + i]
  BY ReadShape
<1>2. Len(pending) \in Nat /\ Len(out) \in Nat /\ n \in Nat /\ sent \in Nat
      /\ pending \in Seq(Piece)
  BY DEF Shapes, PtyTypeInv, Counts
<1>3. Len(g) \in 0..3
  BY LastPiece
<1> HIDE DEF chunk
<1>4. /\ all \in Seq(Piece) /\ Len(all) = Len(pending) + n
      /\ \A i \in 1..Len(pending) : all[i] = pending[i]
      /\ \A i \in 1..n : all[Len(pending) + i] = chunk[i]
  <2>1. /\ all \in Seq(Piece) /\ Len(all) = Len(pending) + Len(chunk)
        /\ \A i \in 1..Len(pending) : all[i] = pending[i]
        /\ \A i \in 1..Len(chunk) : all[Len(pending) + i] = chunk[i]
    <3>1. chunk \in Seq(Piece) /\ pending \in Seq(Piece)
      BY <1>1, <1>2
    <3> QED BY <3>1, Glue
  <2> HIDE DEF all
  <2> QED BY <1>1, <2>1
<1> HIDE DEF all
<1>5. ASSUME NEW i \in 1..Len(all) PROVE all[i] = At(g, i)
  <2>1. CASE i <= Len(pending)
    <3>1. i \in 1..Len(pending)
      BY <1>2, <1>4, <2>1
    <3>2. all[i] = pending[i]
      BY <1>4, <3>1
    <3>3. pending[i] = At(g, i)
      BY <3>1 DEF Flows
    <3> QED BY <3>2, <3>3
  <2>2. CASE ~(i <= Len(pending))
    <3>1. PICK j \in 1..n : i = Len(pending) + j
      <4>1. i - Len(pending) \in 1..n /\ i = Len(pending) + (i - Len(pending))
        BY <1>2, <1>4, <2>2
      <4> QED BY <4>1
    <3>2. all[i] = out[j]
      BY <1>1, <1>4, <3>1
    <3>3. j \in 1..Len(out)
      BY <1>2
    <3> QED BY <3>1, <3>2, <3>3 DEF Flows
  <2> QED BY <2>1, <2>2
<1>6. ASSUME NEW i \in 1..Len(out') PROVE out'[i] = At(g, Len(all) + i)
  <2>1. i \in 1..Len(out) - n /\ n + i \in 1..Len(out)
        /\ Len(all) + i = Len(pending) + (n + i)
    BY <1>1, <1>2, <1>4
  <2>2. out'[i] = out[n + i] /\ out[n + i] = At(g, Len(pending) + (n + i))
    BY <1>1, <2>1 DEF Flows
  <2> QED BY <2>1, <2>2
<1>7. Len(all) + Len(out') = Len(g) + sent /\ Len(all) \in Nat /\ Len(out') \in Nat
  <2>1. Len(pending) + Len(out) = Len(g) + sent
    BY DEF Flows
  <2>2. Len(out') = Len(out) - n
    BY <1>1
  <2>3. Len(all) = Len(pending) + n
    BY <1>4
  <2>4. n <= Len(out)
    BY <1>2
  <2> QED BY <1>2, <1>3, <2>1, <2>2, <2>3, <2>4
<1>8. /\ all \in Seq(Piece) /\ Len(all) = Len(pending) + n
      /\ Len(all) \in Nat /\ Len(out') \in Nat /\ Len(g) \in 0..3 /\ sent \in Nat
      /\ Len(all) + Len(out') = Len(g) + sent
      /\ \A i \in 1..Len(all) : all[i] = At(g, i)
      /\ \A i \in 1..Len(out') : out'[i] = At(g, Len(all) + i)
  BY <1>2, <1>3, <1>4, <1>5, <1>6, <1>7
<1> QED BY <1>8 DEF all, chunk

Phases == AuthInv /\ PasswordInv /\ DeployInv /\ WaitInv /\ TransferInv /\ CopyInv /\ DeadInv

\* What a message that is heard shows: where it ends and where the script is.
LEMMA HeardPrompt ==
    ASSUME PtyTypeInv, Shapes, NEW g \in Texts, Printed(g), Flows(g),
           NEW n \in 1..Len(out), Reads(n), Whole(SubSeq(out, 1, n), "prompt")
    PROVE  out' = <<>> /\ sent = 0 /\ in = <<>> /\ remote \in {"asked", "exited"}
<1> DEFINE chunk == SubSeq(out, 1, n)
<1>1. /\ chunk \in Seq(Piece) /\ Len(chunk) = n
      /\ \A i \in 1..n : chunk[i] = out[i]
  BY ReadShape
<1>1a. out' \in Seq(Piece) /\ Len(out') = Len(out) - n
  BY ReadShape
<1>2. PICK i \in 2..Len(chunk) : chunk[i] = <<"prompt", 2>>
  <2>1. "prompt" \in Messages
    BY DEF Messages
  <2> QED BY <1>1, <2>1, Heard
<1>3. Len(pending) \in Nat /\ Len(out) \in Nat /\ n \in Nat
  BY DEF Shapes
<1>4. i \in 1..n /\ i \in 1..Len(out) /\ i \in Nat /\ Len(pending) + i \in Nat \ {0}
  BY <1>1, <1>2, <1>3
<1>5. At(g, Len(pending) + i) = <<"prompt", 2>>
  <2>1. out[i] = <<"prompt", 2>>
    BY <1>1, <1>2, <1>4
  <2> QED BY <1>4, <2>1 DEF Flows
<1>6. Len(pending) + i = Len(g) /\ g = Pieces("prompt")
  BY <1>4, <1>5, HeardWhat DEF Messages
<1>7. Len(g) = 2 /\ g[2] = <<"prompt", 2>> /\ g[1] = <<"prompt", 1>>
  BY <1>6, Spelled
<1>8. in = <<>> /\ sent = 0 /\ remote \in {"asked", "exited"}
  <2>1. g # <<>> /\ g # Osc
    BY <1>7 DEF Osc
  <2>2. \A w \in {"not_found", "ready", "deploy_done"} : g \notin Says(w)
    <3> SUFFICES ASSUME NEW w \in {"not_found", "ready", "deploy_done"}
                 PROVE  g \notin Says(w)
      OBVIOUS
    <3>1. g # Pieces(w)
      BY <1>7 DEF Pieces
    <3>2. g # <<<<"osc", 1>>, <<w, 1>>, <<w, 2>>>>
      BY <1>7
    <3> QED BY <3>1, <3>2 DEF Says
  <2> QED BY <2>1, <2>2 DEF Printed
<1>9. Len(out') = 0
  <2>1. Len(pending) + Len(out) = Len(g)
    BY <1>7, <1>8 DEF Flows
  <2>2. n <= Len(out) /\ i <= n
    BY <1>4
  <2> QED BY <1>1a, <1>3, <1>4, <1>6, <2>1, <2>2
<1> QED BY <1>1a, <1>8, <1>9, Nothing

LEMMA HeardLine ==
    ASSUME PtyTypeInv, Shapes, NEW g \in Texts, Printed(g), Flows(g),
           NEW n \in 1..Len(out), Reads(n), NEW m \in {"not_found", "ready", "deploy_done"},
           Whole(pending \o SubSeq(out, 1, n), m)
    PROVE  /\ g \in Says(m) /\ Len(g) <= Len(pending \o SubSeq(out, 1, n))
           /\ m = "not_found" => /\ out' = <<>> /\ sent = 0 /\ in = <<>>
                                 /\ remote \in {"size", "exited"}
           /\ m # "not_found" => remote \in {"serve", "exited"}
<1> DEFINE all == pending \o SubSeq(out, 1, n)
<1>1. /\ all \in Seq(Piece) /\ Len(all) \in Nat /\ Len(out') \in Nat /\ sent \in Nat
      /\ Len(all) + Len(out') = Len(g) + sent /\ Len(g) \in 0..3
      /\ \A i \in 1..Len(all) : all[i] = At(g, i)
  BY ReadFlows
<1>2. m \in Messages /\ m # "prompt"
  BY DEF Messages
<1>3. PICK i \in 2..Len(all) : all[i] = <<m, 2>>
  BY <1>1, <1>2, Heard
<1>4. i \in 1..Len(all) /\ i \in Nat \ {0}
  BY <1>1
<1>5. At(g, i) = <<m, 2>>
  BY <1>1, <1>3, <1>4
<1>6. i = Len(g) /\ g \in Says(m)
  BY <1>2, <1>4, <1>5, HeardWhat
<1>7. g[i] = <<m, 2>> /\ i >= 2
  BY <1>1, <1>5, <1>6 DEF At
<1>8. /\ m = "not_found" => in = <<>> /\ sent = 0 /\ remote \in {"size", "exited"}
      /\ m # "not_found" => remote \in {"serve", "exited"}
  <2>1. g # <<>> /\ g # Osc
    BY <1>6, <1>7 DEF Osc
  <2>2. g # Pieces("prompt")
    <3> SUFFICES ASSUME g = Pieces("prompt") PROVE FALSE
      OBVIOUS
    <3>1. Len(g) = 2 /\ g[2] = <<"prompt", 2>>
      BY DEF Pieces
    <3> QED BY <1>2, <1>6, <1>7, <3>1
  <2>3. \A w \in {"not_found", "ready", "deploy_done"} : g \in Says(w) => w = m
    <3> SUFFICES ASSUME NEW w \in {"not_found", "ready", "deploy_done"}, g \in Says(w)
                 PROVE  w = m
      OBVIOUS
    <3>1. g[Len(g)] = <<w, 2>>
      <4>1. CASE g = Pieces(w)
        BY <4>1, Spelled
      <4>2. CASE g = <<<<"osc", 1>>, <<w, 1>>, <<w, 2>>>>
        BY <4>2
      <4> QED BY <4>1, <4>2 DEF Says
    <3> QED BY <1>6, <1>7, <3>1
  <2> QED BY <2>1, <2>2, <2>3 DEF Printed
<1>9. m = "not_found" => Len(out') = 0
  <2>1. i <= Len(all)
    BY <1>1
  <2> QED BY <1>1, <1>6, <1>8, <2>1
<1>10. out' \in Seq(Piece)
  BY ReadShape
<1>11. Len(g) <= Len(all)
  BY <1>1, <1>6
<1> QED BY <1>6, <1>8, <1>9, <1>10, <1>11, Nothing

LEMMA ReadAuthPhases ==
    ASSUME PtyTypeInv, Shapes, Phases, ClientInv, NEW n \in 1..Len(out), ReadAuth(n)
    PROVE  Phases'
<1> DEFINE chunk == SubSeq(out, 1, n)
           all == pending \o chunk
<1>1. /\ bridge = "auth" /\ Reads(n)
      /\ UNCHANGED <<remote, raw, sent, in, copied, up, client, asking, rpc>>
  BY DEF ReadAuth
<1>2. PICK g \in Texts : Printed(g) /\ Flows(g)
  BY <1>1 DEF Phases, AuthInv
<1>3. Calm /\ up = <<>>
  BY <1>1 DEF Phases, AuthInv
<1>4. /\ all \in Seq(Piece) /\ Len(all) \in Nat /\ Len(out') \in Nat /\ sent \in Nat
      /\ Len(all) + Len(out') = Len(g) + sent /\ Len(g) \in 0..3
  BY <1>1, <1>2, ReadFlows
<1>5. /\ \A i \in 1..Len(all) : all[i] = At(g, i)
      /\ \A i \in 1..Len(out') : out'[i] = At(g, Len(all) + i)
  BY <1>1, <1>2, ReadFlows
<1>6. CASE Whole(chunk, "prompt")
  <2>1. bridge' = "password" /\ pending' = <<>> /\ down' = Append(down, <<"prompt", 0>>)
    BY <1>6 DEF ReadAuth
  <2>2. out' = <<>> /\ sent = 0 /\ in = <<>> /\ remote \in {"asked", "exited"}
    BY <1>1, <1>2, <1>6, HeardPrompt
  <2>3. down' = <<<<"prompt", 0>>>>
    BY <1>3, <2>1 DEF Calm
  <2>4. PasswordInv'
    BY <1>1, <1>3, <2>1, <2>2, <2>3 DEF PasswordInv, Asks, Calm
  <2> QED BY <2>1, <2>4 DEF Phases, AuthInv, DeployInv, WaitInv, TransferInv, CopyInv, DeadInv
<1>7. ASSUME ~Whole(chunk, "prompt"), NEW m \in {"ready", "deploy_done"}, Whole(all, m),
             bridge' = "copy", pending' = <<>>, down' = down \o all
      PROVE  Phases'
  <2>1. g \in Says(m) /\ Len(g) <= Len(all) /\ remote \in {"serve", "exited"}
    BY <1>1, <1>2, <1>7, HeardLine
  <2>2. down' = all
    BY <1>3, <1>4, <1>7, ConcatEmptySeq DEF Calm
  <2>3. Len(all) = Len(g) + (sent - Len(out')) /\ Len(out') <= sent
    BY <1>4, <2>1
  <2>4. Framed(out', sent - Len(out'))
    <3> SUFFICES ASSUME NEW i \in 1..Len(out')
                 PROVE  out'[i] = <<"frame", sent - Len(out') + i>>
      BY DEF Framed
    <3>1. i \in Nat \ {0} /\ ~(Len(all) + i <= Len(g))
          /\ Len(all) + i - Len(g) = sent - Len(out') + i
      BY <1>4, <2>3
    <3>2. out'[i] = At(g, Len(all) + i)
      BY <1>5
    <3> QED BY <3>1, <3>2 DEF At
  <2>5. Greeting(all, sent - Len(out'))
    BY <1>5, <2>1, <2>3 DEF Greeting
  <2>6. Greeting(down', sent' - Len(out')) /\ Framed(out', sent' - Len(out'))
    BY <1>1, <2>2, <2>4, <2>5
  <2>7. rpc = <<>>
    BY <1>3 DEF ClientInv, Calm
  <2>8. CopyInv'
    <3>1. Greeting(down, sent - Len(out))'
      BY <2>6 DEF Greeting
    <3>2. Framed(out, sent - Len(out))'
      BY <2>6 DEF Framed
    <3>3. /\ remote' \in {"serve", "exited"} /\ asking' = "none" /\ up' = <<>>
          /\ Len(out') <= sent' /\ client' \in {"waiting", "deploying"} /\ rpc' = <<>>
      BY <1>1, <1>3, <2>1, <2>3, <2>7 DEF Calm
    <3> QED BY <3>1, <3>2, <3>3 DEF CopyInv
  <2> QED BY <1>7, <2>8 DEF Phases, AuthInv, PasswordInv, DeployInv, WaitInv, TransferInv, DeadInv
<1>8. CASE Whole(all, "not_found") /\ bridge' = "deploy"
  <2>1. pending' = <<>> /\ down' = Append(down, <<"not_found", 0>>)
    BY <1>8 DEF ReadAuth
  <2>2. out' = <<>> /\ sent = 0 /\ in = <<>> /\ remote \in {"size", "exited"}
    BY <1>1, <1>2, <1>8, HeardLine
  <2>3. down' = <<<<"not_found", 0>>>>
    BY <1>3, <2>1 DEF Calm
  <2>4. DeployInv'
    BY <1>1, <1>3, <1>8, <2>1, <2>2, <2>3 DEF DeployInv, Asks, Calm
  <2> QED BY <1>8, <2>4 DEF Phases, AuthInv, PasswordInv, WaitInv, TransferInv, CopyInv, DeadInv
<1>9. CASE pending' = all /\ UNCHANGED <<bridge, down>>
  <2>1. Flows(g)'
    BY <1>1, <1>4, <1>5, <1>9 DEF Flows
  <2>2. Printed(g)'
    BY <1>1, <1>2 DEF Printed
  <2>3. Calm' /\ up' = <<>>
    BY <1>1, <1>3, <1>9 DEF Calm
  <2>4. AuthInv'
    BY <2>1, <2>2, <2>3 DEF AuthInv
  <2> QED BY <1>1, <1>9, <2>4 DEF Phases, PasswordInv, DeployInv, WaitInv, TransferInv, CopyInv, DeadInv
<1> QED BY <1>6, <1>7, <1>8, <1>9 DEF ReadAuth

LEMMA TextShape ==
    ASSUME NEW g \in Texts
    PROVE  g \in Seq(Piece)
<1>1. \A m \in Messages : Pieces(m) \in Seq(Piece)
                          /\ <<<<"osc", 1>>, <<m, 1>>, <<m, 2>>>> \in Seq(Piece)
  <2> SUFFICES ASSUME NEW m \in Messages
               PROVE  /\ Pieces(m) \in Seq(Piece)
                      /\ <<<<"osc", 1>>, <<m, 1>>, <<m, 2>>>> \in Seq(Piece)
    OBVIOUS
  <2>1. <<m, 1>> \in Piece /\ <<m, 2>> \in Piece /\ <<"osc", 1>> \in Piece
    BY DEF Messages, Piece
  <2> QED BY <2>1 DEF Pieces
<1> QED BY <1>1, Spelled DEF Texts, Says, Osc, Messages

\* More is printed.
LEMMA MoreFlows ==
    ASSUME PtyTypeInv, Shapes, NEW g \in Texts, Flows(g), sent = 0, NEW t \in Seq(Piece),
           out' = out \o t, pending' = pending, sent' = sent
    PROVE  Flows(g \o t)'
<1> DEFINE h == g \o t
<1>1. g \in Seq(Piece) /\ Len(g) \in Nat /\ Len(t) \in Nat /\ Len(out) \in Nat
      /\ Len(pending) \in Nat
  BY TextShape, Nothing DEF Shapes
<1>2. /\ Len(h) = Len(g) + Len(t) /\ \A i \in 1..Len(g) : h[i] = g[i]
      /\ \A i \in 1..Len(t) : h[Len(g) + i] = t[i]
  BY <1>1, Glue
<1>3. /\ Len(out') = Len(out) + Len(t) /\ \A i \in 1..Len(out) : out'[i] = out[i]
      /\ \A i \in 1..Len(t) : out'[Len(out) + i] = t[i]
  BY Glue DEF Shapes
<1>4. Len(pending) + Len(out) = Len(g)
  BY <1>1 DEF Flows
<1> HIDE DEF h
<1>4a. /\ Len(g) \in Nat /\ Len(t) \in Nat /\ Len(out) \in Nat /\ Len(pending) \in Nat
       /\ Len(h) = Len(g) + Len(t) /\ Len(out') = Len(out) + Len(t)
  BY <1>1, <1>2, <1>3
<1>5. Len(pending) + Len(out') = Len(h)
  BY ONLY <1>4, <1>4a
<1>6. ASSUME NEW i \in 1..Len(pending) PROVE pending[i] = At(h, i)
  <2>1. i \in 1..Len(g) /\ i <= Len(h) /\ i <= Len(g)
    BY <1>1, <1>2, <1>4
  <2>2. pending[i] = g[i]
    BY <2>1 DEF Flows, At
  <2> QED BY <1>2, <2>1, <2>2 DEF At
<1>7. ASSUME NEW i \in 1..Len(out') PROVE out'[i] = At(h, Len(pending) + i)
  <2>0. Len(pending) + i <= Len(h) /\ i \in Nat
    BY <1>1, <1>2, <1>3, <1>4
  <2>1. CASE i <= Len(out)
    <3>1. i \in 1..Len(out) /\ Len(pending) + i \in 1..Len(g) /\ Len(pending) + i <= Len(g)
      BY <1>1, <1>4, <2>0, <2>1
    <3>2. out[i] = g[Len(pending) + i]
      BY <3>1 DEF Flows, At
    <3>3. out'[i] = h[Len(pending) + i]
      BY <1>2, <1>3, <3>1, <3>2
    <3> QED BY <2>0, <3>3 DEF At
  <2>2. CASE ~(i <= Len(out))
    <3>1. PICK j \in 1..Len(t) : i = Len(out) + j
      <4>1. i - Len(out) \in 1..Len(t) /\ i = Len(out) + (i - Len(out))
        BY <1>1, <1>3, <2>0, <2>2
      <4> QED BY <4>1
    <3>2. Len(pending) + i = Len(g) + j
      <4>1. j \in Nat
        BY <1>4a
      <4>2. Len(pending) + (Len(out) + j) = (Len(pending) + Len(out)) + j
        BY <1>4a, <4>1
      <4> QED BY <1>4, <3>1, <4>2
    <3>3. out'[i] = t[j] /\ h[Len(g) + j] = t[j]
      BY <1>2, <1>3, <3>1
    <3> QED BY <2>0, <3>2, <3>3 DEF At
  <2> QED BY <2>1, <2>2
<1>8. sent' = 0
  OBVIOUS
<1>9. Len(h) \in Nat
  BY <1>1, <1>2
<1>10. Len(pending') + Len(out') = Len(h) + sent'
  BY <1>5, <1>8, <1>9
<1>11. Flows(h)'
  <2>1. \A i \in 1..Len(pending') : pending'[i] = At(h, i)
    BY <1>6
  <2>2. \A i \in 1..Len(out') : out'[i] = At(h, Len(pending') + i)
    BY <1>7
  <2> QED BY <1>10, <2>1, <2>2 DEF Flows, h
<1> QED BY <1>11 DEF h

LEMMA RemoteAuth ==
    ASSUME PtyTypeInv, Shapes, AuthInv, InInv, UnsentInv, RemoteStep
    PROVE  AuthInv'
<1> SUFFICES ASSUME bridge = "auth" PROVE AuthInv'
  BY DEF AuthInv, RemoteStep
<1>1. /\ Calm' /\ up' = <<>> /\ pending' = pending
  BY DEF AuthInv, Calm, RemoteStep, Remote, Prompt, ReadPassword, Script, ReadSize,
     DeployReady, Head_c, Exec, SendFrame, ReadFrame, RemoteExits
<1> SUFFICES \E g \in Texts : (Printed(g) /\ Flows(g))'
  BY <1>1 DEF AuthInv
<1>2. PICK g \in Texts : Printed(g) /\ Flows(g)
  BY DEF AuthInv
<1>3. CASE Prompt \/ Script
  <2>1. remote = "auth" /\ sent = 0 /\ in = <<>> /\ sent' = sent /\ in' = in
    BY <1>3 DEF Prompt, Script, UnsentInv, InInv
  <2>2. g = <<>>
    BY <1>2, <2>1 DEF Printed
  <2>3. \A t \in Seq(Piece) : Emit(t) => Flows(t)'
    <3> SUFFICES ASSUME NEW t \in Seq(Piece), Emit(t) PROVE Flows(t)'
      OBVIOUS
    <3>1. Flows(g \o t)'
      BY <1>1, <1>2, <2>1, MoreFlows DEF Emit
    <3>2. g \o t = t
      BY <2>2, ConcatEmptySeq
    <3> QED BY <3>1, <3>2
  <2>4. CASE Prompt
    <3>1. Flows(Pieces("prompt"))' /\ remote' = "asked"
      BY <2>3, <2>4, Spelled DEF Prompt
    <3>2. Printed(Pieces("prompt"))'
      BY <2>1, <3>1 DEF Printed
    <3> QED BY <3>1, <3>2 DEF Texts
  <2>5. CASE Script
    <3>1. PICK j \in {<<>>, <<<<"osc", 1>>>>} :
            \/ remote' = "exec" /\ Emit(j)
            \/ remote' = "size" /\ Emit(j \o Pieces("not_found"))
      BY <2>5 DEF Script
    <3>2. j \in Seq(Piece) /\ j \o Pieces("not_found") \in Seq(Piece)
      BY Spelled, Glue
    <3>3. CASE remote' = "exec" /\ Emit(j)
      <4>1. Flows(j)' /\ Printed(j)'
        BY <2>1, <2>3, <3>2, <3>3 DEF Printed, Osc
      <4> QED BY <4>1 DEF Texts, Osc
    <3>4. CASE remote' = "size" /\ Emit(j \o Pieces("not_found"))
      <4>1. j \o Pieces("not_found") \in Says("not_found")
        BY Spelled DEF Says
      <4>2. Flows(j \o Pieces("not_found"))' /\ Printed(j \o Pieces("not_found"))'
        BY <2>1, <2>3, <3>2, <3>4, <4>1 DEF Printed
      <4> QED BY <4>1, <4>2 DEF Texts
    <3> QED BY <3>1, <3>3, <3>4
  <2> QED BY <1>3, <2>4, <2>5
<1>4. CASE Exec
  <2>1. remote = "exec" /\ sent = 0 /\ sent' = sent
    BY <1>4 DEF Exec, UnsentInv
  <2>2. g \in {<<>>, <<<<"osc", 1>>>>}
    BY <1>2, <2>1 DEF Printed, Osc
  <2>3. PICK m \in {"ready", "deploy_done"} :
          /\ Emit(Pieces(m))
          /\ m = "ready" => remote' = "serve"
          /\ m = "deploy_done" => remote' = "exited"
    BY <1>4 DEF Exec
  <2>4. Pieces(m) \in Seq(Piece) /\ g \o Pieces(m) \in Says(m)
    BY <2>2, Spelled DEF Says
  <2>5. Flows(g \o Pieces(m))'
    BY <1>1, <1>2, <2>1, <2>3, <2>4, MoreFlows DEF Emit
  <2>6. Printed(g \o Pieces(m))'
    BY <2>1, <2>3, <2>4 DEF Printed
  <2> QED BY <2>4, <2>5, <2>6 DEF Texts
<1>5. CASE SendFrame
  <2>1. remote = "serve" /\ remote' = "serve" /\ sent' = sent + 1
        /\ out' = out \o <<<<"frame", sent + 1>>>> /\ sent \in Nat
    BY <1>5 DEF SendFrame, Emit, PtyTypeInv, Counts
  <2>2. g \in Says("ready")
    BY <1>2, <2>1 DEF Printed
  <2>3. Printed(g)'
    BY <2>1, <2>2 DEF Printed
  <2>4. Flows(g)'
    <3> DEFINE t == <<<<"frame", sent + 1>>>>
    <3>1. t \in Seq(Piece) /\ Len(t) = 1 /\ t[1] = <<"frame", sent + 1>>
      BY <2>1, Spelled
    <3> HIDE DEF t
    <3>2. /\ Len(out') = Len(out) + Len(t) /\ \A i \in 1..Len(out) : out'[i] = out[i]
          /\ \A i \in 1..Len(t) : out'[Len(out) + i] = t[i]
      <4>1. out \in Seq(Piece) /\ out' = out \o t
        BY <2>1 DEF Shapes, t
      <4> QED BY <3>1, <4>1, Glue
    <3>3. Len(out) \in Nat /\ Len(pending) \in Nat /\ Len(g) \in 0..3
      BY LastPiece, Nothing DEF Shapes
    <3>4. Len(pending) + Len(out) = Len(g) + sent
      BY <1>2 DEF Flows
    <3>5. Len(out') = Len(out) + 1 /\ out'[Len(out) + 1] = <<"frame", sent + 1>>
      BY <3>1, <3>2
    <3>6. Len(pending') + Len(out') = Len(g) + sent'
      BY <1>1, <2>1, <3>3, <3>4, <3>5
    <3>7. ASSUME NEW i \in 1..Len(out') PROVE out'[i] = At(g, Len(pending) + i)
      <4>1. CASE i \in 1..Len(out)
        BY <1>2, <3>2, <4>1 DEF Flows
      <4>2. CASE i = Len(out) + 1
        <5>1. ~(Len(pending) + i <= Len(g)) /\ Len(pending) + i - Len(g) = sent + 1
          BY <2>1, <3>3, <3>4, <4>2
        <5> QED BY <3>5, <4>2, <5>1 DEF At
      <4>3. i \in 1..Len(out) \/ i = Len(out) + 1
        BY <3>3, <3>5
      <4> QED BY <4>1, <4>2, <4>3
    <3> QED BY <1>1, <1>2, <3>6, <3>7 DEF Flows
  <2> QED BY <2>3, <2>4
<1>6. CASE ReadPassword \/ ReadSize \/ Head_c \/ ReadFrame \/ RemoteExits
  <2>1. UNCHANGED <<sent, out, pending>>
    BY <1>1, <1>6 DEF ReadPassword, ReadSize, Head_c, ReadFrame, RemoteExits
  <2>2. Flows(g)'
    BY <1>2, <2>1 DEF Flows
  <2>3. Printed(g)'
    <3>1. CASE ReadPassword \/ ReadFrame \/ RemoteExits
      BY <1>2, <3>1 DEF Printed, ReadPassword, ReadFrame, RemoteExits
    <3>2. CASE ReadSize
      BY <1>2, <3>2 DEF Printed, ReadSize
    <3>3. CASE Head_c
      BY <1>2, <3>3 DEF Printed, Head_c
    <3> QED BY <1>6, <3>1, <3>2, <3>3
  <2> QED BY <2>2, <2>3
<1>7. ~DeployReady
  BY <1>2 DEF DeployReady, Printed
<1> QED BY <1>3, <1>4, <1>5, <1>6, <1>7 DEF RemoteStep, Remote


\* The stages of the script and the input of each.
Stage == InInv /\ RawInv /\ UnsentInv

LEMMA RemoteStage ==
    ASSUME PtyTypeInv, Shapes, Stage, RemoteStep
    PROVE  Stage'
<1>0. in \in Seq(Answers \X BOOLEAN)
  BY DEF Shapes
<1>1. InInv'
  <2>1. CASE Prompt \/ Script \/ DeployReady \/ Exec
    <3>1. in = <<>> /\ in' = in
      BY <2>1 DEF Stage, InInv, Prompt, Script, DeployReady, Exec
    <3>2. in' = <<>> /\ Len(in') = 0
      BY <3>1
    <3> QED BY <3>2 DEF InInv
  <2>2. CASE ReadPassword \/ ReadSize
    <3>1. Len(in) <= 1 /\ in # <<>> /\ in' = Tail(in)
      BY <2>2 DEF Stage, InInv, ReadPassword, ReadSize
    <3>2. Len(in) \in Nat \ {0} /\ in' \in Seq(Answers \X BOOLEAN) /\ Len(in') = Len(in) - 1
      BY <1>0, <3>1, Rest
    <3>3. Len(in') = 0
      BY <3>1, <3>2
    <3>4. in' = <<>>
      BY <3>2, <3>3, Nothing
    <3>5. remote' \in {"auth", "raw"}
      BY <2>2 DEF ReadPassword, ReadSize
    <3> QED BY <3>4, <3>5 DEF InInv
  <2>3. CASE Head_c
    <3>1. Len(in) <= Binary /\ Len(in) >= Binary /\ in' = SubSeq(in, Binary + 1, Len(in))
          /\ remote' = "exec"
      BY <2>3 DEF Stage, InInv, Head_c
    <3>2. Len(in) = Binary /\ Binary \in 0..Len(in)
      BY <1>0, <3>1
    <3>3. in' \in Seq(Answers \X BOOLEAN) /\ Len(in') = Len(in) - Binary
      BY <1>0, <3>1, <3>2, Cut
    <3>4. Len(in') = 0
      BY <3>2, <3>3
    <3>5. in' = <<>>
      BY <3>3, <3>4, Nothing
    <3> QED BY <3>1, <3>5 DEF InInv
  <2>4. CASE ReadFrame
    <3>1. in # <<>> /\ in' = Tail(in) /\ remote = "serve" /\ remote' = "serve"
      BY <2>4 DEF ReadFrame
    <3>2. Len(in) \in Nat \ {0} /\ Len(in') = Len(in) - 1
          /\ \A i \in 1..Len(in) - 1 : in'[i] = in[i + 1]
      BY <1>0, <3>1, Rest
    <3>3. \A i \in 1..Len(in) : in[i][1] = "rpc"
      BY <3>1 DEF Stage, InInv
    <3>4. \A i \in 1..Len(in') : in'[i][1] = "rpc"
      <4> SUFFICES ASSUME NEW i \in 1..Len(in') PROVE in'[i][1] = "rpc"
        OBVIOUS
      <4>1. i \in 1..Len(in) - 1 /\ i + 1 \in 1..Len(in)
        BY <3>2
      <4> QED BY <3>2, <3>3, <4>1
    <3> QED BY <3>1, <3>4 DEF InInv
  <2>5. CASE SendFrame
    BY <2>5 DEF Stage, InInv, SendFrame
  <2>6. CASE RemoteExits
    BY <2>6 DEF InInv, RemoteExits
  <2> QED BY <2>1, <2>2, <2>3, <2>4, <2>5, <2>6 DEF RemoteStep, Remote
<1>2. RawInv'
  BY DEF Stage, RawInv, RemoteStep, Remote, Prompt, ReadPassword, Script, ReadSize,
     DeployReady, Head_c, Exec, SendFrame, ReadFrame, RemoteExits
<1>3. UnsentInv'
  BY DEF Stage, UnsentInv, RemoteStep, Remote, Prompt, ReadPassword, Script, ReadSize,
     DeployReady, Head_c, Exec, SendFrame, ReadFrame, RemoteExits
<1> QED BY <1>1, <1>2, <1>3 DEF Stage

LEMMA RemotePhases ==
    ASSUME PtyTypeInv, Shapes, Stage, Phases, RemoteStep
    PROVE  Phases'
<1>1. AuthInv'
  BY RemoteAuth DEF Phases, Stage
<1>0. UNCHANGED <<bridge, pending, copied, ptmx, client, asking, result, rpc>>
  BY DEF RemoteStep
<1>0a. UNCHANGED <<up, down>>
  BY DEF RemoteStep, Remote, Prompt, ReadPassword, Script, ReadSize, DeployReady, Head_c,
     Exec, SendFrame, ReadFrame, RemoteExits
<1>2. PasswordInv'
  <2> SUFFICES ASSUME bridge = "password" PROVE PasswordInv'
    BY <1>0 DEF PasswordInv
  <2>1. remote \in {"asked", "exited"} /\ in = <<>>
    BY DEF Phases, PasswordInv
  <2>2. RemoteExits
    BY <2>1 DEF RemoteStep, Remote, Prompt, ReadPassword, Script, ReadSize, DeployReady,
       Head_c, Exec, SendFrame, ReadFrame
  <2> QED BY <1>0, <1>0a, <2>2 DEF Phases, PasswordInv, Asks, RemoteExits
<1>3. DeployInv'
  <2> SUFFICES ASSUME bridge = "deploy" PROVE DeployInv'
    BY <1>0 DEF DeployInv
  <2>1. remote \in {"size", "exited"} /\ in = <<>>
    BY DEF Phases, DeployInv
  <2>2. RemoteExits
    BY <2>1 DEF RemoteStep, Remote, Prompt, ReadPassword, Script, ReadSize, DeployReady,
       Head_c, Exec, SendFrame, ReadFrame
  <2> QED BY <1>0, <1>0a, <2>2 DEF Phases, DeployInv, Asks, RemoteExits
<1>4. WaitInv'
  <2> SUFFICES ASSUME bridge = "wait" PROVE WaitInv'
    BY <1>0 DEF WaitInv
  <2>1. /\ pending = <<>> /\ sent = 0 /\ Calm /\ Binaries(Binary)
        /\ remote \in {"size", "raw", "head", "exited"}
    BY DEF Phases, WaitInv
  <2>2. Calm' /\ Binaries(Binary)'
    BY <1>0, <1>0a, <2>1 DEF Calm, Binaries
  <2>3. CASE ReadSize
    BY <1>0, <1>0a, <2>1, <2>2, <2>3 DEF Phases, WaitInv, ReadSize
  <2>4. CASE DeployReady
    <3>1. remote = "raw" /\ in = <<>> /\ in' = in /\ sent' = sent /\ remote' = "head"
      BY <2>4 DEF DeployReady, Stage, InInv
    <3>2. out = <<>> /\ out' = out \o Pieces("deploy_ready")
      BY <2>4, <3>1 DEF DeployReady, Emit, Phases, WaitInv
    <3>3. out' = Pieces("deploy_ready")
      BY <3>2, Spelled
    <3> QED BY <1>0, <2>1, <2>2, <3>1, <3>3 DEF WaitInv
  <2>5. CASE RemoteExits
    BY <1>0, <1>0a, <2>1, <2>2, <2>5 DEF Phases, WaitInv, RemoteExits
  <2>6. ~Head_c
    <3> SUFFICES ASSUME Head_c PROVE FALSE
      OBVIOUS
    <3>1. in = <<>> /\ Len(in) >= Binary
      BY DEF Head_c, Phases, WaitInv
    <3> QED BY <3>1
  <2> QED BY <2>1, <2>3, <2>4, <2>5, <2>6 DEF RemoteStep, Remote, Prompt, ReadPassword,
             Script, Exec, SendFrame, ReadFrame
<1>5. TransferInv'
  <2> SUFFICES ASSUME bridge = "transfer" PROVE TransferInv'
    BY <1>0 DEF TransferInv
  <2>1. /\ pending = <<>> /\ out = <<>> /\ sent = 0 /\ Calm /\ Binaries(Binary - copied)
        /\ (remote = "head" /\ Len(in) = copied) \/ remote = "exited"
        /\ copied < Binary /\ copied \in Nat
    BY DEF Phases, TransferInv, PtyTypeInv, Counts
  <2>2. ~Head_c
    BY <2>1 DEF Head_c
  <2>3. RemoteExits
    BY <2>1, <2>2 DEF RemoteStep, Remote, Prompt, ReadPassword, Script, ReadSize, DeployReady,
       Exec, SendFrame, ReadFrame
  <2>4. Calm' /\ Binaries(Binary - copied)'
    BY <1>0, <1>0a, <2>1 DEF Calm, Binaries
  <2> QED BY <1>0, <2>1, <2>3, <2>4 DEF TransferInv, RemoteExits
<1>6. CopyInv'
  <2> SUFFICES ASSUME bridge = "copy" PROVE CopyInv'
    BY <1>0 DEF CopyInv
  <2>1. /\ remote \in {"serve", "exited"} /\ asking = "none"
        /\ \A i \in 1..Len(up) : up[i] = "rpc"
        /\ Len(out) <= sent /\ Framed(out, sent - Len(out))
    BY DEF Phases, CopyInv
  <2>2. \/ Told /\ Len(rpc) + Len(down) = sent - Len(out)
        \/ /\ client \in {"waiting", "deploying"} /\ rpc = <<>>
           /\ Greeting(down, sent - Len(out)) \/ Mute(down)
    BY DEF Phases, CopyInv
  <2>3. CASE ReadFrame \/ RemoteExits
    <3>1. UNCHANGED <<sent, out>> /\ remote' \in {"serve", "exited"}
      BY <2>3 DEF ReadFrame, RemoteExits
    <3> QED BY <1>0, <1>0a, <2>1, <2>2, <3>1 DEF CopyInv, Told, Framed, Greeting, Mute, At
  <2>4. CASE SendFrame
    <3>1. sent' = sent + 1 /\ out' = Append(out, <<"frame", sent + 1>>) /\ remote' = remote
      <4>1. out' = out \o <<<<"frame", sent + 1>>>>
        BY <2>4 DEF SendFrame, Emit
      <4>2. sent + 1 \in Nat
        BY DEF PtyTypeInv, Counts
      <4>3. <<"frame", sent + 1>> \in Piece
        BY <4>2 DEF Piece
      <4>4. out \in Seq(Piece)
        BY DEF Shapes
      <4>5. out \o <<<<"frame", sent + 1>>>> = Append(out, <<"frame", sent + 1>>)
        BY <4>3, <4>4
      <4> QED BY <2>4, <4>1, <4>5 DEF SendFrame
    <3>2. sent \in Nat /\ Len(out) \in Nat /\ <<"frame", sent + 1>> \in Piece
          /\ out \in Seq(Piece)
      BY DEF PtyTypeInv, Counts, Shapes, Piece
    <3>3. Len(out') = Len(out) + 1 /\ out'[Len(out) + 1] = <<"frame", sent + 1>>
          /\ \A i \in 1..Len(out) : out'[i] = out[i]
      BY <3>1, <3>2, Added
    <3>4. sent' - Len(out') = sent - Len(out) /\ Len(out') <= sent'
      BY <2>1, <3>1, <3>2, <3>3
    <3>5. \A i \in 1..Len(out') : out'[i] = <<"frame", (sent - Len(out)) + i>>
      <4> SUFFICES ASSUME NEW i \in 1..Len(out')
                   PROVE  out'[i] = <<"frame", (sent - Len(out)) + i>>
        OBVIOUS
      <4>1. CASE i \in 1..Len(out)
        BY <2>1, <3>3, <4>1 DEF Framed
      <4>2. CASE i = Len(out) + 1
        <5>1. (sent - Len(out)) + i = sent + 1
          BY <3>2, <4>2
        <5> QED BY <3>3, <4>2, <5>1
      <4>3. i \in 1..Len(out) \/ i = Len(out) + 1
        BY <3>2, <3>3
      <4> QED BY <4>1, <4>2, <4>3
    <3>6. Framed(out', sent' - Len(out'))
      BY <3>4, <3>5 DEF Framed
    <3>7. Framed(out, sent - Len(out))'
      BY <3>6 DEF Framed
    <3>8. \/ Told' /\ Len(rpc') + Len(down') = sent' - Len(out')
          \/ /\ client' \in {"waiting", "deploying"} /\ rpc' = <<>>
             /\ Greeting(down, sent - Len(out))' \/ Mute(down)'
      <4>1. CASE Told /\ Len(rpc) + Len(down) = sent - Len(out)
        BY <1>0, <1>0a, <3>4, <4>1 DEF Told, Framed
      <4>2. CASE /\ client \in {"waiting", "deploying"} /\ rpc = <<>>
                 /\ Greeting(down, sent - Len(out)) \/ Mute(down)
        BY <1>0, <1>0a, <3>4, <4>2 DEF Greeting, Mute
      <4> QED BY <2>2, <4>1, <4>2
    <3> QED BY <1>0, <1>0a, <2>1, <3>1, <3>4, <3>7, <3>8 DEF CopyInv
  <2> QED BY <2>1, <2>3, <2>4 DEF RemoteStep, Remote, Prompt, ReadPassword, Script, ReadSize,
             DeployReady, Head_c, Exec
<1>7. DeadInv'
  <2>1. sent' >= sent /\ sent \in Nat /\ sent' \in Nat
    BY DEF RemoteStep, Remote, Prompt, ReadPassword, Script, ReadSize, DeployReady, Head_c,
       Exec, SendFrame, ReadFrame, RemoteExits, PtyTypeInv, Counts
  <2>2. \A k \in 0..sent : k \in 0..sent'
    BY <2>1
  <2> QED BY <1>0, <1>0a, <2>2 DEF Phases, DeadInv, Over, Told, Framed, Mute, Greeting, At
<1> QED BY <1>1, <1>2, <1>3, <1>4, <1>5, <1>6, <1>7 DEF Phases


\* Whatever the bridge was doing, it may end here.
LEMMA MayEnd ==
    ASSUME PtyTypeInv, Shapes, Phases, ClientInv
    PROVE  Over
<1>1. CASE bridge \in {"auth", "wait", "transfer"}
  <2>1. Calm
    BY <1>1 DEF Phases, AuthInv, WaitInv, TransferInv
  <2> QED BY <2>1 DEF Calm, ClientInv, Over, Mute
<1>2. CASE bridge \in {"password", "deploy"}
  <2>1. Asks("prompt") \/ Asks("not_found")
    BY <1>2 DEF Phases, PasswordInv, DeployInv
  <2> QED BY <2>1 DEF Asks, ClientInv, Over, Mute
<1>3. CASE bridge = "copy"
  <2>1. Len(out) <= sent /\ Len(out) \in Nat /\ sent \in Nat
    BY <1>3 DEF Phases, CopyInv, Shapes, PtyTypeInv, Counts
  <2>2. sent - Len(out) \in 0..sent
    BY <2>1
  <2> QED BY <1>3, <2>2 DEF Phases, CopyInv, Over
<1>4. CASE bridge \in {"cleanup", "exited", "killed"}
  BY <1>4 DEF Phases, DeadInv
<1> QED BY <1>1, <1>2, <1>3, <1>4 DEF PtyTypeInv, Stages

LEMMA ReadOfTwo ==
    ASSUME NEW l \in {1, 2}, NEW n \in 1..l
    PROVE  /\ l - n \in {0, 1} /\ (n >= 2 => l - n = 0)
           /\ (l - n = 1 => l = n + 1 /\ 1 \in 1..l - n)
OBVIOUS

\* deploy_ready is the whole of what is printed while it is waited for.
LEMMA WaitReadyPhases ==
    ASSUME PtyTypeInv, Shapes, Phases, NEW n \in 1..Len(out), WaitReady(n)
    PROVE  Phases'
<1>1. /\ bridge = "wait" /\ Reads(n)
      /\ UNCHANGED <<remote, raw, sent, in, pending, up, down, client, asking, rpc>>
  BY DEF WaitReady
<1>2. /\ pending = <<>> /\ sent = 0 /\ Calm /\ Binaries(Binary)
      /\ \/ remote \in {"size", "raw"} /\ out = <<>>
         \/ /\ (remote = "head" /\ in = <<>>) \/ remote = "exited"
            /\ out \in {<<>>, <<<<"deploy_ready", 2>>>>, Pieces("deploy_ready")}
  BY <1>1 DEF Phases, WaitInv
<1>3. /\ Len(out) \in Nat /\ n \in Nat /\ out' \in Seq(Piece) /\ Len(out') = Len(out) - n
      /\ \A i \in 1..Len(out) - n : out'[i] = out[n + i]
      /\ SubSeq(out, 1, n) \in Seq(Piece) /\ Len(SubSeq(out, 1, n)) = n
  BY <1>1, ReadShape
<1>4. out # <<>>
  BY <1>3
<1>5. /\ (remote = "head" /\ in = <<>>) \/ remote = "exited"
      /\ out = <<<<"deploy_ready", 2>>>> \/ out = Pieces("deploy_ready")
  BY <1>2, <1>4
<1>6. Len(out) \in {1, 2} /\ out[Len(out)] = <<"deploy_ready", 2>>
  BY <1>5 DEF Pieces
<1>6a. /\ Len(out') \in {0, 1} /\ (n >= 2 => Len(out') = 0)
       /\ Len(out') = 1 => Len(out) = n + 1 /\ 1 \in 1..Len(out) - n
  <2>1. Len(out') = Len(out) - n
    BY <1>3
  <2>2. /\ Len(out) - n \in {0, 1} /\ (n >= 2 => Len(out) - n = 0)
        /\ Len(out) - n = 1 => Len(out) = n + 1 /\ 1 \in 1..Len(out) - n
    BY <1>6, ReadOfTwo
  <2> QED BY <2>1, <2>2
<1>7. Calm' /\ Binaries(Binary)'
  BY <1>1, <1>2 DEF Calm, Binaries
<1>8. CASE Whole(SubSeq(out, 1, n), "deploy_ready")
  <2>1. bridge' = "transfer" /\ copied' = 0
    BY <1>8 DEF WaitReady
  <2>2. n >= 2
    BY <1>3, <1>8 DEF Whole
  <2>3. Len(out') = 0
    BY <1>6a, <2>2
  <2>4. out' = <<>>
    BY <1>3, <2>3, Nothing
  <2>5. Binaries(Binary - copied)'
    <3>1. Binary - copied' = Binary
      BY <2>1
    <3> QED BY <1>7, <3>1 DEF Binaries
  <2>6. (remote' = "head" /\ Len(in') = copied') \/ remote' = "exited"
    BY <1>1, <1>5, <2>1
  <2>7. TransferInv'
    BY <1>1, <1>2, <1>7, <2>4, <2>5, <2>6 DEF TransferInv
  <2> QED BY <2>1, <2>7 DEF Phases, AuthInv, PasswordInv, DeployInv, WaitInv, CopyInv, DeadInv
<1>9. CASE ~Whole(SubSeq(out, 1, n), "deploy_ready")
  <2>1. bridge' = "wait"
    BY <1>1, <1>9 DEF WaitReady
  <2>2. out' \in {<<>>, <<<<"deploy_ready", 2>>>>}
    <3>1. CASE Len(out') = 0
      BY <1>3, <3>1, Nothing
    <3>2. CASE Len(out') = 1
      <4>1. Len(out) = n + 1 /\ 1 \in 1..Len(out) - n
        BY <1>6a, <3>2
      <4>2. out'[1] = <<"deploy_ready", 2>>
        BY <1>3, <1>6, <4>1
      <4>3. out' = <<out'[1]>>
        BY <1>3, <3>2, SinglePiece
      <4> QED BY <4>2, <4>3
    <3>3. Len(out') \in {0, 1}
      BY <1>6a
    <3> QED BY <3>1, <3>2, <3>3
  <2>3. WaitInv'
    BY <1>1, <1>2, <1>5, <1>7, <2>2 DEF WaitInv
  <2> QED BY <2>1, <2>3 DEF Phases, AuthInv, PasswordInv, DeployInv, TransferInv, CopyInv, DeadInv
<1> QED BY <1>8, <1>9

\* The answers of Emacs are passed on, each to the stage that reads it.
LEMMA PassPasswordPhases ==
    ASSUME PtyTypeInv, Shapes, Stage, Phases, PassPassword
    PROVE  Phases' /\ Stage'
<1>1. /\ bridge = "password" /\ up # <<>> /\ up' = Tail(up)
      /\ UNCHANGED <<remote, raw, sent, out, pending, down, client, asking, rpc>>
  BY DEF PassPassword
<1>2. /\ out = <<>> /\ pending = <<>> /\ sent = 0 /\ in = <<>> /\ remote \in {"asked", "exited"}
      /\ Asks("prompt") /\ up = <<"password">>
  BY <1>1 DEF Phases, PasswordInv
<1>3. up' = <<>> /\ bridge' = "auth"
  BY <1>1, <1>2 DEF PassPassword
<1>4. Calm
  BY <1>2 DEF Calm, Asks
<1>5. AuthInv'
  <2>1. Flows(<<>>)'
    BY <1>1, <1>2 DEF Flows
  <2>2. Printed(<<>>)'
    BY <1>1, <1>2 DEF Printed
  <2>3. Calm'
    BY <1>1, <1>4 DEF Calm
  <2> QED BY <1>3, <2>1, <2>2, <2>3 DEF AuthInv, Texts
<1>6. in' \in {<<>>, <<<<"password", raw>>>>}
  BY <1>2 DEF PassPassword, Write
<1>7. Stage'
  <2>1. Len(in') <= 1 /\ \A i \in 1..Len(in') : in'[i][1] = "password"
    BY <1>6
  <2> QED BY <1>1, <1>2, <2>1 DEF Stage, InInv, RawInv, UnsentInv
<1> QED BY <1>3, <1>5, <1>7 DEF Phases, PasswordInv, DeployInv, WaitInv, TransferInv, CopyInv,
             DeadInv

LEMMA PassSizePhases ==
    ASSUME PtyTypeInv, Shapes, Stage, Phases, ClientInv, PassSize
    PROVE  Phases' /\ Stage'
<1>1. /\ bridge = "deploy" /\ up # <<>> /\ up' = Tail(up)
      /\ UNCHANGED <<remote, raw, sent, out, pending, down, client, asking, rpc>>
  BY DEF PassSize
<1>2. /\ out = <<>> /\ pending = <<>> /\ sent = 0 /\ in = <<>> /\ remote \in {"size", "exited"}
      /\ Asks("not_found") /\ Len(up) = Binary + 1 /\ up[1] = "deploy"
      /\ \A i \in 2..Len(up) : up[i] = "binary"
  BY <1>1 DEF Phases, DeployInv
<1>3. Calm
  BY <1>1, <1>2 DEF Calm, Asks
<1>4. Calm'
  BY <1>1, <1>3 DEF Calm
<1>5. CASE bridge' = "wait" /\ in' = Append(in, <<"size", raw>>)
  <2>1. Binaries(Binary)'
    <3>1. Len(up) \in Nat /\ Len(up') = Len(up) - 1 /\ \A i \in 1..Len(up) - 1 : up'[i] = up[i + 1]
      BY <1>1, Rest DEF Shapes
    <3>2. Len(up') = Binary
      BY <1>2, <3>1
    <3>3. ASSUME NEW i \in 1..Len(up') PROVE up'[i] = "binary"
      <4>1. Len(up) = Binary + 1
        BY <1>2
      <4>2. i \in 1..Len(up) - 1 /\ i + 1 \in 2..Len(up)
        BY <3>2, <4>1
      <4> QED BY <1>2, <3>1, <4>2
    <3> QED BY <3>2, <3>3 DEF Binaries
  <2>2. WaitInv'
    BY <1>1, <1>2, <1>4, <2>1 DEF WaitInv
  <2>3. in' = <<<<"size", raw>>>>
    BY <1>2, <1>5
  <2>4. Len(in') <= 1 /\ \A i \in 1..Len(in') : in'[i][1] = "size"
    BY <2>3
  <2>5. Stage'
    BY <1>1, <1>2, <2>4 DEF Stage, InInv, RawInv, UnsentInv
  <2> QED BY <1>5, <2>2, <2>5 DEF Phases, AuthInv, PasswordInv, DeployInv, TransferInv, CopyInv,
               DeadInv
<1>6. CASE bridge' = "cleanup" /\ in' = in
  <2>1. Over'
    BY <1>1, <1>3 DEF Calm, ClientInv, Over, Mute
  <2>2. Stage'
    BY <1>1, <1>6 DEF Stage, InInv, RawInv, UnsentInv
  <2> QED BY <1>6, <2>1, <2>2 DEF Phases, AuthInv, PasswordInv, DeployInv, WaitInv, TransferInv,
               CopyInv, DeadInv
<1> QED BY <1>1, <1>2, <1>5, <1>6, Rest DEF PassSize, Write, Shapes


LEMMA TransferPhases ==
    ASSUME PtyTypeInv, Shapes, Stage, Phases, Transfer
    PROVE  Phases' /\ Stage'
<1>1. /\ bridge = "transfer" /\ up # <<>> /\ up' = Tail(up)
      /\ in' = Append(in, <<Head(up), raw>>) /\ copied' = copied + 1
      /\ bridge' = IF copied + 1 = Binary THEN "auth" ELSE bridge
      /\ UNCHANGED <<remote, raw, sent, out, pending, down, client, asking, rpc>>
  BY DEF Transfer, Write
<1>2. /\ pending = <<>> /\ out = <<>> /\ sent = 0 /\ Calm /\ Binaries(Binary - copied)
      /\ (remote = "head" /\ Len(in) = copied) \/ remote = "exited"
  BY <1>1 DEF Phases, TransferInv
<1>3. copied \in Nat /\ copied < Binary
  BY <1>1 DEF PtyTypeInv, Counts
<1>4. Len(up) \in Nat \ {0} /\ Head(up) = up[1] /\ Len(up') = Len(up) - 1
      /\ up' \in Seq(Answers) /\ \A i \in 1..Len(up) - 1 : up'[i] = up[i + 1]
  BY <1>1, Rest DEF Shapes
<1>5. Head(up) = "binary" /\ Len(up') = Binary - copied' /\ Binaries(Binary - copied)'
  <2>1. Len(up) = Binary - copied /\ \A i \in 1..Len(up) : up[i] = "binary"
    BY <1>2 DEF Binaries
  <2>2. 1 \in 1..Len(up) /\ \A i \in 1..Len(up) - 1 : i + 1 \in 1..Len(up)
    BY <1>4
  <2>3. Len(up') = Binary - copied'
    BY <1>1, <1>3, <1>4, <2>1
  <2>4. \A i \in 1..Len(up') : up'[i] = "binary"
    BY <1>4, <2>1, <2>2
  <2> QED BY <1>4, <2>1, <2>2, <2>3, <2>4 DEF Binaries
<1>6. Calm'
  BY <1>1, <1>2 DEF Calm
<1>7. in \in Seq(Answers \X BOOLEAN) /\ <<Head(up), raw>> \in Answers \X BOOLEAN
      /\ Len(in) \in Nat
  BY <1>5 DEF Shapes, Answers, PtyTypeInv, Flags
<1>8. Len(in') = Len(in) + 1 /\ (\A i \in 1..Len(in) : in'[i] = in[i])
      /\ in'[Len(in) + 1] = <<"binary", raw>>
  BY <1>1, <1>5, <1>7, Added
<1>9. Stage'
  <2>1. CASE remote = "head"
    <3>1. Len(in) = copied /\ raw = TRUE /\ \A i \in 1..Len(in) : in[i] = <<"binary", TRUE>>
      BY <1>2, <2>1 DEF Stage, RawInv, InInv
    <3>2. Len(in') <= Binary
      BY <1>3, <1>8, <3>1
    <3>3. \A i \in 1..Len(in') : i \in 1..Len(in) \/ i = Len(in) + 1
      BY <1>7, <1>8
    <3>4. ASSUME NEW i \in 1..Len(in') PROVE in'[i] = <<"binary", TRUE>>
      <4>1. CASE i \in 1..Len(in)
        BY <1>8, <3>1, <4>1
      <4>2. CASE i = Len(in) + 1
        BY <1>8, <3>1, <4>2
      <4> QED BY <3>3, <4>1, <4>2
    <3> QED BY <1>1, <1>2, <2>1, <3>1, <3>2, <3>4 DEF Stage, InInv, RawInv, UnsentInv
  <2>2. CASE remote = "exited"
    BY <1>1, <2>2 DEF Stage, InInv, RawInv, UnsentInv
  <2> QED BY <1>2, <2>1, <2>2
<1>10. CASE copied + 1 = Binary
  <2>1. bridge' = "auth"
    BY <1>1, <1>10
  <2>2. Binary - copied' = 0
    BY <1>1, <1>3, <1>10
  <2>3. Len(up') = 0
    BY <1>5, <2>2
  <2>4. up' = <<>>
    BY <1>4, <2>3, Nothing
  <2>5. Flows(<<>>)' /\ Printed(<<>>)'
    BY <1>1, <1>2 DEF Flows, Printed
  <2>6. AuthInv'
    BY <1>6, <2>4, <2>5 DEF AuthInv, Texts
  <2> QED BY <1>9, <2>1, <2>6 DEF Phases, PasswordInv, DeployInv, WaitInv, TransferInv, CopyInv,
               DeadInv
<1>11. CASE copied + 1 # Binary
  <2>1. bridge' = "transfer"
    BY <1>1, <1>11
  <2>2. (remote' = "head" /\ Len(in') = copied') \/ remote' = "exited"
    BY <1>1, <1>2, <1>8
  <2>3. TransferInv'
    BY <1>1, <1>2, <1>5, <1>6, <2>1, <2>2 DEF TransferInv
  <2> QED BY <1>9, <2>1, <2>3 DEF Phases, AuthInv, PasswordInv, DeployInv, WaitInv, CopyInv,
               DeadInv
<1> QED BY <1>10, <1>11

LEMMA CopyUpPhases ==
    ASSUME PtyTypeInv, Shapes, Stage, Phases, CopyUp
    PROVE  Phases' /\ Stage'
<1>1. /\ bridge = "copy" /\ up # <<>> /\ up' = Tail(up) /\ in' = Append(in, <<Head(up), raw>>)
      /\ UNCHANGED <<remote, raw, sent, out, bridge, pending, copied, down, client, asking, rpc>>
  BY DEF CopyUp, Write
<1>2. remote \in {"serve", "exited"} /\ \A i \in 1..Len(up) : up[i] = "rpc"
  BY <1>1 DEF Phases, CopyInv
<1>3. Len(up) \in Nat \ {0} /\ Head(up) = up[1] /\ Len(up') = Len(up) - 1
      /\ \A i \in 1..Len(up) - 1 : up'[i] = up[i + 1]
  BY <1>1, Rest DEF Shapes
<1>4. Head(up) = "rpc" /\ \A i \in 1..Len(up') : up'[i] = "rpc"
  <2>1. 1 \in 1..Len(up) /\ \A i \in 1..Len(up) - 1 : i + 1 \in 1..Len(up)
    BY <1>3
  <2> QED BY <1>2, <1>3, <2>1
<1>5. in \in Seq(Answers \X BOOLEAN) /\ <<Head(up), raw>> \in Answers \X BOOLEAN
      /\ Len(in) \in Nat
  BY <1>4 DEF Shapes, Answers, PtyTypeInv, Flags
<1>6. Len(in') = Len(in) + 1 /\ (\A i \in 1..Len(in) : in'[i] = in[i])
      /\ in'[Len(in) + 1] = <<"rpc", raw>>
  BY <1>1, <1>4, <1>5, Added
<1>7. \A i \in 1..Len(in') : i \in 1..Len(in) \/ i = Len(in) + 1
  BY <1>5, <1>6
<1>8. remote = "serve" => \A i \in 1..Len(in') : in'[i][1] = "rpc"
  <2> SUFFICES ASSUME remote = "serve", NEW i \in 1..Len(in') PROVE in'[i][1] = "rpc"
    OBVIOUS
  <2>1. CASE i \in 1..Len(in)
    BY <1>6, <2>1 DEF Stage, InInv
  <2>2. CASE i = Len(in) + 1
    BY <1>6, <2>2
  <2> QED BY <1>7, <2>1, <2>2
<1>9. Stage'
  BY <1>1, <1>2, <1>8 DEF Stage, InInv, RawInv, UnsentInv
<1>10. CopyInv'
  BY <1>1, <1>4 DEF Phases, CopyInv, Told, Framed, Greeting, Mute, At
<1> QED BY <1>1, <1>9, <1>10 DEF Phases, AuthInv, PasswordInv, DeployInv, WaitInv, TransferInv,
             DeadInv

\* The frame that is passed on is the next one.
LEMMA CopyDownPhases ==
    ASSUME PtyTypeInv, Shapes, Stage, Phases, CopyDown
    PROVE  Phases' /\ Stage'
<1>1. /\ bridge = "copy" /\ Reads(1) /\ 1 \in 1..Len(out) /\ down' = Append(down, Head(out))
      /\ UNCHANGED <<remote, raw, sent, in, bridge, pending, copied, up, client, asking, rpc>>
  BY DEF CopyDown, Reads
<1>2. /\ remote \in {"serve", "exited"} /\ asking = "none"
      /\ \A i \in 1..Len(up) : up[i] = "rpc"
      /\ Len(out) <= sent /\ Framed(out, sent - Len(out))
  BY <1>1 DEF Phases, CopyInv
<1>3. \/ Told /\ Len(rpc) + Len(down) = sent - Len(out)
      \/ /\ client \in {"waiting", "deploying"} /\ rpc = <<>>
         /\ Greeting(down, sent - Len(out)) \/ Mute(down)
  BY <1>1 DEF Phases, CopyInv
<1> DEFINE k == sent - Len(out)
<1>4. Len(out) \in Nat \ {0} /\ sent \in Nat /\ Len(down) \in Nat /\ Len(rpc) \in Nat
  BY <1>1 DEF Shapes, PtyTypeInv, Counts
<1>5. Len(out') = Len(out) - 1 /\ \A i \in 1..Len(out) - 1 : out'[i] = out[1 + i]
  BY <1>1, ReadShape
<1>6. k \in Nat /\ sent' - Len(out') = k + 1 /\ Len(out') <= sent'
  BY <1>1, <1>2, <1>4, <1>5
<1>7. Head(out) = <<"frame", k + 1>> /\ Head(out) \in Piece
  <2>1. out # <<>> /\ out \in Seq(Piece)
    BY <1>4 DEF Shapes
  <2>2. Head(out) = out[1] /\ Head(out) \in Piece
    BY <2>1, Rest
  <2> QED BY <1>1, <1>2, <2>2 DEF Framed
<1> HIDE DEF k
<1>8. Framed(out', k + 1)
  <2> SUFFICES ASSUME NEW i \in 1..Len(out') PROVE out'[i] = <<"frame", k + 1 + i>>
    BY DEF Framed
  <2>1. i \in 1..Len(out) - 1 /\ 1 + i \in 1..Len(out) /\ k + (1 + i) = k + 1 + i
    <3>1. i \in 1..Len(out) - 1
      BY <1>5
    <3>2. 1 + i \in 1..Len(out) /\ i \in Nat
      BY <1>4, <3>1
    <3>3. k + (1 + i) = k + 1 + i
      BY <1>6, <3>2
    <3> QED BY <3>1, <3>2, <3>3
  <2>2. out[1 + i] = <<"frame", k + (1 + i)>>
    BY <1>2, <2>1 DEF Framed, k
  <2> QED BY <1>5, <2>1, <2>2
<1>9. Len(down') = Len(down) + 1 /\ (\A i \in 1..Len(down) : down'[i] = down[i])
      /\ down'[Len(down) + 1] = <<"frame", k + 1>>
  <2>1. down \in Seq(Piece)
    BY DEF Shapes
  <2> QED BY <1>1, <1>7, <2>1, Added
<1>10. \A i \in 1..Len(down') : i \in 1..Len(down) \/ i = Len(down) + 1
  BY <1>4, <1>9
<1>11. \/ Told' /\ Len(rpc') + Len(down') = k + 1
       \/ /\ client' \in {"waiting", "deploying"} /\ rpc' = <<>>
          /\ Greeting(down', k + 1) \/ Mute(down')
  <2>1. CASE Told /\ Len(rpc) + Len(down) = k
    <3>1. Len(rpc) + (Len(down) + 1) = k + 1
      BY <1>4, <1>6, <2>1
    <3>2. down'[Len(down) + 1] = <<"frame", Len(rpc) + (Len(down) + 1)>>
      BY <1>9, <3>1
    <3>3. \A i \in 1..Len(down') : down'[i] = <<"frame", Len(rpc) + i>>
      BY <1>9, <1>10, <2>1, <3>2 DEF Told, Framed
    <3>4. Told'
      BY <1>1, <2>1, <3>3 DEF Told, Framed
    <3> QED BY <1>1, <1>9, <3>1, <3>4
  <2>2. CASE client \in {"waiting", "deploying"} /\ rpc = <<>> /\ Greeting(down, k)
    <3>1. PICK m \in {"ready", "deploy_done"} : \E g \in Says(m) :
             Len(down) = Len(g) + k /\ \A i \in 1..Len(down) : down[i] = At(g, i)
      BY <2>2 DEF Greeting
    <3>2. PICK g \in Says(m) :
             Len(down) = Len(g) + k /\ \A i \in 1..Len(down) : down[i] = At(g, i)
      BY <3>1
    <3>3. g \in Texts
      BY DEF Texts
    <3>4. Len(g) \in Nat
      BY <3>3, LastPiece
    <3>5. Len(down') = Len(g) + (k + 1)
      BY <1>4, <1>6, <1>9, <3>2, <3>4
    <3>6. down'[Len(down) + 1] = At(g, Len(down) + 1)
      <4>1. ~(Len(down) + 1 <= Len(g)) /\ Len(down) + 1 - Len(g) = k + 1
        BY <1>4, <1>6, <3>2, <3>4
      <4> QED BY <1>9, <4>1 DEF At
    <3>7. \A i \in 1..Len(down') : down'[i] = At(g, i)
      BY <1>9, <1>10, <3>2, <3>6
    <3>8. Greeting(down', k + 1)
      BY <3>5, <3>7 DEF Greeting
    <3> QED BY <1>1, <2>2, <3>8
  <2>3. CASE client \in {"waiting", "deploying"} /\ rpc = <<>> /\ Mute(down)
    <3>1. \A i \in 1..Len(down') : down'[i][1] = "frame"
      BY <1>9, <1>10, <2>3 DEF Mute
    <3> QED BY <1>1, <2>3, <3>1 DEF Mute
  <2> QED BY <1>3, <2>1, <2>2, <2>3 DEF k
<1>12. CopyInv'
  <2>1. Framed(out, sent - Len(out))'
    BY <1>6, <1>8 DEF Framed
  <2>2. Greeting(down', k + 1) => Greeting(down, sent - Len(out))'
    BY <1>6 DEF Greeting
  <2>3. Mute(down') => Mute(down)'
    BY DEF Mute
  <2> QED BY <1>1, <1>2, <1>6, <1>11, <2>1, <2>2, <2>3 DEF CopyInv
<1>13. Stage'
  BY <1>1 DEF Stage, InInv, RawInv, UnsentInv
<1> QED BY <1>1, <1>12, <1>13 DEF Phases, AuthInv, PasswordInv, DeployInv, WaitInv, TransferInv,
             DeadInv

LEMMA BridgePhases ==
    ASSUME PtyTypeInv, Shapes, Stage, Phases, ClientInv, BridgeStep
    PROVE  Phases' /\ Stage'
<1>0. UNCHANGED <<client, asking, rpc>>
  BY DEF BridgeStep
<1>1. ASSUME NEW n \in 1..Len(out), ReadAuth(n) PROVE Phases' /\ Stage'
  <2>1. Stage'
    BY <1>1 DEF ReadAuth, Stage, InInv, RawInv, UnsentInv
  <2> QED BY <1>1, <2>1, ReadAuthPhases
<1>2. ASSUME NEW n \in 1..Len(out), WaitReady(n) PROVE Phases' /\ Stage'
  <2>1. Stage'
    BY <1>2 DEF WaitReady, Stage, InInv, RawInv, UnsentInv
  <2> QED BY <1>2, <2>1, WaitReadyPhases
<1>3. CASE PtyFails \/ Exit
  <2>1. bridge' \in {"cleanup", "exited"} /\ UNCHANGED <<remote, sent, down, raw, in>>
    BY <1>3 DEF PtyFails, Exit
  <2>2. Over'
    BY <1>0, <2>1, MayEnd DEF Over, Told, Framed, Mute, Greeting, At
  <2>3. Stage'
    BY <2>1 DEF Stage, InInv, RawInv, UnsentInv
  <2> QED BY <2>1, <2>2, <2>3 DEF Phases, AuthInv, PasswordInv, DeployInv, WaitInv, TransferInv,
               CopyInv, DeadInv
<1>4. CASE Tidy
  <2>1. UNCHANGED <<remote, raw, sent, out, in, bridge, pending, copied, up, down>>
    BY <1>4, TidyKeeps
  <2>2. Stage'
    BY <2>1 DEF Stage, InInv, RawInv, UnsentInv
  <2>3. AuthInv' /\ PasswordInv' /\ DeployInv'
    BY <1>0, <2>1 DEF Phases, AuthInv, PasswordInv, DeployInv, Calm, Asks, Printed, Flows
  <2>4. WaitInv' /\ TransferInv'
    BY <1>0, <2>1 DEF Phases, WaitInv, TransferInv, Calm, Binaries
  <2>5. CopyInv' /\ DeadInv'
    BY <1>0, <2>1 DEF Phases, CopyInv, DeadInv, Over, Told, Framed, Greeting, Mute, At
  <2> QED BY <2>2, <2>3, <2>4, <2>5 DEF Phases
<1> QED BY <1>1, <1>2, <1>3, <1>4, PassPasswordPhases, PassSizePhases, TransferPhases,
           CopyUpPhases, CopyDownPhases DEF BridgeStep, Work

LEMMA BridgeClient ==
    ASSUME PtyTypeInv, ClientInv, BridgeStep
    PROVE  ClientInv'
<1>1. UNCHANGED <<client, rpc>>
  BY DEF BridgeStep
<1>2. bridge \in {"exited", "killed"} => bridge' = bridge
  BY TidyKeeps DEF BridgeStep, Work, ReadAuth, WaitReady, PassPassword, PassSize, Transfer,
     CopyUp, CopyDown, PtyFails, Exit, Running
<1>3. bridge \in {"copy", "cleanup"} => bridge' \in {"copy", "cleanup", "exited"}
  BY TidyKeeps DEF BridgeStep, Work, ReadAuth, WaitReady, PassPassword, PassSize, Transfer,
     CopyUp, CopyDown, PtyFails, Exit, Running
<1> QED BY <1>1, <1>2, <1>3 DEF ClientInv


\* The state machine takes the greeting, or what is in front of it, in one line.
LEMMA LineGreeting ==
    ASSUME Shapes, Line, NEW k \in Nat, Greeting(down, k), rpc = <<>>
    PROVE  /\ asking' = asking /\ rpc' = <<>>
           /\ \/ Told' /\ Len(down') = k
              \/ client' = client /\ Mute(down)'
<1>1. PICK m \in {"ready", "deploy_done"} : \E g \in Says(m) :
         Len(down) = Len(g) + k /\ \A i \in 1..Len(down) : down[i] = At(g, i)
  BY DEF Greeting
<1>2. PICK g \in Says(m) :
         Len(down) = Len(g) + k /\ \A i \in 1..Len(down) : down[i] = At(g, i)
  BY <1>1
<1>3. /\ Len(down) \in Nat /\ down' \in Seq(Piece) /\ Len(down') = Len(down) - LineLength
      /\ \A i \in 1..Len(down) - LineLength : down'[i] = down[LineLength + i]
      /\ Head(down) = down[1]
  BY LineShape
<1>3a. LineLength \in 1..Len(down)
  BY LineShape
<1>4. asking = "none" /\ rpc' = <<>> /\ client \in {"waiting", "deploying"}
  BY DEF Line, InFilter
<1>5. LineLength = Len(g) /\ Head(down) = g[1]
      /\ g[1] \in {<<m, 1>>, <<"osc", 1>>} /\ (g[1] = <<"osc", 1>> <=> g # Pieces(m))
  <2>1. CASE g = Pieces(m)
    <3>1. Len(g) = 2 /\ g[1] = <<m, 1>>
      BY <2>1 DEF Pieces
    <3>2. Head(down) = <<m, 1>>
      BY <1>2, <1>3, <1>3a, <3>1 DEF At
    <3> QED BY <2>1, <3>1, <3>2 DEF LineLength
  <2>2. CASE g = <<<<"osc", 1>>, <<m, 1>>, <<m, 2>>>>
    <3>1. Len(g) = 3 /\ g[1] = <<"osc", 1>>
      BY <2>2
    <3>2. Head(down) = <<"osc", 1>>
      BY <1>2, <1>3, <1>3a, <3>1 DEF At
    <3>3. g # Pieces(m)
      <4>1. Len(Pieces(m)) = 2
        BY DEF Pieces
      <4> QED BY <3>1, <4>1
    <3>4. LineLength = 3
      BY <3>2 DEF LineLength
    <3>5. Head(down) = g[1] /\ Len(g) = 3
      BY <3>1, <3>2
    <3> QED BY <3>1, <3>3, <3>4, <3>5
  <2> QED BY <2>1, <2>2 DEF Says
<1>6. Len(g) \in {2, 3}
  BY DEF Says, Pieces
<1>7. Len(down') = k
  BY <1>2, <1>3, <1>5, <1>6
<1>8. \A i \in 1..Len(down') : down'[i] = <<"frame", i>>
  <2> SUFFICES ASSUME NEW i \in 1..Len(down') PROVE down'[i] = <<"frame", i>>
    OBVIOUS
  <2>1. i \in 1..Len(down) - Len(g) /\ Len(g) + i \in 1..Len(down) /\ ~(Len(g) + i <= Len(g))
        /\ Len(g) + i - Len(g) = i
    BY <1>2, <1>6, <1>7
  <2>2. down'[i] = At(g, Len(g) + i)
    BY <1>2, <1>3, <1>5, <2>1
  <2> QED BY <2>1, <2>2 DEF At
<1>9. CASE g = Pieces(m)
  <2>1. Head(down)[1] = m
    BY <1>5, <1>9 DEF Pieces
  <2>2. client' = "done" /\ asking' = asking
    BY <2>1 DEF Line, Complete, Understood
  <2>3. Told'
    BY <1>4, <1>8, <2>2 DEF Told, Framed
  <2> QED BY <1>4, <1>7, <2>2, <2>3
<1>10. CASE g # Pieces(m)
  <2>1. Head(down)[1] = "osc"
    BY <1>5, <1>10
  <2>2. client' = client /\ asking' = asking
    BY <2>1 DEF Line, Understood
  <2>3. Mute(down)'
    BY <1>8 DEF Mute
  <2> QED BY <1>4, <2>2, <2>3
<1> QED BY <1>9, <1>10

LEMMA LineMute ==
    ASSUME Shapes, Line, Mute(down)
    PROVE  UNCHANGED <<client, asking, rpc>> /\ Mute(down)'
<1>1. /\ Len(down) \in Nat /\ down' \in Seq(Piece) /\ Len(down') = Len(down) - LineLength
      /\ \A i \in 1..Len(down) - LineLength : down'[i] = down[LineLength + i]
      /\ Head(down) = down[1]
  BY LineShape
<1>2. LineLength \in 1..Len(down)
  BY LineShape
<1>3. Head(down)[1] = "frame"
  <2>1. 1 \in 1..Len(down)
    BY <1>1, <1>2
  <2> QED BY <1>1, <2>1 DEF Mute
<1>4. UNCHANGED <<client, asking, rpc>>
  BY <1>3 DEF Line, Understood
<1>5. \A i \in 1..Len(down') : down'[i][1] = "frame"
  <2> SUFFICES ASSUME NEW i \in 1..Len(down') PROVE down'[i][1] = "frame"
    OBVIOUS
  <2>1. i \in 1..Len(down) - LineLength /\ LineLength + i \in 1..Len(down)
    BY <1>1, <1>2
  <2> QED BY <1>1, <2>1 DEF Mute
<1> QED BY <1>4, <1>5 DEF Mute

\* A question is the one line there is.
LEMMA LineAsks ==
    ASSUME Shapes, Line, NEW what \in {"prompt", "not_found"}, down = <<<<what, 0>>>>
    PROVE  /\ down' = <<>> /\ UNCHANGED <<up, rpc>>
           /\ asking' \in {asking, what} /\ client' \in {"waiting", "deploying"}
<1>1. Head(down) = <<what, 0>> /\ Len(down) = 1
  OBVIOUS
<1>2. LineLength = 1
  BY <1>1 DEF LineLength
<1>3. down' \in Seq(Piece) /\ Len(down') = 0
  BY <1>1, <1>2, LineShape
<1>4. down' = <<>>
  BY <1>3, Nothing
<1> QED BY <1>1, <1>4 DEF Line, Understood

LEMMA LinePhases ==
    ASSUME PtyTypeInv, Shapes, Phases, ClientInv, Line
    PROVE  Phases' /\ ClientInv'
<1>1. UNCHANGED <<remote, raw, sent, out, in, pending, copied, up, rpc>> /\ down # <<>>
      /\ asking = "none" /\ client \in {"waiting", "deploying"} /\ bridge' = bridge
  BY DEF Line, InFilter, Complete
<1>2. bridge \notin {"auth", "wait", "transfer"} /\ rpc = <<>>
  BY <1>1 DEF Phases, AuthInv, WaitInv, TransferInv, Calm, ClientInv
<1>3. CASE bridge = "password"
  <2>1. Asks("prompt") /\ down = <<<<"prompt", 0>>>> /\ up = <<>>
    BY <1>1, <1>3 DEF Phases, PasswordInv, Asks
  <2>2. /\ down' = <<>> /\ asking' \in {asking, "prompt"} /\ client' \in {"waiting", "deploying"}
    BY <2>1, LineAsks
  <2>3. PasswordInv'
    BY <1>1, <1>3, <2>1, <2>2 DEF Phases, PasswordInv, Asks
  <2> QED BY <1>1, <1>2, <1>3, <2>2, <2>3 DEF Phases, AuthInv, DeployInv, WaitInv, TransferInv,
               CopyInv, DeadInv, ClientInv
<1>4. CASE bridge = "deploy"
  <2>1. Asks("not_found") /\ down = <<<<"not_found", 0>>>> /\ up = <<>>
    BY <1>1, <1>4 DEF Phases, DeployInv, Asks
  <2>2. /\ down' = <<>> /\ asking' \in {asking, "not_found"}
        /\ client' \in {"waiting", "deploying"}
    BY <2>1, LineAsks
  <2>3. DeployInv'
    BY <1>1, <1>4, <2>1, <2>2 DEF Phases, DeployInv, Asks
  <2> QED BY <1>1, <1>2, <1>4, <2>2, <2>3 DEF Phases, AuthInv, PasswordInv, WaitInv, TransferInv,
               CopyInv, DeadInv, ClientInv
<1>5. CASE bridge = "copy"
  <2>1. /\ Greeting(down, sent - Len(out)) \/ Mute(down)
        /\ Len(out) <= sent /\ Len(out) \in Nat /\ sent \in Nat
    BY <1>1, <1>5 DEF Phases, CopyInv, Told, Shapes, PtyTypeInv, Counts
  <2>2. sent - Len(out) \in Nat
    BY <2>1
  <2>3. /\ asking' = asking /\ rpc' = <<>>
        /\ (Told' /\ Len(down') = sent - Len(out)) \/ (client' = client /\ Mute(down)')
    <3>1. CASE Greeting(down, sent - Len(out))
      BY <1>2, <2>2, <3>1, LineGreeting
    <3>2. CASE Mute(down)
      BY <1>2, <3>2, LineMute
    <3> QED BY <2>1, <3>1, <3>2
  <2>4. \/ Told' /\ Len(rpc') + Len(down') = sent - Len(out)
        \/ client' \in {"waiting", "deploying"} /\ Mute(down)'
    <3>1. CASE Told' /\ Len(down') = sent - Len(out)
      <4>1. Len(rpc') = 0
        BY <2>3
      <4> QED BY <2>2, <3>1, <4>1
    <3> QED BY <1>1, <2>3, <3>1
  <2>5. CopyInv'
    BY <1>1, <1>5, <2>3, <2>4 DEF Phases, CopyInv, Framed
  <2>6. client' # "failed"
    BY <1>1, <2>3 DEF Told
  <2> QED BY <1>1, <1>5, <2>3, <2>5, <2>6 DEF Phases, AuthInv, PasswordInv, DeployInv, WaitInv,
               TransferInv, DeadInv, ClientInv
<1>6. CASE bridge \in {"cleanup", "exited", "killed"}
  <2>1. \/ down \in {<<<<"prompt", 0>>>>, <<<<"not_found", 0>>>>}
        \/ Mute(down)
        \/ \E k \in 0..sent : Greeting(down, k)
    BY <1>1, <1>6 DEF Phases, DeadInv, Over, Told
  <2>2. Over' /\ client' # "failed"
    <3>1. CASE down \in {<<<<"prompt", 0>>>>, <<<<"not_found", 0>>>>}
      <4>1. down' = <<>> /\ client' \in {"waiting", "deploying"}
        BY <3>1, LineAsks
      <4> QED BY <1>1, <1>2, <4>1 DEF Over, Mute
    <3>2. CASE Mute(down)
      <4>1. client' = client /\ Mute(down)'
        BY <3>2, LineMute
      <4> QED BY <1>1, <1>2, <4>1 DEF Over
    <3>3. ASSUME NEW k \in 0..sent, Greeting(down, k) PROVE Over' /\ client' # "failed"
      <4>1. k \in Nat
        BY DEF PtyTypeInv, Counts
      <4>2. Told' \/ (client' = client /\ Mute(down)')
        BY <1>2, <3>3, <4>1, LineGreeting
      <4> QED BY <1>1, <1>2, <4>2 DEF Over, Told
    <3> QED BY <2>1, <3>1, <3>2, <3>3
  <2> QED BY <1>1, <1>2, <1>6, <2>2 DEF Phases, AuthInv, PasswordInv, DeployInv, WaitInv,
               TransferInv, CopyInv, DeadInv, ClientInv
<1> QED BY <1>2, <1>3, <1>4, <1>5, <1>6 DEF PtyTypeInv, Stages

\* The end of a handshake that fails.
LEMMA FailPhases ==
    ASSUME PtyTypeInv, Shapes, Phases, ClientInv, client # "done", Fail, UNCHANGED <<sent, down, rpc>>
    PROVE  Phases' /\ ClientInv'
<1>1. client' = "failed" /\ bridge' \in {"exited", "killed"}
  BY DEF Fail, Running
<1>2. rpc = <<>>
  BY DEF ClientInv
<1>3. Over'
  BY <1>1, <1>2, MayEnd DEF Over, Told, Mute, Greeting, At
<1> QED BY <1>1, <1>2, <1>3 DEF Phases, AuthInv, PasswordInv, DeployInv, WaitInv, TransferInv,
           CopyInv, DeadInv, ClientInv

LEMMA AnswerPhases ==
    ASSUME PtyTypeInv, Shapes, Phases, ClientInv, DoneInv, Answer
    PROVE  Phases' /\ ClientInv'
<1>1. /\ UNCHANGED <<remote, raw, sent, out, in, pending, copied, down, rpc>>
      /\ asking # "none" /\ asking' = "none" /\ client # "done"
  BY DEF Answer, InFilter, DoneInv
<1>2. CASE Fail
  BY <1>1, <1>2, FailPhases
<1>3. ASSUME /\ up' = IF asking = "prompt" THEN Append(up, "password")
                      ELSE Append(up, "deploy") \o [i \in 1..Binary |-> "binary"]
             /\ UNCHANGED <<client, bridge>>
      PROVE  Phases' /\ ClientInv'
  <2>1. ClientInv'
    BY <1>1, <1>3 DEF ClientInv
  <2>2. bridge \notin {"auth", "wait", "transfer", "copy"}
    BY <1>1 DEF Phases, AuthInv, WaitInv, TransferInv, CopyInv, Calm
  <2>3. CASE bridge = "password"
    <3>1. Asks("prompt") /\ down = <<>> /\ asking = "prompt" /\ up = <<>>
      BY <1>1, <2>3 DEF Phases, PasswordInv, Asks
    <3>2. up' = <<"password">>
      BY <1>3, <3>1
    <3>3. PasswordInv'
      BY <1>1, <1>3, <2>3, <3>1, <3>2 DEF Phases, PasswordInv, Asks
    <3> QED BY <1>3, <2>1, <2>3, <3>3 DEF Phases, AuthInv, DeployInv, WaitInv, TransferInv,
                 CopyInv, DeadInv
  <2>4. CASE bridge = "deploy"
    <3>1. Asks("not_found") /\ down = <<>> /\ asking = "not_found" /\ up = <<>>
      BY <1>1, <2>4 DEF Phases, DeployInv, Asks
    <3> DEFINE d == <<"deploy">>
               b == [i \in 1..Binary |-> "binary"]
    <3>2. up' = d \o b
      BY <1>3, <3>1
    <3>3. d \in Seq(Answers) /\ Len(d) = 1 /\ d[1] = "deploy"
      BY DEF Answers
    <3>4. b \in Seq(Answers) /\ Len(b) = Binary /\ \A i \in 1..Binary : b[i] = "binary"
      BY DEF Answers
    <3> HIDE DEF d, b
    <3>5. Len(d \o b) = Len(d) + Len(b) /\ (d \o b)[1] = d[1]
      BY <3>3, <3>4, Glue
    <3>6. ASSUME NEW i \in 2..Len(d \o b) PROVE (d \o b)[i] = "binary"
      <4>1. i - 1 \in 1..Binary /\ i - 1 \in 1..Len(b) /\ Len(d) + (i - 1) = i
        BY <3>3, <3>4, <3>5
      <4>2. (d \o b)[Len(d) + (i - 1)] = b[i - 1]
        BY <3>3, <3>4, <4>1, Glue
      <4> QED BY <3>4, <4>1, <4>2
    <3>7. Len(up') = Binary + 1 /\ up'[1] = "deploy" /\ \A i \in 2..Len(up') : up'[i] = "binary"
      BY <3>2, <3>3, <3>4, <3>5, <3>6
    <3>8. DeployInv'
      BY <1>1, <1>3, <2>4, <3>1, <3>7 DEF Phases, DeployInv, Asks
    <3> QED BY <1>3, <2>1, <2>4, <3>8 DEF Phases, AuthInv, PasswordInv, WaitInv, TransferInv,
                 CopyInv, DeadInv
  <2>5. CASE bridge \in {"cleanup", "exited", "killed"}
    <3>1. Over'
      BY <1>1, <1>3, <2>5 DEF Phases, DeadInv, Over, Told, Framed, Mute, Greeting, At
    <3> QED BY <1>3, <2>1, <2>5, <3>1 DEF Phases, AuthInv, PasswordInv, DeployInv, WaitInv,
                 TransferInv, CopyInv, DeadInv
  <2> QED BY <2>2, <2>3, <2>4, <2>5 DEF PtyTypeInv, Stages
<1> QED BY <1>2, <1>3 DEF Answer


LEMMA EmacsPhases ==
    ASSUME PtyTypeInv, Shapes, Stage, Phases, ClientInv, DoneInv, Emacs
    PROVE  Phases' /\ ClientInv' /\ Stage'
<1>0. Stage'
  <2>1. UNCHANGED <<remote, raw, sent, in>>
    BY DEF Emacs, Line, Answer, Decline, Timeout, SendRpc, ReceiveRpc
  <2> QED BY <2>1 DEF Stage, InInv, RawInv, UnsentInv
<1>1. CASE Decline \/ Timeout
  <2>1. client # "done" /\ Fail /\ UNCHANGED <<sent, down, rpc>>
    BY <1>1 DEF Decline, Timeout, InFilter, DoneInv
  <2> QED BY <1>0, <2>1, FailPhases
<1>2. CASE SendRpc
  <2>1. /\ client = "done" /\ up' = Append(up, "rpc")
        /\ UNCHANGED <<remote, raw, sent, out, in, bridge, pending, copied, down, client, asking, rpc>>
    BY <1>2 DEF SendRpc
  <2>2. bridge \in {"copy", "cleanup", "exited", "killed"}
    BY <2>1 DEF ClientInv
  <2>3. bridge = "copy" => \A i \in 1..Len(up') : up'[i] = "rpc"
    <3> SUFFICES ASSUME bridge = "copy", NEW i \in 1..Len(up') PROVE up'[i] = "rpc"
      OBVIOUS
    <3>1. \A j \in 1..Len(up) : up[j] = "rpc"
      BY DEF Phases, CopyInv
    <3>2. /\ up' \in Seq(Answers) /\ Len(up') = Len(up) + 1
          /\ \A j \in 1..Len(up) : up'[j] = up[j]
          /\ up'[Len(up) + 1] = "rpc"
      <4>1. up \in Seq(Answers) /\ "rpc" \in Answers
        BY DEF Shapes, Answers
      <4> QED BY <2>1, <4>1, Added
    <3>3. Len(up) \in Nat
      BY DEF Shapes
    <3>4. i \in 1..Len(up) \/ i = Len(up) + 1
      BY <3>2, <3>3
    <3> QED BY <3>1, <3>2, <3>4
  <2>4. CopyInv'
    BY <2>1, <2>3 DEF Phases, CopyInv, Told, Framed, Greeting, Mute, At
  <2>5. DeadInv'
    BY <2>1 DEF Phases, DeadInv, Over, Told, Framed, Greeting, Mute, At
  <2>6. ClientInv'
    BY <2>1 DEF ClientInv
  <2> QED BY <1>0, <2>1, <2>2, <2>4, <2>5, <2>6 DEF Phases, AuthInv, PasswordInv, DeployInv, WaitInv,
               TransferInv
<1>3. CASE ReceiveRpc
  <2>1. /\ client = "done" /\ down # <<>> /\ down' = Tail(down) /\ rpc' = Append(rpc, Head(down))
        /\ UNCHANGED <<remote, raw, sent, out, in, bridge, pending, copied, up, client, asking>>
    BY <1>3 DEF ReceiveRpc
  <2>2. bridge \in {"copy", "cleanup", "exited", "killed"}
    BY <2>1 DEF ClientInv
  <2>3. Told
    BY <2>1, <2>2 DEF Phases, CopyInv, DeadInv, Over
  <2>4. /\ Len(down) \in Nat \ {0} /\ Len(down') = Len(down) - 1 /\ Head(down) = down[1]
        /\ Head(down) \in Piece
        /\ \A i \in 1..Len(down) - 1 : down'[i] = down[i + 1]
    BY <2>1, Rest DEF Shapes
  <2>5. /\ Len(rpc) \in Nat /\ Len(rpc') = Len(rpc) + 1
        /\ \A i \in 1..Len(rpc) : rpc'[i] = rpc[i]
        /\ rpc'[Len(rpc) + 1] = Head(down)
    <3>1. rpc \in Seq(Piece)
      BY DEF Shapes
    <3> QED BY <2>1, <2>4, <3>1, Added, Nothing
  <2>6. Head(down) = <<"frame", Len(rpc) + 1>>
    <3>1. 1 \in 1..Len(down)
      BY <2>4
    <3> QED BY <2>3, <2>4, <3>1 DEF Told, Framed
  <2>7. \A i \in 1..Len(rpc') : rpc'[i] = <<"frame", 0 + i>>
    <3> SUFFICES ASSUME NEW i \in 1..Len(rpc') PROVE rpc'[i] = <<"frame", 0 + i>>
      OBVIOUS
    <3>1. CASE i \in 1..Len(rpc)
      BY <2>3, <2>5, <3>1 DEF Told, Framed
    <3>2. CASE i = Len(rpc) + 1
      <4>1. 0 + i = Len(rpc) + 1
        BY <2>5, <3>2
      <4> QED BY <2>5, <2>6, <3>2, <4>1
    <3>3. i \in 1..Len(rpc) \/ i = Len(rpc) + 1
      BY <2>5
    <3> QED BY <3>1, <3>2, <3>3
  <2>8. \A i \in 1..Len(down') : down'[i] = <<"frame", Len(rpc') + i>>
    <3> SUFFICES ASSUME NEW i \in 1..Len(down') PROVE down'[i] = <<"frame", Len(rpc') + i>>
      OBVIOUS
    <3>1. i \in 1..Len(down) - 1 /\ i + 1 \in 1..Len(down) /\ Len(rpc) + (i + 1) = Len(rpc') + i
      BY <2>4, <2>5
    <3>2. down[i + 1] = <<"frame", Len(rpc) + (i + 1)>>
      BY <2>3, <3>1 DEF Told, Framed
    <3> QED BY <2>4, <3>1, <3>2
  <2>9. Told'
    BY <2>1, <2>7, <2>8 DEF Told, Framed
  <2>10. Len(rpc') + Len(down') = Len(rpc) + Len(down)
    BY <2>4, <2>5
  <2>11. CopyInv'
    BY <2>1, <2>9, <2>10 DEF Phases, CopyInv, Framed
  <2>12. DeadInv'
    BY <2>9 DEF DeadInv, Over
  <2>13. ClientInv'
    BY <2>1 DEF ClientInv
  <2> QED BY <1>0, <2>1, <2>2, <2>11, <2>12, <2>13 DEF Phases, AuthInv, PasswordInv, DeployInv,
               WaitInv, TransferInv
<1> QED BY <1>0, <1>1, <1>2, <1>3, LinePhases, AnswerPhases DEF Emacs

PtyInv == PtyTypeInv /\ DoneInv /\ Shapes /\ Stage /\ Phases /\ ClientInv

LEMMA PtyInvariant == PtySpec => []PtyInv
<1>1. PtyInit => PtyInv
  <2> SUFFICES ASSUME PtyInit PROVE PtyInv
    OBVIOUS
  <2> USE DEF PtyInit
  <2>1. PtyTypeInv
    <3>1. Flags
      BY Zenon DEF Flags
    <3> QED BY <3>1 DEF PtyTypeInv, Cleaned, Counts, Stages
  <2>2. DoneInv /\ Shapes /\ ClientInv
    BY DEF DoneInv, Shapes, ClientInv
  <2>3. Stage
    BY DEF Stage, InInv, RawInv, UnsentInv
  <2>4. Printed(<<>>) /\ Flows(<<>>) /\ Calm
    BY DEF Printed, Flows, Calm
  <2>5. Phases
    BY <2>4 DEF Phases, AuthInv, PasswordInv, DeployInv, WaitInv, TransferInv, CopyInv, DeadInv, Texts
  <2> QED BY <2>1, <2>2, <2>3, <2>5 DEF PtyInv
<1>2. PtyInv /\ [PtyNext]_ptyVars => PtyInv'
  <2> SUFFICES ASSUME PtyInv, [PtyNext]_ptyVars PROVE PtyInv'
    OBVIOUS
  <2>0. PtyTypeInv /\ DoneInv /\ Shapes /\ Stage /\ Phases /\ ClientInv
    BY DEF PtyInv
  <2>1. DoneInv'
    BY <2>0, DoneStep
  <2>2. CASE RemoteStep
    <3>1. PtyTypeInv' /\ Shapes' /\ Stage' /\ Phases'
      BY <2>0, <2>2, RemoteType, RemoteShapes, RemoteStage, RemotePhases
    <3>2. ClientInv'
      BY <2>0, <2>2 DEF RemoteStep, ClientInv
    <3> QED BY <2>1, <3>1, <3>2 DEF PtyInv
  <2>3. CASE BridgeStep
    <3>1. PtyTypeInv' /\ Shapes' /\ Stage' /\ Phases' /\ ClientInv'
      BY <2>0, <2>3, BridgeType, BridgeShapes, BridgePhases, BridgeClient
    <3> QED BY <2>1, <3>1 DEF PtyInv
  <2>4. CASE Emacs
    <3>1. PtyTypeInv' /\ Shapes' /\ Stage' /\ Phases' /\ ClientInv'
      BY <2>0, <2>4, EmacsType, EmacsShapes, EmacsPhases
    <3> QED BY <2>1, <3>1 DEF PtyInv
  <2>5. CASE UNCHANGED ptyVars
    <3>0. Flags'
      BY <2>0, <2>5 DEF PtyTypeInv, Flags
    <3>0a. Cleaned' /\ Counts' /\ Stages'
      BY <2>0, <2>5 DEF PtyTypeInv, Cleaned, Counts, Stages
    <3>0b. Shapes' /\ Stage' /\ ClientInv'
      BY <2>0, <2>5 DEF Shapes, Stage, InInv, RawInv, UnsentInv, ClientInv
    <3>1. PtyTypeInv' /\ Shapes' /\ Stage' /\ ClientInv'
      BY <3>0, <3>0a, <3>0b DEF PtyTypeInv
    <3>2. AuthInv' /\ PasswordInv' /\ DeployInv'
      BY <2>0, <2>5 DEF Phases, AuthInv, PasswordInv, DeployInv, Calm, Asks, Printed, Flows
    <3>3. WaitInv' /\ TransferInv'
      BY <2>0, <2>5 DEF Phases, WaitInv, TransferInv, Calm, Binaries
    <3>4. CopyInv' /\ DeadInv'
      BY <2>0, <2>5 DEF Phases, CopyInv, DeadInv, Over, Told, Framed, Greeting, Mute, At
    <3> QED BY <2>1, <3>1, <3>2, <3>3, <3>4 DEF PtyInv, Phases
  <2> QED BY <2>2, <2>3, <2>4, <2>5, Separate
<1> QED BY <1>1, <1>2, PTL DEF PtySpec

\* What the bridge writes to the PTY is read by what it was written for: ssh
\* reads a password, the script the size and then, from a raw terminal, the
\* binary, the server frames (handlePasswordPrompt, handleDeploy, runBridge).
THEOREM RightReaders == PtySpec => []RightReader
<1>1. PtyInv => RightReader
  <2> SUFFICES ASSUME PtyInv, remote # "exited", NEW i \in 1..Len(in)
               PROVE  /\ in[i][1] = "password" => remote = "asked" /\ i = 1
                      /\ in[i][1] = "size"     => remote = "size" /\ i = 1
                      /\ in[i][1] = "binary"   => remote = "head" /\ in[i][2] /\ i <= Binary
                      /\ in[i][1] = "rpc"      => remote = "serve"
    BY DEF RightReader
  <2>1. InInv /\ Len(in) \in Nat /\ Stages
    BY DEF PtyInv, Stage, Shapes, PtyTypeInv
  <2>2. CASE remote \in {"auth", "raw", "exec"}
    BY <2>1, <2>2 DEF InInv
  <2>3. CASE remote = "asked"
    BY <2>1, <2>3 DEF InInv
  <2>4. CASE remote = "size"
    BY <2>1, <2>4 DEF InInv
  <2>5. CASE remote = "head"
    <3>1. in[i] = <<"binary", TRUE>> /\ Len(in) <= Binary
      BY <2>1, <2>5 DEF InInv
    <3>2. i <= Binary
      BY <2>1, <3>1
    <3>3. in[i][1] = "binary" /\ in[i][2] = TRUE
      BY <3>1
    <3> QED BY <2>5, <3>2, <3>3
  <2>6. CASE remote = "serve"
    BY <2>1, <2>6 DEF InInv
  <2> QED BY <2>1, <2>2, <2>3, <2>4, <2>5, <2>6 DEF Stages
<1> QED BY <1>1, PtyInvariant, PTL

\* flitrpc is given the frames of the server and nothing of the handshake:
\* however the reads of the PTY and the lines of the pipe are cut
\* (handleAuthAndWaitForReady, flit--sm-filter, flit--sm-complete).
THEOREM FramesOrdered == PtySpec => []FramesInOrder
<1>1. PtyInv => FramesInOrder
  <2> SUFFICES ASSUME PtyInv, NEW i \in 1..Len(rpc) PROVE rpc[i] = <<"frame", i>>
    BY DEF FramesInOrder
  <2>1. client = "done"
    BY DEF PtyInv, ClientInv
  <2>2. bridge \in {"copy", "cleanup", "exited", "killed"}
    BY <2>1 DEF PtyInv, ClientInv
  <2>3. Told
    BY <2>1, <2>2 DEF PtyInv, Phases, CopyInv, DeadInv, Over
  <2>4. rpc[i] = <<"frame", 0 + i>>
    BY <2>3 DEF Told, Framed
  <2> QED BY <2>4
<1> QED BY <1>1, PtyInvariant, PTL
=============================================================================
