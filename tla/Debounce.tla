------------------------------ MODULE Debounce ------------------------------
(***************************************************************************)
(* triggerDebouncedNotification of server/fs/watcher.go, for one path (no  *)
(* state is shared between paths): a burst of notifications is sent at     *)
(* once, later ones are delayed by a timer.                                *)
(*                                                                         *)
(* The processes are the run goroutine (Trigger, Send), the goroutines of  *)
(* expired timers (CallbackNotify, CallbackReset), the RPC handlers that   *)
(* end the watch (Forget) and the clock.  Times are kept as what remains, *)
(* so the model is finite without a bound on the clock or on the events.   *)
(***************************************************************************)
EXTENDS Integers, FiniteSets

CONSTANTS
    burstLimit,         \* notifications sent at once per window
    burstWindow,        \* length of a window, in ticks
    debounceInterval,   \* delay of a debounced notification, in ticks
    Timers,             \* identities of the time.Timer objects alive at once
    NoTimer             \* nil

ASSUME DebounceAssumption ==
    /\ burstLimit \in Nat \ {0}
    /\ burstWindow \in Nat \ {0}
    /\ debounceInterval \in Nat \ {0}
    /\ Timers # {} /\ NoTimer \notin Timers

NoState == [present |-> FALSE, count |-> 0, left |-> -1, timer |-> NoTimer]
NewWindow == [present |-> TRUE, count |-> 0, left |-> burstWindow, timer |-> NoTimer]
Off == -1               \* a timer that is not scheduled
None == -1              \* no change is owed

VARIABLES
    state,      \* debounceStates[path]; left: ticks until windowEnd, -1 after it
    clock,      \* clock[t]: ticks until t expires, or Off
    sending,    \* the run goroutine is about to call notify
    notifying,  \* callback goroutines about to call notify
    resetting,  \* callback goroutines about to take the lock
    age         \* history: ticks since the oldest change not notified, or None

debounceVars == <<state, clock, sending, notifying, resetting, age>>

MaxAge == burstWindow + debounceInterval + 1

States == [present : BOOLEAN, count : 0..burstLimit, left : -1..burstWindow,
           timer : Timers \cup {NoTimer}]
Clocks == [Timers -> Off..debounceInterval]

\* Type correctness of the debounce state and the timers; in particular the
\* burst count never passes the limit.
DebounceTypeOK ==
    /\ state \in States
    /\ clock \in Clocks
    /\ sending \in BOOLEAN
    /\ notifying \in Nat /\ resetting \in Nat
    /\ age \in None..MaxAge

-----------------------------------------------------------------------------
Owed == age # None
Scheduled(t) == clock[t] # Off
Expired == state.left < 0

\* Mutant: a state whose timer is pending is not replaced when its window ends.
Current_KeepTimer == IF Expired /\ state.timer = NoTimer THEN NewWindow ELSE state

\* The state the trigger works on: a new one if there is none or it has expired.
\* The timer of an expired state keeps running.
Current == IF Expired THEN NewWindow ELSE state

\* time.AfterFunc: an object nobody refers to and that is not running.
Fresh(t) == ~Scheduled(t) /\ t # state.timer

Owe == age' = IF Owed THEN age ELSE 0

\* Mutant: only a timer that has not expired yet is postponed.
TriggerPostpone_IfRunning ==
    /\ ~sending
    /\ Current.timer # NoTimer
    /\ clock' = IF Scheduled(Current.timer)
                 THEN [clock EXCEPT ![Current.timer] = debounceInterval] ELSE clock
    /\ Owe
    /\ UNCHANGED <<state, sending, notifying, resetting>>

\* A timer is pending: postpone it.  Reset also restarts one that has expired.
TriggerPostpone ==
    /\ ~sending
    /\ Current.timer # NoTimer
    /\ clock' = [clock EXCEPT ![Current.timer] = debounceInterval]
    /\ Owe
    /\ UNCHANGED <<state, sending, notifying, resetting>>

\* Within the burst: send at once, with the lock released.
TriggerBurst ==
    /\ ~sending
    /\ Current.timer = NoTimer /\ Current.count < burstLimit
    /\ state' = [Current EXCEPT !.count = @ + 1]
    /\ sending' = TRUE
    /\ Owe
    /\ UNCHANGED <<clock, notifying, resetting>>

\* Burst exhausted: start a timer.
TriggerDebounce ==
    /\ ~sending
    /\ Current.timer = NoTimer /\ Current.count >= burstLimit
    /\ \E t \in Timers :
        /\ Fresh(t)
        /\ state' = [Current EXCEPT !.timer = t]
        /\ clock' = [clock EXCEPT ![t] = debounceInterval]
    /\ Owe
    /\ UNCHANGED <<sending, notifying, resetting>>

\* w.notify: reads the file and reports it.
Send ==
    /\ sending
    /\ sending' = FALSE
    /\ age' = None
    /\ UNCHANGED <<state, clock, notifying, resetting>>

\* A timer expires and its function starts in a goroutine.
Fire(t) ==
    /\ clock[t] = 0
    /\ clock' = [clock EXCEPT ![t] = Off]
    /\ notifying' = notifying + 1
    /\ UNCHANGED <<state, sending, resetting, age>>

CallbackNotify ==
    /\ notifying > 0
    /\ notifying' = notifying - 1
    /\ resetting' = resetting + 1
    /\ age' = None
    /\ UNCHANGED <<state, clock, sending>>

\* The callback then resets whatever state the path has by now.
CallbackReset ==
    /\ resetting > 0
    /\ resetting' = resetting - 1
    /\ state' = IF state.present THEN NewWindow ELSE state
    /\ UNCHANGED <<clock, sending, notifying, age>>

\* Watcher.Unwatch, popPendingForChild, watchParentForPending and Close: stop
\* the timer the state refers to and forget the state.
Forget ==
    /\ clock' = IF state.timer = NoTimer THEN clock
                ELSE [clock EXCEPT ![state.timer] = Off]
    /\ state' = NoState
    /\ age' = None
    /\ UNCHANGED <<sending, notifying, resetting>>

\* A tick passes.  An expired timer fires, and the goroutines run, at once.
Tick ==
    /\ ~sending /\ notifying = 0 /\ resetting = 0
    /\ \A t \in Timers : clock[t] # 0
    /\ clock' = [t \in Timers |-> IF Scheduled(t) THEN clock[t] - 1 ELSE Off]
    /\ state' = [state EXCEPT !.left = IF @ >= 0 THEN @ - 1 ELSE @]
    /\ age' = IF Owed /\ age < MaxAge THEN age + 1 ELSE age
    /\ UNCHANGED <<sending, notifying, resetting>>

-----------------------------------------------------------------------------
DebounceInit ==
    /\ state = NoState
    /\ clock = [t \in Timers |-> Off]
    /\ sending = FALSE /\ notifying = 0 /\ resetting = 0
    /\ age = None

Trigger == TriggerPostpone \/ TriggerBurst \/ TriggerDebounce

DebounceNext ==
    \/ Trigger \/ Send \/ CallbackNotify \/ CallbackReset \/ Forget \/ Tick
    \/ \E t \in Timers : Fire(t)

\* Goroutines run and time passes; changes and unwatches come as they like.
Fairness ==
    /\ WF_debounceVars(Send) /\ WF_debounceVars(CallbackNotify) /\ WF_debounceVars(CallbackReset)
    /\ WF_debounceVars(Tick) /\ \A t \in Timers : WF_debounceVars(Fire(t))

DebounceSpec == DebounceInit /\ [][DebounceNext]_debounceVars /\ Fairness

-----------------------------------------------------------------------------
(* Properties.                                                             *)

\* A change that was not notified yet is on its way: the run goroutine or a
\* callback is about to notify, or a timer is running, the state's own or one
\* whose state was replaced.
OwedIsScheduled ==
    Owed => sending \/ notifying > 0 \/ \E t \in Timers : Scheduled(t)

\* However many changes keep postponing the timer, none waits longer than one
\* window and one interval: an expired window gives a new burst allowance even
\* while the old timer runs.
BoundedDelay == age <= burstWindow + debounceInterval

\* The debouncer keeps the promise of Notifier: no change is lost, and what is
\* owed is paid although further changes keep coming.
Promise == INSTANCE Notifier WITH owed <- Owed
KeepsPromise == Promise!Spec

=============================================================================
