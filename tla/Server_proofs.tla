--------------------------- MODULE Server_proofs ----------------------------
(***************************************************************************)
(* For any number of connections, handlers and calls of Shutdown: a closed *)
(* session holds nothing, and the server panics for three reasons only.    *)
(***************************************************************************)
EXTENDS Server, TLAPS

USE ServerAssumption DEF connVars, pipe

\* The actions by what they concern: one connection, or the server.
OfConn(c) ==
    \/ Dial(c) \/ HangUp(c) \/ OnDone(c)
    \/ Accept(c) \/ Register(c) \/ Serve(c) \/ ServeEnds(c)
    \/ SessionClose(c)
    \/ LookUp(c) \/ Send(c) \/ CleanUp(c) \/ Delete(c)
    \/ \E r \in Requests : Request(c, r) \/ Handle(c, r)

OfServer ==
    \/ Signal \/ IdleTick \/ IdleLook \/ IdleDone \/ IdleConns
    \/ \E s \in Stoppers : StopDone(s) \/ StopConns(s)
    \/ Exit \/ AcceptFails \/ StdioEnds

LEMMA NextSteps ==
    ASSUME [Next]_vars
    PROVE  \/ proc = "run" /\ ((\E c \in Conns : OfConn(c)) \/ OfServer)
           \/ UNCHANGED vars
BY DEF Next, Environment, Arrive, Leave, HandleAny, TunnelData, TunnelEnds,
   Shutdown, OfConn, OfServer
-----------------------------------------------------------------------------
(* Type correctness.                                                       *)

Sessions ==
    /\ net \in [Conns -> {"none", "dialed", "open", "shut"}]
    /\ sess \in [Conns -> Stages]
    /\ table \subseteq {c \in Conns : sess[c] \in {"new", "serving"}}
    /\ straggler \subseteq Conns

Pipe == inline \subseteq Conns /\ chan \subseteq Conns

Work ==
    /\ held \in [Conns -> SUBSET Kinds]
    /\ handlers \in [Conns -> SUBSET Requests]

Callers ==
    /\ mode \in Modes /\ proc \in {"run", "exited", "crashed"}
    /\ idle \in {"wait", "expired", "decided", "closing", "over"}
    /\ stop \in [Stoppers -> {"none", "sleep", "closing", "over"}]

Flags == listener \in BOOLEAN /\ done \in BOOLEAN

TypeInv == Sessions /\ Work /\ Pipe /\ Callers /\ Flags

LEMMA FlagsKept == ASSUME Flags, UNCHANGED <<listener, done>> PROVE Flags'
BY DEF Flags

LEMMA ConnType ==
    ASSUME TypeInv, NEW c \in Conns, OfConn(c)
    PROVE  TypeInv'
<1> USE DEF TypeInv
<1>1. CASE Dial(c) \/ HangUp(c) \/ OnDone(c) \/ Accept(c) \/ Register(c) \/ Serve(c)
  <2> USE DEF Dial, HangUp, OnDone, Accept, Register, Serve
  <2>1. UNCHANGED <<listener, done, held, handlers, mode, idle, stop, straggler, pipe>>
    BY <1>1
  <2>2. proc' \in {proc, "exited"}
    BY <1>1
  <2>3. Sessions'
    BY <1>1 DEF Sessions, Stages
  <2>4. Flags'
    BY <2>1, FlagsKept
  <2> QED BY <2>1, <2>2, <2>3, <2>4 DEF Work, Pipe, Callers
<1>2. CASE ServeEnds(c)
  <2>1. UNCHANGED <<listener, done, held, handlers, mode, proc, idle, stop, pipe>>
    BY <1>2 DEF ServeEnds
  <2>2. Sessions'
    BY <1>2 DEF ServeEnds, Sessions, Stages
  <2> QED BY <2>1, <2>2, FlagsKept DEF Work, Pipe, Callers
<1>3. CASE SessionClose(c)
  <2>1. UNCHANGED <<listener, done, net, table, handlers, mode, proc, idle, stop, straggler, pipe>>
    BY <1>3 DEF SessionClose, CloseStep
  <2>2. PICK to \in Stages, kinds \in SUBSET Kinds :
           /\ sess[c] \notin {"new", "serving"}
           /\ sess' = [sess EXCEPT ![c] = to]
           /\ held' = [held EXCEPT ![c] = @ \ kinds]
    BY <1>3 DEF SessionClose, CloseStep, Stages, Kinds
  <2>3. Sessions'
    BY <2>1, <2>2 DEF Sessions
  <2>4. Work'
    BY <2>1, <2>2 DEF Work
  <2> QED BY <2>1, <2>3, <2>4, FlagsKept DEF Pipe, Callers
<1>4. ASSUME NEW r \in Requests, Request(c, r) PROVE TypeInv'
  <2>1. UNCHANGED <<listener, done, net, sess, table, held, mode, proc, idle, stop, straggler, pipe>>
    BY <1>4 DEF Request
  <2>2. Work'
    BY <1>4, <2>1 DEF Request, Work
  <2> QED BY <2>1, <2>2, FlagsKept DEF Sessions, Pipe, Callers
<1>5. ASSUME NEW r \in Requests, Handle(c, r) PROVE TypeInv'
  <2>1. UNCHANGED <<listener, done, net, sess, table, mode, idle, straggler, pipe>>
    BY <1>5 DEF Handle
  <2>2. Gain(c, r) \subseteq Kinds /\ HandleProc(c, r) \subseteq {proc, "crashed"}
    BY DEF Gain, HandleProc
  <2>3. Work'
    BY <1>5, <2>2 DEF Handle, Work
  <2>4. Callers'
    BY <1>5, <2>1, <2>2 DEF Handle, Callers, Stoppers
  <2> QED BY <2>1, <2>3, <2>4, FlagsKept DEF Sessions, Pipe
<1>6. CASE LookUp(c) \/ Send(c) \/ CleanUp(c) \/ Delete(c)
  <2> USE DEF LookUp, Send, CleanUp, Delete
  <2>1. UNCHANGED <<listener, done, net, sess, table, handlers, mode, idle, stop, straggler>>
    BY <1>6
  <2>2. /\ proc' \in {proc, "crashed"}
        /\ held' = held \/ held' = [held EXCEPT ![c] = @ \ {"tunnel"}]
    BY <1>6
  <2>3. Pipe'
    BY <1>6 DEF Pipe
  <2>4. Work'
    BY <2>1, <2>2 DEF Work
  <2> QED BY <2>1, <2>2, <2>3, <2>4, FlagsKept DEF Sessions, Callers
<1> QED BY <1>1, <1>2, <1>3, <1>4, <1>5, <1>6 DEF OfConn

LEMMA ServerType ==
    ASSUME TypeInv, OfServer
    PROVE  TypeInv'
<1> USE DEF TypeInv
<1>1. CASE \/ Signal \/ IdleTick \/ IdleLook \/ IdleDone \/ Exit \/ AcceptFails
           \/ StdioEnds \/ \E s \in Stoppers : StopDone(s)
  <2> USE DEF Signal, IdleTick, IdleLook, IdleDone, Exit, AcceptFails, StdioEnds,
          StopDone, CloseDone
  <2>1. UNCHANGED <<net, sess, table, straggler, held, handlers, mode, pipe>>
    BY <1>1
  <2>2. Callers'
    BY <1>1, <2>1 DEF Callers, Stoppers
  <2>3. Flags'
    BY <1>1, Zenon DEF Flags
  <2> QED BY <2>1, <2>2, <2>3 DEF Sessions, Work, Pipe
<1>2. CASE IdleConns \/ \E s \in Stoppers : StopConns(s)
  <2> USE DEF IdleConns, StopConns, CloseConns
  <2>1. UNCHANGED <<listener, done, sess, table, straggler, held, handlers, mode, proc, pipe>>
    BY <1>2
  <2>2. Sessions'
    BY <1>2, <2>1 DEF Sessions
  <2>3. Callers'
    BY <1>2, <2>1 DEF Callers
  <2> QED BY <2>1, <2>2, <2>3, FlagsKept DEF Work, Pipe
<1> QED BY <1>1, <1>2 DEF OfServer

LEMMA InitType == Init => TypeInv
<1> SUFFICES ASSUME Init PROVE TypeInv
  OBVIOUS
<1>1. Flags
  BY Zenon DEF Init, Flags
<1>2. Sessions
  BY DEF Init, Sessions, Stages
<1>3. Work /\ Pipe /\ Callers
  BY DEF Init, Work, Pipe, Callers
<1> QED BY <1>1, <1>2, <1>3 DEF TypeInv

LEMMA TypeStep == TypeInv /\ [Next]_vars => TypeInv'
<1>1. ASSUME TypeInv, UNCHANGED vars PROVE TypeInv'
  <2>1. Flags'
    BY <1>1, FlagsKept DEF vars, TypeInv
  <2> QED BY <1>1, <2>1 DEF vars, TypeInv, Sessions, Work, Pipe, Callers
<1> QED BY <1>1, NextSteps, ConnType, ServerType

\* The server's state stays well typed, and Server.connections holds only
\* connections whose session is being made or served.
THEOREM TypeCorrect == Spec => []TypeOK
<1>1. TypeInv => TypeOK
  BY DEF TypeInv, Sessions, Work, Pipe, Callers, Flags, TypeOK
<1> QED BY <1>1, InitType, TypeStep, PTL DEF Spec
-----------------------------------------------------------------------------
(* What a session holds.                                                   *)

\* Unless a handler outlived the connection: none is left when Session.Close
\* begins, no path is watched once it has unwatched all, nothing else is held
\* once it is over.
Released ==
    \A c \in Conns \ straggler :
        /\ sess[c] \in {"ending", "unwatched", "nowatcher", "closed"} => handlers[c] = {}
        /\ sess[c] \in {"unwatched", "nowatcher", "closed"} => "watch" \notin held[c]
        /\ sess[c] = "closed" => held[c] = {}

LEMMA ReleasedConn ==
    ASSUME TypeInv, Released, NEW c \in Conns, OfConn(c)
    PROVE  Released'
<1> USE DEF TypeInv
<1>1. CASE Dial(c) \/ HangUp(c) \/ OnDone(c) \/ Register(c)
  BY <1>1 DEF Dial, HangUp, OnDone, Register, Released
<1>2. CASE Accept(c) \/ Serve(c)
  <2>1. /\ UNCHANGED <<held, handlers, straggler>>
        /\ sess'[c] \in {"new", "serving"}
        /\ \A d \in Conns \ {c} : sess'[d] = sess[d]
    BY <1>2 DEF Accept, Serve, Sessions
  <2> QED BY <2>1 DEF Released
<1>3. CASE ServeEnds(c)
  <2>1. /\ UNCHANGED <<held, handlers>> /\ straggler \subseteq straggler'
        /\ sess'[c] = "ending" /\ (c \in straggler' \/ handlers[c] = {})
        /\ \A d \in Conns \ {c} : sess'[d] = sess[d]
    BY <1>3 DEF ServeEnds, Sessions
  <2> QED BY <2>1 DEF Released
<1>4. CASE SessionClose(c)
  <2>1. /\ UNCHANGED <<handlers, straggler>>
        /\ \A d \in Conns \ {c} : sess'[d] = sess[d] /\ held'[d] = held[d]
    BY <1>4 DEF SessionClose, CloseStep, Sessions, Work
  <2>2. /\ sess[c] \in {"ending", "unwatched", "nowatcher"}
        /\ sess'[c] \in {"unwatched", "nowatcher"} => held'[c] = held[c] \ {"watch"}
        /\ sess'[c] = "closed" =>
              sess[c] = "nowatcher" /\ held'[c] = held[c] \ {"eden", "proc", "tunnel"}
        /\ sess'[c] \in {"unwatched", "nowatcher", "closed"}
    BY <1>4 DEF SessionClose, CloseStep, Sessions, Work
  <2>3. held[c] \subseteq Kinds
    BY DEF Work
  <2> QED BY <2>1, <2>2, <2>3 DEF Released, Kinds
<1>5. ASSUME NEW r \in Requests, Request(c, r) PROVE Released'
  <2>1. /\ UNCHANGED <<sess, held, straggler>> /\ sess[c] = "serving"
        /\ \A d \in Conns \ {c} : handlers'[d] = handlers[d]
    BY <1>5 DEF Request, Work
  <2> QED BY <2>1 DEF Released
<1>6. ASSUME NEW r \in Requests, Handle(c, r) PROVE Released'
  <2>1. /\ UNCHANGED <<sess, straggler>> /\ handlers[c] # {}
        /\ handlers'[c] \subseteq handlers[c]
        /\ \A d \in Conns \ {c} : handlers'[d] = handlers[d] /\ held'[d] = held[d]
    BY <1>6 DEF Handle, Work
  <2>2. c \in straggler \/ sess[c] \notin {"ending", "unwatched", "nowatcher", "closed"}
    BY <2>1 DEF Released
  <2> QED BY <2>1, <2>2 DEF Released
<1>7. CASE LookUp(c) \/ Send(c) \/ CleanUp(c) \/ Delete(c)
  <2>1. /\ UNCHANGED <<sess, straggler, handlers>>
        /\ \A d \in Conns : held'[d] \subseteq held[d]
    BY <1>7 DEF LookUp, Send, CleanUp, Delete, Work
  <2> QED BY <2>1 DEF Released
<1> QED BY <1>1, <1>2, <1>3, <1>4, <1>5, <1>6, <1>7 DEF OfConn

LEMMA ReleasedStep == TypeInv /\ Released /\ [Next]_vars => Released'
<1>1. ASSUME Released, OfServer PROVE Released'
  BY <1>1 DEF OfServer, Signal, IdleTick, IdleLook, IdleDone, IdleConns, StopDone,
     StopConns, Exit, AcceptFails, StdioEnds, Released
<1>2. ASSUME Released, UNCHANGED vars PROVE Released'
  BY <1>2 DEF vars, Released
<1> QED BY <1>1, <1>2, NextSteps, ReleasedConn

LEMMA InitReleased == Init => Released
BY DEF Init, Released

\* Session.Close leaves nothing behind: what it does not find was not there,
\* unless a handler still runs and adds to the session afterwards.
THEOREM NothingLeft == Spec => []ClosedHoldsNothing
<1>1. Released => ClosedHoldsNothing
  BY DEF Released, ClosedHoldsNothing
<1> QED BY <1>1, InitType, TypeStep, InitReleased, ReleasedStep, PTL DEF Spec
-----------------------------------------------------------------------------
(* Panics.                                                                 *)

\* Somebody is past close(done) in Shutdown.
Called == \/ idle \in {"closing", "over"}
          \/ \E s \in Stoppers : stop[s] \in {"closing", "over"}

\* Serve reads no further frame, nor its end, while it handles tunnel data.
InlineServed ==
    /\ \A c \in inline : sess[c] = "serving"
    /\ \A c \in Conns : net[c] \in {"none", "dialed"} => sess[c] = "none"

CrashInv == (done => Called) /\ InlineServed /\ CrashCauses

LEMMA CalledStays ==
    ASSUME TypeInv, Called, (\E c \in Conns : OfConn(c)) \/ OfServer
    PROVE  Called'
<1>1. idle \in {"closing", "over"} => idle' \in {"closing", "over"}
  BY DEF OfConn, OfServer, Dial, HangUp, OnDone, Accept, Register, Serve, ServeEnds,
     SessionClose, CloseStep, LookUp, Send, CleanUp, Delete, Request, Handle, Signal,
     IdleTick, IdleLook, IdleDone, IdleConns, StopDone, StopConns, Exit, AcceptFails, StdioEnds
<1>2. ASSUME NEW s \in Stoppers, stop[s] \in {"closing", "over"}
      PROVE  stop'[s] \in {"closing", "over"}
  BY <1>2 DEF TypeInv, Callers, OfConn, OfServer, Dial, HangUp, OnDone, Accept,
     Register, Serve, ServeEnds, SessionClose, CloseStep, LookUp, Send, CleanUp, Delete,
     Request, Handle, Signal, IdleTick, IdleLook, IdleDone, IdleConns, StopDone, StopConns, Exit, AcceptFails,
     StdioEnds
<1> QED BY <1>1, <1>2 DEF Called

LEMMA InlineStep ==
    ASSUME TypeInv, InlineServed, NEW c \in Conns, OfConn(c)
    PROVE  InlineServed'
<1>1. CASE \/ Register(c) \/ CleanUp(c) \/ Delete(c)
           \/ \E r \in Requests : Request(c, r) \/ Handle(c, r)
  BY <1>1 DEF Register, CleanUp, Delete, Request, Handle, InlineServed
<1>2. CASE Dial(c) \/ HangUp(c) \/ OnDone(c)
  <2>1. /\ UNCHANGED <<inline, sess>>
        /\ net[c] = "none" \/ net'[c] = net[c] \/ net'[c] = "shut"
        /\ \A d \in Conns \ {c} : net'[d] = net[d]
    BY <1>2 DEF Dial, HangUp, OnDone, TypeInv, Sessions
  <2> QED BY <2>1 DEF InlineServed
<1>3. CASE LookUp(c) \/ Send(c)
  BY <1>3 DEF LookUp, Send, InlineServed
<1>4. CASE Accept(c)
  <2>1. /\ UNCHANGED inline /\ net[c] = "dialed" /\ net'[c] = "open"
        /\ \A d \in Conns \ {c} : sess'[d] = sess[d] /\ net'[d] = net[d]
    BY <1>4 DEF Accept, TypeInv, Sessions
  <2>2. c \notin inline
    BY <2>1 DEF InlineServed
  <2> QED BY <2>1, <2>2 DEF InlineServed, TypeInv, Pipe
<1>5. CASE Serve(c) \/ ServeEnds(c) \/ SessionClose(c)
  <2>1. /\ UNCHANGED <<inline, net>> /\ sess[c] # "none"
        /\ \A d \in Conns \ {c} : sess'[d] = sess[d]
    BY <1>5 DEF Serve, ServeEnds, SessionClose, CloseStep, TypeInv, Sessions
  <2>2. c \notin inline
    BY <1>5 DEF Serve, ServeEnds, SessionClose, CloseStep, InlineServed
  <2> QED BY <2>1, <2>2 DEF InlineServed, TypeInv, Pipe
<1> QED BY <1>1, <1>2, <1>3, <1>4, <1>5 DEF OfConn

LEMMA CrashStep == TypeInv /\ Released /\ CrashInv /\ [Next]_vars => CrashInv'
<1> SUFFICES ASSUME TypeInv, Released, CrashInv, [Next]_vars PROVE CrashInv'
  OBVIOUS
<1>1. ASSUME NEW c \in Conns, OfConn(c), proc = "run" PROVE CrashInv'
  <2>1. UNCHANGED done
    BY <1>1 DEF OfConn, Dial, HangUp, OnDone, Accept, Register, Serve, ServeEnds,
       SessionClose, CloseStep, LookUp, Send, CleanUp, Delete, Request, Handle
  <2>2. done' => Called'
    BY <1>1, <2>1, CalledStays DEF CrashInv
  <2>3. InlineServed'
    BY <1>1, InlineStep DEF CrashInv
  <2>4. ASSUME proc' = "crashed" PROVE straggler' # {} \/ SendsToCleanedUp'
    <3>1. CASE Send(c)
      <4>1. c \in inline \cap chan /\ UNCHANGED <<sess, inline, chan>>
        BY <1>1, <2>4, <3>1 DEF Send
      <4> QED BY <4>1 DEF CrashInv, InlineServed, SendsToCleanedUp
    <3>2. ASSUME NEW r \in Requests, Handle(c, r) PROVE straggler' # {}
      <4>1. r \in handlers[c] /\ sess[c] \in Late /\ UNCHANGED straggler
        BY <1>1, <2>4, <3>2 DEF Handle, HandleProc
      <4> QED BY <4>1 DEF Released, Late
    <3> QED BY <1>1, <2>4, <3>1, <3>2 DEF OfConn, Dial, HangUp, OnDone, Accept, Register,
           Serve, ServeEnds, SessionClose, CloseStep, LookUp, CleanUp, Delete, Request
  <2> QED BY <2>2, <2>3, <2>4 DEF CrashInv, CrashCauses
<1>2. ASSUME IdleDone, proc = "run" PROVE CrashInv'
  <2>1. idle' = "closing" /\ UNCHANGED stop
    BY <1>2 DEF IdleDone
  <2>2. ASSUME proc' = "crashed"
        PROVE  \E s \in Stoppers : stop[s] \in {"closing", "over"}
    <3>1. done
      BY <1>2, <2>2, Zenon DEF IdleDone, CloseDone
    <3> QED BY <1>2, <3>1 DEF CrashInv, Called, IdleDone
  <2>3. InlineServed'
    BY <1>2 DEF IdleDone, CrashInv, InlineServed
  <2> QED BY <2>1, <2>2, <2>3 DEF CrashInv, Called, CrashCauses, StoppedTwice
<1>3. ASSUME NEW s \in Stoppers, StopDone(s), proc = "run" PROVE CrashInv'
  <2>1. /\ stop[s] = "sleep" /\ stop'[s] = "closing" /\ UNCHANGED idle
        /\ \A t \in Stoppers \ {s} : stop'[t] = stop[t]
    BY <1>3 DEF StopDone, TypeInv, Callers
  <2>2. ASSUME proc' = "crashed"
        PROVE  \/ idle \in {"closing", "over"}
               \/ \E t \in Stoppers \ {s} : stop[t] \in {"closing", "over"}
    <3>1. done
      BY <1>3, <2>2, Zenon DEF StopDone, CloseDone
    <3>2. Called
      BY <3>1 DEF CrashInv
    <3> QED BY <2>1, <3>2 DEF Called
  <2>3. InlineServed'
    BY <1>3 DEF StopDone, CrashInv, InlineServed
  <2> QED BY <2>1, <2>2, <2>3 DEF CrashInv, Called, CrashCauses, StoppedTwice
<1>4. ASSUME OfServer, proc = "run", ~IdleDone, \A s \in Stoppers : ~StopDone(s)
      PROVE  CrashInv'
  <2>1. UNCHANGED done /\ proc' # "crashed"
    BY <1>4 DEF OfServer, Signal, IdleTick, IdleLook, IdleConns, StopConns, Exit,
       AcceptFails, StdioEnds
  <2>2. UNCHANGED <<inline, sess>> /\ \A c \in Conns : net'[c] \in {net[c], "shut"}
    BY <1>4 DEF OfServer, Signal, IdleTick, IdleLook, IdleConns, StopConns, CloseConns,
       Exit, AcceptFails, StdioEnds
  <2> QED BY <1>4, <2>1, <2>2, CalledStays DEF CrashInv, InlineServed, CrashCauses
<1>5. CASE UNCHANGED vars
  BY <1>5 DEF vars, CrashInv, InlineServed, Called, CrashCauses, StoppedTwice,
     SendsToCleanedUp
<1> QED BY <1>1, <1>2, <1>3, <1>4, <1>5, NextSteps

\* The server panics only when done is closed twice, when a watch request that
\* outlived its session meets the watch map that Session.Close has dropped, or
\* when tunnel data is sent to a connection that has cleaned up: never for the
\* closing of the session itself, since Serve has returned by then.
THEOREM OnlyTheseCrashes == Spec => []CrashCauses
<1>1. Init => CrashInv
  BY DEF Init, CrashInv, InlineServed, Called, CrashCauses
<1>2. CrashInv => CrashCauses
  BY DEF CrashInv
<1> QED BY <1>1, <1>2, InitType, TypeStep, InitReleased, ReleasedStep, CrashStep,
           PTL DEF Spec
=============================================================================
