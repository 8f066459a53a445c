--------------------------- MODULE Tunnel_proofs ----------------------------
(***************************************************************************)
(* For any set of connections and any capacity of writeCh: Emacs hears of  *)
(* a connection before it hears from it, the table of connections keeps no *)
(* dead entry, and one tunnel/disconnect at most is sent for a connection. *)
(***************************************************************************)
EXTENDS Tunnel, FiniteSetTheorems, TLAPS

USE TunnelAssumption DEF NoConn, Alive, serverRest, loops, connVars, wires, clientVars

LEMMA NextSteps ==
    ASSUME [Next]_vars
    PROVE  \/ OpenTunnel \/ HandleListening \/ CloseTunnel \/ HandleClosed \/ CloseAll
           \/ Dispatch \/ SendLookup \/ SendQueue \/ Listen \/ Close
           \/ Reply("listening") \/ Reply("closed")
           \/ \E c \in Conns :
                \/ LocalAccept(c) \/ EmacsReads(c) \/ LocalSends(c) \/ LocalCloses(c)
                \/ HandlerStep(c) \/ Accept(c) \/ AcceptStep(c) \/ LoopStep(c) \/ WriteOk(c)
                \/ PeerSends(c) \/ PeerCloses(c)
           \/ UNCHANGED vars
BY DEF Next, Inline
-----------------------------------------------------------------------------
(* Frames and sequences of frames.                                         *)

LEMMA FrameFields == \A k, c : Frame(k, c).kind = k /\ Frame(k, c).conn = c
BY DEF Frame

LEMMA FrameType ==
    /\ \A k \in Requests \cup Replies \cup Notices, c \in Conns \cup {NoConn} :
          Frame(k, c) \in Frames
    /\ \A k \in Requests \cup {"shut", "listening", "closed"}, c \in Conns \cup {NoConn} :
          Frame(k, c) \in Tasks
    /\ \A f \in Frames : f.kind \in Requests => f \in Tasks
    /\ \A f \in Frames : f.conn \in Conns \cup {NoConn}
BY DEF Frame, Frames, Tasks

LEMMA Added ==
    ASSUME NEW S, NEW s \in Seq(S), NEW x \in S
    PROVE  /\ Append(s, x) \in Seq(S)
           /\ Len(s) \in Nat /\ Len(Append(s, x)) = Len(s) + 1
           /\ \A i \in 1..Len(s) : Append(s, x)[i] = s[i]
           /\ Append(s, x)[Len(s) + 1] = x
OBVIOUS

LEMMA Rest ==
    ASSUME NEW S, NEW s \in Seq(S), s # <<>>
    PROVE  /\ Tail(s) \in Seq(S) /\ Head(s) \in S /\ Head(s) = s[1]
           /\ Len(s) \in Nat /\ Len(s) > 0 /\ Len(Tail(s)) = Len(s) - 1
           /\ \A i \in 1..Len(Tail(s)) : Tail(s)[i] = s[i + 1]
OBVIOUS

LEMMA Joined ==
    ASSUME NEW S, NEW s \in Seq(S), NEW t \in Seq(S)
    PROVE  /\ s \o t \in Seq(S)
           /\ Len(s) \in Nat /\ Len(t) \in Nat /\ Len(s \o t) = Len(s) + Len(t)
           /\ \A i \in 1..Len(s) : (s \o t)[i] = s[i]
           /\ \A i \in 1..Len(t) : (s \o t)[Len(s) + i] = t[i]
OBVIOUS

\* The disconnects of flit-tunnel-close are a sequence of frames.
LEMMA DisconnectsType ==
    ASSUME NEW cs \in SUBSET Conns, IsFiniteSet(cs)
    PROVE  /\ Disconnects(cs) \in Seq(Frames)
           /\ \A i \in 1..Len(Disconnects(cs)) : Disconnects(cs)[i].kind = "disconnect"
<1> DEFINE n == Cardinality(cs)
           D == {Frame("disconnect", c) : c \in cs}
           All(s) == \A c \in cs : \E i \in DOMAIN s : s[i] = Frame("disconnect", c)
<1>1. n \in Nat /\ ExistsBijection(1..n, cs)
  BY FS_CardinalityType
<1>2. PICK f \in [1..n -> cs] : \A c \in cs : \E i \in 1..n : f[i] = c
  BY <1>1 DEF ExistsBijection, Bijection, Surjection
<1> HIDE DEF n
<1>3. [i \in 1..n |-> Frame("disconnect", f[i])] \in [1..n -> D]
  BY <1>2
<1>4. All([i \in 1..n |-> Frame("disconnect", f[i])])
  BY <1>2
<1>5. \E s \in [1..n -> D] : All(s)
  BY <1>3, <1>4
<1> HIDE DEF All
<1>6. (CHOOSE s \in [1..n -> D] : All(s)) \in [1..n -> D]
  BY <1>5
<1>7. Disconnects(cs) \in [1..n -> D]
  BY <1>6 DEF Disconnects, n, All
<1>8. D \subseteq Frames
  BY FrameType DEF Requests
<1>9. Disconnects(cs) \in [1..n -> Frames]
  <2> HIDE DEF D
  <2>. QED BY <1>7, <1>8
<1>10. Disconnects(cs) \in Seq(Frames) /\ Len(Disconnects(cs)) = n
  BY <1>1, <1>9
<1>11. \A d \in D : d.kind = "disconnect"
  BY FrameFields
<1>. QED BY <1>7, <1>10, <1>11

-----------------------------------------------------------------------------
(* Type correctness, but for the bound on told.                            *)

EmacsTypes ==
    /\ dir \in {"reverse", "forward"}
    /\ tunnel \in {"none", "asked", "open", "closing", "closed"}
    /\ local \in [Conns -> {"none", "connecting", "open", "closed"}]
    /\ introduced \subseteq Conns
    /\ chunks \in 0..MaxData
WireTypes == toServer \in Seq(Frames) /\ toClient \in Seq(Frames)
TaskTypes ==
    /\ handlers \subseteq Tasks
    /\ inline \in Conns \cup {NoConn}
Flags == crashed \in BOOLEAN /\ ended \in BOOLEAN
SetupTypes ==
    /\ listener \in {"none", "open", "closed"}
    /\ setup \in [Conns -> {"none", "accepted", "stored", "dialed", "running", "failed"}]
    /\ conns \subseteq Conns
    /\ sock \in [Conns -> {"none", "open", "eof", "closed"}]
Closings == closed \in [Conns -> BOOLEAN] /\ chan \in [Conns -> BOOLEAN]
Amounts ==
    /\ queue \in [Conns -> 0..ChanCap]
    /\ inbox \in [Conns -> Nat]
LoopTypes == reader \in [Conns -> Loop] /\ writer \in [Conns -> Loop]

\* The sockets of Emacs that flit-tunnel-close would close are finitely many.
Finite == IsFiniteSet({c \in Conns : local[c] \in {"open", "connecting"}})

Types ==
    /\ EmacsTypes /\ WireTypes /\ TaskTypes /\ Flags
    /\ SetupTypes /\ Closings /\ Amounts /\ LoopTypes

LEMMA InitTypes == Init => Types /\ Finite
<1> SUFFICES ASSUME Init PROVE Types /\ Finite
  OBVIOUS
<1>1. EmacsTypes /\ WireTypes /\ TaskTypes
  BY DEF Init, EmacsTypes, WireTypes, TaskTypes
<1>5. Flags
  BY Zenon DEF Init, Flags
<1>2. SetupTypes /\ Closings /\ Amounts /\ LoopTypes
  BY DEF Init, SetupTypes, Closings, Amounts, LoopTypes, Loop
<1>3. {c \in Conns : local[c] \in {"open", "connecting"}} = {}
  BY DEF Init
<1>4. Finite
  BY <1>3, FS_EmptySet DEF Finite
<1>. QED BY <1>1, <1>2, <1>4, <1>5 DEF Types

\* What Emacs does with one connection, what it does with the whole tunnel,
\* and what the server does.
EmacsStep(c) == LocalAccept(c) \/ EmacsReads(c) \/ LocalSends(c) \/ LocalCloses(c)
EmacsTunnel == OpenTunnel \/ HandleListening \/ CloseTunnel \/ HandleClosed
InlineStep == Dispatch \/ SendLookup \/ SendQueue
TunnelStep == Listen \/ Close \/ Reply("listening") \/ Reply("closed")
ConnStep(c) == HandlerStep(c) \/ Accept(c) \/ AcceptStep(c)
PeerStep(c) == PeerSends(c) \/ PeerCloses(c)

LEMMA Steps ==
    ASSUME [Next]_vars
    PROVE  \/ EmacsTunnel \/ InlineStep \/ TunnelStep \/ CloseAll \/ UNCHANGED vars
           \/ \E c \in Conns : \/ EmacsStep(c) \/ ConnStep(c) \/ LoopStep(c) \/ WriteOk(c)
                               \/ PeerStep(c)
BY NextSteps DEF EmacsStep, EmacsTunnel, InlineStep, TunnelStep, ConnStep, PeerStep

\* The server does not touch what Emacs keeps, and Emacs leaves the server alone.
LEMMA EmacsAlone ==
    /\ EmacsTunnel => UNCHANGED serverOnly
    /\ \A c \in Conns : EmacsStep(c) => UNCHANGED serverOnly
<1>1. EmacsTunnel => UNCHANGED serverOnly
  BY DEF EmacsTunnel, OpenTunnel, HandleListening, CloseTunnel, HandleClosed
<1>2. ASSUME NEW c \in Conns PROVE EmacsStep(c) => UNCHANGED serverOnly
  BY DEF EmacsStep, LocalAccept, EmacsReads, HandleConnected, HandleFailed, HandleAccept,
         HandleData, HandleDisconnect, LocalSends, LocalCloses
<1>. QED BY <1>1, <1>2

LEMMA ServerAlone ==
    /\ InlineStep \/ TunnelStep => UNCHANGED <<clientVars, chunks>>
    /\ \A c \in Conns : ConnStep(c) \/ LoopStep(c) \/ WriteOk(c) => UNCHANGED <<clientVars, chunks>>
<1>1. InlineStep \/ TunnelStep => UNCHANGED <<clientVars, chunks>>
  BY DEF InlineStep, Dispatch, SendLookup, SendQueue, TunnelStep, Listen, Close, Reply
<1>2. ASSUME NEW c \in Conns PROVE ConnStep(c) => UNCHANGED <<clientVars, chunks>>
  BY DEF ConnStep, HandlerStep, Dial, ConnectStore, ConnectReply, Disconnect, Shut, Accept,
         AcceptStep, AcceptStore, AcceptNotify
<1>3. ASSUME NEW c \in Conns PROVE LoopStep(c) \/ WriteOk(c) => UNCHANGED <<clientVars, chunks>>
  BY DEF LoopStep, WriteOk, Read, ReadNotify, ReadError, WriteTake, WriteError, WriteEnd,
         CleanupSwap, CleanupClose, CleanupDelete, CleanupNotify
<1>. QED BY <1>1, <1>2, <1>3

LEMMA EmacsTypesKept == ASSUME EmacsTypes, UNCHANGED <<clientVars, chunks>> PROVE EmacsTypes'
BY DEF EmacsTypes

LEMMA EmacsTypesStep == ASSUME Types, [Next]_vars PROVE EmacsTypes'
<1> USE DEF Types
<1>1. CASE UNCHANGED <<clientVars, chunks>>
  BY <1>1, EmacsTypesKept
<1>2. CASE OpenTunnel \/ HandleListening \/ CloseTunnel \/ HandleClosed
  BY <1>2 DEF OpenTunnel, HandleListening, CloseTunnel, HandleClosed, EmacsTypes
<1>3. CASE CloseAll
  BY <1>3 DEF CloseAll, EmacsTypes
<1>4. ASSUME NEW c \in Conns, EmacsStep(c) PROVE EmacsTypes'
  <2>1. CASE LocalAccept(c) \/ LocalSends(c) \/ LocalCloses(c)
    BY <2>1 DEF LocalAccept, LocalSends, LocalCloses, EmacsTypes
  <2>2. CASE HandleConnected(c) \/ HandleFailed(c) \/ HandleAccept(c)
    BY <2>2 DEF HandleConnected, HandleFailed, HandleAccept, EmacsTypes
  <2>3. CASE HandleData(c) \/ HandleDisconnect(c)
    BY <2>3 DEF HandleData, HandleDisconnect, EmacsTypes
  <2>. QED BY <1>4, <2>1, <2>2, <2>3 DEF EmacsStep, EmacsReads
<1>5. ASSUME NEW c \in Conns, PeerStep(c) PROVE EmacsTypes'
  BY <1>5 DEF PeerStep, PeerSends, PeerCloses, EmacsTypes
<1>6. UNCHANGED vars => UNCHANGED <<clientVars, chunks>>
  BY DEF vars
<1>. QED BY <1>1, <1>2, <1>3, <1>4, <1>5, <1>6, Steps, ServerAlone DEF EmacsTunnel

LEMMA FiniteStep == ASSUME Types, Finite, [Next]_vars PROVE Finite'
<1> DEFINE L == {c \in Conns : local[c] \in {"open", "connecting"}}
<1>1. ASSUME NEW c \in Conns, L' \subseteq L \cup {c} PROVE Finite'
  BY <1>1, FS_AddElement, FS_Subset DEF Finite
<1>2. ASSUME L' \subseteq L PROVE Finite'
  BY <1>2, FS_Subset DEF Finite
<1>3. CASE UNCHANGED local
  BY <1>2, <1>3
<1>4. CASE EmacsTunnel \/ CloseAll
  <2>1. L' \subseteq L
    BY <1>4 DEF EmacsTunnel, OpenTunnel, HandleListening, CloseTunnel, HandleClosed, CloseAll
  <2>. QED BY <1>2, <2>1
<1>5. ASSUME NEW c \in Conns, EmacsStep(c) PROVE Finite'
  <2>1. UNCHANGED local \/ \E v : local' = [local EXCEPT ![c] = v]
    BY <1>5 DEF EmacsStep, EmacsReads, LocalAccept, LocalSends, LocalCloses, HandleConnected,
                HandleFailed, HandleAccept, HandleData, HandleDisconnect
  <2>2. local \in [Conns -> {"none", "connecting", "open", "closed"}]
    BY DEF Types, EmacsTypes
  <2>3. L' \subseteq L \cup {c}
    BY <2>1, <2>2
  <2>. QED BY <1>1, <2>3
<1>6. ASSUME NEW c \in Conns, PeerStep(c) PROVE UNCHANGED local
  BY <1>6 DEF PeerStep, PeerSends, PeerCloses
<1>7. UNCHANGED vars => UNCHANGED local
  BY DEF vars
<1>. QED BY <1>3, <1>4, <1>5, <1>6, <1>7, Steps, ServerAlone

LEMMA FlagsStep == ASSUME Types, [Next]_vars PROVE Flags'
<1> USE DEF Types, Flags
<1>1. CASE UNCHANGED <<crashed, ended>>
  BY Zenon, <1>1
<1>2. CASE SendQueue
  <2>1. ended' \in BOOLEAN
    BY Zenon, <1>2 DEF SendQueue
  <2>2. inline \in Conns
    BY <1>2 DEF SendQueue, TaskTypes
  <2>3. chan[inline] \in BOOLEAN
    BY Zenon, <2>2 DEF Closings
  <2>4. crashed' = chan[inline]
    BY <1>2 DEF SendQueue
  <2>. QED BY Zenon, <2>1, <2>3, <2>4
<1>3. CASE CloseAll
  BY Zenon, <1>3 DEF CloseAll
<1>4. CASE Dispatch \/ SendLookup \/ TunnelStep
  BY <1>4, <1>1 DEF Dispatch, SendLookup, TunnelStep, Listen, Close, Reply
<1>5. ASSUME NEW c \in Conns, ConnStep(c) PROVE UNCHANGED <<crashed, ended>>
  BY <1>5 DEF ConnStep, HandlerStep, Dial, ConnectStore, ConnectReply, Disconnect, Shut, Accept,
         AcceptStep, AcceptStore, AcceptNotify
<1>6. ASSUME NEW c \in Conns, LoopStep(c) \/ WriteOk(c) PROVE UNCHANGED <<crashed, ended>>
  BY <1>6 DEF LoopStep, WriteOk, Read, ReadNotify, ReadError, WriteTake, WriteError, WriteEnd,
         CleanupSwap, CleanupClose, CleanupDelete, CleanupNotify
<1>7. ASSUME NEW c \in Conns, PeerStep(c) PROVE UNCHANGED <<crashed, ended>>
  BY <1>7 DEF PeerStep, PeerSends, PeerCloses
<1>8. UNCHANGED serverOnly \/ UNCHANGED vars => UNCHANGED <<crashed, ended>>
  BY DEF vars, serverOnly
<1>. QED BY <1>1, <1>2, <1>3, <1>4, <1>5, <1>6, <1>7, <1>8, Steps, EmacsAlone DEF InlineStep

\* Every frame that Emacs sends is a frame.
LEMMA WireTypesStep == ASSUME Types, Finite, [Next]_vars PROVE WireTypes'
<1> USE DEF Types
<1>1. toServer \in Seq(Frames) /\ toClient \in Seq(Frames)
  BY DEF WireTypes
<1>2. ASSUME NEW k \in Requests \cup Replies \cup Notices, NEW c \in Conns \cup {NoConn}
      PROVE  /\ Ask(k, c) => toServer' \in Seq(Frames)
             /\ Tell(k, c) => toClient' \in Seq(Frames)
             /\ Arrives(k, c) => toClient' \in Seq(Frames)
  <2>1. Frame(k, c) \in Frames
    BY FrameType
  <2>2. Append(toServer, Frame(k, c)) \in Seq(Frames) /\ Append(toClient, Frame(k, c)) \in Seq(Frames)
    BY <1>1, <2>1, Added
  <2>3. toClient # <<>> => Tail(toClient) \in Seq(Frames)
    BY <1>1, Rest
  <2>. QED BY <1>1, <2>2, <2>3 DEF Ask, Tell, Arrives
<1>3. UNCHANGED toServer => toServer' \in Seq(Frames)
  BY <1>1
<1>4. UNCHANGED toClient => toClient' \in Seq(Frames)
  BY <1>1
<1>5. toServer # <<>> /\ toServer' = Tail(toServer) => toServer' \in Seq(Frames)
  BY <1>1, Rest
<1>6. SUFFICES toServer' \in Seq(Frames) /\ toClient' \in Seq(Frames)
  BY DEF WireTypes
<1> USE DEF Requests, Replies, Notices
<1>7. CASE OpenTunnel \/ HandleListening \/ HandleClosed
  BY <1>7, <1>2, <1>3, <1>4 DEF OpenTunnel, HandleListening, HandleClosed
<1>8. CASE CloseTunnel
  <2> DEFINE cs == {c \in Conns : local[c] \in {"open", "connecting"}}
             last == IF dir = "reverse" THEN <<Frame("close", NoConn)>> ELSE <<>>
  <2>1. Disconnects(cs) \in Seq(Frames)
    BY DisconnectsType DEF Finite
  <2>2. last \in Seq(Frames)
    BY FrameType
  <2>3. toServer' = toServer \o Disconnects(cs) \o last /\ UNCHANGED toClient
    BY <1>8 DEF CloseTunnel
  <2> HIDE DEF cs, last
  <2>. QED BY <2>1, <2>2, <2>3, <1>1, <1>4, Joined
<1>9. CASE CloseAll
  BY <1>9 DEF CloseAll
<1>10. CASE InlineStep
  BY <1>10, <1>4, <1>5, <1>3 DEF InlineStep, Dispatch, SendLookup, SendQueue
<1>11. CASE TunnelStep
  BY <1>11, <1>2, <1>3, <1>4 DEF TunnelStep, Listen, Close, Reply
<1>12. ASSUME NEW c \in Conns, EmacsStep(c) PROVE toServer' \in Seq(Frames) /\ toClient' \in Seq(Frames)
  <2>1. CASE LocalAccept(c) \/ LocalSends(c) \/ LocalCloses(c)
    BY <2>1, <1>2, <1>3, <1>4 DEF LocalAccept, LocalSends, LocalCloses
  <2>2. CASE EmacsReads(c)
    BY <2>2, <1>2, <1>3 DEF EmacsReads, HandleConnected, HandleFailed, HandleAccept, HandleData,
                            HandleDisconnect
  <2>. QED BY <1>12, <2>1, <2>2 DEF EmacsStep
<1>13. ASSUME NEW c \in Conns, ConnStep(c) \/ LoopStep(c) \/ WriteOk(c) \/ PeerStep(c)
       PROVE  toServer' \in Seq(Frames) /\ toClient' \in Seq(Frames)
  <2>1. CASE Dial(c) \/ ConnectReply(c) \/ AcceptNotify(c) \/ ReadNotify(c) \/ CleanupNotify(c)
    BY <2>1, <1>2, <1>3, <1>4 DEF Dial, ConnectReply, AcceptNotify, ReadNotify, CleanupNotify
  <2>2. CASE ConnectStore(c) \/ Disconnect(c) \/ Shut(c) \/ Accept(c) \/ AcceptStore(c)
    BY <2>2, <1>3, <1>4 DEF ConnectStore, Disconnect, Shut, Accept, AcceptStore
  <2>3. CASE PeerStep(c) \/ WriteOk(c)
    BY <2>3, <1>3, <1>4 DEF PeerStep, PeerSends, PeerCloses, WriteOk
  <2>4. CASE Read(c) \/ ReadError(c) \/ WriteTake(c) \/ WriteError(c) \/ WriteEnd(c)
    BY <2>4, <1>3, <1>4 DEF Read, ReadError, WriteTake, WriteError, WriteEnd
  <2>5. CASE CleanupSwap(c) \/ CleanupClose(c) \/ CleanupDelete(c)
    BY <2>5, <1>3, <1>4 DEF CleanupSwap, CleanupClose, CleanupDelete
  <2>. QED BY <1>13, <2>1, <2>2, <2>3, <2>4, <2>5
           DEF ConnStep, HandlerStep, AcceptStep, LoopStep
<1>14. CASE UNCHANGED vars
  BY <1>14, <1>3, <1>4 DEF vars
<1>. QED BY <1>7, <1>8, <1>9, <1>10, <1>11, <1>12, <1>13, <1>14, Steps DEF EmacsTunnel

LEMMA TaskTypesStep == ASSUME Types, [Next]_vars PROVE TaskTypes'
<1> USE DEF Types
<1>1. CASE UNCHANGED <<handlers, inline>>
  BY <1>1 DEF TaskTypes
<1>2. CASE InlineStep
  <2>1. toServer \in Seq(Frames) /\ handlers \subseteq Tasks /\ inline \in Conns \cup {NoConn}
    BY DEF WireTypes, TaskTypes
  <2>2. conns \subseteq Conns
    BY DEF SetupTypes
  <2>3. CASE Dispatch
    <3>1. Head(toServer) \in Tasks
      BY <2>1, <2>3, Rest, FrameType DEF Dispatch
    <3>. QED BY <2>1, <2>3, <3>1 DEF Dispatch, TaskTypes
  <2>4. CASE SendLookup
    BY <2>1, <2>2, <2>4 DEF SendLookup, TaskTypes
  <2>5. CASE SendQueue
    BY <2>1, <2>5 DEF SendQueue, TaskTypes
  <2>. QED BY <1>2, <2>3, <2>4, <2>5 DEF InlineStep
<1>3. CASE TunnelStep
  BY <1>3, FrameType DEF TunnelStep, Listen, Close, Reply, Done, TaskTypes
<1>4. CASE CloseAll
  BY <1>1, <1>4 DEF CloseAll
<1>5. ASSUME NEW c \in Conns, ConnStep(c) PROVE TaskTypes'
  BY <1>5, FrameType DEF ConnStep, HandlerStep, Dial, ConnectStore, ConnectReply, Disconnect, Shut,
         Accept, AcceptStep, AcceptStore, AcceptNotify, Done, TaskTypes
<1>6. ASSUME NEW c \in Conns, LoopStep(c) \/ WriteOk(c) PROVE UNCHANGED <<handlers, inline>>
  BY <1>6 DEF LoopStep, WriteOk, Read, ReadNotify, ReadError, WriteTake, WriteError, WriteEnd,
         CleanupSwap, CleanupClose, CleanupDelete, CleanupNotify
<1>7. ASSUME NEW c \in Conns, PeerStep(c) PROVE UNCHANGED <<handlers, inline>>
  BY <1>7 DEF PeerStep, PeerSends, PeerCloses
<1>8. UNCHANGED serverOnly \/ UNCHANGED vars => UNCHANGED <<handlers, inline>>
  BY DEF vars, serverOnly
<1>. QED BY <1>1, <1>2, <1>3, <1>4, <1>5, <1>6, <1>7, <1>8, Steps, EmacsAlone

LEMMA SetupTypesStep == ASSUME Types, [Next]_vars PROVE SetupTypes'
<1> USE DEF Types, SetupTypes
<1>1. CASE UNCHANGED <<listener, setup, conns, sock>>
  BY <1>1
<1>2. CASE InlineStep
  BY <1>1, <1>2 DEF InlineStep, Dispatch, SendLookup, SendQueue
<1>3. CASE TunnelStep
  BY <1>3 DEF TunnelStep, Listen, Close, Reply
<1>4. CASE CloseAll
  BY <1>4 DEF CloseAll
<1>5. ASSUME NEW c \in Conns, ConnStep(c) PROVE SetupTypes'
  BY <1>5 DEF ConnStep, HandlerStep, Dial, ConnectStore, ConnectReply, Disconnect, Shut,
         Accept, AcceptStep, AcceptStore, AcceptNotify
<1>6. ASSUME NEW c \in Conns, LoopStep(c) \/ WriteOk(c) PROVE SetupTypes'
  BY <1>6 DEF LoopStep, WriteOk, Read, ReadNotify, ReadError, WriteTake, WriteError, WriteEnd,
         CleanupSwap, CleanupClose, CleanupDelete, CleanupNotify
<1>7. ASSUME NEW c \in Conns, PeerStep(c) PROVE SetupTypes'
  BY <1>7 DEF PeerStep, PeerSends, PeerCloses
<1>8. UNCHANGED serverOnly \/ UNCHANGED vars => UNCHANGED <<listener, setup, conns, sock>>
  BY DEF vars, serverOnly
<1>. QED BY <1>1, <1>2, <1>3, <1>4, <1>5, <1>6, <1>7, <1>8, Steps, EmacsAlone

LEMMA ClosingsStep == ASSUME Types, [Next]_vars PROVE Closings'
<1> USE DEF Types, Closings
<1>1. CASE UNCHANGED <<closed, chan>>
  BY <1>1
<1>2. CASE InlineStep \/ TunnelStep
  BY <1>1, <1>2 DEF InlineStep, Dispatch, SendLookup, SendQueue, TunnelStep, Listen, Close, Reply
<1>4. CASE CloseAll
  BY <1>4 DEF CloseAll
<1>5. ASSUME NEW c \in Conns, ConnStep(c) PROVE Closings'
  BY <1>5 DEF ConnStep, HandlerStep, Dial, ConnectStore, ConnectReply, Disconnect, Shut,
         Accept, AcceptStep, AcceptStore, AcceptNotify
<1>6. ASSUME NEW c \in Conns, LoopStep(c) \/ WriteOk(c) PROVE Closings'
  BY <1>6 DEF LoopStep, WriteOk, Read, ReadNotify, ReadError, WriteTake, WriteError, WriteEnd,
         CleanupSwap, CleanupClose, CleanupDelete, CleanupNotify
<1>7. ASSUME NEW c \in Conns, PeerStep(c) PROVE Closings'
  BY <1>7 DEF PeerStep, PeerSends, PeerCloses
<1>8. UNCHANGED serverOnly \/ UNCHANGED vars => UNCHANGED <<closed, chan>>
  BY DEF vars, serverOnly
<1>. QED BY <1>1, <1>2, <1>4, <1>5, <1>6, <1>7, <1>8, Steps, EmacsAlone

LEMMA AmountsStep == ASSUME Types, [Next]_vars PROVE Amounts'
<1> USE DEF Types, Amounts
<1>1. CASE UNCHANGED <<queue, inbox>>
  BY <1>1
<1>2. CASE SendQueue
  <2>1. inline \in Conns
    BY <1>2 DEF SendQueue, TaskTypes
  <2>. QED BY <1>2, <2>1 DEF SendQueue
<1>3. CASE Dispatch \/ SendLookup \/ TunnelStep
  BY <1>1, <1>3 DEF Dispatch, SendLookup, TunnelStep, Listen, Close, Reply
<1>4. CASE CloseAll
  BY <1>1, <1>4 DEF CloseAll
<1>5. ASSUME NEW c \in Conns, ConnStep(c) PROVE UNCHANGED <<queue, inbox>>
  BY <1>5 DEF ConnStep, HandlerStep, Dial, ConnectStore, ConnectReply, Disconnect, Shut,
         Accept, AcceptStep, AcceptStore, AcceptNotify
<1>6. ASSUME NEW c \in Conns, LoopStep(c) \/ WriteOk(c) PROVE Amounts'
  <2>1. CASE Read(c) \/ WriteTake(c)
    BY <2>1 DEF Read, WriteTake
  <2>2. CASE ~(Read(c) \/ WriteTake(c))
    BY <1>1, <1>6, <2>2 DEF LoopStep, WriteOk, ReadNotify, ReadError, WriteError, WriteEnd,
         CleanupSwap, CleanupClose, CleanupDelete, CleanupNotify
  <2>. QED BY <2>1, <2>2
<1>7. ASSUME NEW c \in Conns, PeerStep(c) PROVE Amounts'
  BY <1>7 DEF PeerStep, PeerSends, PeerCloses
<1>8. UNCHANGED serverOnly \/ UNCHANGED vars => UNCHANGED <<queue, inbox>>
  BY DEF vars, serverOnly
<1>. QED BY <1>1, <1>2, <1>3, <1>4, <1>5, <1>6, <1>7, <1>8, Steps, EmacsAlone DEF InlineStep

LEMMA LoopTypesStep == ASSUME Types, [Next]_vars PROVE LoopTypes'
<1> USE DEF Types, LoopTypes
<1>1. CASE UNCHANGED loops
  BY <1>1
<1>2. CASE InlineStep \/ TunnelStep \/ CloseAll
  BY <1>1, <1>2 DEF InlineStep, Dispatch, SendLookup, SendQueue, TunnelStep, Listen, Close, Reply,
                    CloseAll
<1>5. ASSUME NEW c \in Conns, ConnStep(c) PROVE LoopTypes'
  BY <1>5 DEF ConnStep, HandlerStep, Dial, ConnectStore, ConnectReply, Disconnect, Shut,
         Accept, AcceptStep, AcceptStore, AcceptNotify, Loop
<1>6. ASSUME NEW c \in Conns, LoopStep(c) \/ WriteOk(c) PROVE LoopTypes'
  BY <1>6 DEF LoopStep, WriteOk, Read, ReadNotify, ReadError, WriteTake, WriteError, WriteEnd,
         CleanupSwap, CleanupClose, CleanupDelete, CleanupNotify, Cleanup, ReadLoop, WriteLoop, Loop
<1>7. ASSUME NEW c \in Conns, PeerStep(c) PROVE UNCHANGED loops
  BY <1>7 DEF PeerStep, PeerSends, PeerCloses
<1>8. UNCHANGED serverOnly \/ UNCHANGED vars => UNCHANGED loops
  BY DEF vars, serverOnly
<1>. QED BY <1>1, <1>2, <1>5, <1>6, <1>7, <1>8, Steps, EmacsAlone

LEMMA TypesStep == ASSUME Types, Finite, [Next]_vars PROVE Types' /\ Finite'
<1>1. EmacsTypes' /\ WireTypes' /\ TaskTypes' /\ Flags'
  BY EmacsTypesStep, WireTypesStep, TaskTypesStep, FlagsStep
<1>2. SetupTypes' /\ Closings' /\ Amounts' /\ LoopTypes'
  BY SetupTypesStep, ClosingsStep, AmountsStep, LoopTypesStep
<1>. QED BY <1>1, <1>2, FiniteStep DEF Types

-----------------------------------------------------------------------------
(* The loops of a connection and its entry in the table.  Only one loop    *)
(* cleans up, because closed is swapped; disconnect is sent by that one.   *)

Cleaning == {"close", "delete", "notify"}
Stored == {"stored", "running"}

ToldType == told \in [Conns -> 0..1]
Idle == \A c \in Conns : setup[c] # "running" => reader[c] = "none" /\ writer[c] = "none"
ClosedLate == \A c \in Conns : closed[c] => setup[c] \in Stored
OneCleaner == \A c \in Conns :
    /\ reader[c] \in Cleaning \/ writer[c] \in Cleaning => closed[c] /\ told[c] = 0
    /\ told[c] = 1 => closed[c]
    /\ ~(reader[c] \in Cleaning /\ writer[c] \in Cleaning)
LoopInv == ToldType /\ Idle /\ ClosedLate /\ OneCleaner

EntryLate == \A c \in conns : setup[c] \in Stored
ShutGone == \A c \in Conns :
    Frame("shut", c) \in handlers => c \notin conns /\ setup[c] \in Stored
NoStale == \A c \in conns :
    closed[c] => reader[c] \in {"close", "delete"} \/ writer[c] \in {"close", "delete"}
TableInv == EntryLate /\ ShutGone /\ NoStale

loopVars == <<setup, reader, writer, closed, told>>

LEMMA InitLoops == Init => LoopInv /\ TableInv
BY DEF Init, LoopInv, ToldType, Idle, ClosedLate, OneCleaner, TableInv, EntryLate, ShutGone,
       NoStale, Cleaning

LEMMA LoopsKept == ASSUME LoopInv, UNCHANGED loopVars PROVE LoopInv'
BY DEF LoopInv, ToldType, Idle, ClosedLate, OneCleaner, loopVars

\* The shut handlers are those of before, or the one that Disconnect makes.
LEMMA TableKept ==
    ASSUME TableInv, UNCHANGED <<loopVars, conns>>,
           \A c \in Conns : Frame("shut", c) \in handlers' => Frame("shut", c) \in handlers
    PROVE  TableInv'
BY DEF TableInv, EntryLate, ShutGone, NoStale, loopVars

\* What concerns the tunnel as a whole, or Emacs, or the peers.
LEMMA LoopsElsewhere ==
    ASSUME Types, TableInv, LoopInv,
           \/ EmacsTunnel \/ InlineStep \/ TunnelStep \/ UNCHANGED vars
           \/ \E c \in Conns : EmacsStep(c) \/ PeerStep(c)
    PROVE  LoopInv' /\ TableInv'
<1>1. CASE UNCHANGED serverOnly \/ UNCHANGED vars
  BY <1>1, LoopsKept, TableKept DEF serverOnly, vars, loopVars
<1>2. CASE InlineStep
  <2>1. UNCHANGED <<loopVars, conns>>
    BY <1>2 DEF InlineStep, Dispatch, SendLookup, SendQueue, loopVars
  <2>2. ASSUME NEW c \in Conns, Frame("shut", c) \in handlers' PROVE Frame("shut", c) \in handlers
    BY <1>2, <2>2, FrameFields DEF InlineStep, Dispatch, SendLookup, SendQueue, Requests
  <2>. QED BY <2>1, <2>2, LoopsKept, TableKept
<1>3. CASE TunnelStep
  <2>1. UNCHANGED <<loopVars, conns>>
    BY <1>3 DEF TunnelStep, Listen, Close, Reply, loopVars
  <2>2. ASSUME NEW c \in Conns, Frame("shut", c) \in handlers' PROVE Frame("shut", c) \in handlers
    BY <1>3, <2>2, FrameFields DEF TunnelStep, Listen, Close, Reply, Done
  <2>. QED BY <2>1, <2>2, LoopsKept, TableKept
<1>4. ASSUME NEW c \in Conns, PeerStep(c) PROVE LoopInv' /\ TableInv'
  <2>1. UNCHANGED <<loopVars, conns, handlers>>
    BY <1>4 DEF PeerStep, PeerSends, PeerCloses, loopVars
  <2>. QED BY <2>1, LoopsKept, TableKept
<1>. QED BY <1>1, <1>2, <1>3, <1>4, EmacsAlone

LEMMA LoopsCloseAll == ASSUME Types, TableInv, LoopInv, CloseAll PROVE LoopInv' /\ TableInv'
<1>1. LoopInv'
  BY DEF CloseAll, Types, Closings, LoopInv, ToldType, Idle, ClosedLate, OneCleaner, TableInv, EntryLate
<1>2. TableInv'
  BY DEF CloseAll, TableInv, EntryLate, ShutGone, NoStale
<1>. QED BY <1>1, <1>2

\* A connection is set up: its loops do not run yet, so it is not closed and
\* in the table at once.
LEMMA LoopsSetup ==
    ASSUME Types, TableInv, LoopInv, NEW c \in Conns,
           Dial(c) \/ ConnectStore(c) \/ Accept(c) \/ AcceptStore(c) \/ AcceptNotify(c)
    PROVE  LoopInv' /\ TableInv'
<1> USE DEF Types, LoopInv, TableInv
<1>1. LoopInv'
  <2>1. ToldType' /\ Idle'
    BY DEF Dial, ConnectStore, Accept, AcceptStore, AcceptNotify, SetupTypes, LoopTypes, ToldType, Idle
  <2>2. ClosedLate'
    BY DEF Dial, ConnectStore, Accept, AcceptStore, AcceptNotify, SetupTypes, ClosedLate, Stored
  <2>3. OneCleaner'
    BY DEF Dial, ConnectStore, Accept, AcceptStore, AcceptNotify, LoopTypes, OneCleaner, Cleaning
  <2>. QED BY <2>1, <2>2, <2>3
<1>2. ~closed[c] \/ UNCHANGED conns
  BY DEF ConnectStore, AcceptStore, ClosedLate, Stored, Dial, Accept, AcceptNotify
<1>3. reader[c] = "none" /\ writer[c] = "none"
  BY DEF ConnectStore, AcceptStore, Dial, Accept, AcceptNotify, Idle
<1>4. EntryLate'
  BY DEF Dial, ConnectStore, Accept, AcceptStore, AcceptNotify, SetupTypes, EntryLate, Stored
<1>5. ShutGone'
  BY FrameFields DEF Dial, Done, ConnectStore, Accept, AcceptStore, AcceptNotify, SetupTypes,
                     ShutGone, Stored
<1>6. NoStale'
  BY <1>2, <1>3 DEF Dial, ConnectStore, Accept, AcceptStore, AcceptNotify, SetupTypes, LoopTypes,
                    NoStale
<1>. QED BY <1>1, <1>4, <1>5, <1>6

LEMMA LoopsHandled ==
    ASSUME Types, TableInv, LoopInv, NEW c \in Conns, ConnectReply(c) \/ Disconnect(c) \/ Shut(c)
    PROVE  LoopInv' /\ TableInv'
<1> USE DEF Types, LoopInv, TableInv
<1>1. CASE ConnectReply(c) \/ Disconnect(c)
  <2>1. LoopInv'
    BY <1>1, LoopsKept DEF ConnectReply, Disconnect, loopVars
  <2>2. ShutGone'
    BY <1>1, FrameFields DEF ConnectReply, Disconnect, Done, ShutGone, EntryLate
  <2>3. EntryLate' /\ NoStale'
    BY <1>1 DEF ConnectReply, Disconnect, EntryLate, NoStale
  <2>. QED BY <2>1, <2>2, <2>3
<1>2. CASE Shut(c)
  <2>1. c \notin conns /\ setup[c] \in Stored
    BY <1>2 DEF Shut, Handles, ShutGone
  <2>2. LoopInv'
    BY <1>2, <2>1 DEF Shut, Closings, ToldType, Idle, ClosedLate, OneCleaner
  <2>3. TableInv'
    BY <1>2, <2>1 DEF Shut, Done, Closings, EntryLate, ShutGone, NoStale
  <2>. QED BY <2>2, <2>3
<1>. QED BY <1>1, <1>2

\* A loop that goes on or ends, but does not clean up.
LEMMA LoopsRun ==
    ASSUME Types, TableInv, LoopInv, NEW c \in Conns,
           \/ Read(c) \/ ReadNotify(c) \/ ReadError(c)
           \/ WriteTake(c) \/ WriteOk(c) \/ WriteError(c) \/ WriteEnd(c)
    PROVE  LoopInv' /\ TableInv'
<1> USE DEF Types, LoopInv, TableInv
<1>1. /\ UNCHANGED <<setup, closed, told, conns, handlers>>
      /\ \/ /\ reader[c] \in {"run", "busy"} /\ UNCHANGED writer
            /\ \E pc \in {"run", "busy", "swap", "done"} : reader' = [reader EXCEPT ![c] = pc]
         \/ /\ writer[c] \in {"run", "busy"} /\ UNCHANGED reader
            /\ \E pc \in {"run", "busy", "swap", "done"} : writer' = [writer EXCEPT ![c] = pc]
  BY DEF Read, ReadNotify, ReadError, WriteTake, WriteOk, WriteError, WriteEnd, ReadLoop, WriteLoop
<1>2. ToldType' /\ Idle' /\ ClosedLate' /\ EntryLate' /\ ShutGone'
  BY <1>1 DEF ToldType, Idle, ClosedLate, EntryLate, ShutGone, LoopTypes
<1>3. OneCleaner' /\ NoStale'
  BY <1>1 DEF OneCleaner, NoStale, LoopTypes, SetupTypes, Cleaning
<1>. QED BY <1>2, <1>3

LEMMA LoopsClean ==
    ASSUME Types, TableInv, LoopInv, NEW c \in Conns,
           CleanupSwap(c) \/ CleanupClose(c) \/ CleanupDelete(c) \/ CleanupNotify(c)
    PROVE  LoopInv' /\ TableInv'
<1> USE DEF Types, LoopInv, TableInv, Cleanup, ReadLoop, WriteLoop
<1>1. setup[c] = "running"
  BY DEF CleanupSwap, CleanupClose, CleanupDelete, CleanupNotify, Idle
<1>2. ToldType'
  BY DEF CleanupSwap, CleanupClose, CleanupDelete, CleanupNotify, ToldType, OneCleaner, Cleaning
<1>3. Idle' /\ ClosedLate'
  BY <1>1 DEF CleanupSwap, CleanupClose, CleanupDelete, CleanupNotify, Idle, ClosedLate, Closings,
              LoopTypes, Stored
<1>4. OneCleaner'
  <2>1. CASE CleanupSwap(c)
    BY <2>1 DEF CleanupSwap, OneCleaner, Cleaning, Closings, LoopTypes, ToldType
  <2>2. CASE CleanupClose(c) \/ CleanupDelete(c)
    BY <2>2 DEF CleanupClose, CleanupDelete, OneCleaner, Cleaning, LoopTypes
  <2>3. CASE CleanupNotify(c)
    BY <2>3 DEF CleanupNotify, OneCleaner, Cleaning, LoopTypes, ToldType
  <2>. QED BY <2>1, <2>2, <2>3
<1>5. EntryLate' /\ ShutGone'
  BY DEF CleanupSwap, CleanupClose, CleanupDelete, CleanupNotify, EntryLate, ShutGone
<1>6. NoStale'
  <2>1. CASE CleanupSwap(c)
    BY <2>1 DEF CleanupSwap, NoStale, SetupTypes, Closings, LoopTypes
  <2>2. CASE CleanupClose(c) \/ CleanupDelete(c)
    BY <2>2 DEF CleanupClose, CleanupDelete, NoStale, SetupTypes, LoopTypes
  <2>3. CASE CleanupNotify(c)
    BY <2>3 DEF CleanupNotify, NoStale, SetupTypes, OneCleaner, Cleaning, LoopTypes
  <2>. QED BY <2>1, <2>2, <2>3
<1>. QED BY <1>2, <1>3, <1>4, <1>5, <1>6

LEMMA LoopsStep ==
    ASSUME Types, TableInv, LoopInv, [Next]_vars
    PROVE  LoopInv' /\ TableInv'
<1>1. ASSUME NEW c \in Conns, ConnStep(c) PROVE LoopInv' /\ TableInv'
  BY <1>1, LoopsSetup, LoopsHandled DEF ConnStep, HandlerStep, AcceptStep
<1>2. ASSUME NEW c \in Conns, LoopStep(c) \/ WriteOk(c) PROVE LoopInv' /\ TableInv'
  BY <1>2, LoopsRun, LoopsClean DEF LoopStep
<1>. QED BY <1>1, <1>2, Steps, LoopsElsewhere, LoopsCloseAll

-----------------------------------------------------------------------------
(* Emacs hears of a connection before it hears from it.                    *)

\* Of the first n frames of s one is the tunnel/accept of c, or c is known.
Heard(s, n, known, c) == c \in known \/ \E j \in 1..n : s[j] = Frame("accept", c)
InOrder(s, known) == \A i \in 1..Len(s) :
    s[i].kind \in {"data", "disconnect"} => Heard(s, i - 1, known, s[i].conn)

LEMMA FirstIsOrder ==
    ASSUME WireTypes PROVE IntroducedFirst <=> InOrder(toClient, introduced)
BY DEF WireTypes, IntroducedFirst, InOrder, Heard

LEMMA HeardAppended ==
    ASSUME NEW s \in Seq(Frames), NEW known, NEW f \in Frames, NEW c, NEW n \in 0..Len(s),
           Heard(s, n, known, c)
    PROVE  Heard(Append(s, f), n, known, c)
BY Added DEF Heard

\* The head is read: if it introduces a connection, that is known from now on.
LEMMA HeardRead ==
    ASSUME NEW s \in Seq(Frames), s # <<>>, NEW known, NEW more, known \subseteq more,
           Head(s).kind = "accept" => Head(s).conn \in more,
           NEW c, NEW n \in 1..Len(s), Heard(s, n, known, c)
    PROVE  Heard(Tail(s), n - 1, more, c)
<1> USE Rest
<1>1. CASE c \in known
  BY <1>1 DEF Heard
<1>2. ASSUME NEW j \in 1..n, s[j] = Frame("accept", c) PROVE Heard(Tail(s), n - 1, more, c)
  <2>1. CASE j = 1
    BY <1>2, <2>1, FrameFields DEF Heard
  <2>2. CASE j # 1
    <3>1. j - 1 \in 1..(n - 1) /\ j - 1 \in 1..Len(Tail(s))
      BY <2>2
    <3>2. Tail(s)[j - 1] = s[(j - 1) + 1]
      BY <3>1
    <3>3. (j - 1) + 1 = j
      OBVIOUS
    <3>. QED BY <3>1, <3>2, <3>3, <1>2 DEF Heard
  <2>. QED BY <2>1, <2>2
<1>. QED BY <1>1, <1>2 DEF Heard

LEMMA OrderAppended ==
    ASSUME NEW s \in Seq(Frames), NEW known, InOrder(s, known), NEW f \in Frames,
           f.kind \in {"data", "disconnect"} => Heard(s, Len(s), known, f.conn)
    PROVE  InOrder(Append(s, f), known)
<1> SUFFICES ASSUME NEW i \in 1..Len(Append(s, f)),
                    Append(s, f)[i].kind \in {"data", "disconnect"}
             PROVE  Heard(Append(s, f), i - 1, known, Append(s, f)[i].conn)
  BY DEF InOrder
<1>1. CASE i \in 1..Len(s)
  <2>1. Append(s, f)[i] = s[i] /\ i - 1 \in 0..Len(s)
    BY <1>1, Added
  <2>2. Heard(s, i - 1, known, s[i].conn)
    BY <1>1, <2>1 DEF InOrder
  <2>. QED BY <2>1, <2>2, HeardAppended
<1>2. CASE i = Len(s) + 1
  <2>1. Append(s, f)[i] = f /\ i - 1 = Len(s) /\ Len(s) \in 0..Len(s)
    BY <1>2, Added
  <2>. QED BY <2>1, HeardAppended
<1>. QED BY <1>1, <1>2, Added

LEMMA OrderRead ==
    ASSUME NEW s \in Seq(Frames), s # <<>>, NEW known, NEW more, known \subseteq more,
           Head(s).kind = "accept" => Head(s).conn \in more, InOrder(s, known)
    PROVE  InOrder(Tail(s), more)
<1> SUFFICES ASSUME NEW i \in 1..Len(Tail(s)), Tail(s)[i].kind \in {"data", "disconnect"}
             PROVE  Heard(Tail(s), i - 1, more, Tail(s)[i].conn)
  BY DEF InOrder
<1>1. Tail(s)[i] = s[i + 1] /\ i + 1 \in 1..Len(s) /\ i \in 1..Len(s) /\ (i + 1) - 1 = i
  BY Rest
<1>2. Heard(s, (i + 1) - 1, known, s[i + 1].conn)
  BY <1>1 DEF InOrder
<1>. QED BY <1>1, <1>2, HeardRead

LEMMA OrderKnown ==
    ASSUME NEW s, NEW known, NEW more, known \subseteq more, InOrder(s, known)
    PROVE  InOrder(s, more)
BY DEF InOrder, Heard

\* A request to connect comes from a connection Emacs has; a connection that
\* runs has been announced, or is one of those.
Silent == ended => toClient = <<>>
Announced == \A c \in Conns :
    ~ended /\ setup[c] = "running" => Heard(toClient, Len(toClient), introduced, c)
Asked == \A c \in Conns : Frame("connect", c) \in handlers => c \in introduced
Asking == \A i \in 1..Len(toServer) :
    toServer[i].kind = "connect" => toServer[i].conn \in introduced
Ordered == InOrder(toClient, introduced)
IntroInv == Silent /\ Announced /\ Asked /\ Asking /\ Ordered

LEMMA InitIntro == Init => IntroInv
BY DEF Init, IntroInv, Silent, Announced, Asked, Asking, Ordered, InOrder

LEMMA IntroKept ==
    ASSUME IntroInv, UNCHANGED <<wires, handlers, ended, setup, introduced>>
    PROVE  IntroInv'
BY DEF IntroInv, Silent, Announced, Asked, Asking, Ordered, InOrder, Heard

\* Frames for Emacs: one is sent, one is read, or none.
LEMMA ToldFrame ==
    ASSUME Types, IntroInv, UNCHANGED <<introduced, ended>>,
           NEW k \in Replies \cup Notices, NEW c \in Conns \cup {NoConn}, Tell(k, c),
           k \in {"data", "disconnect"} => c \in Conns /\ setup[c] = "running"
    PROVE  /\ Silent' /\ Ordered'
           /\ \A d \in Conns : Heard(toClient, Len(toClient), introduced, d)
                                => Heard(toClient, Len(toClient), introduced, d)'
           /\ ~ended /\ k = "accept" => Heard(toClient, Len(toClient), introduced, c)'
<1>1. CASE ended
  BY <1>1 DEF Tell, IntroInv, Silent, Ordered
<1>2. CASE ~ended
  <2>1. toClient \in Seq(Frames) /\ Len(toClient) \in Nat
    BY DEF Types, WireTypes
  <2>2. Frame(k, c) \in Frames /\ toClient' = Append(toClient, Frame(k, c))
    BY <1>2, FrameType DEF Tell
  <2>3. /\ toClient' \in Seq(Frames) /\ Len(toClient') = Len(toClient) + 1
        /\ toClient'[Len(toClient) + 1] = Frame(k, c)
    BY <2>1, <2>2, Added
  <2>4. Silent'
    BY <1>2 DEF Silent
  <2>5. Ordered'
    <3>1. k \in {"data", "disconnect"} => Heard(toClient, Len(toClient), introduced, c)
      BY <1>2 DEF IntroInv, Announced
    <3>2. Frame(k, c).kind = k /\ Frame(k, c).conn = c
      BY FrameFields
    <3>3. InOrder(Append(toClient, Frame(k, c)), introduced)
      BY <2>1, <2>2, <3>1, <3>2, OrderAppended DEF IntroInv, Ordered
    <3>. QED BY <2>2, <3>3 DEF Ordered
  <2>6. ASSUME NEW d \in Conns, Heard(toClient, Len(toClient), introduced, d)
        PROVE  Heard(toClient, Len(toClient), introduced, d)'
    <3>1. Heard(toClient', Len(toClient), introduced, d)
      BY <2>1, <2>2, <2>6, HeardAppended
    <3>. QED BY <2>1, <2>3, <3>1 DEF Heard
  <2>7. k = "accept" => Heard(toClient, Len(toClient), introduced, c)'
    BY <2>1, <2>3 DEF Heard
  <2>. QED BY <2>4, <2>5, <2>6, <2>7
<1>. QED BY <1>1, <1>2

LEMMA ReadFrame ==
    ASSUME Types, IntroInv, introduced \subseteq introduced', UNCHANGED ended,
           NEW k, NEW c, Arrives(k, c), k = "accept" => c \in introduced'
    PROVE  /\ Silent' /\ Ordered'
           /\ \A d \in Conns : Heard(toClient, Len(toClient), introduced, d)
                                => Heard(toClient, Len(toClient), introduced, d)'
<1>1. toClient \in Seq(Frames) /\ toClient # <<>> /\ toClient' = Tail(toClient)
  BY DEF Types, WireTypes, Arrives
<1>2. Head(toClient).kind = k /\ Head(toClient).conn = c
  BY FrameFields DEF Arrives
<1>3. Silent'
  BY <1>1 DEF IntroInv, Silent
<1>4. Ordered'
  BY <1>1, <1>2, OrderRead DEF IntroInv, Ordered
<1>5. Len(toClient) \in 1..Len(toClient) /\ Len(toClient') = Len(toClient) - 1
  BY <1>1, Rest
<1>6. ASSUME NEW d \in Conns, Heard(toClient, Len(toClient), introduced, d)
      PROVE  Heard(toClient, Len(toClient), introduced, d)'
  <2>1. Heard(Tail(toClient), Len(toClient) - 1, introduced', d)
    BY <1>1, <1>2, <1>5, <1>6, HeardRead
  <2>. QED BY <1>1, <1>5, <2>1
<1>. QED BY <1>3, <1>4, <1>6


\* Frames for the server, in the same way.
LEMMA AskedFrame ==
    ASSUME Types, Asking, introduced \subseteq introduced',
           NEW k \in Requests \cup Notices, NEW c \in Conns \cup {NoConn}, Ask(k, c),
           k = "connect" => c \in introduced'
    PROVE  Asking'
<1>1. toServer \in Seq(Frames) /\ toServer' = Append(toServer, Frame(k, c))
  BY DEF Types, WireTypes, Ask
<1>2. Frame(k, c) \in Frames
  BY FrameType
<1>3. SUFFICES ASSUME NEW i \in 1..Len(toServer'), toServer'[i].kind = "connect"
               PROVE  toServer'[i].conn \in introduced'
  BY DEF Asking
<1>4. CASE i \in 1..Len(toServer)
  <2>1. toServer'[i] = toServer[i]
    BY <1>1, <1>2, <1>4, Added
  <2>. QED BY <1>3, <1>4, <2>1 DEF Asking
<1>5. CASE i = Len(toServer) + 1
  <2>1. toServer'[i] = Frame(k, c)
    BY <1>1, <1>2, <1>5, Added
  <2>. QED BY <1>3, <2>1, FrameFields
<1>. QED BY <1>1, <1>2, <1>4, <1>5, Added

LEMMA AskingKept ==
    ASSUME Asking, introduced \subseteq introduced', UNCHANGED toServer PROVE Asking'
BY DEF Asking

LEMMA AskingTaken ==
    ASSUME Types, Asking, toServer # <<>>, toServer' = Tail(toServer), UNCHANGED introduced
    PROVE  Asking' /\ (Head(toServer).kind = "connect" => Head(toServer).conn \in introduced)
<1>1. toServer \in Seq(Frames)
  BY DEF Types, WireTypes
<1>2. Head(toServer).kind = "connect" => Head(toServer).conn \in introduced
  BY <1>1, Rest DEF Asking
<1>3. SUFFICES ASSUME NEW i \in 1..Len(toServer'), toServer'[i].kind = "connect"
               PROVE  toServer'[i].conn \in introduced
  BY <1>2 DEF Asking
<1>4. toServer'[i] = toServer[i + 1] /\ i + 1 \in 1..Len(toServer)
  BY <1>1, Rest
<1>. QED BY <1>3, <1>4 DEF Asking

LEMMA AskedAll ==
    ASSUME Types, Asking, UNCHANGED introduced, NEW t \in Seq(Frames),
           toServer' = toServer \o t, \A i \in 1..Len(t) : t[i].kind # "connect"
    PROVE  Asking'
<1>1. toServer \in Seq(Frames)
  BY DEF Types, WireTypes
<1>2. SUFFICES ASSUME NEW i \in 1..Len(toServer'), toServer'[i].kind = "connect"
               PROVE  toServer'[i].conn \in introduced
  BY DEF Asking
<1>3. CASE i \in 1..Len(toServer)
  BY <1>1, <1>2, <1>3, Joined DEF Asking
<1>4. CASE i \notin 1..Len(toServer)
  <2>1. i - Len(toServer) \in 1..Len(t) /\ Len(toServer) + (i - Len(toServer)) = i
    BY <1>1, <1>4, Joined
  <2>2. toServer'[i] = t[i - Len(toServer)]
    BY <1>1, <2>1, Joined
  <2>. QED BY <1>2, <2>1, <2>2
<1>. QED BY <1>3, <1>4

\* A step of Emacs.
LEMMA IntroEmacs ==
    ASSUME Types, IntroInv, UNCHANGED serverOnly, introduced \subseteq introduced',
           Asking', \/ UNCHANGED toClient
                    \/ \E k, c : Arrives(k, c) /\ (k = "accept" => c \in introduced')
    PROVE  IntroInv'
<1>1. UNCHANGED <<setup, handlers, ended>>
  BY DEF serverOnly
<1>2. Asked'
  BY <1>1 DEF IntroInv, Asked
<1>3. CASE UNCHANGED toClient
  <2>1. Silent'
    BY <1>1, <1>3 DEF IntroInv, Silent
  <2>2. Ordered'
    BY <1>3 DEF IntroInv, Ordered, InOrder, Heard
  <2>3. Announced'
    BY <1>1, <1>3 DEF IntroInv, Announced, Heard
  <2>. QED BY <1>2, <2>1, <2>2, <2>3 DEF IntroInv
<1>4. ASSUME NEW k, NEW c, Arrives(k, c), k = "accept" => c \in introduced' PROVE IntroInv'
  <2>1. /\ Silent' /\ Ordered'
        /\ \A d \in Conns : Heard(toClient, Len(toClient), introduced, d)
                             => Heard(toClient, Len(toClient), introduced, d)'
    BY <1>1, <1>4, ReadFrame
  <2>2. Announced'
    BY <1>1, <2>1 DEF IntroInv, Announced
  <2>. QED BY <1>2, <2>1, <2>2 DEF IntroInv
<1>. QED BY <1>3, <1>4

LEMMA IntroEmacsTunnel ==
    ASSUME Types, Finite, IntroInv, EmacsTunnel PROVE IntroInv'
<1>1. UNCHANGED serverOnly
  BY EmacsAlone
<1>2. UNCHANGED introduced /\ (UNCHANGED toClient \/ Arrives("listening", NoConn) \/ Arrives("closed", NoConn))
  BY DEF EmacsTunnel, OpenTunnel, HandleListening, CloseTunnel, HandleClosed
<1>3. Asking
  BY DEF IntroInv
<1>4. CASE OpenTunnel \/ HandleListening \/ HandleClosed
  <2>1. UNCHANGED toServer \/ Ask("listen", NoConn)
    BY <1>4 DEF OpenTunnel, HandleListening, HandleClosed
  <2>2. Asking'
    BY <1>2, <1>3, <2>1, AskedFrame, AskingKept DEF Requests
  <2>. QED BY <1>1, <1>2, <2>2, IntroEmacs
<1>5. CASE CloseTunnel
  <2> DEFINE cs == {c \in Conns : local[c] \in {"open", "connecting"}}
             last == IF dir = "reverse" THEN <<Frame("close", NoConn)>> ELSE <<>>
             gone == Disconnects(cs)
  <2>1. gone \in Seq(Frames) /\ \A i \in 1..Len(gone) : gone[i].kind # "connect"
    BY DisconnectsType DEF Finite
  <2>2. last \in Seq(Frames) /\ \A i \in 1..Len(last) : last[i].kind # "connect"
    BY FrameType, FrameFields DEF Requests
  <2>3. toServer' = (toServer \o gone) \o last
    BY <1>5 DEF CloseTunnel
  <2> HIDE DEF cs, last, gone
  <2>4. toServer \in Seq(Frames)
    BY DEF Types, WireTypes
  <2>5. gone \o last \in Seq(Frames) /\ toServer' = toServer \o (gone \o last)
    BY <2>1, <2>2, <2>3, <2>4
  <2>6. \A i \in 1..Len(gone \o last) : (gone \o last)[i].kind # "connect"
    <3>1. SUFFICES ASSUME NEW i \in 1..Len(gone \o last) PROVE (gone \o last)[i].kind # "connect"
      OBVIOUS
    <3>2. CASE i \in 1..Len(gone)
      BY <2>1, <2>2, <3>2, Joined
    <3>3. CASE i \notin 1..Len(gone)
      <4>1. i - Len(gone) \in 1..Len(last) /\ Len(gone) + (i - Len(gone)) = i
        BY <2>1, <2>2, <3>3, Joined
      <4>. QED BY <2>1, <2>2, <4>1, Joined
    <3>. QED BY <3>2, <3>3
  <2>7. Asking'
    BY <1>2, <1>3, <2>5, <2>6, AskedAll
  <2>. QED BY <1>1, <1>2, <2>7, IntroEmacs
<1>. QED BY <1>4, <1>5 DEF EmacsTunnel

LEMMA IntroEmacsConn ==
    ASSUME Types, IntroInv, NEW c \in Conns, EmacsStep(c) PROVE IntroInv'
<1>1. UNCHANGED serverOnly
  BY EmacsAlone
<1>2. introduced \subseteq introduced' /\ (LocalAccept(c) \/ HandleAccept(c) => c \in introduced')
  BY DEF EmacsStep, EmacsReads, LocalAccept, LocalSends, LocalCloses, HandleConnected, HandleFailed,
         HandleAccept, HandleData, HandleDisconnect
<1>3. \/ UNCHANGED toClient
      \/ \E k \in {"connected", "failed", "data", "disconnect"} : Arrives(k, c)
      \/ Arrives("accept", c) /\ c \in introduced'
  BY <1>2 DEF EmacsStep, EmacsReads, LocalAccept, LocalSends, LocalCloses, HandleConnected,
              HandleFailed, HandleAccept, HandleData, HandleDisconnect
<1>4. \/ UNCHANGED toServer \/ Ask("disconnect", c) \/ Ask("data", c)
      \/ Ask("connect", c) /\ c \in introduced'
  BY <1>2 DEF EmacsStep, EmacsReads, LocalAccept, LocalSends, LocalCloses, HandleConnected,
              HandleFailed, HandleAccept, HandleData, HandleDisconnect
<1>5. Asking
  BY DEF IntroInv
<1>6. Asking'
  BY <1>2, <1>4, <1>5, AskedFrame, AskingKept DEF Requests, Notices
<1>. QED BY <1>1, <1>2, <1>3, <1>6, IntroEmacs

\* A step of the server that sends nothing and starts no loops.
LEMMA IntroQuiet ==
    ASSUME IntroInv, Asking', UNCHANGED <<toClient, introduced, ended>>,
           \A c \in Conns : setup'[c] = "running" => setup[c] = "running" \/ c \in introduced,
           \A c \in Conns : Frame("connect", c) \in handlers'
                                => Frame("connect", c) \in handlers \/ c \in introduced
    PROVE  IntroInv'
<1>1. Silent' /\ Asked'
  BY DEF IntroInv, Silent, Asked
<1>2. Announced'
  BY DEF IntroInv, Announced, Heard
<1>3. Ordered'
  BY DEF IntroInv, Ordered
<1>. QED BY <1>1, <1>2, <1>3 DEF IntroInv

\* A step of the server that sends Emacs a frame.
LEMMA IntroTells ==
    ASSUME Types, IntroInv, UNCHANGED <<toServer, introduced, ended>>, handlers' \subseteq
               handlers,
           NEW k \in Replies \cup Notices, NEW c \in Conns \cup {NoConn}, Tell(k, c),
           k \in {"data", "disconnect"} => c \in Conns /\ setup[c] = "running",
           \A d \in Conns : setup'[d] = "running" => setup[d] = "running" \/ (k = "accept" /\ d = c)
    PROVE  IntroInv'
<1>1. /\ Silent' /\ Ordered'
      /\ \A d \in Conns : Heard(toClient, Len(toClient), introduced, d)
                           => Heard(toClient, Len(toClient), introduced, d)'
      /\ ~ended /\ k = "accept" => Heard(toClient, Len(toClient), introduced, c)'
  BY ToldFrame
<1>2. Announced'
  BY <1>1 DEF IntroInv, Announced
<1>3. Asked' /\ Asking'
  BY DEF IntroInv, Asked, Asking
<1>. QED BY <1>1, <1>2, <1>3 DEF IntroInv

LEMMA IntroInline ==
    ASSUME Types, IntroInv, InlineStep PROVE IntroInv'
<1> USE DEF IntroInv
<1>1. UNCHANGED <<toClient, introduced, ended, setup>>
  BY DEF InlineStep, Dispatch, SendLookup, SendQueue
<1>2. CASE SendQueue
  BY <1>1, <1>2, IntroQuiet, AskingKept DEF SendQueue
<1>3. CASE Dispatch \/ SendLookup
  <2>1. toServer # <<>> /\ toServer' = Tail(toServer)
    BY <1>3 DEF Dispatch, SendLookup
  <2>2. Asking' /\ (Head(toServer).kind = "connect" => Head(toServer).conn \in introduced)
    BY <1>1, <2>1, AskingTaken
  <2>3. ASSUME NEW c \in Conns, Frame("connect", c) \in handlers'
        PROVE  Frame("connect", c) \in handlers \/ c \in introduced
    BY <1>3, <2>2, <2>3, FrameFields DEF Dispatch, SendLookup
  <2>. QED BY <1>1, <2>2, <2>3, IntroQuiet
<1>. QED BY <1>2, <1>3 DEF InlineStep

LEMMA IntroTunnel ==
    ASSUME Types, IntroInv, TunnelStep PROVE IntroInv'
<1>1. UNCHANGED <<toServer, introduced, ended, setup>>
  BY DEF TunnelStep, Listen, Close, Reply
<1>2. Asking'
  BY <1>1, AskingKept DEF IntroInv
<1>3. CASE Listen \/ Close
  <2>1. UNCHANGED toClient
    BY <1>3 DEF Listen, Close
  <2>2. \A c \in Conns : Frame("connect", c) \in handlers' => Frame("connect", c) \in handlers
    BY <1>3, FrameFields DEF Listen, Close
  <2>. QED BY <1>1, <1>2, <2>1, <2>2, IntroQuiet
<1>4. ASSUME NEW k \in {"listening", "closed"}, Reply(k) PROVE IntroInv'
  <2>1. Tell(k, NoConn) /\ handlers' \subseteq handlers
    BY <1>4 DEF Reply, Done
  <2>. QED BY <1>1, <2>1, IntroTells DEF Replies
<1>. QED BY <1>3, <1>4 DEF TunnelStep

LEMMA IntroConn ==
    ASSUME Types, LoopInv, IntroInv, NEW c \in Conns, ConnStep(c) \/ LoopStep(c) \/ WriteOk(c)
    PROVE  IntroInv'
<1>0. Asking' /\ UNCHANGED <<toServer, introduced, ended>>
  <2>1. UNCHANGED <<toServer, introduced, ended>>
    BY DEF ConnStep, HandlerStep, AcceptStep, LoopStep, WriteOk, Dial, ConnectStore, ConnectReply,
           Disconnect, Shut, Accept, AcceptStore, AcceptNotify, Read, ReadNotify, ReadError,
           WriteTake, WriteError, WriteEnd, CleanupSwap, CleanupClose, CleanupDelete, CleanupNotify
  <2>. QED BY <2>1, AskingKept DEF IntroInv
<1>1. CASE \/ Read(c) \/ ReadError(c) \/ WriteTake(c) \/ WriteOk(c) \/ WriteError(c) \/ WriteEnd(c)
           \/ CleanupSwap(c) \/ CleanupClose(c) \/ CleanupDelete(c)
  <2>1. UNCHANGED <<toClient, setup, handlers>>
    BY <1>1 DEF Read, ReadError, WriteTake, WriteOk, WriteError, WriteEnd, CleanupSwap,
                CleanupClose, CleanupDelete
  <2>. QED BY <1>0, <2>1, IntroQuiet
<1>2. CASE Disconnect(c) \/ Shut(c) \/ Accept(c) \/ AcceptStore(c) \/ ConnectStore(c)
  <2>1. UNCHANGED toClient
    BY <1>2 DEF Disconnect, Shut, Accept, AcceptStore, ConnectStore
  <2>2. \A d \in Conns : Frame("connect", d) \in handlers' => Frame("connect", d) \in handlers
    BY <1>2, FrameFields DEF Disconnect, Shut, Done, Accept, AcceptStore, ConnectStore
  <2>3. \A d \in Conns : setup'[d] = "running" => setup[d] = "running" \/ d \in introduced
    BY <1>2 DEF Disconnect, Shut, Accept, AcceptStore, ConnectStore, Handles, IntroInv, Asked,
                Types, SetupTypes
  <2>. QED BY <1>0, <2>1, <2>2, <2>3, IntroQuiet
<1>3. CASE Dial(c)
  <2>1. /\ \A d \in Conns : setup'[d] = "running" => setup[d] = "running"
        /\ handlers' \subseteq handlers
    BY <1>3 DEF Dial, Done, Types, SetupTypes
  <2>2. UNCHANGED toClient \/ Tell("failed", c)
    BY <1>3 DEF Dial
  <2>3. CASE UNCHANGED toClient
    BY <1>0, <2>1, <2>3, IntroQuiet
  <2>4. CASE Tell("failed", c)
    BY <1>0, <2>1, <2>4, IntroTells DEF Replies
  <2>. QED BY <2>2, <2>3, <2>4
<1>4. CASE ConnectReply(c)
  <2>1. UNCHANGED setup /\ handlers' \subseteq handlers /\ Tell("connected", c)
    BY <1>4 DEF ConnectReply, Done
  <2>. QED BY <1>0, <2>1, IntroTells DEF Replies
<1>5. CASE AcceptNotify(c)
  <2>1. UNCHANGED handlers /\ Tell("accept", c)
    BY <1>5 DEF AcceptNotify
  <2>2. \A d \in Conns : setup'[d] = "running" => setup[d] = "running" \/ d = c
    BY <1>5 DEF AcceptNotify, Types, SetupTypes
  <2>. QED BY <1>0, <2>1, <2>2, IntroTells DEF Notices
<1>6. CASE ReadNotify(c)
  <2>1. UNCHANGED <<setup, handlers>> /\ Tell("data", c) /\ setup[c] = "running"
    BY <1>6 DEF ReadNotify, LoopInv, Idle
  <2>. QED BY <1>0, <2>1, IntroTells DEF Notices
<1>7. CASE CleanupNotify(c)
  <2>1. UNCHANGED <<setup, handlers>> /\ Tell("disconnect", c) /\ setup[c] = "running"
    BY <1>7 DEF CleanupNotify, Cleanup, LoopInv, Idle
  <2>. QED BY <1>0, <2>1, IntroTells DEF Notices
<1>. QED BY <1>1, <1>2, <1>3, <1>4, <1>5, <1>6, <1>7
         DEF ConnStep, HandlerStep, AcceptStep, LoopStep

LEMMA IntroStep ==
    ASSUME Types, Finite, LoopInv, IntroInv, [Next]_vars PROVE IntroInv'
<1>1. CASE UNCHANGED vars
  BY <1>1, IntroKept DEF vars
<1>2. CASE CloseAll
  <2>1. ended' = TRUE /\ toClient' = <<>> /\ toServer' = <<>> /\ UNCHANGED <<handlers, introduced>>
    BY <1>2 DEF CloseAll
  <2>. QED BY <2>1 DEF IntroInv, Silent, Announced, Asked, Asking, Ordered, InOrder
<1>3. ASSUME NEW c \in Conns, PeerStep(c) PROVE IntroInv'
  <2>1. UNCHANGED <<wires, handlers, ended, setup, introduced>>
    BY <1>3 DEF PeerStep, PeerSends, PeerCloses
  <2>. QED BY <2>1, IntroKept
<1>. QED BY <1>1, <1>2, <1>3, Steps, IntroEmacsTunnel, IntroEmacsConn, IntroInline, IntroTunnel,
            IntroConn
-----------------------------------------------------------------------------
(* The theorems.                                                           *)

Inv == Types /\ Finite /\ LoopInv /\ TableInv /\ IntroInv

LEMMA InvHolds == Spec => []Inv
<1>1. Init => Inv
  BY InitTypes, InitLoops, InitIntro DEF Inv
<1>2. Inv /\ [Next]_vars => Inv'
  BY TypesStep, LoopsStep, IntroStep DEF Inv
<1>. QED BY <1>1, <1>2, PTL DEF Spec

\* Type correctness (TypeOK), with what it says beyond types: writeCh never
\* exceeds its capacity, and one tunnel/disconnect at most is sent for each
\* connection, whichever of its loops fails first.
THEOREM TypeCorrect == Spec => []TypeOK
<1>1. Inv => TypeOK
  BY DEF Inv, Types, EmacsTypes, WireTypes, TaskTypes, Flags, SetupTypes, Closings, Amounts,
         LoopTypes, LoopInv, ToldType, TypeOK
<1>. QED BY <1>1, InvHolds, PTL

\* Emacs never reads data or a disconnect of a connection it has not heard of
\* (IntroducedFirst): acceptLoop announces before it starts the loops, and a
\* request to connect comes from a connection Emacs has stored.
THEOREM AnnouncedFirst == Spec => []IntroducedFirst
<1>1. Inv => IntroducedFirst
  BY FirstIsOrder DEF Inv, Types, IntroInv, Ordered
<1>. QED BY <1>1, InvHolds, PTL

\* The table of connections keeps no entry whose clean-up is over (NoStaleEntry):
\* the loop that swapped closed deletes it, and Disconnect deletes it first.
THEOREM TableClean == Spec => []NoStaleEntry
<1>1. Inv => NoStaleEntry
  BY DEF Inv, TableInv, NoStale, NoStaleEntry
<1>. QED BY <1>1, InvHolds, PTL
=============================================================================
