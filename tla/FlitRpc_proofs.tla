--------------------------- MODULE FlitRpc_proofs ---------------------------
(***************************************************************************)
(* Proofs about FlitRpc, for every number of requests and other messages,  *)
(* every nesting depth and every choice of large messages.  The last part  *)
(* shows that FlitRpc implements Rpc.                                      *)
(***************************************************************************)
EXTENDS FlitRpc, FiniteSetTheorems, SequenceTheorems, TLAPS

-----------------------------------------------------------------------------
(* Frames and activations are well typed.                                  *)

\* Names for the sets, so that a leaf need not look into them.
LEMMA TopType ==
    ASSUME stack \in Seq(Acts)
    PROVE  /\ Top \in Acts
           /\ Top.at # "idle" => stack # <<>>
<1>1. CASE stack = <<>>
  BY <1>1, RpcAssumption DEF Top, Acts, Act, RpcAssumption
<1>2. CASE stack # <<>>
  BY <1>2 DEF Top
<1> QED BY <1>1, <1>2

LEMMA StackEdits ==
    ASSUME stack \in Seq(Acts), NEW a \in Acts
    PROVE  /\ <<a>> \o stack \in Seq(Acts)
           /\ stack # <<>> => Tail(stack) \in Seq(Acts) /\ <<a>> \o Tail(stack) \in Seq(Acts)
OBVIOUS

LEMMA ActTypes ==
    ASSUME RpcAssumption
    PROVE  /\ \A at \in {"idle", "wait", "send", "parse", "handle"} : Act(at, 0) \in Acts
           /\ \A at \in {"idle", "wait", "send", "parse", "handle"}, c \in Calls : Act(at, c) \in Acts
BY RpcAssumption DEF Act, Acts, Calls, RpcAssumption

LEMMA Removals ==
    ASSUME NEW S, NEW s \in Seq(S), NEW n \in 0..Len(s)
    PROVE  /\ SubSeq(s, n + 1, Len(s)) \in Seq(S)
           /\ SubSeq(s, 1, n) \in Seq(S)
OBVIOUS

\* The shapes of frames, without the unions.
FrameShape(f) ==
    \/ f \in FrameSet({"response", "notification"}, Ids, Msgs, {1}, BOOLEAN)
    \/ f \in FrameSet({"continue"}, Ids, Msgs, {2}, {FALSE})
    \/ f \in FrameSet({"end"}, Ids, Msgs, {0}, {FALSE})
    \/ f \in FrameSet({"request"}, 1..MaxTraffic, {NoMsg}, {0}, {FALSE})
    \/ f = BadNote

UpShape(f) ==
    \/ f \in UpSet({"request"}, Calls, Calls, {"whole", "header"})
    \/ f \in UpSet({"request"}, {0}, Calls, {"rest"})
    \/ f \in UpSet({"response"}, 1..MaxTraffic, {0}, {"whole"})
    \/ f \in UpSet({"notification"}, {0}, {0}, {"whole"})

LEMMA Shapes ==
    /\ \A f : f \in Frames <=> FrameShape(f)
    /\ \A f : f \in UpFrames <=> UpShape(f)
<1>1. \A f : f \in Frames <=> FrameShape(f)
  BY DEF Frames, FrameShape
<1>2. \A f : f \in UpFrames <=> UpShape(f)
  BY DEF UpFrames, UpShape
<1> QED BY <1>1, <1>2

\* What a message is called, and that it is not NoMsg.
LEMMA MsgFacts ==
    ASSUME NEW m \in Msgs
    PROVE  /\ m # NoMsg /\ m[1] \in {"response", "notification"}
           /\ <<m, 1>> \in Parts /\ <<m, 2>> \in Parts
<1>1. m # NoMsg /\ m[1] \in {"response", "notification"}
  BY DEF Msgs, Response, Note, NoMsg
<1>2. <<m, 1>> \in Parts /\ <<m, 2>> \in Parts
  BY DEF Parts
<1> QED BY <1>1, <1>2

LEMMA ShortSeqs ==
    ASSUME NEW S, NEW a \in S, NEW b \in S, NEW c \in S
    PROVE  <<a>> \in Seq(S) /\ <<a, b, c>> \in Seq(S)
OBVIOUS

\* FramesOf makes frames, whatever the message and its id.
LEMMA FramesOfType ==
    ASSUME NEW m \in Msgs, NEW i \in Ids
    PROVE  FramesOf(m, i) \in Seq(Frames)
<1>1. /\ FrameShape(Frame(m[1], i, m, 1, TRUE))
      /\ FrameShape(Frame(m[1], i, m, 1, FALSE))
      /\ FrameShape(Frame("continue", i, m, 2, FALSE))
      /\ FrameShape(Frame("end", i, m, 0, FALSE))
  BY MsgFacts DEF FrameShape, FrameSet, Frame
<1>2. /\ Frame(m[1], i, m, 1, TRUE) \in Frames
      /\ Frame(m[1], i, m, 1, FALSE) \in Frames
      /\ Frame("continue", i, m, 2, FALSE) \in Frames
      /\ Frame("end", i, m, 0, FALSE) \in Frames
  BY <1>1, Shapes
<1>3. CASE m \in Large
  BY <1>2, <1>3, ShortSeqs DEF FramesOf
<1>4. CASE m \notin Large
  BY <1>2, <1>4, ShortSeqs DEF FramesOf
<1> QED BY <1>3, <1>4

\* The messages and ids a frame of each kind names.
FrameNames(f) ==
    /\ f.chunked \/ f.kind = "continue"
         => f.msg \in Msgs /\ f.id \in Ids /\ <<f.msg, f.part>> \in Parts
    /\ f.kind = "end" => f.id \in Ids
    /\ f.kind \in {"response", "notification"} => f.id \in Ids
    /\ f.kind \in {"response", "notification"} /\ f.msg # NoMsg
         => f.msg \in Msgs /\ <<f.msg, f.part>> \in Parts
    /\ f.kind = "notification" => f.msg # NoMsg
    /\ f.kind = "request" => f.id \in 1..MaxTraffic

LEMMA FrameFacts ==
    ASSUME NEW f \in Frames
    PROVE  FrameNames(f)
<1>1. FrameShape(f)
  BY Shapes
<1>2. 0 \in Ids
  BY RpcAssumption DEF Ids, RpcAssumption
<1>3. CASE f = BadNote
  BY <1>2, <1>3 DEF BadNote, Frame, FrameNames
<1>4. CASE f \in FrameSet({"response", "notification"}, Ids, Msgs, {1}, BOOLEAN)
  BY <1>4, MsgFacts DEF FrameSet, FrameNames
<1>5. CASE f \in FrameSet({"continue"}, Ids, Msgs, {2}, {FALSE})
  BY <1>5, MsgFacts DEF FrameSet, FrameNames
<1>6. CASE \/ f \in FrameSet({"end"}, Ids, Msgs, {0}, {FALSE})
           \/ f \in FrameSet({"request"}, 1..MaxTraffic, {NoMsg}, {0}, {FALSE})
  BY <1>6 DEF FrameSet, FrameNames
<1> QED BY <1>1, <1>3, <1>4, <1>5, <1>6 DEF FrameShape

LEMMA SpecialFrames ==
    /\ BadNote \in Frames
    /\ \A b \in 1..MaxTraffic : Beat(b) \in Frames
<1>1. \A b \in 1..MaxTraffic : FrameShape(Beat(b))
  BY DEF FrameShape, FrameSet, Beat, Frame
<1> QED BY <1>1, Shapes DEF FrameShape

LEMMA UpTypes ==
    /\ \A i \in Calls, c \in Calls : /\ Upward("request", i, c, "whole") \in UpFrames
                                     /\ Upward("request", i, c, "header") \in UpFrames
    /\ \A c \in Calls : Upward("request", 0, c, "rest") \in UpFrames
    /\ \A b \in 1..MaxTraffic : Upward("response", b, 0, "whole") \in UpFrames
    /\ Upward("notification", 0, 0, "whole") \in UpFrames
BY Shapes DEF UpShape, UpSet, Upward

LEMMA UpFacts ==
    ASSUME NEW f \in UpFrames, f.kind = "request", f.part # "rest"
    PROVE  f.id \in Calls /\ f.call \in Calls
BY Shapes DEF UpShape, UpSet

LEMMA WriteType ==
    ASSUME toServer \in Seq(UpFrames), NEW f \in UpFrames, WriteFrame(f)
    PROVE  toServer' \in Seq(UpFrames)
BY DEF WriteFrame

-----------------------------------------------------------------------------
(* Every step keeps the types: what Emacs does without frames.             *)

LEMMA Numbers ==
    /\ Calls \subseteq Ids /\ Calls \subseteq 0..MaxCalls /\ 0 \in 0..MaxCalls
    /\ \A n \in 0..MaxCalls : n < MaxCalls => n + 1 \in Calls
BY RpcAssumption DEF RpcAssumption, Calls, Ids

\* A table keeps its type when one entry is replaced.
LEMMA Table ==
    ASSUME NEW S, NEW T, NEW f \in [S -> T], NEW x, NEW t \in T
    PROVE  [f EXCEPT ![x] = t] \in [S -> T]
OBVIOUS

LEMMA RequestType ==
    ASSUME TypeOK, NEW k \in {"sync", "async"}, Request(k)
    PROVE  TypeOK'
<1>1. calls + 1 \in Calls /\ calls' = calls + 1 /\ calls' \in 0..MaxCalls
  BY Numbers DEF Request, TypeOK
<1>2. pending' \in [Ids -> 0..MaxCalls]
  <2>1. pending' = [pending EXCEPT ![NewId] = calls + 1]
    BY DEF Request
  <2> QED BY <1>1, <2>1, Numbers, Table DEF TypeOK
<1>3. kind' \in [Calls -> {"none", "sync", "async"}]
  <2>1. kind' = [kind EXCEPT ![calls + 1] = k]
    BY DEF Request
  <2> QED BY <2>1, Table DEF TypeOK
<1>4. stack' \in Seq(Acts) /\ toServer' \in Seq(UpFrames)
  BY <1>1, ActTypes, StackEdits, UpTypes, WriteType, RpcAssumption DEF Request, NewId, TypeOK
<1>5. UNCHANGED <<outcome, syncDone, buffer, chunks, got, toClient, conn, inputs, serverVars>>
  BY DEF Request
<1> QED BY <1>1, <1>2, <1>3, <1>4, <1>5 DEF TypeOK, serverVars

LEMMA SendRestType ==
    ASSUME TypeOK, NEW c \in Calls, SendRest(c)
    PROVE  TypeOK'
<1>1. stack # <<>>
  BY TopType DEF SendRest, Act, TypeOK
<1>2. stack' \in Seq(Acts)
  BY <1>1, ActTypes, StackEdits, RpcAssumption DEF SendRest, Replace, Pop, TypeOK
<1>3. toServer' \in Seq(UpFrames)
  BY UpTypes, WriteType DEF SendRest, TypeOK
<1> QED BY <1>2, <1>3 DEF SendRest, serverVars, TypeOK

LEMMA NotifyType ==
    ASSUME TypeOK, Notify
    PROVE  TypeOK'
<1>1. toServer' \in Seq(UpFrames)
  BY UpTypes, WriteType DEF Notify, TypeOK
<1>2. inputs' \in 0..MaxTraffic
  BY RpcAssumption DEF Notify, Traffic, TypeOK, RpcAssumption
<1> QED BY <1>1, <1>2 DEF Notify, emacsVars, serverVars, TypeOK

Outcomes == {"none", "ok", "timeout", "closed", "quit", "stale"}

\* One outcome is written.
LEMMA SettleType ==
    ASSUME TypeOK, NEW c, NEW how \in Outcomes, Settle(c, how)
    PROVE  outcome' \in [Calls -> Outcomes]
BY Table DEF TypeOK, Settle, Outcomes

LEMMA LoopType ==
    ASSUME TypeOK, NEW c \in Calls, Timeout(c) \/ Return(c) \/ Quit(c)
    PROVE  TypeOK'
<1>1. CASE Timeout(c)
  <2>1. outcome' \in [Calls -> Outcomes]
    BY <1>1, SettleType DEF Timeout, Outcomes
  <2>2. pending' \in [Ids -> 0..MaxCalls]
    BY <1>1, Numbers DEF Timeout, Forget, TypeOK
  <2>3. UNCHANGED <<stack, calls, kind, syncDone, buffer, chunks, got, toServer, toClient,
                    conn, inputs, serverVars>>
    BY <1>1 DEF Timeout
  <2> QED BY <2>1, <2>2, <2>3 DEF TypeOK, Outcomes, serverVars
<1>2. CASE Return(c)
  <2>1. stack # <<>>
    BY <1>2, TopType DEF Return, Act, TypeOK
  <2>2. stack' \in Seq(Acts)
    BY <1>2, <2>1, StackEdits, ActTypes, RpcAssumption DEF Return, Pop, TypeOK
  <2> QED BY <1>2, <2>2 DEF Return, serverVars, TypeOK
<1>3. CASE Quit(c)
  <2>1. outcome' \in [Calls -> Outcomes]
    BY <1>3, SettleType DEF Quit, Outcomes
  <2>2. stack' \in Seq(Acts)
    BY <1>3 DEF Quit
  <2>3. UNCHANGED <<calls, pending, kind, syncDone, buffer, chunks, got, toServer, toClient,
                    conn, inputs, serverVars>>
    BY <1>3 DEF Quit
  <2> QED BY <2>1, <2>2, <2>3 DEF TypeOK, Outcomes, serverVars
<1> QED BY <1>1, <1>2, <1>3

-----------------------------------------------------------------------------
(* The filter, the sentinel and the server keep the types.                 *)

LEMMA ReceiveType ==
    ASSUME TypeOK, NEW n \in {0, Len(toClient)}, Receive(n)
    PROVE  TypeOK'
<1>1. n \in 0..Len(toClient) /\ toClient \in Seq(Frames) /\ buffer \in Seq(Frames)
  BY DEF TypeOK
<1>2. toClient' \in Seq(Frames)
  BY <1>1, Removals DEF Receive
<1>3. SubSeq(toClient, 1, n) \in Seq(Frames)
  BY <1>1, Removals
<1>4. buffer' \in Seq(Frames)
  <2>1. buffer' = buffer \o SubSeq(toClient, 1, n)
    BY DEF Receive
  <2> QED BY <1>1, <1>3, <2>1
<1>5. stack' \in Seq(Acts)
  BY ActTypes, StackEdits, RpcAssumption DEF Receive, TypeOK
<1>6. UNCHANGED <<parseRest, pending, outcome, syncDone, chunks, got, toServer>>
  BY DEF Receive
<1> QED BY <1>2, <1>4, <1>5, <1>6 DEF TypeOK, parseRest, serverVars

\* The stack after a dispatch, or while a handler runs.
LEMMA DispatchStack ==
    ASSUME TypeOK, stack # <<>>
    PROVE  /\ \A done : AfterDispatch(done) => stack' \in Seq(Acts) /\ syncDone' \in BOOLEAN
           /\ Replace(Act("handle", 0)) => stack' \in Seq(Acts)
           /\ Pop => stack' \in Seq(Acts)
<1>1. /\ Tail(stack) \in Seq(Acts)
      /\ <<Act("parse", 0)>> \o Tail(stack) \in Seq(Acts)
      /\ <<Act("handle", 0)>> \o Tail(stack) \in Seq(Acts)
  BY ActTypes, StackEdits, RpcAssumption DEF TypeOK
<1> QED BY <1>1 DEF AfterDispatch, Replace, Pop

\* The variables a delivery writes.
DeliveryType ==
    /\ stack' \in Seq(Acts) /\ syncDone' \in BOOLEAN
    /\ pending' \in [Ids -> 0..MaxCalls]
    /\ outcome' \in [Calls -> Outcomes]
    /\ got' \in [Msgs -> Seq(Parts)]

LEMMA CompleteType ==
    ASSUME TypeOK, stack # <<>>, NEW id \in Ids, NEW m, NEW parts,
           m # NoMsg => parts \in Seq(Parts), CompleteRequest(id, m, parts)
    PROVE  DeliveryType
<1> DEFINE c == pending[id]
<1>1. CASE c = 0
  <2>1. AfterDispatch(syncDone) /\ UNCHANGED <<pending, outcome, got>>
    BY <1>1 DEF CompleteRequest
  <2> QED BY <2>1, DispatchStack DEF DeliveryType, TypeOK, Outcomes
<1>2. CASE c # 0
  <2>1. /\ pending' = [pending EXCEPT ![id] = 0]
        /\ Settle(c, IF outcome[c] = "quit" THEN "stale" ELSE "ok")
        /\ got' = IF m = NoMsg THEN got ELSE [got EXCEPT ![m] = parts]
        /\ AfterDispatch(TRUE) \/ (Replace(Act("handle", 0)) /\ UNCHANGED syncDone)
    BY <1>2 DEF CompleteRequest
  <2>2. pending' \in [Ids -> 0..MaxCalls]
    BY <2>1, Numbers, Table DEF TypeOK
  <2>3. outcome' \in [Calls -> Outcomes]
    BY <2>1, SettleType DEF Outcomes
  <2>4. got' \in [Msgs -> Seq(Parts)]
    BY <2>1, Table DEF TypeOK
  <2>5. stack' \in Seq(Acts) /\ syncDone' \in BOOLEAN
    BY <2>1, DispatchStack DEF TypeOK
  <2> QED BY <2>2, <2>3, <2>4, <2>5 DEF DeliveryType
<1> QED BY <1>1, <1>2

LEMMA DeliverType ==
    ASSUME TypeOK, stack # <<>>, NEW k, NEW id \in Ids, NEW m, NEW parts,
           m # NoMsg => parts \in Seq(Parts), k # "response" => m # NoMsg,
           Deliver(k, id, m, parts)
    PROVE  DeliveryType
<1>1. CASE k = "response"
  BY <1>1, CompleteType DEF Deliver
<1>2. CASE k # "response"
  <2>1. /\ got' = [got EXCEPT ![m] = parts]
        /\ Replace(Act("handle", 0))
        /\ UNCHANGED <<pending, outcome, syncDone>>
    BY <1>2 DEF Deliver
  <2>2. got' \in [Msgs -> Seq(Parts)]
    BY <1>2, <2>1, Table DEF TypeOK
  <2>3. stack' \in Seq(Acts)
    BY <2>1, DispatchStack
  <2> QED BY <2>1, <2>2, <2>3 DEF DeliveryType, TypeOK, Outcomes
<1> QED BY <1>1, <1>2

\* What is left to show of a step of the parse loop.
LEMMA ParseStepType ==
    ASSUME TypeOK, NEW f, TakeFrame(f), DeliveryType, chunks' \in [Ids -> Entries],
           toServer' \in Seq(UpFrames)
    PROVE  TypeOK'
<1>1. buffer' \in Seq(Frames)
  BY DEF TypeOK, TakeFrame
<1>2. UNCHANGED <<calls, kind, conn, inputs, handling, todo, notes, waiters, beats, toClient>>
  BY DEF TakeFrame, parseRest, serverVars
<1> QED BY <1>1, <1>2 DEF TypeOK, DeliveryType, Outcomes

LEMMA TakenFrame ==
    ASSUME TypeOK, NEW f, TakeFrame(f)
    PROVE  f \in Frames /\ FrameNames(f) /\ stack # <<>>
<1>1. f \in Frames
  BY DEF TakeFrame, TypeOK
<1>2. stack # <<>>
  BY DEF TakeFrame, Top, Act
<1> QED BY <1>1, <1>2, FrameFacts

LEMMA EntryFacts ==
    ASSUME NEW e \in Entries, e # NoEntry
    PROVE  e.msg \in Msgs /\ e.msg # NoMsg /\ e.parts \in Seq(Parts)
BY MsgFacts DEF Entries, NoEntry

LEMMA ExtendedType ==
    ASSUME NEW e \in Entries, e # NoEntry, NEW p \in Parts
    PROVE  Extended(e, p) \in Entries
<1>1. e.msg \in Msgs /\ Append(e.parts, p) \in Seq(Parts)
  BY EntryFacts
<1> QED BY <1>1 DEF Entries, Extended

LEMMA DispatchType ==
    ASSUME TypeOK, NEW f,
           \/ SeedChunks(f) \/ DispatchWhole(f) \/ DispatchRequest(f)
           \/ AccumulateChunk(f) \/ FinishChunks(f)
    PROVE  TypeOK'
<1>1. TakeFrame(f)
  BY DEF SeedChunks, DispatchWhole, DispatchRequest, AccumulateChunk, FinishChunks
<1>2. f \in Frames /\ FrameNames(f) /\ stack # <<>>
  BY <1>1, TakenFrame
<1>3. CASE SeedChunks(f)
  <2>1. f.msg \in Msgs /\ <<f.msg, f.part>> \in Parts
    BY <1>2, <1>3 DEF FrameNames, SeedChunks
  <2>2. [msg |-> f.msg, parts |-> <<<<f.msg, f.part>>>>] \in Entries
    BY <2>1, ShortSeqs DEF Entries
  <2>3. chunks' \in [Ids -> Entries]
    BY <1>3, <2>2, Table DEF SeedChunks, TypeOK
  <2>4. DeliveryType
    BY <1>2, <1>3, DispatchStack DEF SeedChunks, DeliveryType, TypeOK, Outcomes
  <2>5. toServer' \in Seq(UpFrames)
    BY <1>3 DEF SeedChunks, TypeOK
  <2> QED BY <1>1, <2>3, <2>4, <2>5, ParseStepType
<1>4. CASE DispatchWhole(f)
  <2>1. f.id \in Ids /\ (f.msg # NoMsg => <<f.msg, f.part>> \in Parts)
        /\ (f.kind # "response" => f.msg # NoMsg)
    BY <1>2, <1>4 DEF FrameNames, DispatchWhole
  <2>2. f.msg # NoMsg => <<<<f.msg, f.part>>>> \in Seq(Parts)
    BY <2>1, ShortSeqs
  <2>3. DeliveryType
    BY <1>2, <1>4, <2>1, <2>2, DeliverType DEF DispatchWhole
  <2>4. chunks' \in [Ids -> Entries] /\ toServer' \in Seq(UpFrames)
    BY <1>4 DEF DispatchWhole, TypeOK
  <2> QED BY <1>1, <2>3, <2>4, ParseStepType
<1>5. CASE DispatchRequest(f)
  <2>1. toServer' \in Seq(UpFrames)
    BY <1>2, <1>5, UpTypes, WriteType DEF FrameNames, DispatchRequest, TypeOK
  <2>2. DeliveryType
    BY <1>2, <1>5, DispatchStack DEF DispatchRequest, DeliveryType, TypeOK, Outcomes
  <2>3. chunks' \in [Ids -> Entries]
    BY <1>5 DEF DispatchRequest, TypeOK
  <2> QED BY <1>1, <2>1, <2>2, <2>3, ParseStepType
<1>6. CASE AccumulateChunk(f)
  <2>1. toServer' \in Seq(UpFrames)
    BY <1>6 DEF AccumulateChunk, TypeOK
  <2>2. f.id \in Ids /\ <<f.msg, f.part>> \in Parts
    BY <1>2, <1>6 DEF FrameNames, AccumulateChunk
  <2>3. CASE chunks[f.id] = NoEntry
    <3>1. Pop /\ UNCHANGED <<chunks, syncDone, pending, outcome, got>>
      BY <1>6, <2>3 DEF AccumulateChunk
    <3>2. DeliveryType /\ chunks' \in [Ids -> Entries]
      BY <1>2, <3>1, DispatchStack DEF DeliveryType, TypeOK, Outcomes
    <3> QED BY <1>1, <2>1, <3>2, ParseStepType
  <2>4. CASE chunks[f.id] # NoEntry
    <3> DEFINE e == chunks[f.id]
               new == Extended(e, <<f.msg, f.part>>)
    <3>1. /\ chunks' = [chunks EXCEPT ![f.id] = new]
          /\ AfterDispatch(syncDone) /\ UNCHANGED <<pending, outcome, got>>
      BY <1>6, <2>4 DEF AccumulateChunk
    <3>2. e \in Entries
      BY <2>2 DEF TypeOK
    <3>3. new \in Entries
      BY <2>2, <2>4, <3>2, ExtendedType
    <3>4. chunks' \in [Ids -> Entries]
      BY <3>1, <3>3, Table DEF TypeOK
    <3>5. DeliveryType
      BY <1>2, <3>1, DispatchStack DEF DeliveryType, TypeOK, Outcomes
    <3> QED BY <1>1, <2>1, <3>4, <3>5, ParseStepType
  <2> QED BY <2>3, <2>4
<1>7. CASE FinishChunks(f)
  <2>1. toServer' \in Seq(UpFrames)
    BY <1>7 DEF FinishChunks, TypeOK
  <2>2. chunks' \in [Ids -> Entries]
    <3>1. NoEntry \in Entries
      BY DEF Entries
    <3> QED BY <1>7, <3>1, Table DEF FinishChunks, TypeOK
  <2>3. f.id \in Ids /\ chunks[f.id] \in Entries
    BY <1>2, <1>7 DEF FrameNames, FinishChunks, TypeOK
  <2>4. CASE chunks[f.id] = NoEntry
    <3>1. AfterDispatch(syncDone) /\ UNCHANGED <<pending, outcome, got>>
      BY <1>7, <2>4 DEF FinishChunks
    <3>2. DeliveryType
      BY <1>2, <3>1, DispatchStack DEF DeliveryType, TypeOK, Outcomes
    <3> QED BY <1>1, <2>1, <2>2, <3>2, ParseStepType
  <2>5. CASE chunks[f.id] # NoEntry
    <3> DEFINE e == chunks[f.id]
    <3>1. Deliver(e.msg[1], f.id, e.msg, e.parts)
      BY <1>7, <2>5 DEF FinishChunks
    <3>2. e.msg # NoMsg /\ e.parts \in Seq(Parts)
      BY <2>3, <2>5, EntryFacts
    <3>3. DeliveryType
      BY <1>2, <2>3, <3>1, <3>2, DeliverType
    <3> QED BY <1>1, <2>1, <2>2, <3>3, ParseStepType
  <2> QED BY <2>4, <2>5
<1> QED BY <1>3, <1>4, <1>5, <1>6, <1>7

LEMMA ReturnFromFilterType ==
    ASSUME TypeOK, ParseEnd \/ HandlerReturns
    PROVE  TypeOK'
<1>1. stack # <<>>
  BY DEF ParseEnd, HandlerReturns, Top, Act
<1>2. CASE ParseEnd
  <2>1. stack' \in Seq(Acts)
    BY <1>1, <1>2, DispatchStack DEF ParseEnd
  <2> QED BY <1>2, <2>1 DEF ParseEnd, TypeOK, parseRest, serverVars
<1>3. CASE HandlerReturns
  <2>1. stack' \in Seq(Acts) /\ syncDone' \in BOOLEAN
    BY <1>1, <1>3, DispatchStack DEF HandlerReturns, TypeOK
  <2>2. UNCHANGED <<parseRest, pending, outcome, buffer, chunks, got, toServer, toClient>>
    BY <1>3 DEF HandlerReturns
  <2> QED BY <2>1, <2>2 DEF TypeOK, parseRest, serverVars
<1> QED BY <1>2, <1>3

LEMMA SentinelType ==
    ASSUME TypeOK, Sentinel
    PROVE  TypeOK'
<1> DEFINE failed == {pending[i] : i \in Ids} \ {0}
<1>1. outcome' \in [Calls -> Outcomes]
  <2>1. \A c \in Calls : (IF c \notin failed THEN outcome[c]
                         ELSE IF outcome[c] = "quit" THEN "stale" ELSE "closed") \in Outcomes
    BY DEF TypeOK, Outcomes
  <2>2. outcome' = [c \in Calls |-> IF c \notin failed THEN outcome[c]
                         ELSE IF outcome[c] = "quit" THEN "stale" ELSE "closed"]
    BY DEF Sentinel
  <2> QED BY <2>1, <2>2
<1>2. syncDone' \in BOOLEAN
  BY DEF Sentinel, TypeOK
<1>3. pending' \in [Ids -> 0..MaxCalls]
  BY Numbers DEF Sentinel
<1>4. conn' \in {"up", "broken", "closed"}
  BY DEF Sentinel
<1>5. UNCHANGED <<stack, calls, kind, buffer, chunks, got, toServer, toClient, inputs,
                  serverVars>>
  BY DEF Sentinel
<1> QED BY <1>1, <1>2, <1>3, <1>4, <1>5 DEF TypeOK, Outcomes, serverVars

\* What the server leaves alone.
LEMMA ServerRest ==
    ASSUME TypeOK, UNCHANGED serverRest,
           handling' \subseteq Calls \X Calls, todo' \in [Msgs -> Seq(Frames)],
           notes' \in 0..MaxTraffic, waiters' \subseteq 1..MaxTraffic,
           beats' \in 0..MaxTraffic, toServer' \in Seq(UpFrames), toClient' \in Seq(Frames)
    PROVE  TypeOK'
<1>1. UNCHANGED <<stack, calls, pending, kind, outcome, syncDone, buffer, chunks, got, conn, inputs>>
  BY DEF serverRest, emacsVars
<1> QED BY <1>1 DEF TypeOK

LEMMA ServeType ==
    ASSUME TypeOK, NEW n \in 1..2,
           ServeRequest(n) \/ ServeNotification(n) \/ ServeResponse(n)
    PROVE  TypeOK'
<1>1. Serve(n)
  BY DEF ServeRequest, ServeNotification, ServeResponse
<1>2. n \in 0..Len(toServer) /\ Len(toServer) \in Nat /\ toServer \in Seq(UpFrames)
  BY <1>1 DEF Serve, Decodable, TypeOK
<1>3. toServer' \in Seq(UpFrames)
  BY <1>1, <1>2, Removals DEF Serve
<1>4. toServer[1] \in UpFrames /\ toServer[1].part # "rest"
  BY <1>1, <1>2 DEF Serve, Decodable
<1>5. CASE ServeRequest(n)
  <2>1. toServer[1].id \in Calls /\ toServer[1].call \in Calls
    BY <1>4, <1>5, UpFacts DEF ServeRequest
  <2>2. handling' \subseteq Calls \X Calls
    BY <1>5, <2>1 DEF ServeRequest, TypeOK
  <2>3. UNCHANGED <<serverRest, toClient, todo, notes, waiters, beats>>
    BY <1>5 DEF ServeRequest
  <2> QED BY <1>3, <2>2, <2>3, ServerRest DEF TypeOK
<1>6. CASE ServeNotification(n)
  <2> DEFINE answered == Append(toClient, BadNote)
  <2>3. answered \in Seq(Frames)
    BY SpecialFrames DEF TypeOK
  <2>4. toClient' = toClient \/ toClient' = answered
    BY <1>6 DEF ServeNotification
  <2>1. toClient' \in Seq(Frames)
    BY <2>3, <2>4 DEF TypeOK
  <2>2. UNCHANGED <<serverRest, handling, todo, notes, waiters, beats>>
    BY <1>6 DEF ServeNotification
  <2> QED BY <1>3, <2>1, <2>2, ServerRest DEF TypeOK
<1>7. CASE ServeResponse(n)
  <2>1. waiters' \subseteq 1..MaxTraffic
    BY <1>7 DEF ServeResponse, TypeOK
  <2>2. UNCHANGED <<serverRest, toClient, handling, todo, notes, beats>>
    BY <1>7 DEF ServeResponse
  <2> QED BY <1>3, <2>1, <2>2, ServerRest DEF TypeOK
<1> QED BY <1>5, <1>6, <1>7

LEMMA AnswerType ==
    ASSUME TypeOK, NEW i \in Calls, NEW c \in Calls, Respond(i, c)
    PROVE  TypeOK'
<1>1. FramesOf(Response(c), i) \in Seq(Frames)
  BY FramesOfType, Numbers DEF Msgs
<1>2. todo' \in [Msgs -> Seq(Frames)]
  BY <1>1, Table DEF Respond, TypeOK
<1>3. handling' \subseteq Calls \X Calls
  BY DEF Respond, TypeOK
<1>4. UNCHANGED <<serverRest, toServer, toClient, notes, waiters, beats>>
  BY DEF Respond
<1> QED BY <1>2, <1>3, <1>4, ServerRest DEF TypeOK

LEMMA NotifyClientType ==
    ASSUME TypeOK, NotifyClient
    PROVE  TypeOK'
<1>1. notes + 1 \in 1..MaxTraffic
  BY RpcAssumption DEF NotifyClient, Traffic, TypeOK, RpcAssumption
<1>2. Note(notes + 1) \in Msgs /\ NoteId(notes + 1) \in Ids
  BY <1>1, RpcAssumption DEF Msgs, Notes, NoteId, Ids, RpcAssumption
<1>3. FramesOf(Note(notes + 1), NoteId(notes + 1)) \in Seq(Frames)
  BY <1>2, FramesOfType
<1>4. todo' \in [Msgs -> Seq(Frames)]
  BY <1>3, Table DEF NotifyClient, TypeOK
<1>5. notes' \in 0..MaxTraffic
  BY <1>1 DEF NotifyClient
<1>6. UNCHANGED <<serverRest, toServer, toClient, handling, waiters, beats>>
  BY DEF NotifyClient
<1> QED BY <1>4, <1>5, <1>6, ServerRest DEF TypeOK

LEMMA WriteRawType ==
    ASSUME TypeOK, NEW m \in Msgs, WriteRaw(m)
    PROVE  TypeOK'
<1>1. todo[m] \in Seq(Frames) /\ todo[m] # <<>>
  BY DEF TypeOK, WriteRaw
<1>2. Head(todo[m]) \in Frames /\ Tail(todo[m]) \in Seq(Frames)
  BY <1>1
<1>3. todo' \in [Msgs -> Seq(Frames)]
  BY <1>2, Table DEF WriteRaw, TypeOK
<1>4. toClient' \in Seq(Frames)
  BY <1>2 DEF WriteRaw, TypeOK
<1>5. UNCHANGED <<serverRest, toServer, handling, notes, waiters, beats>>
  BY DEF WriteRaw
<1> QED BY <1>3, <1>4, <1>5, ServerRest DEF TypeOK

LEMMA HeartbeatType ==
    ASSUME TypeOK, Heartbeat
    PROVE  TypeOK'
<1>1. beats + 1 \in 1..MaxTraffic
  BY RpcAssumption DEF Heartbeat, Traffic, TypeOK, RpcAssumption
<1>2. Beat(beats + 1) \in Frames
  BY <1>1, SpecialFrames
<1>3. toClient' \in Seq(Frames)
  BY <1>2 DEF Heartbeat, TypeOK
<1>4. beats' \in 0..MaxTraffic /\ waiters' \subseteq 1..MaxTraffic
  BY <1>1 DEF Heartbeat
<1>5. UNCHANGED <<serverRest, toServer, handling, todo, notes>>
  BY DEF Heartbeat
<1> QED BY <1>3, <1>4, <1>5, ServerRest DEF TypeOK

LEMMA BreakType ==
    ASSUME TypeOK, Break
    PROVE  TypeOK'
<1>1. toServer' \in Seq(UpFrames) /\ todo' \in [Msgs -> Seq(Frames)]
      /\ conn' \in {"up", "broken", "closed"} /\ handling' = {} /\ waiters' = {}
  BY DEF Break
<1>2. UNCHANGED <<stack, calls, pending, kind, outcome, syncDone, buffer, chunks, got,
                  toClient, inputs, notes, beats>>
  BY DEF Break, emacsVars
<1> QED BY <1>1, <1>2 DEF TypeOK

LEMMA InitType == Init => TypeOK
<1> SUFFICES ASSUME Init PROVE TypeOK
  OBVIOUS
<1>1. NoEntry \in Entries
  BY DEF Entries
<1>2. /\ pending \in [Ids -> 0..MaxCalls] /\ outcome \in [Calls -> Outcomes]
      /\ kind \in [Calls -> {"none", "sync", "async"}]
      /\ chunks \in [Ids -> Entries] /\ todo \in [Msgs -> Seq(Frames)]
      /\ got \in [Msgs -> Seq(Parts)]
  BY <1>1, Numbers DEF Init, Outcomes
<1>3. /\ stack \in Seq(Acts) /\ buffer \in Seq(Frames) /\ toClient \in Seq(Frames)
      /\ toServer \in Seq(UpFrames)
  BY DEF Init
<1>4. handling \subseteq Calls \X Calls /\ waiters \subseteq 1..MaxTraffic
  BY DEF Init
<1>5. conn \in {"up", "broken", "closed"} /\ syncDone \in BOOLEAN
  BY DEF Init
<1>6. /\ calls \in 0..MaxCalls
      /\ inputs \in 0..MaxTraffic /\ notes \in 0..MaxTraffic /\ beats \in 0..MaxTraffic
  BY RpcAssumption DEF Init, RpcAssumption
<1> QED BY <1>2, <1>3, <1>4, <1>5, <1>6 DEF TypeOK, Outcomes

LEMMA StepType == TypeOK /\ [Next]_vars => TypeOK'
<1> SUFFICES ASSUME TypeOK, [Next]_vars PROVE TypeOK'
  OBVIOUS
<1>1. CASE User
  BY <1>1, RequestType, NotifyType, LoopType DEF User
<1>2. CASE Loops
  BY <1>2, SendRestType, LoopType DEF Loops
<1>3. CASE Filter
  BY <1>3, ReturnFromFilterType, DispatchType DEF Filter, Dispatch
<1>4. CASE Reading
  BY <1>4, ReceiveType, SentinelType DEF Reading
<1>5. CASE Server
  BY <1>5, ServeType, AnswerType, NotifyClientType, WriteRawType, HeartbeatType, BreakType
  DEF Server
<1>6. CASE UNCHANGED vars
  <2>1. /\ UNCHANGED <<stack, calls, pending, kind, outcome, syncDone, buffer, chunks, got>>
        /\ UNCHANGED <<toServer, toClient, conn, inputs, handling, todo, notes, waiters, beats>>
    BY <1>6 DEF vars, emacsVars, serverVars
  <2> QED BY <2>1 DEF TypeOK
<1> QED BY <1>1, <1>2, <1>3, <1>4, <1>5, <1>6 DEF Next

\* Type correctness of the transport, of both ends and of the streams: every
\* frame that is written, read or put together is one the protocol knows.
THEOREM TypeCorrect == Spec => []TypeOK
BY InitType, StepType, PTL DEF Spec
-----------------------------------------------------------------------------
(* A callback runs at most once.  An id is never reused, so an entry of    *)
(* pending stands for its own call, and what is settled (but by C-g) is    *)
(* pending no more; calls on the stack have started.                       *)

Started(n) == {a \in Acts : a.call <= n}

PendingOk ==
    /\ \A i \in Ids : pending[i] # 0 =>
           pending[i] = i /\ i \in Calls /\ i <= calls /\ outcome[i] \in {"none", "quit"}
    /\ \A c \in Calls : c > calls => outcome[c] = "none"

CallInv ==
    /\ TypeOK
    /\ stack \in Seq(Started(calls))
    /\ PendingOk

NoLateStep == \A c \in Calls : outcome[c] \notin {"none", "quit"} => outcome'[c] = outcome[c]

LEMMA QuietStep ==
    ASSUME CallInv, UNCHANGED <<calls, pending, outcome>>
    PROVE  PendingOk' /\ NoLateStep
BY DEF CallInv, PendingOk, NoLateStep

LEMMA StartedActs ==
    ASSUME TypeOK
    PROVE  /\ \A at \in {"idle", "wait", "send", "parse", "handle"}, n \in 0..MaxCalls :
                  Act(at, 0) \in Started(n)
           /\ \A at \in {"idle", "wait", "send", "parse", "handle"}, c \in Calls :
                  Act(at, c) \in Started(c)
<1>1. \A at \in {"idle", "wait", "send", "parse", "handle"}, c \in 0..MaxCalls :
         Act(at, c) \in Acts /\ Act(at, c).call = c
  BY DEF Act, Acts
<1>2. /\ \A n \in 0..MaxCalls : 0 <= n
      /\ \A c \in Calls : c \in 0..MaxCalls /\ c <= c
      /\ 0 \in 0..MaxCalls
  BY RpcAssumption DEF Calls, RpcAssumption
<1> QED BY <1>1, <1>2 DEF Started

LEMMA StackKept ==
    ASSUME CallInv, stack # <<>>, UNCHANGED calls,
           \/ Pop
           \/ Replace(Act("handle", 0))
           \/ \E done \in BOOLEAN : AfterDispatch(done)
    PROVE  stack' \in Seq(Started(calls'))
<1> DEFINE S == Started(calls)
<1>1. stack \in Seq(S) /\ Act("parse", 0) \in S /\ Act("handle", 0) \in S
  BY StartedActs DEF CallInv, TypeOK
<1> HIDE DEF S
<1>2. /\ Tail(stack) \in Seq(S)
      /\ <<Act("parse", 0)>> \o Tail(stack) \in Seq(S)
      /\ <<Act("handle", 0)>> \o Tail(stack) \in Seq(S)
  BY <1>1
<1>3. stack' \in Seq(S)
  BY <1>2 DEF Pop, Replace, AfterDispatch
<1> QED BY <1>3 DEF S

LEMMA CompleteSafe ==
    ASSUME CallInv, NEW id \in Ids, NEW m, NEW parts,
           CompleteRequest(id, m, parts), UNCHANGED calls
    PROVE  PendingOk' /\ NoLateStep
<1>1. CASE pending[id] = 0
  <2>1. UNCHANGED <<calls, pending, outcome>>
    BY <1>1 DEF CompleteRequest
  <2> QED BY <2>1, QuietStep
<1>2. CASE pending[id] # 0
  <2>1. /\ pending[id] = id /\ id \in Calls /\ id <= calls
        /\ outcome[id] \in {"none", "quit"}
    BY <1>2 DEF CallInv, PendingOk
  <2>2. pending' = [pending EXCEPT ![id] = 0]
        /\ \E how : outcome' = [outcome EXCEPT ![id] = how]
    BY <1>2, <2>1 DEF CompleteRequest, Settle
  <2>3. PICK how : outcome' = [outcome EXCEPT ![id] = how]
    BY <2>2
  <2>4. NoLateStep
    BY <2>1, <2>3 DEF NoLateStep, CallInv, TypeOK
  <2>5. PendingOk'
    <3>1. ASSUME NEW i \in Ids, pending'[i] # 0
          PROVE  pending'[i] = i /\ i \in Calls /\ i <= calls' /\ outcome'[i] \in {"none", "quit"}
      <4>1. i # id /\ pending'[i] = pending[i] /\ outcome'[i] = outcome[i]
        BY <2>2, <2>3, <3>1 DEF CallInv, TypeOK
      <4> QED BY <3>1, <4>1 DEF CallInv, PendingOk
    <3>2. ASSUME NEW c \in Calls, c > calls'
          PROVE  outcome'[c] = "none"
      <4>1. c # id
        BY <2>1, <3>2 DEF CallInv, TypeOK, Calls
      <4> QED BY <2>3, <3>2, <4>1 DEF CallInv, PendingOk, TypeOK
    <3> QED BY <3>1, <3>2 DEF PendingOk
  <2> QED BY <2>4, <2>5
<1> QED BY <1>1, <1>2

\* What remains of the invariant when the types are known to be kept.
CallStep == stack' \in Seq(Started(calls')) /\ PendingOk' /\ NoLateStep

LEMMA DeliverSafe ==
    ASSUME CallInv, stack # <<>>, NEW k, NEW id \in Ids, NEW m, NEW parts,
           Deliver(k, id, m, parts), UNCHANGED calls
    PROVE  CallStep
<1>1. CASE k = "response"
  <2>1. CompleteRequest(id, m, parts)
    BY <1>1 DEF Deliver
  <2>2. Replace(Act("handle", 0)) \/ AfterDispatch(TRUE) \/ AfterDispatch(syncDone)
    BY <2>1 DEF CompleteRequest
  <2>3. stack' \in Seq(Started(calls'))
    BY <2>2, StackKept DEF CallInv, TypeOK
  <2> QED BY <2>1, <2>3, CompleteSafe DEF CallStep
<1>2. CASE k # "response"
  <2>1. Replace(Act("handle", 0)) /\ UNCHANGED <<calls, pending, outcome>>
    BY <1>2 DEF Deliver
  <2> QED BY <2>1, StackKept, QuietStep DEF CallStep
<1> QED BY <1>1, <1>2

LEMMA DispatchSafe ==
    ASSUME CallInv, NEW f,
           \/ SeedChunks(f) \/ DispatchWhole(f) \/ DispatchRequest(f)
           \/ AccumulateChunk(f) \/ FinishChunks(f)
    PROVE  CallStep
<1>1. TakeFrame(f)
  BY DEF SeedChunks, DispatchWhole, DispatchRequest, AccumulateChunk, FinishChunks
<1>2. FrameNames(f) /\ stack # <<>> /\ syncDone \in BOOLEAN
  BY <1>1, TakenFrame DEF CallInv, TypeOK
<1>3. UNCHANGED calls
  BY <1>1 DEF TakeFrame, parseRest
<1>4. ASSUME UNCHANGED <<pending, outcome>>, Pop \/ AfterDispatch(syncDone)
      PROVE  CallStep
  BY <1>2, <1>3, <1>4, StackKept, QuietStep DEF CallStep
<1>5. CASE SeedChunks(f)
  BY <1>4, <1>5 DEF SeedChunks
<1>6. CASE DispatchRequest(f)
  BY <1>4, <1>6 DEF DispatchRequest
<1>7. CASE AccumulateChunk(f)
  BY <1>4, <1>7 DEF AccumulateChunk
<1>8. CASE DispatchWhole(f)
  <2>1. f.id \in Ids /\ Deliver(f.kind, f.id, f.msg, <<<<f.msg, f.part>>>>)
    BY <1>2, <1>8 DEF DispatchWhole, FrameNames
  <2> QED BY <1>2, <1>3, <2>1, DeliverSafe
<1>9. CASE FinishChunks(f)
  <2>1. CASE chunks[f.id] = NoEntry
    BY <1>4, <1>9, <2>1 DEF FinishChunks
  <2>2. CASE chunks[f.id] # NoEntry
    <3> DEFINE e == chunks[f.id]
    <3>1. f.id \in Ids /\ Deliver(e.msg[1], f.id, e.msg, e.parts)
      BY <1>2, <1>9, <2>2 DEF FinishChunks, FrameNames
    <3> QED BY <1>2, <1>3, <3>1, DeliverSafe
  <2> QED BY <2>1, <2>2
<1> QED BY <1>5, <1>6, <1>7, <1>8, <1>9

LEMMA RequestSafe ==
    ASSUME CallInv, NEW k \in {"sync", "async"}, Request(k)
    PROVE  CallStep
<1> DEFINE c == calls + 1
           S == Started(c)
<1>1. /\ c \in Calls /\ c \in Ids /\ c # 0 /\ c > calls /\ calls < c
      /\ calls \in 0..MaxCalls /\ calls' = c /\ UNCHANGED outcome
      /\ pending' = [pending EXCEPT ![c] = c]
  BY Numbers DEF Request, NewId, CallInv, TypeOK
<1>2. stack' \in Seq(S)
  <2>1. Act("wait", c) \in S /\ Act("send", c) \in S
    BY <1>1, StartedActs DEF CallInv
  <2>2. Started(calls) \subseteq S
    BY <1>1 DEF Started, Acts
  <2>3. stack \in Seq(S)
    BY <2>2 DEF CallInv
  <2> HIDE DEF S
  <2>4. <<Act("wait", c)>> \o stack \in Seq(S) /\ <<Act("send", c)>> \o stack \in Seq(S)
    BY <2>1, <2>3
  <2> QED BY <2>3, <2>4 DEF Request
<1>3. NoLateStep
  BY <1>1 DEF NoLateStep
<1>4. ASSUME NEW i \in Ids, pending'[i] # 0
      PROVE  pending'[i] = i /\ i \in Calls /\ i <= calls' /\ outcome'[i] \in {"none", "quit"}
  <2>1. CASE i = c
    <3>1. pending'[i] = c
      BY <1>1, <2>1 DEF CallInv, TypeOK
    <3>2. outcome[c] = "none"
      BY <1>1 DEF CallInv, PendingOk
    <3>3. c <= calls'
      BY <1>1
    <3> QED BY <1>1, <2>1, <3>1, <3>2, <3>3
  <2>2. CASE i # c
    <3>1. pending'[i] = pending[i]
      BY <1>1, <2>2 DEF CallInv, TypeOK
    <3>2. pending[i] = i /\ i \in Calls /\ i <= calls /\ outcome[i] \in {"none", "quit"}
      BY <1>4, <3>1 DEF CallInv, PendingOk
    <3>3. i <= calls'
      BY <1>1, <3>2 DEF Calls
    <3> QED BY <1>1, <3>1, <3>2, <3>3
  <2> QED BY <2>1, <2>2
<1>5. ASSUME NEW d \in Calls, d > calls'
      PROVE  outcome'[d] = "none"
  <2>1. d > calls
    BY <1>1, <1>5 DEF Calls
  <2> QED BY <1>1, <2>1 DEF CallInv, PendingOk
<1> QED BY <1>1, <1>2, <1>3, <1>4, <1>5 DEF CallStep, PendingOk

\* A call on top of the stack has started.
LEMMA TopStarted ==
    ASSUME CallInv, NEW c \in Calls,
           \/ Top = Act("wait", c) \/ Top = Act("send", c)
           \/ stack = <<Act("wait", c)>> \/ stack = <<Act("send", c)>>
    PROVE  stack # <<>> /\ c <= calls /\ Act("wait", c) \in Started(calls)
<1>1. stack # <<>> /\ (Head(stack) = Act("wait", c) \/ Head(stack) = Act("send", c))
  <2>1. CASE Top = Act("wait", c) \/ Top = Act("send", c)
    <3>1. stack # <<>>
      BY <2>1 DEF Top, Act
    <3> QED BY <2>1, <3>1 DEF Top
  <2>2. CASE stack = <<Act("wait", c)>> \/ stack = <<Act("send", c)>>
    BY <2>2
  <2> QED BY <2>1, <2>2
<1>2. Head(stack) \in Started(calls)
  BY <1>1 DEF CallInv
<1>3. c <= calls
  BY <1>1, <1>2 DEF Started, Act
<1>4. Act("wait", c) \in Acts /\ Act("wait", c).call = c
  BY ActTypes, RpcAssumption DEF Act
<1> QED BY <1>1, <1>3, <1>4 DEF Started

LEMMA LoopSafe ==
    ASSUME CallInv, NEW c \in Calls, SendRest(c) \/ Timeout(c) \/ Return(c) \/ Quit(c)
    PROVE  CallStep
<1> DEFINE S == Started(calls)
<1>1. stack # <<>> /\ c <= calls /\ Act("wait", c) \in S
  BY TopStarted DEF SendRest, Timeout, Return, Quit
<1>2. stack \in Seq(S) /\ calls' = calls
  BY DEF CallInv, SendRest, Timeout, Return, Quit
<1>3. stack' \in Seq(Started(calls'))
  <2> HIDE DEF S
  <2>1. /\ Tail(stack) \in Seq(S) /\ <<>> \in Seq(S)
        /\ <<Act("wait", c)>> \o Tail(stack) \in Seq(S)
    BY <1>1, <1>2
  <2>2. stack' \in Seq(S)
    BY <1>2, <2>1 DEF SendRest, Timeout, Return, Quit, Pop, Replace
  <2> QED BY <1>2, <2>2 DEF S
<1>4. CASE SendRest(c) \/ Return(c)
  <2>1. UNCHANGED <<calls, pending, outcome>>
    BY <1>4 DEF SendRest, Return
  <2> QED BY <1>3, <2>1, QuietStep DEF CallStep
<1>5. ASSUME outcome[c] = "none", NEW how, outcome' = [outcome EXCEPT ![c] = how]
      PROVE  /\ NoLateStep
             /\ \A d \in Calls : d # c => outcome'[d] = outcome[d]
             /\ \A d \in Calls : d > calls' => outcome'[d] = "none"
  <2>1. \A d \in Calls : d > calls => d # c
    BY <1>1 DEF CallInv, TypeOK, Calls
  <2> QED BY <1>2, <1>5, <2>1 DEF NoLateStep, CallInv, PendingOk, TypeOK
<1>6. CASE Timeout(c)
  <2>1. outcome[c] = "none" /\ outcome' = [outcome EXCEPT ![c] = "timeout"]
        /\ pending' = [i \in Ids |-> IF pending[i] = c THEN 0 ELSE pending[i]]
    BY <1>6 DEF Timeout, Settle, Forget
  <2>2. ASSUME NEW i \in Ids, pending'[i] # 0
        PROVE  pending'[i] = i /\ i \in Calls /\ i <= calls' /\ outcome'[i] \in {"none", "quit"}
    <3>1. pending'[i] = pending[i] /\ pending[i] # c
      BY <2>1, <2>2
    <3>2. pending[i] = i /\ i \in Calls /\ i <= calls /\ outcome[i] \in {"none", "quit"}
      BY <2>2, <3>1 DEF CallInv, PendingOk
    <3> QED BY <1>2, <1>5, <2>1, <3>1, <3>2
  <2> QED BY <1>3, <1>5, <2>1, <2>2 DEF CallStep, PendingOk
<1>7. CASE Quit(c)
  <2>1. outcome[c] = "none" /\ outcome' = [outcome EXCEPT ![c] = "quit"]
        /\ UNCHANGED pending
    BY <1>7 DEF Quit, Settle
  <2>2. outcome'[c] = "quit"
    BY <2>1 DEF CallInv, TypeOK
  <2>3. ASSUME NEW i \in Ids, pending'[i] # 0
        PROVE  pending'[i] = i /\ i \in Calls /\ i <= calls' /\ outcome'[i] \in {"none", "quit"}
    <3>1. pending[i] = i /\ i \in Calls /\ i <= calls /\ outcome[i] \in {"none", "quit"}
      BY <2>1, <2>3 DEF CallInv, PendingOk
    <3> QED BY <1>2, <1>5, <2>1, <2>2, <3>1
  <2> QED BY <1>3, <1>5, <2>1, <2>3 DEF CallStep, PendingOk
<1> QED BY <1>4, <1>6, <1>7

LEMMA SentinelSafe ==
    ASSUME CallInv, Sentinel
    PROVE  CallStep
<1> DEFINE failed == {pending[i] : i \in Ids} \ {0}
<1>1. \A c \in failed : c \in Calls /\ c <= calls /\ outcome[c] \in {"none", "quit"}
  BY DEF CallInv, PendingOk
<1>2. \A c \in Calls : c \notin failed => outcome'[c] = outcome[c]
  BY DEF Sentinel
<1>3. UNCHANGED <<stack, calls>> /\ pending' = [i \in Ids |-> 0]
  BY DEF Sentinel
<1> HIDE DEF failed
<1>4. NoLateStep
  BY <1>1, <1>2 DEF NoLateStep
<1>5. ASSUME NEW c \in Calls, c > calls'
      PROVE  outcome'[c] = "none"
  <2>1. c \notin failed
    BY <1>1, <1>3, <1>5 DEF CallInv, TypeOK, Calls
  <2> QED BY <1>2, <1>3, <1>5, <2>1 DEF CallInv, PendingOk
<1> QED BY <1>3, <1>4, <1>5 DEF CallStep, PendingOk, CallInv

LEMMA OtherSafe ==
    ASSUME CallInv, \/ Notify \/ Server \/ ParseEnd \/ HandlerReturns \/ UNCHANGED vars
                    \/ \E n \in {0, Len(toClient)} : Receive(n)
    PROVE  CallStep
<1> DEFINE S == Started(calls)
<1>1. CASE Notify \/ Server \/ UNCHANGED vars
  <2>1. UNCHANGED emacsVars
    BY <1>1 DEF Notify, Server, vars, ServeRequest, ServeNotification, ServeResponse, Respond,
                WriteRaw, NotifyClient, Heartbeat, Break, serverRest
  <2>2. UNCHANGED <<stack, calls, pending, outcome>>
    BY <2>1 DEF emacsVars
  <2> QED BY <2>2, QuietStep DEF CallStep, CallInv
<1>2. CASE ParseEnd \/ HandlerReturns
  <2>1. stack # <<>> /\ syncDone \in BOOLEAN
    BY <1>2 DEF ParseEnd, HandlerReturns, Top, Act, CallInv, TypeOK
  <2>2. UNCHANGED <<calls, pending, outcome>> /\ (Pop \/ AfterDispatch(syncDone))
    BY <1>2 DEF ParseEnd, HandlerReturns, parseRest
  <2> QED BY <2>1, <2>2, StackKept, QuietStep DEF CallStep
<1>3. CASE \E n \in {0, Len(toClient)} : Receive(n)
  <2>1. UNCHANGED <<calls, pending, outcome>> /\ stack' = <<Act("parse", 0)>> \o stack
    BY <1>3 DEF Receive, parseRest
  <2>2. Act("parse", 0) \in S /\ stack \in Seq(S)
    BY StartedActs DEF CallInv, TypeOK
  <2> HIDE DEF S
  <2>3. stack' \in Seq(S)
    BY <2>1, <2>2
  <2>4. stack' \in Seq(Started(calls'))
    BY <2>1, <2>3 DEF S
  <2> QED BY <2>1, <2>4, QuietStep DEF CallStep
<1> QED BY <1>1, <1>2, <1>3

LEMMA CallStepHolds ==
    ASSUME CallInv, [Next]_vars
    PROVE  CallStep
<1>1. CASE User
  BY <1>1, RequestSafe, LoopSafe, OtherSafe DEF User
<1>2. CASE Loops
  BY <1>2, LoopSafe DEF Loops
<1>3. CASE Filter
  BY <1>3, DispatchSafe, OtherSafe DEF Filter, Dispatch
<1>4. CASE Reading
  BY <1>4, SentinelSafe, OtherSafe DEF Reading
<1>5. CASE Server \/ UNCHANGED vars
  BY <1>5, OtherSafe
<1> QED BY <1>1, <1>2, <1>3, <1>4, <1>5 DEF Next

LEMMA CallInvInit == Init => CallInv
<1> SUFFICES ASSUME Init PROVE CallInv
  OBVIOUS
<1>1. TypeOK
  BY InitType
<1>2. stack \in Seq(Started(calls))
  BY DEF Init
<1>3. PendingOk
  BY DEF Init, PendingOk
<1> QED BY <1>1, <1>2, <1>3 DEF CallInv

LEMMA CallInvStep == CallInv /\ [Next]_vars => CallInv'
<1> SUFFICES ASSUME CallInv, [Next]_vars PROVE CallInv'
  OBVIOUS
<1>1. TypeOK'
  BY StepType DEF CallInv
<1> QED BY <1>1, CallStepHolds DEF CallInv, CallStep

\* A callback runs at most once and never for a caller that stopped waiting:
\* once a request has an outcome, other than being abandoned with C-g, neither
\* a late answer nor the end of the connection changes it.
THEOREM CallbackRunsOnce == Spec => NoLateCallback
<1>1. CallInv /\ [Next]_vars => [NoLateStep]_vars
  BY CallStepHolds DEF CallStep
<1> QED BY <1>1, CallInvInit, CallInvStep, PTL DEF Spec, NoLateCallback, NoLateStep

-----------------------------------------------------------------------------
(* Messages stay whole and answers go to their own request.  Frames are    *)
(* counted from the head of what Emacs has not parsed yet: reading moves   *)
(* frames from the stream to the buffer and leaves that sequence alone.    *)

\* The id a message travels under.
IdOf(m) == IF m[1] = "response" THEN m[2] ELSE -m[2]

Labelled(f) == f.msg \in Msgs =>
    /\ f.id = IdOf(f.msg)
    /\ f.kind \in {"response", "notification"} =>
           f.kind = f.msg[1] /\ f.part = 1 /\ (f.chunked <=> f.msg \in Large)
    /\ f.kind \in {"continue", "end"} => f.msg \in Large
Good == {f \in Frames : Labelled(f)}
GoodUp == {f \in UpFrames : f.kind = "request" /\ f.part # "rest" => f.id = f.call}

\* Frames and entries carry the id of their message, requests that of their call.
Streams == toClient \in Seq(Good) /\ buffer \in Seq(Good)
Asked == toServer \in Seq(GoodUp) /\ \A h \in handling : h[1] = h[2]
Writing == todo \in [Msgs -> Seq(Good)]
Stored == \A i \in Ids : chunks[i] # NoEntry =>
    IdOf(chunks[i].msg) = i /\ chunks[i].parts # <<>>
Labels == Streams /\ Asked /\ Writing /\ Stored

\* What Emacs has not parsed yet, the place of a frame in its message, and
\* the entry when n parts of a message were read.
Pipe == buffer \o toClient
Rank(f) == IF f.kind = "continue" THEN 2 ELSE IF f.kind = "end" THEN 3 ELSE 1
Seen(m, n) == [msg |-> m, parts |-> IF n = 1 THEN <<<<m, 1>>>> ELSE <<<<m, 1>>, <<m, 2>>>>]

\* A frame of rank r of m at position i of s continues what precedes it there,
\* or what was read.
Follows(s, ch, i, m, r) ==
    \/ r = 1
    \/ \E j \in 1..(i - 1) : /\ s[j].msg = m /\ Rank(s[j]) = r - 1
                             /\ \A k \in (j + 1)..(i - 1) : s[k].msg # m
    \/ (\A k \in 1..(i - 1) : s[k].msg # m) /\ ch[IdOf(m)] = Seen(m, r - 1)

Chained(s, ch) == \A i \in 1..Len(s) :
    s[i].msg \in Msgs => Follows(s, ch, i, s[i].msg, Rank(s[i]))
Rising == \A m \in Msgs : \A k \in 1..Len(todo[m]) :
    todo[m][k].msg = m /\ Rank(todo[m][k]) = Rank(todo[m][1]) + k - 1
Continued == \A m \in Msgs : todo[m] # <<>> =>
    Follows(Pipe, chunks, Len(Pipe) + 1, m, Rank(todo[m][1]))
Order == Chained(Pipe, chunks) /\ Rising /\ Continued

LEMMA MsgIds ==
    /\ \A m \in Msgs : IdOf(m) \in Ids
    /\ \A m, n \in Msgs : IdOf(m) = IdOf(n) => m = n
    /\ \A c \in Calls : Response(c) \in Msgs /\ IdOf(Response(c)) = c
    /\ \A n \in Notes : Note(n) \in Msgs /\ IdOf(Note(n)) = NoteId(n) /\ NoteId(n) < 0
    /\ \A m \in Msgs : m[1] = "response" => IdOf(m) \in Calls /\ m = Response(IdOf(m))
    /\ \A m \in Msgs : m[1] # "response" => IdOf(m) \notin Calls
<1> USE RpcAssumption DEF RpcAssumption, Msgs, Response, Note, IdOf, Ids, NoteId, Calls, Notes
<1>1. /\ \A c \in Calls : Response(c) \in Msgs /\ IdOf(Response(c)) = c /\ Response(c)[1] = "response"
      /\ \A n \in Notes : /\ Note(n) \in Msgs /\ IdOf(Note(n)) = NoteId(n) /\ NoteId(n) < 0
                          /\ Note(n)[1] = "notification"
  OBVIOUS
<1>2. \A m \in Msgs : (\E c \in Calls : m = Response(c)) \/ (\E n \in Notes : m = Note(n))
  OBVIOUS
<1>3. \A m \in Msgs : IdOf(m) \in Ids
  OBVIOUS
<1>4. \A m \in Msgs : m[1] = "response" => IdOf(m) \in Calls /\ m = Response(IdOf(m))
  OBVIOUS
<1>5. \A m \in Msgs : m[1] # "response" => IdOf(m) \notin Calls /\ m = Note(-IdOf(m))
  OBVIOUS
<1>6. \A m, n \in Msgs : IdOf(m) = IdOf(n) => m = n
  BY <1>3, <1>4, <1>5
<1>. QED BY <1>1, <1>3, <1>4, <1>5, <1>6

LEMMA FramesOfGood ==
    ASSUME NEW m \in Msgs
    PROVE  /\ FramesOf(m, IdOf(m)) \in Seq(Good)
           /\ FramesOf(m, IdOf(m)) # <<>>
           /\ \A k \in 1..Len(FramesOf(m, IdOf(m))) :
                  /\ FramesOf(m, IdOf(m))[k].msg = m
                  /\ Rank(FramesOf(m, IdOf(m))[k]) = k
<1> DEFINE i == IdOf(m)
           a == Frame(m[1], i, m, 1, TRUE)
           b == Frame("continue", i, m, 2, FALSE)
           e == Frame("end", i, m, 0, FALSE)
           w == Frame(m[1], i, m, 1, FALSE)
<1>1. i \in Ids /\ m[1] \in {"response", "notification"}
  BY MsgIds, MsgFacts
<1>2. FrameShape(a) /\ FrameShape(b) /\ FrameShape(e) /\ FrameShape(w)
  BY <1>1 DEF FrameShape, FrameSet, Frame
<1>3. a \in Frames /\ b \in Frames /\ e \in Frames /\ w \in Frames
  BY <1>2, Shapes
<1>4. /\ a.msg = m /\ b.msg = m /\ e.msg = m /\ w.msg = m
      /\ Rank(a) = 1 /\ Rank(b) = 2 /\ Rank(e) = 3 /\ Rank(w) = 1
  BY <1>1 DEF Rank, Frame
<1>5. CASE m \in Large
  <2>1. Labelled(a) /\ Labelled(b) /\ Labelled(e)
    BY <1>1, <1>5 DEF Labelled, Frame
  <2>2. a \in Good /\ b \in Good /\ e \in Good
    BY <1>3, <2>1 DEF Good
  <2>3. FramesOf(m, i) = <<a, b, e>>
    BY <1>5 DEF FramesOf
  <2> HIDE DEF a, b, e, i
  <2>. QED BY <1>4, <2>2, <2>3 DEF i
<1>6. CASE m \notin Large
  <2>1. Labelled(w)
    BY <1>1, <1>6 DEF Labelled, Frame
  <2>2. w \in Good
    BY <1>3, <2>1 DEF Good
  <2>3. FramesOf(m, i) = <<w>>
    BY <1>6 DEF FramesOf
  <2> HIDE DEF w, i
  <2>. QED BY <1>4, <2>2, <2>3 DEF i
<1>. QED BY <1>5, <1>6

\* What the ranks of good frames are.
LEMMA GoodRank ==
    ASSUME NEW f \in Good, f.msg \in Msgs
    PROVE  /\ Rank(f) \in 1..3
           /\ Rank(f) = 1 <=> f.kind \in {"response", "notification"}
           /\ Rank(f) = 2 => f.kind = "continue" /\ f.part = 2
           /\ Rank(f) = 3 => f.kind = "end"
           /\ Rank(f) > 1 => f.msg \in Large /\ ~f.chunked
<1>1. FrameShape(f) /\ f \in Frames /\ Labelled(f)
  BY Shapes DEF Good
<1>2. f # BadNote /\ f \notin FrameSet({"request"}, 1..MaxTraffic, {NoMsg}, {0}, {FALSE})
  <2>1. f.msg # NoMsg
    BY MsgFacts
  <2>2. BadNote.msg = NoMsg
    BY DEF BadNote, Frame
  <2>3. f \in FrameSet({"request"}, 1..MaxTraffic, {NoMsg}, {0}, {FALSE}) => f.msg = NoMsg
    BY DEF FrameSet
  <2>. QED BY <2>1, <2>2, <2>3
<1>3. \/ f \in FrameSet({"response", "notification"}, Ids, Msgs, {1}, BOOLEAN)
      \/ f \in FrameSet({"continue"}, Ids, Msgs, {2}, {FALSE})
      \/ f \in FrameSet({"end"}, Ids, Msgs, {0}, {FALSE})
  BY <1>1, <1>2 DEF FrameShape
<1>4. CASE f \in FrameSet({"response", "notification"}, Ids, Msgs, {1}, BOOLEAN)
  BY <1>4 DEF Rank, FrameSet
<1>5. CASE f \in FrameSet({"continue"}, Ids, Msgs, {2}, {FALSE})
  <2>1. f.kind = "continue" /\ f.part = 2 /\ f.chunked = FALSE
    BY <1>5 DEF FrameSet
  <2>2. f.msg \in Large
    BY <1>1, <2>1 DEF Labelled
  <2>. QED BY <2>1, <2>2 DEF Rank
<1>6. CASE f \in FrameSet({"end"}, Ids, Msgs, {0}, {FALSE})
  <2>1. f.kind = "end" /\ f.chunked = FALSE
    BY <1>6 DEF FrameSet
  <2>2. f.msg \in Large
    BY <1>1, <2>1 DEF Labelled
  <2>. QED BY <2>1, <2>2 DEF Rank
<1>. QED BY <1>3, <1>4, <1>5, <1>6

LEMMA PlainGood ==
    /\ BadNote \in Good /\ BadNote.msg \notin Msgs
    /\ \A b \in 1..MaxTraffic : Beat(b) \in Good /\ Beat(b).msg \notin Msgs
<1>1. NoMsg \notin Msgs
  BY DEF NoMsg, Msgs, Response, Note
<1>. QED BY <1>1, SpecialFrames DEF Good, Labelled, BadNote, Beat, Frame

-----------------------------------------------------------------------------
(* Sequences of frames, and what may follow in them.                       *)

LEMMA Added ==
    ASSUME NEW S, NEW s \in Seq(S), NEW x \in S
    PROVE  /\ Append(s, x) \in Seq(S)
           /\ Len(s) \in Nat /\ Len(Append(s, x)) = Len(s) + 1
           /\ \A i \in 1..Len(s) : Append(s, x)[i] = s[i]
           /\ Append(s, x)[Len(s) + 1] = x
OBVIOUS

LEMMA Rest ==
    ASSUME NEW S, NEW s \in Seq(S), s # <<>>
    PROVE  /\ Tail(s) \in Seq(S) /\ Head(s) \in S /\ Head(s) = s[1]
           /\ Len(s) \in Nat /\ Len(s) > 0 /\ Len(Tail(s)) = Len(s) - 1
           /\ \A i \in 1..Len(Tail(s)) : Tail(s)[i] = s[i + 1]
OBVIOUS

LEMMA Second ==
    ASSUME NEW S, NEW s \in Seq(S), s # <<>>, NEW k \in 1..Len(Tail(s))
    PROVE  /\ k + 1 \in 1..Len(s) /\ Tail(s)[k] = s[k + 1]
           /\ 1 \in 1..Len(Tail(s)) /\ 2 \in 1..Len(s) /\ Tail(s)[1] = s[2]
<1>1. 1 \in 1..Len(Tail(s))
  BY Rest
<1>. QED BY <1>1, Rest

LEMMA Joined ==
    ASSUME NEW S, NEW s \in Seq(S), NEW t \in Seq(S)
    PROVE  /\ s \o t \in Seq(S)
           /\ Len(s) \in Nat /\ Len(t) \in Nat /\ Len(s \o t) = Len(s) + Len(t)
           /\ \A i \in 1..Len(s) : (s \o t)[i] = s[i]
           /\ \A i \in 1..Len(t) : (s \o t)[Len(s) + i] = t[i]
OBVIOUS

LEMMA JoinedHead ==
    ASSUME NEW S, NEW s \in Seq(S), NEW t \in Seq(S), s # <<>>
    PROVE  s \o t # <<>> /\ Head(s \o t) = Head(s) /\ Tail(s \o t) = Tail(s) \o t
OBVIOUS

LEMMA JoinedMore ==
    ASSUME NEW S, NEW s \in Seq(S), NEW t \in Seq(S), NEW x \in S
    PROVE  s \o Append(t, x) = Append(s \o t, x)
OBVIOUS

LEMMA Moved ==
    ASSUME NEW S, NEW s \in Seq(S), NEW t \in Seq(S), NEW n \in {0, Len(t)}
    PROVE  (s \o SubSeq(t, 1, n)) \o SubSeq(t, n + 1, Len(t)) = s \o t
<1>0. Len(t) \in Nat
  OBVIOUS
<1>1. SubSeq(t, 1, Len(t)) = t
  BY SubSeqFull
<1>2. CASE n = 0
  <2>1. SubSeq(t, 1, 0) = <<>>
    BY SubSeqEmpty
  <2>. QED BY <1>1, <1>2, <2>1
<1>3. CASE n = Len(t)
  <2> DEFINE l == Len(t)
  <2>1. l \in Int /\ l + 1 \in Int /\ l < l + 1
    <3> HIDE DEF l
    <3>1. l \in Nat
      BY <1>0 DEF l
    <3>. QED BY <3>1
  <2>2. SubSeq(t, Len(t) + 1, Len(t)) = <<>>
    BY <2>1, SubSeqEmpty
  <2>. QED BY <1>1, <1>3, <2>2
<1>. QED BY <1>2, <1>3

\* A frame is added at the end: nothing changes before it ...
LEMMA FollowsKept ==
    ASSUME NEW s \in Seq(Good), NEW f \in Good, NEW ch, NEW m, NEW r,
           NEW i \in 1..(Len(s) + 1), Follows(s, ch, i, m, r)
    PROVE  Follows(Append(s, f), ch, i, m, r)
<1>1. \A k \in 1..(i - 1) : Append(s, f)[k] = s[k]
  BY Added
<1>2. \A j \in 1..(i - 1) : (j + 1)..(i - 1) \subseteq 1..(i - 1)
  OBVIOUS
<1>. QED BY <1>1, <1>2 DEF Follows

\* ... and what followed the old end follows the new one, if the frame belongs
\* to another message or is the one before.
LEMMA FollowsPast ==
    ASSUME NEW s \in Seq(Good), NEW f \in Good, NEW ch, NEW m, NEW r,
           Follows(s, ch, Len(s) + 1, m, r), f.msg # m
    PROVE  Follows(Append(s, f), ch, Len(s) + 2, m, r)
<1>1. /\ Len(s) \in Nat /\ (Len(s) + 2) - 1 = Len(s) + 1 /\ (Len(s) + 1) - 1 = Len(s)
      /\ \A k \in 1..Len(s) : Append(s, f)[k] = s[k]
      /\ Append(s, f)[Len(s) + 1] = f
  BY Added
<1>2. CASE r = 1
  BY <1>2 DEF Follows
<1>3. ASSUME NEW j \in 1..Len(s), s[j].msg = m, Rank(s[j]) = r - 1,
             \A k \in (j + 1)..Len(s) : s[k].msg # m
      PROVE  Follows(Append(s, f), ch, Len(s) + 2, m, r)
  <2>1. j \in 1..(Len(s) + 1) /\ Append(s, f)[j] = s[j]
    BY <1>1
  <2>2. ASSUME NEW k \in (j + 1)..(Len(s) + 1) PROVE Append(s, f)[k].msg # m
    <3>1. k \in (j + 1)..Len(s) \/ k = Len(s) + 1
      BY <1>1
    <3>2. k \in (j + 1)..Len(s) => k \in 1..Len(s)
      OBVIOUS
    <3>. QED BY <1>1, <1>3, <3>1, <3>2
  <2>. QED BY <1>1, <1>3, <2>1, <2>2 DEF Follows
<1>4. ASSUME \A k \in 1..Len(s) : s[k].msg # m, ch[IdOf(m)] = Seen(m, r - 1)
      PROVE  Follows(Append(s, f), ch, Len(s) + 2, m, r)
  <2>1. ASSUME NEW k \in 1..(Len(s) + 1) PROVE Append(s, f)[k].msg # m
    <3>1. k \in 1..Len(s) \/ k = Len(s) + 1
      BY <1>1
    <3>. QED BY <1>1, <1>4, <3>1
  <2>. QED BY <1>1, <1>4, <2>1 DEF Follows
<1>. QED BY <1>1, <1>2, <1>3, <1>4 DEF Follows

LEMMA FollowsNew ==
    ASSUME NEW s \in Seq(Good), NEW f \in Good, NEW ch, NEW r, Rank(f) = r - 1
    PROVE  Follows(Append(s, f), ch, Len(s) + 2, f.msg, r)
<1>1. /\ Len(s) \in Nat /\ (Len(s) + 2) - 1 = Len(s) + 1
      /\ Append(s, f)[Len(s) + 1] = f
  BY Added
<1>2. Len(s) + 1 \in 1..(Len(s) + 1) /\ ((Len(s) + 1) + 1)..(Len(s) + 1) = {}
  BY <1>1
<1>. QED BY <1>1, <1>2 DEF Follows

\* The head is parsed: it leaves an entry of its rank.
Absorbs(f, ch, ch2) == \A m \in Msgs :
    /\ f.msg # m => ch2[IdOf(m)] = ch[IdOf(m)]
    /\ f.msg = m /\ m \in Large /\ Rank(f) < 3 => ch2[IdOf(m)] = Seen(m, Rank(f))

LEMMA FollowsTaken ==
    ASSUME NEW s \in Seq(Good), s # <<>>, NEW ch, NEW ch2, Absorbs(Head(s), ch, ch2),
           NEW m \in Msgs, NEW r \in 1..3, r > 1 => m \in Large,
           NEW i \in 2..(Len(s) + 1), Follows(s, ch, i, m, r)
    PROVE  Follows(Tail(s), ch2, i - 1, m, r)
<1> USE Rest
<1>1. CASE r = 1
  BY <1>1 DEF Follows
<1>2. \A k \in 1..((i - 1) - 1) : k \in 1..Len(Tail(s)) /\ Tail(s)[k] = s[k + 1] /\ k + 1 \in 2..(i - 1)
  OBVIOUS
<1>3. ASSUME r > 1, NEW j \in 1..(i - 1), s[j].msg = m, Rank(s[j]) = r - 1,
             \A k \in (j + 1)..(i - 1) : s[k].msg # m
      PROVE  Follows(Tail(s), ch2, i - 1, m, r)
  <2>1. CASE j = 1
    <3>1. ch2[IdOf(m)] = Seen(m, r - 1)
      BY <1>3, <2>1 DEF Absorbs
    <3>2. \A k \in 1..((i - 1) - 1) : Tail(s)[k].msg # m
      BY <1>2, <1>3, <2>1
    <3>. QED BY <3>1, <3>2 DEF Follows
  <2>2. CASE j # 1
    <3>1. j - 1 \in 1..((i - 1) - 1) /\ Tail(s)[j - 1] = s[(j - 1) + 1] /\ (j - 1) + 1 = j
      BY <1>2, <2>2
    <3>2. ASSUME NEW k \in ((j - 1) + 1)..((i - 1) - 1) PROVE Tail(s)[k].msg # m
      <4>1. k \in 1..((i - 1) - 1) /\ k + 1 \in (j + 1)..(i - 1)
        BY <3>1
      <4>. QED BY <1>2, <1>3, <4>1
    <3>. QED BY <1>3, <3>1, <3>2 DEF Follows
  <2>. QED BY <2>1, <2>2
<1>4. ASSUME \A k \in 1..(i - 1) : s[k].msg # m, ch[IdOf(m)] = Seen(m, r - 1)
      PROVE  Follows(Tail(s), ch2, i - 1, m, r)
  <2>1. s[1].msg # m
    BY <1>4
  <2>2. ch2[IdOf(m)] = Seen(m, r - 1)
    BY <1>4, <2>1 DEF Absorbs
  <2>3. \A k \in 1..((i - 1) - 1) : Tail(s)[k].msg # m
    BY <1>2, <1>4
  <2>. QED BY <2>2, <2>3 DEF Follows
<1>5. r = 1 \/ r > 1
  OBVIOUS
<1>. QED BY <1>1, <1>3, <1>4, <1>5 DEF Follows


-----------------------------------------------------------------------------
(* The order of the frames is kept.                                        *)

LEMMA PipeGood == ASSUME Streams PROVE Pipe \in Seq(Good) /\ Len(Pipe) \in Nat
BY DEF Streams, Pipe

LEMMA OrderKept == ASSUME Order, UNCHANGED <<Pipe, chunks, todo>> PROVE Order'
<1>1. Pipe' = Pipe /\ chunks' = chunks /\ todo' = todo
  OBVIOUS
<1>2. Chained(Pipe', chunks') /\ Rising' /\ Continued'
  BY <1>1 DEF Order, Rising, Continued
<1>. QED BY <1>2 DEF Order

\* The first frame that is still to be written of a message is one of its.
LEMMA FirstTodo ==
    ASSUME Labels, Rising, NEW m \in Msgs, todo[m] # <<>>
    PROVE  /\ todo[m][1] \in Good /\ todo[m][1].msg = m
           /\ Rank(todo[m][1]) \in 1..3 /\ (Rank(todo[m][1]) > 1 => m \in Large)
<1>1. todo[m] \in Seq(Good) /\ 1 \in 1..Len(todo[m])
  BY DEF Labels, Writing
<1>2. todo[m][1] \in Good /\ todo[m][1].msg = m
  BY <1>1 DEF Rising
<1>. QED BY <1>2, GoodRank

\* A frame is parsed.
LEMMA OrderParsed ==
    ASSUME Labels, Order, Pipe # <<>>, Pipe' = Tail(Pipe), Absorbs(Head(Pipe), chunks, chunks'),
           UNCHANGED todo
    PROVE  Order'
<1>1. Pipe \in Seq(Good) /\ Len(Pipe) \in Nat
  BY PipeGood DEF Labels
<1>2. /\ Len(Pipe') = Len(Pipe) - 1 /\ Len(Pipe) > 0
      /\ \A i \in 1..Len(Pipe') : Pipe'[i] = Pipe[i + 1]
  BY <1>1, Rest
<1>3. ASSUME NEW i \in 1..Len(Pipe'), Pipe'[i].msg \in Msgs
      PROVE  Follows(Pipe', chunks', i, Pipe'[i].msg, Rank(Pipe'[i]))
  <2>1. i + 1 \in 1..Len(Pipe) /\ i + 1 \in 2..(Len(Pipe) + 1) /\ (i + 1) - 1 = i
    BY <1>2
  <2>2. Pipe'[i] = Pipe[i + 1] /\ Pipe[i + 1] \in Good
    BY <1>1, <1>2, <2>1
  <2>3. Follows(Pipe, chunks, i + 1, Pipe[i + 1].msg, Rank(Pipe[i + 1]))
    BY <1>3, <2>1, <2>2 DEF Order, Chained
  <2>4. Rank(Pipe[i + 1]) \in 1..3 /\ (Rank(Pipe[i + 1]) > 1 => Pipe[i + 1].msg \in Large)
    BY <1>3, <2>2, GoodRank
  <2>5. Follows(Tail(Pipe), chunks', (i + 1) - 1, Pipe[i + 1].msg, Rank(Pipe[i + 1]))
    BY <1>1, <1>3, <2>1, <2>2, <2>3, <2>4, FollowsTaken
  <2>. QED BY <2>1, <2>2, <2>5
<1>4. ASSUME NEW m \in Msgs, todo[m] # <<>>
      PROVE  Follows(Pipe', chunks', Len(Pipe') + 1, m, Rank(todo[m][1]))
  <2>1. Follows(Pipe, chunks, Len(Pipe) + 1, m, Rank(todo[m][1]))
    BY <1>4 DEF Order, Continued
  <2>2. Rank(todo[m][1]) \in 1..3 /\ (Rank(todo[m][1]) > 1 => m \in Large)
    BY <1>4, FirstTodo DEF Order
  <2>3. Len(Pipe) + 1 \in 2..(Len(Pipe) + 1) /\ (Len(Pipe) + 1) - 1 = Len(Pipe') + 1
    BY <1>1, <1>2
  <2>4. Follows(Tail(Pipe), chunks', (Len(Pipe) + 1) - 1, m, Rank(todo[m][1]))
    BY <1>1, <2>1, <2>2, <2>3, FollowsTaken
  <2>. QED BY <2>3, <2>4
<1>5. Rising'
  BY DEF Order, Rising
<1>. QED BY <1>3, <1>4, <1>5 DEF Order, Chained, Continued

\* A frame is written: of no message, or the next one of a message.
LEMMA ChainedMore ==
    ASSUME Labels, Order, NEW f \in Good, Pipe' = Append(Pipe, f), UNCHANGED chunks,
           f.msg \in Msgs => Follows(Pipe, chunks, Len(Pipe) + 1, f.msg, Rank(f))
    PROVE  Chained(Pipe', chunks')
<1>1. Pipe \in Seq(Good) /\ Len(Pipe) \in Nat
  BY PipeGood DEF Labels
<1>2. SUFFICES ASSUME NEW i \in 1..Len(Pipe'), Pipe'[i].msg \in Msgs
               PROVE  Follows(Pipe', chunks', i, Pipe'[i].msg, Rank(Pipe'[i]))
  BY DEF Chained
<1>3. i \in 1..(Len(Pipe) + 1)
  BY <1>1, Added
<1>4. CASE i \in 1..Len(Pipe)
  <2>1. Pipe'[i] = Pipe[i]
    BY <1>1, <1>4, Added
  <2>2. Follows(Pipe, chunks, i, Pipe[i].msg, Rank(Pipe[i]))
    BY <1>2, <1>4, <2>1 DEF Order, Chained
  <2>. QED BY <1>1, <1>3, <2>1, <2>2, FollowsKept
<1>5. CASE i = Len(Pipe) + 1
  <2>1. Pipe'[i] = f
    BY <1>1, <1>5, Added
  <2>2. Follows(Pipe, chunks, i, f.msg, Rank(f))
    BY <1>2, <1>5, <2>1
  <2>. QED BY <1>1, <1>3, <2>1, <2>2, FollowsKept
<1>. QED BY <1>1, <1>3, <1>4, <1>5

LEMMA ContinuedPast ==
    ASSUME Labels, Order, NEW f \in Good, Pipe' = Append(Pipe, f), UNCHANGED chunks,
           NEW m \in Msgs, todo[m] # <<>>, f.msg # m
    PROVE  Follows(Pipe', chunks', Len(Pipe') + 1, m, Rank(todo[m][1]))
<1>1. Pipe \in Seq(Good) /\ Len(Pipe) \in Nat
  BY PipeGood DEF Labels
<1>2. Follows(Pipe, chunks, Len(Pipe) + 1, m, Rank(todo[m][1]))
  BY DEF Order, Continued
<1>3. Len(Pipe') + 1 = Len(Pipe) + 2
  BY <1>1, Added
<1>. QED BY <1>1, <1>2, <1>3, FollowsPast

LEMMA OrderPlain ==
    ASSUME Labels, Order, NEW f \in Good, f.msg \notin Msgs, Pipe' = Append(Pipe, f),
           UNCHANGED <<chunks, todo>>
    PROVE  Order'
<1>1. Chained(Pipe', chunks')
  BY ChainedMore
<1>2. Continued'
  BY ContinuedPast DEF Continued
<1>. QED BY <1>1, <1>2 DEF Order, Rising

LEMMA RisingTail ==
    ASSUME NEW t \in Seq(Good), t # <<>>, NEW m, Rank(t[1]) \in 1..3,
           \A k \in 1..Len(t) : t[k].msg = m /\ Rank(t[k]) = Rank(t[1]) + k - 1
    PROVE  /\ \A k \in 1..Len(Tail(t)) :
                  Tail(t)[k].msg = m /\ Rank(Tail(t)[k]) = Rank(Tail(t)[1]) + k - 1
           /\ Tail(t) # <<>> => Rank(t[1]) = Rank(Tail(t)[1]) - 1
<1>1. ASSUME NEW k \in 1..Len(Tail(t))
      PROVE  Tail(t)[k].msg = m /\ Rank(Tail(t)[k]) = Rank(t[1]) + k
  <2>1. k + 1 \in 1..Len(t) /\ Tail(t)[k] = t[k + 1]
    BY Second
  <2>2. Rank(t[k + 1]) = Rank(t[1]) + (k + 1) - 1 /\ t[k + 1].msg = m
    BY <2>1
  <2>3. Rank(t[1]) + (k + 1) - 1 = Rank(t[1]) + k
    OBVIOUS
  <2>. QED BY <2>1, <2>2, <2>3
<1>2. ASSUME NEW k \in 1..Len(Tail(t)) PROVE 1 \in 1..Len(Tail(t))
  BY Second
<1>3. ASSUME NEW k \in 1..Len(Tail(t)) PROVE Rank(Tail(t)[k]) = Rank(Tail(t)[1]) + k - 1
  <2>1. Rank(Tail(t)[1]) = Rank(t[1]) + 1 /\ Rank(Tail(t)[k]) = Rank(t[1]) + k
    BY <1>1, <1>2
  <2>. QED BY <2>1
<1>4. ASSUME Tail(t) # <<>> PROVE Rank(t[1]) = Rank(Tail(t)[1]) - 1
  <2>1. 1 \in 1..Len(Tail(t))
    BY <1>4, Rest
  <2>2. Rank(Tail(t)[1]) = Rank(t[1]) + 1
    BY <1>1, <2>1
  <2>3. \A a, b \in Int : b = a + 1 => a = b - 1
    OBVIOUS
  <2>4. Rank(t[1]) \in Int
    OBVIOUS
  <2>5. Rank(t[1]) + 1 \in Int
    BY <2>4
  <2>. QED BY <2>2, <2>3, <2>4, <2>5
<1>. QED BY <1>1, <1>3, <1>4

LEMMA OrderWritten ==
    ASSUME Labels, Order, NEW n \in Msgs, todo[n] # <<>>, Pipe' = Append(Pipe, todo[n][1]),
           todo' = [todo EXCEPT ![n] = Tail(todo[n])], UNCHANGED chunks
    PROVE  Order'
<1> DEFINE f == todo[n][1]
<1>1. f \in Good /\ f.msg = n /\ Rank(f) \in 1..3
  BY FirstTodo DEF Order
<1>2. Pipe \in Seq(Good) /\ Len(Pipe) \in Nat /\ Len(Pipe') + 1 = Len(Pipe) + 2
  BY <1>1, PipeGood, Added DEF Labels
<1>3. todo[n] \in Seq(Good) /\ \A m \in Msgs : todo'[m] = IF m = n THEN Tail(todo[n]) ELSE todo[m]
  BY DEF Labels, Writing
<1>4. Chained(Pipe', chunks')
  BY <1>1, ChainedMore DEF Order, Continued
<1>7. /\ \A k \in 1..Len(todo'[n]) :
               todo'[n][k].msg = n /\ Rank(todo'[n][k]) = Rank(todo'[n][1]) + k - 1
      /\ todo'[n] # <<>> => Rank(f) = Rank(todo'[n][1]) - 1
  <2> DEFINE t == todo[n]
  <2>1. todo'[n] = Tail(t) /\ t \in Seq(Good) /\ t # <<>> /\ f = t[1]
    BY <1>3
  <2>2. \A k \in 1..Len(t) : t[k].msg = n /\ Rank(t[k]) = Rank(t[1]) + k - 1
    BY DEF Order, Rising
  <2>3. Rank(t[1]) \in 1..3
    BY <1>1
  <2> HIDE DEF t, f
  <2>4. /\ \A k \in 1..Len(Tail(t)) :
               Tail(t)[k].msg = n /\ Rank(Tail(t)[k]) = Rank(Tail(t)[1]) + k - 1
        /\ Tail(t) # <<>> => Rank(t[1]) = Rank(Tail(t)[1]) - 1
    BY <2>1, <2>2, <2>3, RisingTail
  <2>. QED BY <2>1, <2>4
<1>5. Rising'
  <2>1. SUFFICES ASSUME NEW m \in Msgs, NEW k \in 1..Len(todo'[m])
                 PROVE  todo'[m][k].msg = m /\ Rank(todo'[m][k]) = Rank(todo'[m][1]) + k - 1
    BY DEF Rising
  <2>2. CASE m # n
    BY <1>3, <2>1, <2>2 DEF Order, Rising
  <2>3. CASE m = n
    BY <1>7, <2>1, <2>3
  <2>. QED BY <2>2, <2>3
<1>6. Continued'
  <2>1. SUFFICES ASSUME NEW m \in Msgs, todo'[m] # <<>>
                 PROVE  Follows(Pipe', chunks', Len(Pipe') + 1, m, Rank(todo'[m][1]))
    BY DEF Continued
  <2>2. CASE m # n
    BY <1>1, <1>3, <2>1, <2>2, ContinuedPast
  <2>3. CASE m = n
    <3>1. Rank(f) = Rank(todo'[n][1]) - 1
      BY <1>7, <2>1, <2>3
    <3> HIDE DEF f
    <3>2. Follows(Append(Pipe, f), chunks, Len(Pipe) + 2, f.msg, Rank(todo'[n][1]))
      BY <1>1, <1>2, <3>1, FollowsNew
    <3>3. Pipe' = Append(Pipe, f)
      BY DEF f
    <3>. QED BY <1>1, <1>2, <2>3, <3>2, <3>3
  <2>. QED BY <2>2, <2>3
<1>. QED BY <1>4, <1>5, <1>6 DEF Order

\* A handler has its response's frames to write, or a notification is made.
LEMMA OrderStarted ==
    ASSUME Labels, Order, NEW n \in Msgs, UNCHANGED <<Pipe, chunks>>,
           todo' = [todo EXCEPT ![n] = FramesOf(n, IdOf(n))]
    PROVE  Order'
<1> DEFINE t == FramesOf(n, IdOf(n))
<1>1. t \in Seq(Good) /\ t # <<>> /\ \A k \in 1..Len(t) : t[k].msg = n /\ Rank(t[k]) = k
  BY FramesOfGood
<1> HIDE DEF t
<1>2. 1 \in 1..Len(t) /\ Rank(t[1]) = 1
  BY <1>1
<1>3. \A m \in Msgs : todo'[m] = IF m = n THEN t ELSE todo[m]
  BY DEF Labels, Writing, t
<1>4. Chained(Pipe', chunks')
  BY DEF Order
<1>5. Rising'
  BY <1>1, <1>2, <1>3 DEF Order, Rising
<1>6. Continued'
  BY <1>2, <1>3 DEF Order, Continued, Follows
<1>. QED BY <1>4, <1>5, <1>6 DEF Order


-----------------------------------------------------------------------------
(* What is delivered is whole, and completes its own request.              *)

WholeInv == CallInv /\ Labels /\ Order /\ WholeMessages /\ AnswersOwn

LEMMA PayloadFacts ==
    ASSUME NEW m \in Msgs
    PROVE  /\ Payload(m) # <<>>
           /\ m \in Large => Payload(m) = Seen(m, 2).parts
           /\ m \notin Large => Payload(m) = <<<<m, 1>>>>
BY DEF Payload, Seen

LEMMA AnswersKept ==
    ASSUME WholeInv, UNCHANGED <<got, conn>>,
           \A c \in Calls : outcome'[c] \in {"ok", "stale"} => outcome'[c] = outcome[c]
    PROVE  WholeMessages' /\ AnswersOwn'
BY DEF WholeInv, WholeMessages, AnswersOwn

LEMMA Delivered ==
    ASSUME WholeInv, UNCHANGED conn, NEW k, NEW id \in Ids, NEW m, NEW parts,
           Deliver(k, id, m, parts),
           \/ k = "response" /\ m = NoMsg /\ id = 0
           \/ m \in Msgs /\ k = m[1] /\ id = IdOf(m) /\ parts = Payload(m)
    PROVE  WholeMessages' /\ AnswersOwn'
<1> USE DEF WholeInv
<1>1. TypeOK
  BY DEF CallInv
<1>2. pending[id] # 0 => pending[id] = id /\ id \in Calls
  BY DEF CallInv, PendingOk
<1>3. 0 \notin Calls
  BY DEF Calls
<1>4. CASE UNCHANGED <<got, outcome>>
  BY <1>4, AnswersKept
<1>5. CASE k # "response"
  <2>1. m \in Msgs /\ got' = [got EXCEPT ![m] = Payload(m)] /\ UNCHANGED outcome
    BY <1>5 DEF Deliver
  <2>2. \A x \in Msgs : got'[x] = IF x = m THEN Payload(m) ELSE got[x]
    BY <1>1, <2>1 DEF TypeOK
  <2>3. WholeMessages'
    BY <2>2 DEF WholeMessages
  <2>4. \A c \in Calls : got[Response(c)] # <<>> => got'[Response(c)] # <<>>
    BY <2>1, <2>2, PayloadFacts, MsgIds
  <2>5. AnswersOwn'
    BY <2>1, <2>4 DEF AnswersOwn
  <2>. QED BY <2>3, <2>5
<1>6. CASE k = "response" /\ pending[id] # 0
  <2>1. id \in Calls /\ m \in Msgs /\ m = Response(id) /\ parts = Payload(m) /\ m # NoMsg
    BY <1>2, <1>3, <1>6, MsgIds, MsgFacts
  <2>2. /\ got' = [got EXCEPT ![m] = Payload(m)]
        /\ \E how : outcome' = [outcome EXCEPT ![id] = how]
    BY <1>2, <1>6, <2>1 DEF Deliver, CompleteRequest, Settle
  <2>3. \A x \in Msgs : got'[x] = IF x = m THEN Payload(m) ELSE got[x]
    BY <1>1, <2>2 DEF TypeOK
  <2>4. WholeMessages'
    BY <2>3 DEF WholeMessages
  <2>5. got'[Response(id)] # <<>>
    BY <2>1, <2>3, PayloadFacts
  <2>6. \A c \in Calls : got[Response(c)] # <<>> => got'[Response(c)] # <<>>
    BY <2>1, <2>3, <2>5, MsgIds
  <2>7. \A c \in Calls : c # id => outcome'[c] = outcome[c]
    BY <2>2
  <2>8. AnswersOwn'
    BY <2>5, <2>6, <2>7 DEF AnswersOwn
  <2>. QED BY <2>4, <2>8
<1>7. CASE k = "response" /\ pending[id] = 0
  BY <1>4, <1>7 DEF Deliver, CompleteRequest
<1>. QED BY <1>5, <1>6, <1>7

\* The first frame leaves the buffer.
LEMMA Taken ==
    ASSUME Labels, NEW f, TakeFrame(f)
    PROVE  /\ f \in Good /\ Pipe # <<>> /\ f = Head(Pipe) /\ Pipe' = Tail(Pipe)
           /\ Streams' /\ UNCHANGED <<todo, handling, conn>>
<1>1. /\ toClient \in Seq(Good) /\ buffer \in Seq(Good) /\ buffer # <<>>
      /\ f = Head(buffer) /\ buffer' = Tail(buffer) /\ UNCHANGED toClient
  BY DEF TakeFrame, Labels, Streams
<1>2. f \in Good /\ Tail(buffer) \in Seq(Good)
  BY <1>1, Rest
<1>3. Streams'
  BY <1>1, <1>2 DEF Streams
<1>4. Pipe # <<>> /\ f = Head(Pipe) /\ Pipe' = Tail(Pipe)
  <2>1. /\ buffer \o toClient # <<>> /\ Head(buffer \o toClient) = Head(buffer)
        /\ Tail(buffer \o toClient) = Tail(buffer) \o toClient
    BY <1>1, JoinedHead
  <2>. QED BY <1>1, <2>1 DEF Pipe
<1>. QED BY <1>2, <1>3, <1>4 DEF TakeFrame, parseRest, serverVars

\* A frame that is not the first of its message finds the entry it continues.
LEMMA EntryThere ==
    ASSUME Labels, Order, NEW f, TakeFrame(f), f.msg \in Msgs, Rank(f) > 1
    PROVE  /\ f.id = IdOf(f.msg) /\ f.msg \in Large /\ chunks[f.id] = Seen(f.msg, Rank(f) - 1)
           /\ chunks[f.id] # NoEntry
<1>1. f \in Good /\ Pipe # <<>> /\ f = Head(Pipe)
  BY Taken
<1>2. Pipe \in Seq(Good) /\ 1 \in 1..Len(Pipe) /\ f = Pipe[1]
  <2>1. Pipe \in Seq(Good)
    BY PipeGood DEF Labels
  <2>. QED BY <1>1, <2>1, Rest
<1>3. Follows(Pipe, chunks, 1, f.msg, Rank(f))
  BY <1>2 DEF Order, Chained
<1>4. chunks[IdOf(f.msg)] = Seen(f.msg, Rank(f) - 1)
  BY <1>3 DEF Follows
<1>5. f.id = IdOf(f.msg) /\ f.msg \in Large
  BY <1>1, GoodRank DEF Good, Labelled
<1>6. Seen(f.msg, Rank(f) - 1) # NoEntry
  BY MsgFacts DEF Seen, NoEntry
<1>. QED BY <1>4, <1>5, <1>6

LEMMA FrameKinds ==
    ASSUME NEW f \in Good
    PROVE  /\ f.kind \in {"continue", "end"} => f.msg \in Msgs /\ Rank(f) > 1
           /\ f.kind = "continue" => Rank(f) = 2
           /\ f.kind = "end" => Rank(f) = 3
           /\ f.chunked => f.msg \in Msgs /\ f.part = 1 /\ Rank(f) = 1
           /\ f.kind = "request" => f.msg \notin Msgs
           /\ f.kind \in {"response", "notification"} =>
                  f.msg \in Msgs \/ (f.msg = NoMsg /\ f.id = 0 /\ f.kind = "response")
<1>1. FrameShape(f)
  BY Shapes DEF Good
<1>2. NoMsg \notin Msgs
  BY MsgFacts
<1>3. CASE f \in FrameSet({"response", "notification"}, Ids, Msgs, {1}, BOOLEAN)
  BY <1>3 DEF FrameSet, Rank
<1>4. CASE f \in FrameSet({"continue"}, Ids, Msgs, {2}, {FALSE})
  <2>1. f.kind = "continue" /\ f.chunked = FALSE /\ f.msg \in Msgs
    BY <1>4 DEF FrameSet
  <2>. QED BY <2>1 DEF Rank
<1>5. CASE f \in FrameSet({"end"}, Ids, Msgs, {0}, {FALSE})
  <2>1. f.kind = "end" /\ f.chunked = FALSE /\ f.msg \in Msgs
    BY <1>5 DEF FrameSet
  <2>. QED BY <2>1 DEF Rank
<1>6. CASE f \in FrameSet({"request"}, 1..MaxTraffic, {NoMsg}, {0}, {FALSE})
  <2>1. f.kind = "request" /\ f.chunked = FALSE /\ f.msg = NoMsg
    BY <1>6 DEF FrameSet
  <2>. QED BY <1>2, <2>1
<1>7. CASE f = BadNote
  <2>1. f.kind = "response" /\ f.chunked = FALSE /\ f.msg = NoMsg /\ f.id = 0
    BY <1>7 DEF BadNote, Frame
  <2>. QED BY <2>1
<1>. QED BY <1>1, <1>3, <1>4, <1>5, <1>6, <1>7 DEF FrameShape

\* What a dispatch does to the entries, and that it delivers whole messages.
Parsed(f) == Absorbs(f, chunks, chunks') /\ Stored' /\ WholeMessages' /\ AnswersOwn'

LEMMA SeedParsed == ASSUME WholeInv, NEW f, SeedChunks(f) PROVE Parsed(f)
<1> USE DEF WholeInv
<1>1. TakeFrame(f) /\ f.chunked /\ UNCHANGED <<outcome, got>>
      /\ chunks' = [chunks EXCEPT ![f.id] = [msg |-> f.msg, parts |-> <<<<f.msg, f.part>>>>]]
  BY DEF SeedChunks
<1>2. f \in Good /\ UNCHANGED conn
  BY <1>1, Taken
<1>3. f.msg \in Msgs /\ f.part = 1 /\ Rank(f) = 1 /\ f.id = IdOf(f.msg) /\ f.id \in Ids
  BY <1>1, <1>2, FrameKinds, MsgIds DEF Good, Labelled
<1>4. chunks' = [chunks EXCEPT ![f.id] = Seen(f.msg, 1)] /\ chunks \in [Ids -> Entries]
  BY <1>1, <1>3 DEF Seen, CallInv, TypeOK
<1>5. \A i \in Ids : chunks'[i] = IF i = f.id THEN Seen(f.msg, 1) ELSE chunks[i]
  BY <1>4
<1>6. Absorbs(f, chunks, chunks')
  BY <1>3, <1>5, MsgIds DEF Absorbs
<1>7. Stored'
  BY <1>3, <1>5 DEF Labels, Stored, Seen
<1>. QED BY <1>1, <1>2, <1>6, <1>7, AnswersKept DEF Parsed

LEMMA RequestParsed == ASSUME WholeInv, NEW f, DispatchRequest(f) PROVE Parsed(f)
<1> USE DEF WholeInv
<1>1. TakeFrame(f) /\ f.kind = "request" /\ UNCHANGED <<outcome, got, chunks>>
  BY DEF DispatchRequest
<1>2. f \in Good /\ UNCHANGED conn
  BY <1>1, Taken
<1>3. Absorbs(f, chunks, chunks')
  BY <1>1, <1>2, FrameKinds DEF Absorbs
<1>. QED BY <1>1, <1>2, <1>3, AnswersKept DEF Parsed, Labels, Stored

LEMMA WholeParsed == ASSUME WholeInv, NEW f, DispatchWhole(f) PROVE Parsed(f)
<1> USE DEF WholeInv
<1>1. /\ TakeFrame(f) /\ ~f.chunked /\ f.kind \in {"response", "notification"}
      /\ Deliver(f.kind, f.id, f.msg, <<<<f.msg, f.part>>>>) /\ UNCHANGED chunks
  BY DEF DispatchWhole
<1>2. f \in Good /\ UNCHANGED conn /\ f.id \in Ids
  BY <1>1, Taken, TakenFrame DEF CallInv, FrameNames
<1>3. f.msg \in Msgs =>
          f.id = IdOf(f.msg) /\ f.kind = f.msg[1] /\ f.part = 1 /\ f.msg \notin Large
  BY <1>1, <1>2 DEF Good, Labelled
<1>4. f.msg \in Msgs => <<<<f.msg, f.part>>>> = Payload(f.msg)
  BY <1>3, PayloadFacts
<1>5. WholeMessages' /\ AnswersOwn'
  BY <1>1, <1>2, <1>3, <1>4, FrameKinds, Delivered
<1>6. Absorbs(f, chunks, chunks')
  BY <1>1, <1>3 DEF Absorbs
<1>. QED BY <1>1, <1>5, <1>6 DEF Parsed, Labels, Stored

LEMMA AccumulateParsed == ASSUME WholeInv, NEW f, AccumulateChunk(f) PROVE Parsed(f)
<1> USE DEF WholeInv
<1>1. TakeFrame(f) /\ f.kind = "continue" /\ UNCHANGED <<outcome, got>>
  BY DEF AccumulateChunk
<1>2. f \in Good /\ UNCHANGED conn
  BY <1>1, Taken
<1>3. f.msg \in Msgs /\ Rank(f) = 2 /\ f.part = 2
  BY <1>1, <1>2, FrameKinds, GoodRank
<1>4. /\ f.id = IdOf(f.msg) /\ f.msg \in Large
      /\ chunks[f.id] = Seen(f.msg, 1) /\ chunks[f.id] # NoEntry /\ f.id \in Ids
  BY <1>1, <1>3, EntryThere, MsgIds
<1>5. chunks' = [chunks EXCEPT ![f.id] = Extended(chunks[f.id], <<f.msg, f.part>>)]
  BY <1>4 DEF AccumulateChunk
<1>6. Extended(chunks[f.id], <<f.msg, f.part>>) = Seen(f.msg, 2)
  BY <1>3, <1>4 DEF Extended, Seen
<1>7. \A i \in Ids : chunks'[i] = IF i = f.id THEN Seen(f.msg, 2) ELSE chunks[i]
  BY <1>5, <1>6 DEF CallInv, TypeOK
<1>8. Absorbs(f, chunks, chunks')
  BY <1>3, <1>4, <1>7, MsgIds DEF Absorbs
<1>9. Stored'
  BY <1>4, <1>7 DEF Labels, Stored, Seen
<1>. QED BY <1>1, <1>2, <1>8, <1>9, AnswersKept DEF Parsed

LEMMA FinishParsed == ASSUME WholeInv, NEW f, FinishChunks(f) PROVE Parsed(f)
<1> USE DEF WholeInv
<1>1. TakeFrame(f) /\ f.kind = "end" /\ chunks' = [chunks EXCEPT ![f.id] = NoEntry]
  BY DEF FinishChunks
<1>2. f \in Good /\ UNCHANGED conn
  BY <1>1, Taken
<1>3. f.msg \in Msgs /\ Rank(f) = 3
  BY <1>1, <1>2, FrameKinds
<1>4. /\ f.id = IdOf(f.msg) /\ f.msg \in Large
      /\ chunks[f.id] = Seen(f.msg, 2) /\ chunks[f.id] # NoEntry /\ f.id \in Ids
  BY <1>1, <1>3, EntryThere, MsgIds
<1>5. Deliver(f.msg[1], f.id, f.msg, Seen(f.msg, 2).parts)
  BY <1>4 DEF FinishChunks, Seen
<1>6. WholeMessages' /\ AnswersOwn'
  BY <1>2, <1>3, <1>4, <1>5, PayloadFacts, Delivered
<1>7. \A i \in Ids : chunks'[i] = IF i = f.id THEN NoEntry ELSE chunks[i]
  BY <1>1 DEF CallInv, TypeOK
<1>8. Absorbs(f, chunks, chunks')
  BY <1>3, <1>4, <1>7, MsgIds DEF Absorbs
<1>9. Stored'
  BY <1>7 DEF Labels, Stored
<1>. QED BY <1>6, <1>8, <1>9 DEF Parsed


-----------------------------------------------------------------------------
(* Every step.                                                             *)

\* What is left of the invariant when the calls are known to be well.
WholeNext == Labels' /\ Order' /\ WholeMessages' /\ AnswersOwn'

LEMMA WholeDispatch ==
    ASSUME WholeInv, NEW f,
           \/ SeedChunks(f) \/ DispatchWhole(f) \/ DispatchRequest(f)
           \/ AccumulateChunk(f) \/ FinishChunks(f)
    PROVE  WholeNext
<1> USE DEF WholeInv
<1>1. TakeFrame(f)
  BY DEF SeedChunks, DispatchWhole, DispatchRequest, AccumulateChunk, FinishChunks
<1>2. Parsed(f)
  BY SeedParsed, RequestParsed, WholeParsed, AccumulateParsed, FinishParsed
<1>3. /\ f \in Good /\ Pipe # <<>> /\ f = Head(Pipe) /\ Pipe' = Tail(Pipe)
      /\ Streams' /\ UNCHANGED <<todo, handling, conn>>
  BY <1>1, Taken
<1>4. Order'
  BY <1>2, <1>3, OrderParsed DEF Parsed
<1>5. UNCHANGED toServer \/ toServer' = Append(toServer, Upward("response", f.id, 0, "whole"))
  BY DEF SeedChunks, DispatchWhole, DispatchRequest, AccumulateChunk, FinishChunks, WriteFrame
<1>6. Asked'
  <2>1. CASE UNCHANGED toServer
    BY <1>3, <2>1 DEF Labels, Asked
  <2>2. CASE DispatchRequest(f)
    <3>1. f.id \in 1..MaxTraffic
      BY <2>2, <1>1, TakenFrame DEF CallInv, FrameNames, DispatchRequest
    <3>2. Upward("response", f.id, 0, "whole") \in GoodUp
      BY <3>1, UpTypes DEF GoodUp, Upward
    <3>. QED BY <1>3, <1>5, <3>2 DEF Labels, Asked
  <2>3. DispatchRequest(f) \/ UNCHANGED toServer
    BY DEF SeedChunks, DispatchWhole, AccumulateChunk, FinishChunks
  <2>. QED BY <2>1, <2>2, <2>3
<1>7. Writing'
  BY <1>3 DEF Labels, Writing
<1>. QED BY <1>2, <1>3, <1>4, <1>6, <1>7 DEF WholeNext, Labels, Parsed

\* Steps that do not touch frames for Emacs.
LEMMA WholeQuiet ==
    ASSUME WholeInv, Asked', UNCHANGED <<toClient, buffer, chunks, todo, got>>,
           conn' = conn \/ (conn = "up" /\ conn' = "broken") \/ conn' = "closed",
           \A c \in Calls : \/ outcome'[c] \notin {"ok", "stale"} \/ outcome'[c] = outcome[c]
                            \/ outcome'[c] = "stale" /\ conn' = "closed"
    PROVE  WholeNext
<1> USE DEF WholeInv
<1>1. Streams' /\ Writing' /\ Stored'
  BY DEF Labels, Streams, Writing, Stored
<1>2. Pipe' = Pipe
  BY DEF Pipe
<1>3. Order'
  BY <1>2, OrderKept
<1>4. WholeMessages'
  BY DEF WholeMessages
<1>5. AnswersOwn'
  BY DEF AnswersOwn
<1>. QED BY <1>1, <1>3, <1>4, <1>5 DEF WholeNext, Labels

LEMMA AskedStep ==
    ASSUME Asked, NEW u \in GoodUp, WriteFrame(u), UNCHANGED handling PROVE Asked'
BY DEF Asked, WriteFrame

LEMMA WholeRequest ==
    ASSUME WholeInv, NEW k \in {"sync", "async"}, Request(k) PROVE WholeNext
<1> USE DEF WholeInv
<1>1. UNCHANGED <<toClient, buffer, chunks, todo, got, conn, outcome, handling>>
  BY DEF Request, serverVars
<1>2. NewId = calls + 1 /\ calls + 1 \in Calls
  BY Numbers DEF Request, NewId, CallInv, TypeOK
<1>3. /\ Upward("request", NewId, calls + 1, "whole") \in GoodUp
      /\ Upward("request", NewId, calls + 1, "header") \in GoodUp
  BY <1>2, UpTypes DEF GoodUp, Upward
<1>4. \/ WriteFrame(Upward("request", NewId, calls + 1, "whole"))
      \/ WriteFrame(Upward("request", NewId, calls + 1, "header"))
      \/ UNCHANGED toServer
  BY DEF Request
<1>5. Asked'
  <2>1. UNCHANGED toServer => Asked'
    BY <1>1 DEF Labels, Asked
  <2>. QED BY <1>1, <1>3, <1>4, <2>1, AskedStep DEF Labels
<1>. QED BY <1>1, <1>5, WholeQuiet

LEMMA WholeLoops ==
    ASSUME WholeInv, NEW c \in Calls, SendRest(c) \/ Timeout(c) \/ Return(c) \/ Quit(c)
    PROVE  WholeNext
<1> USE DEF WholeInv
<1>1. UNCHANGED <<toClient, buffer, chunks, todo, got, conn, handling>>
  BY DEF SendRest, Timeout, Return, Quit, serverVars
<1>2. \A d \in Calls : outcome'[d] \notin {"ok", "stale"} \/ outcome'[d] = outcome[d]
  BY DEF SendRest, Timeout, Return, Quit, Settle, CallInv, TypeOK
<1>3. Asked'
  <2>1. Upward("request", 0, c, "rest") \in GoodUp
    BY UpTypes DEF GoodUp, Upward
  <2>2. WriteFrame(Upward("request", 0, c, "rest")) \/ UNCHANGED toServer
    BY DEF SendRest, Timeout, Return, Quit
  <2>3. UNCHANGED toServer => Asked'
    BY <1>1 DEF Labels, Asked
  <2>. QED BY <1>1, <2>1, <2>2, <2>3, AskedStep DEF Labels
<1>. QED BY <1>1, <1>2, <1>3, WholeQuiet

LEMMA WholeEmacs ==
    ASSUME WholeInv, Notify \/ ParseEnd \/ HandlerReturns \/ UNCHANGED vars
    PROVE  WholeNext
<1> USE DEF WholeInv
<1>1. UNCHANGED <<toClient, buffer, chunks, todo, got, conn, outcome, handling>>
  BY DEF Notify, ParseEnd, HandlerReturns, vars, emacsVars, serverVars, parseRest
<1>2. Asked'
  <2>1. Upward("notification", 0, 0, "whole") \in GoodUp
    BY UpTypes DEF GoodUp, Upward
  <2>2. WriteFrame(Upward("notification", 0, 0, "whole")) \/ UNCHANGED toServer
    BY DEF Notify, ParseEnd, HandlerReturns, vars
  <2>3. UNCHANGED toServer => Asked'
    BY <1>1 DEF Labels, Asked
  <2>. QED BY <1>1, <2>1, <2>2, <2>3, AskedStep DEF Labels
<1>. QED BY <1>1, <1>2, WholeQuiet

LEMMA WholeSentinel == ASSUME WholeInv, Sentinel PROVE WholeNext
<1> USE DEF WholeInv
<1>1. UNCHANGED <<toClient, buffer, chunks, todo, got, handling, toServer>> /\ conn' = "closed"
  BY DEF Sentinel, serverVars
<1>2. \A c \in Calls : \/ outcome'[c] \notin {"ok", "stale"} \/ outcome'[c] = outcome[c]
                       \/ outcome'[c] = "stale" /\ conn' = "closed"
  BY <1>1 DEF Sentinel
<1>3. Asked'
  BY <1>1 DEF Labels, Asked
<1>. QED BY <1>1, <1>2, <1>3, WholeQuiet

LEMMA WholeReceive ==
    ASSUME WholeInv, NEW n \in {0, Len(toClient)}, Receive(n) PROVE WholeNext
<1> USE DEF WholeInv
<1>1. /\ buffer' = buffer \o SubSeq(toClient, 1, n)
      /\ toClient' = SubSeq(toClient, n + 1, Len(toClient))
      /\ UNCHANGED <<chunks, todo, got, conn, outcome, handling, toServer>>
  BY DEF Receive, parseRest, serverVars
<1>2. buffer \in Seq(Good) /\ toClient \in Seq(Good) /\ n \in 0..Len(toClient)
  BY DEF Labels, Streams
<1>3. Pipe' = Pipe
  BY <1>1, <1>2, Moved DEF Pipe
<1>4. Streams'
  <2>1. SubSeq(toClient, 1, n) \in Seq(Good) /\ SubSeq(toClient, n + 1, Len(toClient)) \in Seq(Good)
    BY <1>2, Removals
  <2>2. buffer \o SubSeq(toClient, 1, n) \in Seq(Good)
    BY <1>2, <2>1, Joined
  <2>. QED BY <1>1, <2>1, <2>2 DEF Streams
<1>5. Labels'
  BY <1>1, <1>4 DEF Labels, Asked, Writing, Stored
<1>6. Order'
  BY <1>1, <1>3, OrderKept
<1>7. WholeMessages' /\ AnswersOwn'
  BY <1>1, AnswersKept
<1>. QED BY <1>5, <1>6, <1>7 DEF WholeNext

\* The server serves a frame.
LEMMA AskedServed ==
    ASSUME WholeInv, NEW n \in 1..2, Serve(n)
    PROVE  toServer' \in Seq(GoodUp) /\ toServer[1] \in GoodUp /\ toServer[1].part # "rest"
<1>1. toServer \in Seq(GoodUp) /\ n \in 0..Len(toServer) /\ Len(toServer) \in Nat
  BY DEF WholeInv, Labels, Asked, Serve, Decodable
<1>2. toServer' \in Seq(GoodUp)
  BY <1>1, Removals DEF Serve
<1>. QED BY <1>1, <1>2 DEF Serve, Decodable

\* A frame of no message, or none, is written for Emacs.
LEMMA WholePlain ==
    ASSUME WholeInv, Asked', UNCHANGED <<buffer, chunks, todo, got, conn, outcome>>,
           NEW f \in Good, f.msg \notin Msgs, toClient' = Append(toClient, f)
    PROVE  WholeNext
<1> USE DEF WholeInv
<1>1. buffer \in Seq(Good) /\ toClient \in Seq(Good)
  BY DEF Labels, Streams
<1>2. Pipe' = Append(Pipe, f)
  BY <1>1, JoinedMore DEF Pipe
<1>3. Order'
  BY <1>2, OrderPlain
<1>4. Labels'
  BY <1>1, Added DEF Labels, Streams, Writing, Stored
<1>. QED BY <1>3, <1>4, AnswersKept DEF WholeNext

LEMMA WholeServes ==
    ASSUME WholeInv, NEW n \in 1..2, ServeRequest(n) \/ ServeNotification(n) \/ ServeResponse(n)
    PROVE  WholeNext
<1> USE DEF WholeInv
<1>1. /\ Serve(n) /\ UNCHANGED <<buffer, chunks, todo, got, conn, outcome>>
      /\ \/ UNCHANGED toClient
         \/ toClient' = Append(toClient, BadNote)
      /\ \/ UNCHANGED handling
         \/ /\ toServer[1].kind = "request"
            /\ handling' = handling \cup {<<toServer[1].id, toServer[1].call>>}
  BY DEF ServeRequest, ServeNotification, ServeResponse, serverRest, emacsVars
<1>2. toServer' \in Seq(GoodUp) /\ toServer[1] \in GoodUp /\ toServer[1].part # "rest"
  BY <1>1, AskedServed
<1>3. \A h \in handling' : h[1] = h[2]
  BY <1>1, <1>2 DEF Labels, Asked, GoodUp
<1>4. Asked'
  BY <1>2, <1>3 DEF Asked
<1>5. CASE UNCHANGED toClient
  BY <1>1, <1>4, <1>5, WholeQuiet
<1>6. CASE toClient' = Append(toClient, BadNote)
  BY <1>1, <1>4, <1>6, PlainGood, WholePlain
<1>. QED BY <1>1, <1>5, <1>6

LEMMA WholeHeartbeat == ASSUME WholeInv, Heartbeat PROVE WholeNext
<1> USE DEF WholeInv
<1>1. beats + 1 \in 1..MaxTraffic
  BY RpcAssumption DEF Heartbeat, Traffic, CallInv, TypeOK, RpcAssumption
<1>2. /\ UNCHANGED <<buffer, chunks, todo, got, conn, outcome, handling, toServer>>
      /\ toClient' = Append(toClient, Beat(beats + 1))
  BY DEF Heartbeat, serverRest, emacsVars
<1>3. Asked'
  BY <1>2 DEF Labels, Asked
<1>. QED BY <1>1, <1>2, <1>3, PlainGood, WholePlain

LEMMA WholeStarts ==
    ASSUME WholeInv, NotifyClient \/ \E i \in Calls, c \in Calls : Respond(i, c)
    PROVE  WholeNext
<1> USE DEF WholeInv
<1>1. /\ UNCHANGED <<buffer, toClient, chunks, got, conn, outcome, toServer>>
      /\ handling' \subseteq handling
  BY DEF NotifyClient, Respond, serverRest, emacsVars
<1>2. \E m \in Msgs : todo' = [todo EXCEPT ![m] = FramesOf(m, IdOf(m))]
  <2>1. CASE NotifyClient
    <3>1. notes + 1 \in Notes
      BY <2>1, RpcAssumption DEF NotifyClient, Traffic, CallInv, TypeOK, RpcAssumption, Notes
    <3>2. Note(notes + 1) \in Msgs /\ IdOf(Note(notes + 1)) = NoteId(notes + 1)
      BY <3>1, MsgIds
    <3>. QED BY <2>1, <3>2 DEF NotifyClient
  <2>2. ASSUME NEW i \in Calls, NEW c \in Calls, Respond(i, c)
        PROVE  \E m \in Msgs : todo' = [todo EXCEPT ![m] = FramesOf(m, IdOf(m))]
    <3>1. i = c
      BY <2>2 DEF Respond, Labels, Asked
    <3>. QED BY <2>2, <3>1, MsgIds DEF Respond
  <2>. QED BY <2>1, <2>2
<1>3. PICK m \in Msgs : todo' = [todo EXCEPT ![m] = FramesOf(m, IdOf(m))]
  BY <1>2
<1>4. Pipe' = Pipe
  BY <1>1 DEF Pipe
<1>5. Order'
  BY <1>1, <1>3, <1>4, OrderStarted
<1>6. Writing'
  BY <1>3, FramesOfGood, Table DEF Labels, Writing
<1>7. Labels'
  BY <1>1, <1>6 DEF Labels, Streams, Asked, Stored
<1>. QED BY <1>1, <1>5, <1>7, AnswersKept DEF WholeNext

LEMMA WholeWrites == ASSUME WholeInv, NEW m \in Msgs, WriteRaw(m) PROVE WholeNext
<1> USE DEF WholeInv
<1>1. /\ UNCHANGED <<buffer, chunks, got, conn, outcome, toServer, handling>>
      /\ todo[m] # <<>> /\ toClient' = Append(toClient, Head(todo[m]))
      /\ todo' = [todo EXCEPT ![m] = Tail(todo[m])]
  BY DEF WriteRaw, serverRest, emacsVars
<1>2. buffer \in Seq(Good) /\ toClient \in Seq(Good) /\ todo[m] \in Seq(Good)
  BY DEF Labels, Streams, Writing
<1>3. Head(todo[m]) = todo[m][1] /\ Head(todo[m]) \in Good /\ Tail(todo[m]) \in Seq(Good)
  BY <1>1, <1>2, Rest
<1>4. Pipe' = Append(Pipe, todo[m][1])
  BY <1>1, <1>2, <1>3, JoinedMore DEF Pipe
<1>5. Order'
  BY <1>1, <1>4, OrderWritten
<1>6. Writing'
  BY <1>1, <1>3, Table DEF Labels, Writing
<1>7. Streams'
  BY <1>1, <1>2, <1>3, Added DEF Streams
<1>8. Labels'
  BY <1>1, <1>6, <1>7 DEF Labels, Asked, Stored
<1>. QED BY <1>1, <1>5, <1>8, AnswersKept DEF WholeNext

LEMMA WholeBreak == ASSUME WholeInv, Break PROVE WholeNext
<1> USE DEF WholeInv
<1>1. /\ UNCHANGED <<buffer, toClient, chunks, got, outcome>>
      /\ conn = "up" /\ conn' = "broken" /\ toServer' = <<>> /\ handling' = {}
      /\ todo' = [m \in Msgs |-> <<>>]
  BY DEF Break, emacsVars
<1>2. Asked' /\ Writing' /\ Streams' /\ Stored'
  BY <1>1 DEF Labels, Asked, Writing, Streams, Stored
<1>3. Order'
  BY <1>1 DEF Order, Pipe, Rising, Continued
<1>4. WholeMessages' /\ AnswersOwn'
  BY <1>1 DEF WholeMessages, AnswersOwn
<1>. QED BY <1>2, <1>3, <1>4 DEF WholeNext, Labels

LEMMA WholeInit == Init => WholeInv
<1> SUFFICES ASSUME Init PROVE WholeInv
  OBVIOUS
<1>1. CallInv
  BY CallInvInit
<1>2. Labels
  BY DEF Init, Labels, Streams, Asked, Writing, Stored
<1>3. Order
  BY DEF Init, Order, Chained, Rising, Continued, Pipe
<1>4. WholeMessages /\ AnswersOwn
  BY DEF Init, WholeMessages, AnswersOwn
<1>. QED BY <1>1, <1>2, <1>3, <1>4 DEF WholeInv

LEMMA WholeStep == WholeInv /\ [Next]_vars => WholeInv'
<1> SUFFICES ASSUME WholeInv, [Next]_vars PROVE WholeInv'
  OBVIOUS
<1>1. WholeNext
  <2>1. CASE User
    BY <2>1, WholeRequest, WholeLoops, WholeEmacs DEF User
  <2>2. CASE Loops
    BY <2>2, WholeLoops DEF Loops
  <2>3. CASE Filter
    BY <2>3, WholeDispatch, WholeEmacs DEF Filter, Dispatch
  <2>4. CASE Reading
    BY <2>4, WholeReceive, WholeSentinel DEF Reading
  <2>5. CASE Server
    BY <2>5, WholeServes, WholeStarts, WholeWrites, WholeHeartbeat, WholeBreak DEF Server
  <2>6. CASE UNCHANGED vars
    BY <2>6, WholeEmacs
  <2>. QED BY <2>1, <2>2, <2>3, <2>4, <2>5, <2>6 DEF Next
<1>2. CallInv'
  BY CallInvStep DEF WholeInv
<1>. QED BY <1>1, <1>2 DEF WholeInv, WholeNext

\* Every message handed to a callback or a handler is whole and made of its
\* own parts in order (WholeMessages), whatever frames of others the server
\* writes in between and wherever the connection breaks.
THEOREM MessagesWhole == Spec => []WholeMessages
<1>1. WholeInv => WholeMessages
  BY DEF WholeInv
<1>. QED BY <1>1, WholeInit, WholeStep, PTL DEF Spec

\* A request succeeds with its own response only (AnswersOwn): ids are not
\* reused, the server answers under the id it was asked under, and the entry
\* of a chunked response belongs to its id.
THEOREM OwnAnswers == Spec => []AnswersOwn
<1>1. WholeInv => AnswersOwn
  BY DEF WholeInv
<1>. QED BY <1>1, WholeInit, WholeStep, PTL DEF Spec


-----------------------------------------------------------------------------
(* Nothing is lost or doubled while the connection is up (NothingLost).    *)
(* A call leaves one trace in one place at a time: a request on its way,   *)
(* an entry of handling, the last frame of its response still to be        *)
(* written, or that frame in what Emacs has not parsed yet.  A heartbeat   *)
(* leaves the request or its answer.                                       *)

None(s, S) == \A k \in 1..Len(s) : s[k] \notin S
Once(s, S) == \E k \in 1..Len(s) : s[k] \in S /\ \A j \in 1..Len(s) : s[j] \in S => j = k
Kept(s, t, S) == (None(s, S) => None(t, S)) /\ (Once(s, S) => Once(t, S))

LEMMA KeptSame == ASSUME NEW s, NEW S PROVE Kept(s, s, S)
BY DEF Kept

LEMMA NoneEmpty == ASSUME NEW S PROVE None(<<>>, S)
BY DEF None

\* A frame is added.
LEMMA AddedOther ==
    ASSUME NEW T, NEW s \in Seq(T), NEW x \in T, NEW S, x \notin S
    PROVE  Kept(s, Append(s, x), S)
<1>1. /\ Len(s) \in Nat /\ Len(Append(s, x)) = Len(s) + 1
      /\ \A i \in 1..Len(s) : Append(s, x)[i] = s[i]
      /\ Append(s, x)[Len(s) + 1] = x
  BY Added
<1>2. \A i \in 1..Len(Append(s, x)) : i \in 1..Len(s) \/ i = Len(s) + 1
  BY <1>1
<1>3. \A i \in 1..Len(s) : i \in 1..Len(Append(s, x))
  BY <1>1
<1>4. \A i \in 1..Len(Append(s, x)) : Append(s, x)[i] \in S => i \in 1..Len(s) /\ s[i] \in S
  BY <1>1, <1>2
<1>. QED BY <1>1, <1>3, <1>4 DEF Kept, None, Once

LEMMA AddedOne ==
    ASSUME NEW T, NEW s \in Seq(T), NEW x \in T, NEW S, x \in S, None(s, S)
    PROVE  Once(Append(s, x), S)
<1>1. /\ Len(s) \in Nat /\ Len(Append(s, x)) = Len(s) + 1
      /\ \A i \in 1..Len(s) : Append(s, x)[i] = s[i]
      /\ Append(s, x)[Len(s) + 1] = x
  BY Added
<1>2. \A i \in 1..Len(Append(s, x)) : i \in 1..Len(s) \/ i = Len(s) + 1
  BY <1>1
<1>3. \A i \in 1..Len(Append(s, x)) : Append(s, x)[i] \in S => i = Len(s) + 1
  BY <1>1, <1>2 DEF None
<1>4. Len(s) + 1 \in 1..Len(Append(s, x))
  BY <1>1
<1>. QED BY <1>1, <1>3, <1>4 DEF Once

\* The first n frames leave; t is the rest.
Leaves(s, n, t) ==
    /\ Len(s) \in Nat /\ n \in 1..Len(s) /\ Len(t) = Len(s) - n
    /\ \A i \in 1..Len(t) : t[i] = s[i + n]

LEMMA TailLeaves ==
    ASSUME NEW T, NEW s \in Seq(T), s # <<>> PROVE Leaves(s, 1, Tail(s)) /\ Head(s) = s[1]
BY Rest DEF Leaves

LEMMA RestLeaves ==
    ASSUME NEW T, NEW s \in Seq(T), NEW n \in 1..Len(s)
    PROVE  Leaves(s, n, SubSeq(s, n + 1, Len(s)))
BY DEF Leaves

LEMMA Positions ==
    ASSUME NEW s, NEW n, NEW t, Leaves(s, n, t)
    PROVE  /\ \A i \in 1..Len(t) : i + n \in 1..Len(s) /\ i + n # 1
           /\ \A i \in 1..Len(t) : t[i] = s[i + n]
           /\ \A k \in 1..Len(s) : k \in 1..n \/ (k - n \in 1..Len(t) /\ (k - n) + n = k)
           /\ \A i \in 1..Len(t), k \in 1..Len(s) : i + n = k => i = k - n
           /\ 1 \in 1..n /\ 1 \in 1..Len(s)
BY DEF Leaves

LEMMA LeftOther ==
    ASSUME NEW s, NEW n, NEW t, Leaves(s, n, t), NEW S, \A k \in 1..n : s[k] \notin S
    PROVE  Kept(s, t, S)
<1>1. None(s, S) => None(t, S)
  BY Positions DEF None
<1>2. ASSUME NEW k \in 1..Len(s), s[k] \in S, \A j \in 1..Len(s) : s[j] \in S => j = k
      PROVE  Once(t, S)
  <2>1. k - n \in 1..Len(t) /\ (k - n) + n = k /\ t[k - n] \in S
    BY <1>2, Positions
  <2>2. \A i \in 1..Len(t) : t[i] \in S => i = k - n
    BY <1>2, Positions
  <2>. QED BY <2>1, <2>2 DEF Once
<1>. QED BY <1>1, <1>2 DEF Kept, Once

LEMMA LeftOne ==
    ASSUME NEW s, NEW n, NEW t, Leaves(s, n, t), NEW S, s[1] \in S
    PROVE  ~None(s, S) /\ (Once(s, S) => None(t, S))
<1>1. ~None(s, S)
  BY Positions DEF None
<1>2. ASSUME Once(s, S), NEW i \in 1..Len(t) PROVE t[i] \notin S
  <2>1. \A j \in 1..Len(s) : s[j] \in S => j = 1
    BY <1>2, Positions DEF Once
  <2>. QED BY <2>1, Positions
<1>. QED BY <1>1, <1>2 DEF None

\* How often a frame is in two sequences.
LEMMA JoinedOnce ==
    ASSUME NEW T, NEW s \in Seq(T), NEW t \in Seq(T), NEW S
    PROVE  /\ None(s \o t, S) => None(s, S) /\ None(t, S)
           /\ Once(s \o t, S) => \/ Once(s, S) /\ None(t, S)
                                 \/ None(s, S) /\ Once(t, S)
<1> DEFINE u == s \o t
<1>1. /\ Len(s) \in Nat /\ Len(t) \in Nat /\ Len(u) = Len(s) + Len(t)
      /\ \A i \in 1..Len(s) : u[i] = s[i]
      /\ \A i \in 1..Len(t) : u[Len(s) + i] = t[i]
  BY Joined
<1> HIDE DEF u
<1>2. /\ \A i \in 1..Len(s) : i \in 1..Len(u)
      /\ \A i \in 1..Len(t) : Len(s) + i \in 1..Len(u) /\ Len(s) + i \notin 1..Len(s)
      /\ \A k \in 1..Len(u) : k \in 1..Len(s) \/ (k - Len(s) \in 1..Len(t) /\ Len(s) + (k - Len(s)) = k)
      /\ \A i \in 1..Len(t), k \in 1..Len(u) : Len(s) + i = k => i = k - Len(s)
  BY <1>1
<1>3. None(u, S) => None(s, S) /\ None(t, S)
  BY <1>1, <1>2 DEF None
<1>4. ASSUME NEW k \in 1..Len(u), u[k] \in S, \A j \in 1..Len(u) : u[j] \in S => j = k
      PROVE  (Once(s, S) /\ None(t, S)) \/ (None(s, S) /\ Once(t, S))
  <2>1. \A i \in 1..Len(s) : s[i] \in S => i = k
    BY <1>1, <1>2, <1>4
  <2>2. \A i \in 1..Len(t) : t[i] \in S => Len(s) + i = k
    BY <1>1, <1>2, <1>4
  <2>3. CASE k \in 1..Len(s)
    BY <1>1, <1>2, <1>4, <2>1, <2>2, <2>3 DEF Once, None
  <2>4. CASE k \notin 1..Len(s)
    <3>1. k - Len(s) \in 1..Len(t) /\ t[k - Len(s)] \in S
      BY <1>1, <1>2, <1>4, <2>4
    <3>2. \A i \in 1..Len(t) : t[i] \in S => i = k - Len(s)
      BY <1>2, <2>2
    <3>. QED BY <2>1, <2>4, <3>1, <3>2 DEF Once, None
  <2>. QED BY <2>3, <2>4
<1>5. Once(u, S) => (Once(s, S) /\ None(t, S)) \/ (None(s, S) /\ Once(t, S))
  BY <1>4 DEF Once
<1>. QED BY <1>3, <1>5 DEF u

\* The property counts by cardinalities.
LEMMA Counted ==
    ASSUME NEW T, NEW s \in Seq(T), NEW S, NEW D, D = {k \in DOMAIN s : s[k] \in S}
    PROVE  /\ None(s, S) => Cardinality(D) = 0
           /\ Once(s, S) => Cardinality(D) = 1
<1>1. DOMAIN s = 1..Len(s)
  OBVIOUS
<1>2. ASSUME None(s, S) PROVE Cardinality(D) = 0
  <2>1. D = {}
    BY <1>1, <1>2 DEF None
  <2>. QED BY <2>1, FS_EmptySet
<1>3. ASSUME Once(s, S) PROVE Cardinality(D) = 1
  <2>1. PICK k \in 1..Len(s) : s[k] \in S /\ \A j \in 1..Len(s) : s[j] \in S => j = k
    BY <1>3 DEF Once
  <2>2. D = {k}
    BY <1>1, <2>1
  <2>. QED BY <2>2, FS_Singleton
<1>. QED BY <1>2, <1>3


AsksOf(c) == {f \in GoodUp : f.kind = "request" /\ f.call = c /\ f.part # "rest"}
LastsOf(c) == {f \in Good : f.msg = Response(c) /\ ~f.chunked /\ f.kind # "continue"}
BeatsOf(b) == {f \in Good : f.kind = "request" /\ f.id = b}
AnswersTo(b) == {f \in GoodUp : f.kind = "response" /\ f.id = b}

NotAsked(c) == None(toServer, AsksOf(c))
Handled(c) == <<c, c>> \in handling
NotDue(c) == None(todo[Response(c)], LastsOf(c))
NotSent(c) == None(Pipe, LastsOf(c))

Gone(c) == NotAsked(c) /\ ~Handled(c) /\ NotDue(c) /\ NotSent(c)
Posed(c) == Once(toServer, AsksOf(c)) /\ ~Handled(c) /\ NotDue(c) /\ NotSent(c)
Handed(c) == NotAsked(c) /\ Handled(c) /\ NotDue(c) /\ NotSent(c)
Due(c) == NotAsked(c) /\ ~Handled(c) /\ Once(todo[Response(c)], LastsOf(c)) /\ NotSent(c)
Sent(c) == NotAsked(c) /\ ~Handled(c) /\ NotDue(c) /\ Once(Pipe, LastsOf(c))
Flying(c) == Posed(c) \/ Handed(c) \/ Due(c) \/ Sent(c)

Placed(c) == (Gone(c) \/ Flying(c)) /\ (c > calls => Gone(c))
AllPlaced == \A c \in Calls : Placed(c)
Cut == conn # "up" => toServer = <<>> /\ handling = {} /\ \A m \in Msgs : todo[m] = <<>>
Awaited == conn = "up" => \A c \in Calls : pending[c] # 0 => Flying(c)
Travel == AllPlaced /\ Cut /\ Awaited

Silent(b) == None(Pipe, BeatsOf(b)) /\ None(toServer, AnswersTo(b))
Sounding(b) ==
    \/ Once(Pipe, BeatsOf(b)) /\ None(toServer, AnswersTo(b))
    \/ None(Pipe, BeatsOf(b)) /\ Once(toServer, AnswersTo(b))
Beating(b) ==
    /\ Silent(b) \/ Sounding(b)
    /\ b > beats => Silent(b)
    /\ b \in waiters => Sounding(b)
AllBeating == \A b \in 1..MaxTraffic : Beating(b)

LostInv == WholeInv /\ Travel /\ (conn = "up" => AllBeating)

\* A step that leaves the traces of a call, or of a heartbeat, where they are.
CallKept(c) ==
    /\ Kept(toServer, toServer', AsksOf(c)) /\ Kept(Pipe, Pipe', LastsOf(c))
    /\ Kept(todo[Response(c)], todo'[Response(c)], LastsOf(c))
    /\ Handled(c)' <=> Handled(c)
BeatKept(b) == Kept(toServer, toServer', AnswersTo(b)) /\ Kept(Pipe, Pipe', BeatsOf(b))

\* A step leaves a call where it is or moves it one place on; a break loses it.
Course(c) ==
    \/ CallKept(c) /\ (conn' = "up" /\ pending'[c] # 0 => conn = "up" /\ pending[c] # 0)
    \/ Gone(c) /\ Posed(c)' /\ c <= calls'
    \/ Posed(c) /\ Handed(c)'
    \/ Handed(c) /\ Due(c)'
    \/ Due(c) /\ Sent(c)'
    \/ Sent(c) /\ Gone(c)' /\ pending'[c] = 0
    \/ Gone(c)' /\ conn' # "up"

\* The sets of frames do not depend on the state.
LEMMA TraceSets ==
    /\ \A c : AsksOf(c)' = AsksOf(c) /\ LastsOf(c)' = LastsOf(c)
    /\ \A b : BeatsOf(b)' = BeatsOf(b) /\ AnswersTo(b)' = AnswersTo(b)
BY DEF AsksOf, LastsOf, BeatsOf, AnswersTo

LEMMA KeptPlaces ==
    ASSUME NEW c, CallKept(c)
    PROVE  /\ Gone(c) => Gone(c)'
           /\ Posed(c) => Posed(c)'
           /\ Handed(c) => Handed(c)'
           /\ Due(c) => Due(c)'
           /\ Sent(c) => Sent(c)'
           /\ Flying(c) => Flying(c)'
<1>1. /\ NotAsked(c) => NotAsked(c)'
      /\ NotDue(c) => NotDue(c)'
      /\ NotSent(c) => NotSent(c)'
      /\ Handled(c)' <=> Handled(c)
      /\ Once(toServer, AsksOf(c)) => Once(toServer, AsksOf(c))'
      /\ Once(todo[Response(c)], LastsOf(c)) => Once(todo[Response(c)], LastsOf(c))'
      /\ Once(Pipe, LastsOf(c)) => Once(Pipe, LastsOf(c))'
  BY TraceSets DEF CallKept, Kept, NotAsked, NotDue, NotSent, Response
<1>. QED BY <1>1 DEF Gone, Posed, Handed, Due, Sent, Flying

\* A call is in one place only.
LEMMA OnePlace ==
    ASSUME NEW c
    PROVE  /\ Gone(c) => ~Flying(c)
           /\ Posed(c) => ~NotAsked(c) /\ ~Handled(c) /\ NotDue(c) /\ NotSent(c)
           /\ Handed(c) => NotAsked(c) /\ Handled(c) /\ NotDue(c) /\ NotSent(c)
           /\ Due(c) => NotAsked(c) /\ ~Handled(c) /\ ~NotDue(c) /\ NotSent(c)
           /\ Sent(c) => NotAsked(c) /\ ~Handled(c) /\ NotDue(c) /\ ~NotSent(c)
BY DEF Gone, Posed, Handed, Due, Sent, Flying, NotAsked, NotDue, NotSent, None, Once

LEMMA CourseKeeps ==
    ASSUME NEW c \in Calls, Placed(c), Course(c), calls \in Nat, calls' \in {calls, calls + 1},
           conn = "up" /\ pending[c] # 0 => Flying(c)
    PROVE  Placed(c)' /\ (conn' = "up" /\ pending'[c] # 0 => Flying(c)')
<1>1. /\ c \in Nat /\ (~(c > calls) => ~(c > calls'))
      /\ c <= calls' => ~(c > calls')
  BY DEF Calls
<1>2. Flying(c) => ~(c > calls)
  BY OnePlace DEF Placed
<1>3. CASE CallKept(c) /\ (conn' = "up" /\ pending'[c] # 0 => conn = "up" /\ pending[c] # 0)
  BY <1>1, <1>3, KeptPlaces DEF Placed
<1>4. CASE Gone(c) /\ Posed(c)' /\ c <= calls'
  BY <1>1, <1>4 DEF Placed, Flying
<1>5. CASE \/ Posed(c) /\ Handed(c)'
           \/ Handed(c) /\ Due(c)'
           \/ Due(c) /\ Sent(c)'
  BY <1>1, <1>2, <1>5 DEF Placed, Flying
<1>6. CASE \/ Sent(c) /\ Gone(c)' /\ pending'[c] = 0
           \/ Gone(c)' /\ conn' # "up"
  BY <1>6 DEF Placed
<1>. QED BY <1>3, <1>4, <1>5, <1>6 DEF Course

LEMMA BeatingOn ==
    ASSUME NEW b \in 1..MaxTraffic, Beating(b), BeatKept(b), UNCHANGED beats,
           b \in waiters' => b \in waiters
    PROVE  Beating(b)'
<1>1. Silent(b) => Silent(b)'
  BY DEF Silent, BeatKept, Kept
<1>2. Sounding(b) => Sounding(b)'
  BY DEF Sounding, BeatKept, Kept
<1>. QED BY <1>1, <1>2 DEF Beating

LEMMA StreamsKnown ==
    ASSUME WholeInv
    PROVE  /\ toServer \in Seq(GoodUp) /\ Pipe \in Seq(Good) /\ TypeOK
           /\ calls \in Nat /\ calls \in 0..MaxCalls /\ beats \in 0..MaxTraffic
           /\ \A m \in Msgs : todo[m] \in Seq(Good)
<1>1. Labels /\ TypeOK
  BY DEF WholeInv, CallInv
<1>2. Pipe \in Seq(Good)
  BY <1>1, PipeGood DEF Labels
<1>. QED BY <1>1, <1>2 DEF Labels, Asked, Writing, TypeOK

\* Emacs writes a frame that is neither a request's nor an answer.
LEMMA UpKept ==
    ASSUME WholeInv, UNCHANGED <<Pipe, todo, handling>>, NEW u \in GoodUp,
           toServer' \in {toServer, Append(toServer, u)},
           NEW c, u \notin AsksOf(c)
    PROVE  c \in Calls => CallKept(c)
<1>1. Kept(toServer, toServer', AsksOf(c))
  BY StreamsKnown, KeptSame, AddedOther
<1>. QED BY <1>1, KeptSame DEF CallKept, Handled

LEMMA UpBeatKept ==
    ASSUME WholeInv, UNCHANGED Pipe, NEW u \in GoodUp,
           toServer' \in {toServer, Append(toServer, u)},
           NEW b, u \notin AnswersTo(b)
    PROVE  BeatKept(b)
<1>1. Kept(toServer, toServer', AnswersTo(b))
  BY StreamsKnown, KeptSame, AddedOther
<1>. QED BY <1>1, KeptSame DEF BeatKept

\* Plain frames of Emacs.
LEMMA PlainUp ==
    /\ Upward("notification", 0, 0, "whole") \in GoodUp
    /\ \A c \in Calls : Upward("request", 0, c, "rest") \in GoodUp
BY UpTypes DEF GoodUp, Upward

\* The steps of Emacs that leave every trace where it is.
Quietly ==
    \/ Notify \/ ParseEnd \/ HandlerReturns \/ Sentinel \/ UNCHANGED vars
    \/ \E n \in {0, Len(toClient)} : Receive(n)
    \/ \E c \in Calls : SendRest(c) \/ Timeout(c) \/ Return(c) \/ Quit(c)

PlainWrite == \E u \in GoodUp :
    /\ toServer' \in {toServer, Append(toServer, u)}
    /\ u.kind # "response" /\ (u.kind = "request" => u.part = "rest")

LEMMA QuietStreams ==
    ASSUME WholeInv, Quietly
    PROVE  /\ UNCHANGED <<Pipe, todo, handling, calls, waiters, beats>>
           /\ PlainWrite
           /\ \A c \in Calls : pending'[c] # 0 => pending[c] # 0
           /\ conn' = "up" => conn = "up"
<1> DEFINE v == Upward("notification", 0, 0, "whole")
<1>1. ASSUME UNCHANGED toServer \/ toServer' = Append(toServer, v) PROVE PlainWrite
  <2>1. v \in GoodUp /\ v.kind = "notification"
    BY PlainUp DEF Upward
  <2> HIDE DEF v
  <2>. QED BY <1>1, <2>1 DEF PlainWrite
<1>2. CASE Notify \/ ParseEnd \/ HandlerReturns \/ Sentinel \/ UNCHANGED vars
  <2>1. UNCHANGED <<toClient, buffer, todo, handling, calls, waiters, beats>>
    BY <1>2 DEF Notify, ParseEnd, HandlerReturns, Sentinel, vars, emacsVars, serverVars, parseRest
  <2>2. UNCHANGED Pipe
    BY <2>1 DEF Pipe
  <2>3. UNCHANGED toServer \/ toServer' = Append(toServer, v)
    BY <1>2 DEF Notify, ParseEnd, HandlerReturns, Sentinel, WriteFrame, vars
  <2>4. \A c \in Calls : pending'[c] # 0 => pending[c] # 0
    <3>1. UNCHANGED pending \/ pending' = [i \in Ids |-> 0]
      BY <1>2 DEF Notify, ParseEnd, HandlerReturns, Sentinel, vars, emacsVars
    <3>. QED BY <3>1, Numbers
  <2>5. conn' = "up" => conn = "up"
    BY <1>2 DEF Notify, ParseEnd, HandlerReturns, Sentinel, vars, parseRest
  <2>. QED BY <1>1, <2>1, <2>2, <2>3, <2>4, <2>5
<1>3. ASSUME NEW n \in {0, Len(toClient)}, Receive(n)
      PROVE  /\ UNCHANGED <<Pipe, todo, handling, calls, waiters, beats, pending, conn>>
             /\ PlainWrite
  <2>1. /\ buffer' = buffer \o SubSeq(toClient, 1, n)
        /\ toClient' = SubSeq(toClient, n + 1, Len(toClient))
        /\ UNCHANGED <<todo, handling, calls, waiters, beats, pending, toServer, conn>>
    BY <1>3 DEF Receive, parseRest, serverVars
  <2>2. UNCHANGED Pipe
    BY <2>1, Moved DEF Pipe, WholeInv, Labels, Streams
  <2>. QED BY <1>1, <2>1, <2>2
<1>4. ASSUME NEW c \in Calls, SendRest(c) \/ Timeout(c) \/ Return(c) \/ Quit(c)
      PROVE  /\ UNCHANGED <<Pipe, todo, handling, calls, waiters, beats, conn>>
             /\ PlainWrite
             /\ \A d \in Calls : pending'[d] # 0 => pending[d] # 0
  <2> DEFINE u == Upward("request", 0, c, "rest")
  <2>1. UNCHANGED <<toClient, buffer, todo, handling, calls, waiters, beats, conn>>
    BY <1>4 DEF SendRest, Timeout, Return, Quit, serverVars
  <2>2. UNCHANGED Pipe
    BY <2>1 DEF Pipe
  <2>3. toServer' \in {toServer, Append(toServer, u)}
    BY <1>4 DEF SendRest, Timeout, Return, Quit, WriteFrame
  <2>4. u \in GoodUp /\ u.kind = "request" /\ u.part = "rest"
    BY PlainUp DEF Upward
  <2>5. \A d \in Calls : pending'[d] # 0 => pending[d] # 0
    BY <1>4, StreamsKnown, Numbers DEF SendRest, Timeout, Return, Quit, Forget, TypeOK
  <2> HIDE DEF u
  <2>. QED BY <2>1, <2>2, <2>3, <2>4, <2>5 DEF PlainWrite
<1>. QED BY <1>2, <1>3, <1>4 DEF Quietly

LEMMA QuietTraces ==
    ASSUME WholeInv, Quietly
    PROVE  /\ \A c \in Calls : CallKept(c)
           /\ AllBeating => AllBeating'
<1>1. UNCHANGED <<Pipe, todo, handling, waiters, beats>> /\ PlainWrite
  BY QuietStreams
<1>2. PICK u \in GoodUp : /\ toServer' \in {toServer, Append(toServer, u)}
                          /\ u.kind # "response" /\ (u.kind = "request" => u.part = "rest")
  BY <1>1 DEF PlainWrite
<1>3. \A c : u \notin AsksOf(c) /\ u \notin AnswersTo(c)
  BY <1>2 DEF AsksOf, AnswersTo
<1>4. ASSUME NEW c \in Calls PROVE CallKept(c)
  BY <1>1, <1>2, <1>3, UpKept
<1>5. ASSUME AllBeating, NEW b \in 1..MaxTraffic PROVE Beating(b)'
  BY <1>1, <1>2, <1>3, <1>5, UpBeatKept, BeatingOn DEF AllBeating
<1>. QED BY <1>4, <1>5 DEF AllBeating

\* A new call puts its request on its way, if there is one.
LEMMA RequestTraces ==
    ASSUME WholeInv, AllPlaced, NEW k \in {"sync", "async"}, Request(k)
    PROVE  \E n \in Calls :
               /\ n = calls + 1 /\ calls' = n /\ conn' = conn
               /\ \A c \in Calls \ {n} : CallKept(c) /\ (pending'[c] # 0 => pending[c] # 0)
               /\ IF conn = "up" THEN Gone(n) /\ Posed(n)' ELSE Gone(n) /\ CallKept(n)
               /\ conn = "up" /\ AllBeating => AllBeating'
<1>1. PICK n \in Calls : NewId = n /\ n = calls + 1 /\ calls \in Nat
  BY StreamsKnown, Numbers DEF Request, NewId
<1>2. UNCHANGED <<toClient, buffer, todo, handling, waiters, beats, conn>> /\ calls' = n
  BY <1>1 DEF Request, serverVars
<1>3. UNCHANGED Pipe
  BY <1>2 DEF Pipe
<1>4. PICK u \in GoodUp : /\ IF conn = "up" THEN toServer' = Append(toServer, u)
                                            ELSE UNCHANGED toServer
                          /\ u.kind = "request" /\ u.call = n /\ u.part # "rest"
  <2>1. /\ Upward("request", n, n, "whole") \in GoodUp
        /\ Upward("request", n, n, "header") \in GoodUp
    BY <1>1, UpTypes DEF GoodUp, Upward
  <2>2. IF conn = "up" THEN \/ toServer' = Append(toServer, Upward("request", n, n, "whole"))
                            \/ toServer' = Append(toServer, Upward("request", n, n, "header"))
                       ELSE UNCHANGED toServer
    BY <1>1 DEF Request, WriteFrame
  <2>. QED BY <2>1, <2>2 DEF Upward
<1>5. \A c \in Calls \ {n} : (pending'[c] # 0 => pending[c] # 0)
  BY <1>1, StreamsKnown, Numbers DEF Request, TypeOK
<1>6. (\A b : u \notin AnswersTo(b)) /\ u \in AsksOf(n) /\ \A c : c # n => u \notin AsksOf(c)
  BY <1>4 DEF AsksOf, AnswersTo
<1>7. ASSUME NEW c \in Calls \ {n} PROVE CallKept(c)
  BY <1>2, <1>3, <1>4, <1>6, UpKept
<1>8. Gone(n)
  BY <1>1 DEF AllPlaced, Placed
<1>9. CASE conn = "up"
  <2>1. Once(toServer', AsksOf(n))
    BY <1>4, <1>6, <1>8, <1>9, AddedOne, StreamsKnown DEF Gone, NotAsked
  <2>2. Posed(n)'
    BY <1>2, <1>3, <1>8, <2>1 DEF Gone, Posed, Handled, NotDue, NotSent, LastsOf, AsksOf
  <2>3. ASSUME AllBeating, NEW b \in 1..MaxTraffic PROVE Beating(b)'
    BY <1>2, <1>3, <1>4, <1>6, <2>3, UpBeatKept, BeatingOn DEF AllBeating
  <2>. QED BY <1>1, <1>2, <1>5, <1>7, <1>8, <1>9, <2>2, <2>3 DEF AllBeating
<1>10. CASE conn # "up"
  <2>1. CallKept(n)
    BY <1>2, <1>3, <1>4, <1>10, KeptSame DEF CallKept, Handled
  <2>. QED BY <1>1, <1>2, <1>5, <1>7, <1>8, <1>10, <2>1
<1>. QED BY <1>9, <1>10


\* A dispatch answers a request of the server only, and completes no call but
\* the one a response names.
LEMMA DispatchEffects ==
    ASSUME WholeInv, NEW f,
           \/ SeedChunks(f) \/ DispatchWhole(f) \/ DispatchRequest(f)
           \/ AccumulateChunk(f) \/ FinishChunks(f)
    PROVE  /\ TakeFrame(f) /\ f \in Good /\ Leaves(Pipe, 1, Pipe') /\ Pipe[1] = f
           /\ UNCHANGED <<todo, handling, calls, waiters, beats, conn>>
           /\ IF f.kind = "request" /\ conn = "up"
              THEN toServer' = Append(toServer, Upward("response", f.id, 0, "whole"))
              ELSE UNCHANGED toServer
           /\ \A i \in Ids : pending'[i] # 0 => pending[i] # 0
<1>1. TakeFrame(f)
  BY DEF SeedChunks, DispatchWhole, DispatchRequest, AccumulateChunk, FinishChunks
<1>2. /\ f \in Good /\ Pipe # <<>> /\ f = Head(Pipe) /\ Pipe' = Tail(Pipe)
      /\ UNCHANGED <<todo, handling, calls, waiters, beats, conn>>
  BY <1>1, Taken DEF WholeInv, TakeFrame, parseRest, serverVars
<1>3. Leaves(Pipe, 1, Pipe') /\ Pipe[1] = f
  BY <1>2, TailLeaves, StreamsKnown
<1>4. f.kind = "request" => ~f.chunked
  BY <1>2, FrameKinds
<1>5. IF f.kind = "request" /\ conn = "up"
      THEN toServer' = Append(toServer, Upward("response", f.id, 0, "whole"))
      ELSE UNCHANGED toServer
  BY <1>4 DEF SeedChunks, DispatchWhole, DispatchRequest, AccumulateChunk, FinishChunks, WriteFrame
<1>6. UNCHANGED pending \/ \E i \in Ids : pending' = [pending EXCEPT ![i] = 0]
  <2>1. f.id \in Ids \/ UNCHANGED pending
    BY <1>1, TakenFrame, StreamsKnown
       DEF SeedChunks, DispatchWhole, DispatchRequest, AccumulateChunk, FinishChunks, FrameNames
  <2>. QED BY <2>1 DEF SeedChunks, DispatchWhole, DispatchRequest, AccumulateChunk, FinishChunks,
              Deliver, CompleteRequest
<1>7. \A i \in Ids : pending'[i] # 0 => pending[i] # 0
  BY <1>6, StreamsKnown DEF TypeOK
<1>. QED BY <1>1, <1>2, <1>3, <1>5, <1>7

\* The last frame of a response completes its call.
LEMMA LastCompletes ==
    ASSUME WholeInv, NEW f, NEW c \in Calls, f \in LastsOf(c),
           \/ SeedChunks(f) \/ DispatchWhole(f) \/ DispatchRequest(f)
           \/ AccumulateChunk(f) \/ FinishChunks(f)
    PROVE  pending'[c] = 0
<1>1. /\ f \in Good /\ f.msg = Response(c) /\ ~f.chunked /\ f.kind # "continue"
      /\ f.msg \in Msgs /\ f.id = c /\ f.msg[1] = "response" /\ c \in Ids
  BY MsgIds, Numbers DEF LastsOf, Good, Labelled, Response
<1>2. f.kind # "request"
  BY <1>1, FrameKinds
<1>3. ASSUME NEW m, NEW parts, Deliver("response", c, m, parts) PROVE pending'[c] = 0
  BY <1>1, <1>3, StreamsKnown DEF Deliver, CompleteRequest, TypeOK
<1>4. CASE DispatchWhole(f)
  <2>1. f.kind = "response"
    BY <1>1, <1>4 DEF DispatchWhole, Good, Labelled
  <2>. QED BY <1>1, <1>3, <1>4, <2>1 DEF DispatchWhole
<1>5. CASE FinishChunks(f)
  <2>1. TakeFrame(f) /\ Rank(f) > 1
    BY <1>1, <1>5, FrameKinds DEF FinishChunks
  <2>2. chunks[f.id] # NoEntry /\ chunks[f.id].msg = f.msg
    <3>1. chunks[f.id] # NoEntry /\ chunks[f.id] = Seen(f.msg, Rank(f) - 1)
      BY <1>1, <2>1, EntryThere DEF WholeInv
    <3>. QED BY <3>1 DEF Seen
  <2>3. Deliver("response", c, f.msg, chunks[f.id].parts)
    BY <1>1, <1>5, <2>2 DEF FinishChunks
  <2>. QED BY <1>3, <2>3
<1>. QED BY <1>1, <1>2, <1>4, <1>5 DEF SeedChunks, DispatchRequest, AccumulateChunk

LEMMA FirstGone ==
    ASSUME NEW s, NEW t, Leaves(s, 1, t), NEW S
    PROVE  /\ s[1] \notin S => Kept(s, t, S)
           /\ s[1] \in S => ~None(s, S) /\ (Once(s, S) => None(t, S))
<1>1. \A k \in 1..1 : k = 1
  OBVIOUS
<1>. QED BY <1>1, LeftOther, LeftOne

LEMMA DispatchTraces ==
    ASSUME WholeInv, AllPlaced, NEW f,
           \/ SeedChunks(f) \/ DispatchWhole(f) \/ DispatchRequest(f)
           \/ AccumulateChunk(f) \/ FinishChunks(f)
    PROVE  /\ \A c \in Calls : IF f \in LastsOf(c) THEN Sent(c) /\ Gone(c)' /\ pending'[c] = 0
                               ELSE CallKept(c) /\ (pending'[c] # 0 => pending[c] # 0)
           /\ conn = "up" /\ AllBeating => AllBeating'
<1> DEFINE u == Upward("response", f.id, 0, "whole")
<1>1. /\ TakeFrame(f) /\ f \in Good /\ Leaves(Pipe, 1, Pipe') /\ Pipe[1] = f
      /\ UNCHANGED <<todo, handling, calls, waiters, beats, conn>>
      /\ IF f.kind = "request" /\ conn = "up" THEN toServer' = Append(toServer, u)
                                              ELSE UNCHANGED toServer
      /\ \A i \in Ids : pending'[i] # 0 => pending[i] # 0
  BY DispatchEffects
<1>2. f.kind = "request" => u \in GoodUp
  <2>1. f.kind = "request" => f.id \in 1..MaxTraffic
    BY <1>1, TakenFrame, StreamsKnown DEF FrameNames
  <2>. QED BY <2>1, UpTypes DEF GoodUp, Upward
<1>3. u.kind = "response" /\ u.id = f.id
  BY DEF Upward
<1> HIDE DEF u
<1>4. ASSUME NEW c \in Calls PROVE Kept(toServer, toServer', AsksOf(c))
  <2>1. u \notin AsksOf(c)
    BY <1>3 DEF AsksOf
  <2>. QED BY <1>1, <1>2, <2>1, StreamsKnown, KeptSame, AddedOther
<1>5. ASSUME NEW c \in Calls
      PROVE  IF f \in LastsOf(c) THEN Sent(c) /\ Gone(c)' /\ pending'[c] = 0
             ELSE CallKept(c) /\ (pending'[c] # 0 => pending[c] # 0)
  <2>0. Placed(c) /\ (pending'[c] # 0 => pending[c] # 0)
    BY <1>1, Numbers DEF AllPlaced
  <2>1. CASE f \notin LastsOf(c)
    <3>1. Kept(Pipe, Pipe', LastsOf(c))
      BY <1>1, <2>1, FirstGone
    <3>2. CallKept(c)
      BY <1>1, <1>4, <3>1, KeptSame DEF CallKept, Handled
    <3>. QED BY <2>0, <2>1, <3>2
  <2>2. CASE f \in LastsOf(c)
    <3>1. ~NotSent(c) /\ (Once(Pipe, LastsOf(c)) => NotSent(c)')
      BY <1>1, <2>2, FirstGone, TraceSets DEF NotSent
    <3>2. Sent(c)
      BY <2>0, <3>1, OnePlace DEF Placed, Gone, Flying
    <3>3. NotAsked(c)' /\ ~Handled(c)' /\ NotDue(c)'
      BY <1>1, <1>4, <3>2, TraceSets DEF Sent, NotAsked, Handled, NotDue, Kept
    <3>4. Gone(c)' /\ pending'[c] = 0
      BY <2>2, <3>1, <3>2, <3>3, LastCompletes DEF Gone, Sent
    <3>. QED BY <2>2, <3>2, <3>4
  <2>. QED BY <2>1, <2>2
<1>6. ASSUME conn = "up", AllBeating, NEW b \in 1..MaxTraffic PROVE Beating(b)'
  <2>0. Beating(b)
    BY <1>6 DEF AllBeating
  <2>1. CASE f \notin BeatsOf(b)
    <3>1. Kept(Pipe, Pipe', BeatsOf(b))
      BY <1>1, <2>1, FirstGone
    <3>2. f.kind = "request" => u \notin AnswersTo(b)
      BY <1>1, <1>3, <2>1 DEF BeatsOf, AnswersTo
    <3>3. Kept(toServer, toServer', AnswersTo(b))
      BY <1>1, <1>2, <3>2, StreamsKnown, KeptSame, AddedOther
    <3>. QED BY <1>1, <2>0, <3>1, <3>3, BeatingOn DEF BeatKept
  <2>2. CASE f \in BeatsOf(b)
    <3>1. ~None(Pipe, BeatsOf(b)) /\ (Once(Pipe, BeatsOf(b)) => None(Pipe', BeatsOf(b)))
      BY <1>1, <2>2, FirstGone
    <3>2. Once(Pipe, BeatsOf(b)) /\ None(toServer, AnswersTo(b)) /\ ~(b > beats)
      BY <2>0, <3>1 DEF Beating, Silent, Sounding
    <3>3. toServer' = Append(toServer, u) /\ u \in GoodUp /\ u \in AnswersTo(b)
      BY <1>1, <1>2, <1>3, <1>6, <2>2 DEF BeatsOf, AnswersTo
    <3>4. Once(toServer', AnswersTo(b))
      BY <3>2, <3>3, StreamsKnown, AddedOne
    <3>5. Sounding(b)'
      BY <3>1, <3>2, <3>4, TraceSets DEF Sounding
    <3>. QED BY <1>1, <3>2, <3>5 DEF Beating
  <2>. QED BY <2>1, <2>2
<1>. QED BY <1>5, <1>6 DEF AllBeating


\* The server takes a frame: a request becomes a handler, an answer ends the wait.
LEMMA ServedFrames ==
    ASSUME WholeInv, NEW n \in 1..2, Serve(n)
    PROVE  /\ Leaves(toServer, n, toServer') /\ toServer[1] \in GoodUp
           /\ toServer[1].part # "rest"
           /\ \A k \in 1..n : k = 1 \/ (toServer[k] \in GoodUp /\ toServer[k].part = "rest")
<1>1. toServer \in Seq(GoodUp) /\ n \in 1..Len(toServer) /\ Decodable(n)
  BY StreamsKnown DEF Serve, Decodable
<1>2. Leaves(toServer, n, toServer')
  BY <1>1, RestLeaves DEF Serve
<1>3. \A k \in 1..n : toServer[k] \in GoodUp
  BY <1>1
<1>. QED BY <1>1, <1>2, <1>3 DEF Decodable

LEMMA ServedKept ==
    ASSUME WholeInv, NEW n \in 1..2, Serve(n), NEW S,
           \A f \in GoodUp : f \in S => f.part # "rest"
    PROVE  /\ toServer[1] \notin S => Kept(toServer, toServer', S)
           /\ toServer[1] \in S => ~None(toServer, S) /\ (Once(toServer, S) => None(toServer', S))
<1>1. toServer[1] \notin S => \A k \in 1..n : toServer[k] \notin S
  BY ServedFrames
<1>. QED BY <1>1, ServedFrames, LeftOther, LeftOne

\* Answers are not split.
LEMMA WholeAnswers == \A b : \A f \in GoodUp : f \in AnswersTo(b) => f.part # "rest"
<1> SUFFICES ASSUME NEW f \in GoodUp, f.kind = "response" PROVE f.part # "rest"
  BY DEF AnswersTo
<1>. QED BY Shapes DEF GoodUp, UpShape, UpSet

\* The server takes a frame and may send an error for a notification.
LEMMA ServedEffects ==
    ASSUME WholeInv, NEW n \in 1..2,
           ServeRequest(n) \/ ServeNotification(n) \/ ServeResponse(n)
    PROVE  /\ Serve(n) /\ UNCHANGED <<buffer, pending, calls, todo, beats>>
           /\ handling' = IF toServer[1].kind = "request"
                          THEN handling \cup {<<toServer[1].id, toServer[1].call>>} ELSE handling
           /\ waiters' = IF toServer[1].kind = "response"
                         THEN waiters \ {toServer[1].id} ELSE waiters
           /\ \A c \in Calls : Kept(Pipe, Pipe', LastsOf(c))
           /\ \A b : Kept(Pipe, Pipe', BeatsOf(b))
<1>1. /\ Serve(n) /\ UNCHANGED <<buffer, pending, calls, todo, beats>>
      /\ toClient' \in {toClient, Append(toClient, BadNote)}
      /\ handling' = IF toServer[1].kind = "request"
                     THEN handling \cup {<<toServer[1].id, toServer[1].call>>} ELSE handling
      /\ waiters' = IF toServer[1].kind = "response"
                    THEN waiters \ {toServer[1].id} ELSE waiters
  BY DEF ServeRequest, ServeNotification, ServeResponse, serverRest, emacsVars
<1>2. Pipe' \in {Pipe, Append(Pipe, BadNote)}
  <2>1. buffer \in Seq(Good) /\ toClient \in Seq(Good) /\ BadNote \in Good
    BY PlainGood DEF WholeInv, Labels, Streams
  <2>2. buffer \o Append(toClient, BadNote) = Append(buffer \o toClient, BadNote)
    BY <2>1, JoinedMore
  <2>3. buffer' = buffer /\ (toClient' = toClient \/ toClient' = Append(toClient, BadNote))
    BY <1>1
  <2>4. Pipe' = Pipe \/ Pipe' = Append(Pipe, BadNote)
    BY <2>2, <2>3 DEF Pipe
  <2>. QED BY <2>4
<1>3. /\ \A c \in Calls : Kept(Pipe, Pipe', LastsOf(c))
      /\ \A b : Kept(Pipe, Pipe', BeatsOf(b))
  <2>1. \A c \in Calls : BadNote \notin LastsOf(c)
    BY PlainGood, MsgIds DEF LastsOf
  <2>2. \A b : BadNote \notin BeatsOf(b)
    BY DEF BeatsOf, BadNote, Frame
  <2>3. BadNote \in Good /\ Pipe \in Seq(Good)
    BY PlainGood, StreamsKnown
  <2>. QED BY <1>2, <2>1, <2>2, <2>3, KeptSame, AddedOther
<1>. QED BY <1>1, <1>3

LEMMA ServeTraces ==
    ASSUME WholeInv, AllPlaced, NEW n \in 1..2,
           ServeRequest(n) \/ ServeNotification(n) \/ ServeResponse(n)
    PROVE  /\ \A c \in Calls : IF toServer[1] \in AsksOf(c) THEN Posed(c) /\ Handed(c)'
                               ELSE CallKept(c)
           /\ AllBeating => AllBeating'
<1> DEFINE f == toServer[1]
<1>1. /\ Serve(n) /\ UNCHANGED <<buffer, pending, calls, todo, beats>>
      /\ handling' = IF f.kind = "request" THEN handling \cup {<<f.id, f.call>>} ELSE handling
      /\ waiters' = IF f.kind = "response" THEN waiters \ {f.id} ELSE waiters
  BY ServedEffects
<1>2. f \in GoodUp /\ f.part # "rest" /\ (f.kind = "request" => f.id = f.call)
  BY <1>1, ServedFrames DEF GoodUp
<1>4. /\ \A c \in Calls : Kept(Pipe, Pipe', LastsOf(c))
      /\ \A b : Kept(Pipe, Pipe', BeatsOf(b))
  BY ServedEffects
<1> HIDE DEF f
<1>5. ASSUME NEW c \in Calls
      PROVE  IF f \in AsksOf(c) THEN Posed(c) /\ Handed(c)' ELSE CallKept(c)
  <2>0. Placed(c) /\ \A x \in GoodUp : x \in AsksOf(c) => x.part # "rest"
    BY DEF AllPlaced, AsksOf
  <2>1. /\ f \notin AsksOf(c) => Kept(toServer, toServer', AsksOf(c))
        /\ f \in AsksOf(c) => /\ ~NotAsked(c)
                              /\ Once(toServer, AsksOf(c)) => None(toServer', AsksOf(c))
    BY <1>1, <2>0, ServedKept DEF f, NotAsked
  <2>2. CASE f \notin AsksOf(c)
    <3>1. Handled(c)' <=> Handled(c)
      BY <1>1, <1>2, <2>2 DEF Handled, AsksOf
    <3>. QED BY <1>1, <1>4, <2>1, <2>2, <3>1, KeptSame DEF CallKept
  <2>3. CASE f \in AsksOf(c)
    <3>1. Posed(c)
      BY <2>0, <2>1, <2>3, OnePlace DEF Placed, Gone, Flying
    <3>2. NotAsked(c)' /\ NotDue(c)' /\ NotSent(c)'
      BY <1>1, <1>4, <2>1, <2>3, <3>1, TraceSets DEF Posed, NotAsked, NotDue, NotSent, Kept
    <3>3. Handled(c)'
      BY <1>1, <1>2, <2>3 DEF Handled, AsksOf
    <3>. QED BY <2>3, <3>1, <3>2, <3>3 DEF Handed
  <2>. QED BY <2>2, <2>3
<1>6. ASSUME AllBeating, NEW b \in 1..MaxTraffic PROVE Beating(b)'
  <2>0. Beating(b)
    BY <1>6 DEF AllBeating
  <2>1. /\ f \notin AnswersTo(b) => Kept(toServer, toServer', AnswersTo(b))
        /\ f \in AnswersTo(b) => /\ ~None(toServer, AnswersTo(b))
                                 /\ Once(toServer, AnswersTo(b)) => None(toServer', AnswersTo(b))
    BY <1>1, WholeAnswers, ServedKept DEF f
  <2>2. CASE f \notin AnswersTo(b)
    BY <1>1, <1>4, <2>0, <2>1, <2>2, BeatingOn DEF BeatKept
  <2>3. CASE f \in AnswersTo(b)
    <3>1. None(Pipe, BeatsOf(b)) /\ Once(toServer, AnswersTo(b))
      BY <2>0, <2>1, <2>3 DEF Beating, Silent, Sounding
    <3>2. Silent(b)'
      BY <1>4, <2>1, <2>3, <3>1, TraceSets DEF Silent, Kept
    <3>3. b \notin waiters'
      BY <1>1, <2>3 DEF AnswersTo
    <3>. QED BY <3>2, <3>3 DEF Beating
  <2>. QED BY <2>2, <2>3
<1>. QED BY <1>5, <1>6 DEF f, AllBeating

\* A message's frames end with exactly one last frame.
LEMMA FramesEnd ==
    ASSUME NEW c \in Calls
    PROVE  Once(FramesOf(Response(c), c), LastsOf(c))
<1> DEFINE m == Response(c)
           a == Frame(m[1], c, m, 1, TRUE)
           b == Frame("continue", c, m, 2, FALSE)
           e == Frame("end", c, m, 0, FALSE)
           w == Frame(m[1], c, m, 1, FALSE)
<1>1. m \in Msgs /\ IdOf(m) = c /\ m[1] = "response"
  BY MsgIds DEF Response
<1>2. FramesOf(m, c) \in Seq(Good)
  BY <1>1, FramesOfGood
<1>3. a \notin LastsOf(c) /\ b \notin LastsOf(c)
  BY DEF LastsOf, Frame
<1>4. /\ e \in Good => e \in LastsOf(c)
      /\ w \in Good => w \in LastsOf(c)
  BY <1>1 DEF LastsOf, Frame
<1> HIDE DEF a, b, e, w
<1>5. CASE m \in Large
  <2>1. FramesOf(m, c) = <<a, b, e>>
    BY <1>5 DEF FramesOf, a, b, e
  <2>2. e \in Good
    BY <1>2, <2>1
  <2>. QED BY <1>3, <1>4, <2>1, <2>2 DEF Once
<1>6. CASE m \notin Large
  <2>1. FramesOf(m, c) = <<w>>
    BY <1>6 DEF FramesOf, w
  <2>2. w \in Good
    BY <1>2, <2>1
  <2>. QED BY <1>4, <2>1, <2>2 DEF Once
<1>. QED BY <1>5, <1>6

\* Steps that change what is to be written, or write it.
LEMMA BeatsUntouched ==
    ASSUME UNCHANGED <<toServer, beats, waiters>>,
           \A b \in 1..MaxTraffic : Kept(Pipe, Pipe', BeatsOf(b))
    PROVE  AllBeating => AllBeating'
BY KeptSame, BeatingOn DEF AllBeating, BeatKept

LEMMA StartTraces ==
    ASSUME WholeInv, NotifyClient
    PROVE  (\A c \in Calls : CallKept(c)) /\ (AllBeating => AllBeating')
<1>1. UNCHANGED <<buffer, toClient, toServer, beats, waiters, handling>>
  BY DEF NotifyClient, serverRest, emacsVars
<1>2. Pipe' = Pipe
  BY <1>1 DEF Pipe
<1>3. \A c \in Calls : Response(c) # Note(notes + 1)
  BY DEF Response, Note
<1>4. \A c \in Calls : todo'[Response(c)] = todo[Response(c)]
  BY <1>3, MsgIds, StreamsKnown DEF NotifyClient, TypeOK
<1>5. \A c \in Calls : CallKept(c)
  BY <1>1, <1>2, <1>4, KeptSame DEF CallKept, Handled
<1>. QED BY <1>1, <1>2, <1>5, KeptSame, BeatsUntouched

LEMMA RespondTraces ==
    ASSUME WholeInv, AllPlaced, NEW i \in Calls, NEW d \in Calls, Respond(i, d)
    PROVE  /\ Handed(d) /\ Due(d)' /\ \A c \in Calls \ {d} : CallKept(c)
           /\ AllBeating => AllBeating'
<1>1. UNCHANGED <<buffer, toClient, toServer, beats, waiters>>
  BY DEF Respond, serverRest, emacsVars
<1>2. Pipe' = Pipe
  BY <1>1 DEF Pipe
<1>3. i = d /\ Handled(d)
  BY DEF Respond, WholeInv, Labels, Asked, Handled
<1>4. /\ handling' = handling \ {<<d, d>>}
      /\ todo' = [todo EXCEPT ![Response(d)] = FramesOf(Response(d), d)]
  BY <1>3 DEF Respond
<1>5. todo'[Response(d)] = FramesOf(Response(d), d)
  BY <1>4, MsgIds, StreamsKnown DEF TypeOK
<1>6. Handed(d)
  BY <1>3, OnePlace DEF AllPlaced, Placed, Gone, Flying
<1>7. NotAsked(d)' /\ NotSent(d)' /\ ~Handled(d)'
  BY <1>1, <1>2, <1>4, <1>6, TraceSets DEF Handed, NotAsked, NotSent, Handled
<1>8. Once(todo'[Response(d)], LastsOf(d)')
  BY <1>5, FramesEnd, TraceSets
<1>9. Due(d)'
  BY <1>7, <1>8 DEF Due
<1>10. ASSUME NEW c \in Calls \ {d} PROVE CallKept(c)
  <2>1. Response(c) # Response(d) /\ todo'[Response(c)] = todo[Response(c)]
    BY <1>4, MsgIds, StreamsKnown DEF TypeOK, Response
  <2>2. Handled(c)' <=> Handled(c)
    BY <1>4 DEF Handled
  <2>. QED BY <1>1, <1>2, <2>1, <2>2, KeptSame DEF CallKept
<1>. QED BY <1>1, <1>2, <1>6, <1>9, <1>10, KeptSame, BeatsUntouched

\* The server writes a frame.
LEMMA PipeGrows ==
    ASSUME WholeInv, NEW f \in Good, buffer' = buffer, toClient' = Append(toClient, f)
    PROVE  Pipe' = Append(Pipe, f) /\ Pipe \in Seq(Good)
<1>1. buffer \in Seq(Good) /\ toClient \in Seq(Good)
  BY DEF WholeInv, Labels, Streams
<1>2. buffer \o Append(toClient, f) = Append(buffer \o toClient, f)
  BY ONLY <1>1, f \in Good, JoinedMore
<1>. QED BY <1>2, StreamsKnown DEF Pipe

LEMMA WriteTraces ==
    ASSUME WholeInv, AllPlaced, NEW m \in Msgs, WriteRaw(m)
    PROVE  /\ \A c \in Calls : CallKept(c) \/ (Due(c) /\ Sent(c)')
           /\ AllBeating => AllBeating'
<1>1. /\ UNCHANGED <<buffer, pending, calls, toServer, beats, waiters, handling>>
      /\ todo[m] # <<>> /\ toClient' = Append(toClient, Head(todo[m]))
      /\ todo' = [todo EXCEPT ![m] = Tail(todo[m])]
  BY DEF WriteRaw, serverRest, emacsVars
<1>2. PICK f \in Good : f = todo[m][1] /\ f = Head(todo[m]) /\ f.msg = m
  BY <1>1, StreamsKnown, Rest, FirstTodo DEF WholeInv, Order
<1>3. Pipe' = Append(Pipe, f) /\ Pipe \in Seq(Good)
  BY <1>1, <1>2, PipeGrows
<1>4. \A x \in Msgs : todo'[x] = IF x = m THEN Tail(todo[m]) ELSE todo[x]
  BY <1>1, StreamsKnown DEF TypeOK
<1>5. Leaves(todo[m], 1, Tail(todo[m]))
  BY <1>1, StreamsKnown, TailLeaves
<1>6. ASSUME NEW b \in 1..MaxTraffic PROVE Kept(Pipe, Pipe', BeatsOf(b))
  <2>1. f \notin BeatsOf(b)
    BY <1>2, FrameKinds DEF BeatsOf
  <2>. QED BY <1>3, <2>1, AddedOther
<1>7. ASSUME NEW c \in Calls PROVE CallKept(c) \/ (Due(c) /\ Sent(c)')
  <2>0. Placed(c) /\ Response(c) \in Msgs
    BY MsgIds DEF AllPlaced
  <2>1. CASE f \notin LastsOf(c)
    <3>1. Kept(Pipe, Pipe', LastsOf(c))
      BY <1>3, <2>1, AddedOther
    <3>2. Kept(todo[Response(c)], todo'[Response(c)], LastsOf(c))
      BY <1>2, <1>4, <1>5, <2>0, <2>1, FirstGone, KeptSame
    <3>3. CallKept(c)
      BY <1>1, <3>1, <3>2, KeptSame DEF CallKept, Handled
    <3>. QED BY <3>3
  <2>2. CASE f \in LastsOf(c)
    <3>1. m = Response(c)
      BY <1>2, <2>2 DEF LastsOf
    <3>2. /\ ~NotDue(c)
          /\ Once(todo[Response(c)], LastsOf(c)) => None(todo'[Response(c)], LastsOf(c))
      BY <1>2, <1>4, <1>5, <2>0, <2>2, <3>1, FirstGone DEF NotDue
    <3>3. Due(c)
      BY <2>0, <3>2, OnePlace DEF Placed, Gone, Flying
    <3>4. NotAsked(c)' /\ ~Handled(c)' /\ NotDue(c)'
      BY <1>1, <3>2, <3>3, TraceSets DEF Due, NotAsked, Handled, NotDue
    <3>5. Once(Pipe', LastsOf(c)')
      BY <1>3, <2>2, <3>3, AddedOne, TraceSets DEF Due, NotSent
    <3>. QED BY <3>3, <3>4, <3>5 DEF Sent
  <2>. QED BY <2>1, <2>2
<1>. QED BY <1>1, <1>6, <1>7, BeatsUntouched

LEMMA BeatNumber ==
    ASSUME TypeOK, Heartbeat
    PROVE  beats + 1 \in 1..MaxTraffic
<1>1. beats \in Nat /\ notes \in Nat /\ inputs \in Nat
  BY DEF TypeOK
<1>2. notes + beats + inputs < MaxTraffic
  BY DEF Heartbeat, Traffic
<1>3. MaxTraffic \in Nat
  BY RpcAssumption DEF RpcAssumption
<1>. QED BY ONLY <1>1, <1>2, <1>3

LEMMA HeartbeatTraces ==
    ASSUME WholeInv, Heartbeat
    PROVE  (\A c \in Calls : CallKept(c)) /\ (AllBeating => AllBeating')
<1>1. PICK n \in 1..MaxTraffic : n = beats + 1
  BY BeatNumber, StreamsKnown
<1>2. /\ UNCHANGED <<buffer, todo, pending, calls, handling, toServer>>
      /\ waiters = {} /\ waiters' = {n} /\ beats' = n
      /\ toClient' = Append(toClient, Beat(n))
  BY <1>1 DEF Heartbeat, serverRest, emacsVars
<1>3. Beat(n) \in Good /\ Beat(n).msg \notin Msgs /\ Beat(n).kind = "request" /\ Beat(n).id = n
  BY PlainGood DEF Beat, Frame
<1>4. Pipe' = Append(Pipe, Beat(n)) /\ Pipe \in Seq(Good)
  BY <1>2, <1>3, PipeGrows
<1>5. ASSUME NEW c \in Calls PROVE CallKept(c)
  <2>1. Beat(n) \notin LastsOf(c)
    BY <1>3, MsgIds DEF LastsOf
  <2>2. Kept(Pipe, Pipe', LastsOf(c))
    BY <1>3, <1>4, <2>1, AddedOther
  <2>. QED BY <1>2, <2>2, KeptSame DEF CallKept, Handled
<1>6. ASSUME AllBeating, NEW b \in 1..MaxTraffic, b # n PROVE Beating(b)'
  <2>1. Beat(n) \notin BeatsOf(b)
    BY <1>3, <1>6 DEF BeatsOf
  <2>2. BeatKept(b) /\ Beating(b)
    BY <1>2, <1>3, <1>4, <1>6, <2>1, AddedOther, KeptSame DEF BeatKept, AllBeating
  <2>3. (Silent(b) => Silent(b)') /\ (Sounding(b) => Sounding(b)')
    BY <2>2 DEF Silent, Sounding, BeatKept, Kept
  <2>4. b > n => b > beats
    BY <1>1, StreamsKnown
  <2>. QED BY <1>2, <1>6, <2>2, <2>3, <2>4 DEF Beating
<1>7. ASSUME AllBeating PROVE Beating(n)'
  <2>1. Silent(n)
    <3>1. n > beats
      BY <1>1, StreamsKnown
    <3>. QED BY <1>7, <3>1 DEF AllBeating, Beating
  <2>2. Once(Pipe', BeatsOf(n))
    BY <1>3, <1>4, <2>1, AddedOne DEF Silent, BeatsOf
  <2>3. Sounding(n)'
    BY <1>2, <2>1, <2>2, TraceSets DEF Silent, Sounding
  <2>4. ~(n > beats')
    BY <1>2
  <2>. QED BY <2>3, <2>4 DEF Beating
<1>. QED BY <1>5, <1>6, <1>7 DEF AllBeating

LEMMA BreakTraces ==
    ASSUME WholeInv, AllPlaced, Break
    PROVE  \A c \in Calls : IF Sent(c) THEN CallKept(c) ELSE Gone(c)'
<1> SUFFICES ASSUME NEW c \in Calls PROVE IF Sent(c) THEN CallKept(c) ELSE Gone(c)'
  OBVIOUS
<1>1. /\ toServer' = <<>> /\ handling' = {} /\ todo'[Response(c)] = <<>>
      /\ UNCHANGED <<buffer, toClient>>
  BY MsgIds DEF Break, emacsVars
<1>2. Pipe' = Pipe /\ ~Handled(c)' /\ NotAsked(c)' /\ NotDue(c)'
  BY <1>1, NoneEmpty DEF Pipe, Handled, NotAsked, NotDue
<1>3. CASE Sent(c)
  <2>1. NotAsked(c) /\ ~Handled(c) /\ NotDue(c)
    BY <1>3 DEF Sent
  <2>2. /\ Kept(toServer, toServer', AsksOf(c))
        /\ Kept(todo[Response(c)], todo'[Response(c)], LastsOf(c))
    BY <1>1, <2>1, NoneEmpty DEF Kept, NotAsked, NotDue, None, Once
  <2>. QED BY <1>2, <1>3, <2>1, <2>2, KeptSame DEF CallKept
<1>4. CASE ~Sent(c)
  <2>1. NotSent(c)
    BY <1>4, OnePlace DEF AllPlaced, Placed, Gone, Flying
  <2>2. NotSent(c)'
    BY <1>2, <2>1, TraceSets DEF NotSent
  <2>. QED BY <1>2, <1>4, <2>2 DEF Gone
<1>. QED BY <1>3, <1>4

LEMMA LostInit == Init => LostInv
<1> SUFFICES ASSUME Init PROVE LostInv
  OBVIOUS
<1>1. toServer = <<>> /\ Pipe = <<>> /\ handling = {} /\ waiters = {} /\ todo = [m \in Msgs |-> <<>>]
  BY DEF Init, Pipe
<1>2. \A c \in Calls : Gone(c)
  BY <1>1, MsgIds, NoneEmpty DEF Gone, NotAsked, Handled, NotDue, NotSent
<1>3. \A c \in Calls : pending[c] = 0
  BY Numbers DEF Init
<1>4. Travel
  BY <1>1, <1>2, <1>3 DEF Travel, AllPlaced, Placed, Cut, Awaited
<1>5. AllBeating
  BY <1>1, NoneEmpty DEF AllBeating, Beating, Silent
<1>. QED BY <1>4, <1>5, WholeInit DEF LostInv

\* What the connection carried is gone once it broke, and nothing is added.
LEMMA CutStep == ASSUME WholeInv, Cut, [Next]_vars PROVE Cut'
<1>1. CASE Break
  BY <1>1 DEF Break, Cut
<1>2. CASE Server /\ ~Break
  BY <1>2 DEF Server, ServeRequest, ServeNotification, ServeResponse, Serve, Respond, WriteRaw,
     NotifyClient, Heartbeat, Cut, serverRest
<1>3. ASSUME Quietly \/ \E k \in {"sync", "async"} : Request(k) PROVE Cut'
  BY <1>3 DEF Quietly, Request, Notify, Quit, SendRest, Timeout, Return, ParseEnd, HandlerReturns,
     Receive, Sentinel, WriteFrame, Cut, parseRest, serverVars, emacsVars, vars
<1>4. ASSUME NEW f, \/ SeedChunks(f) \/ DispatchWhole(f) \/ DispatchRequest(f)
                    \/ AccumulateChunk(f) \/ FinishChunks(f)
      PROVE  Cut'
  BY <1>4, DispatchEffects DEF Cut
<1>. QED BY <1>1, <1>2, <1>3, <1>4 DEF Next, User, Loops, Filter, Dispatch, Reading, Quietly

LEMMA LostStep == LostInv /\ [Next]_vars => LostInv'
<1> SUFFICES ASSUME LostInv, [Next]_vars PROVE LostInv'
  OBVIOUS
<1>1. /\ WholeInv /\ WholeInv' /\ AllPlaced /\ Cut' /\ Awaited /\ calls \in Nat
      /\ conn = "up" => AllBeating
  BY WholeStep, CutStep, StreamsKnown DEF LostInv, Travel
<1> DEFINE Fine == /\ calls' \in {calls, calls + 1}
                   /\ \A c \in Calls : Course(c)
                   /\ conn' = "up" => conn = "up" /\ AllBeating'
<1>2. ASSUME Quietly PROVE Fine
  <2>1. (\A c \in Calls : CallKept(c)) /\ (AllBeating => AllBeating')
    BY <1>1, <1>2, QuietTraces
  <2>2. /\ calls' = calls /\ \A c \in Calls : pending'[c] # 0 => pending[c] # 0
        /\ conn' = "up" => conn = "up"
    BY <1>1, <1>2, QuietStreams
  <2>. QED BY <1>1, <2>1, <2>2 DEF Course
<1>3. ASSUME NEW k \in {"sync", "async"}, Request(k) PROVE Fine
  <2>1. PICK n \in Calls :
            /\ n = calls + 1 /\ calls' = n /\ conn' = conn
            /\ \A c \in Calls \ {n} : CallKept(c) /\ (pending'[c] # 0 => pending[c] # 0)
            /\ IF conn = "up" THEN Gone(n) /\ Posed(n)' ELSE Gone(n) /\ CallKept(n)
            /\ conn = "up" /\ AllBeating => AllBeating'
    BY <1>1, <1>3, RequestTraces
  <2>2. n <= calls'
    BY <2>1 DEF Calls
  <2>3. Course(n)
    BY <2>1, <2>2 DEF Course
  <2>4. \A c \in Calls \ {n} : Course(c)
    BY <2>1 DEF Course
  <2>. QED BY <1>1, <2>1, <2>3, <2>4
<1>4. ASSUME NEW f, \/ SeedChunks(f) \/ DispatchWhole(f) \/ DispatchRequest(f)
                    \/ AccumulateChunk(f) \/ FinishChunks(f)
      PROVE  Fine
  <2>1. /\ \A c \in Calls : IF f \in LastsOf(c) THEN Sent(c) /\ Gone(c)' /\ pending'[c] = 0
                            ELSE CallKept(c) /\ (pending'[c] # 0 => pending[c] # 0)
        /\ conn = "up" /\ AllBeating => AllBeating'
    BY <1>1, <1>4, DispatchTraces
  <2>2. calls' = calls /\ conn' = conn
    BY <1>1, <1>4, DispatchEffects
  <2>. QED BY <1>1, <2>1, <2>2 DEF Course
<1>5. ASSUME Server, ~Break PROVE Fine
  <2>1. conn = "up" /\ UNCHANGED <<calls, conn, pending>>
    BY <1>5 DEF Server, ServeRequest, ServeNotification, ServeResponse, Serve, Respond, WriteRaw,
       NotifyClient, Heartbeat, serverRest, emacsVars
  <2>2. ASSUME NEW n \in 1..2, ServeRequest(n) \/ ServeNotification(n) \/ ServeResponse(n)
        PROVE  Fine
    BY <1>1, <2>1, <2>2, ServeTraces DEF Course
  <2>3. ASSUME NEW i \in Calls, NEW d \in Calls, Respond(i, d) PROVE Fine
    BY <1>1, <2>1, <2>3, RespondTraces DEF Course
  <2>4. ASSUME NEW m \in Msgs, WriteRaw(m) PROVE Fine
    BY <1>1, <2>1, <2>4, WriteTraces DEF Course
  <2>5. CASE NotifyClient \/ Heartbeat
    BY <1>1, <2>1, <2>5, StartTraces, HeartbeatTraces DEF Course
  <2>. QED BY <1>5, <2>2, <2>3, <2>4, <2>5 DEF Server
<1>6. ASSUME Break PROVE Fine
  <2>1. UNCHANGED <<calls, pending>> /\ conn = "up" /\ conn' = "broken"
    BY <1>6 DEF Break, emacsVars
  <2>. QED BY <1>1, <1>6, <2>1, BreakTraces DEF Course
<1>7. Fine
  BY <1>2, <1>3, <1>4, <1>5, <1>6 DEF Next, User, Loops, Filter, Dispatch, Reading, Quietly
<1>8. \A c \in Calls : Placed(c)' /\ (conn' = "up" /\ pending'[c] # 0 => Flying(c)')
  BY <1>1, <1>7, CourseKeeps DEF AllPlaced, Awaited
<1>. QED BY <1>1, <1>7, <1>8 DEF LostInv, Travel, AllPlaced, Awaited

\* The counts of the property, from the places of the invariant.
Asking(c) == Cardinality({k \in DOMAIN toServer : toServer[k] \in AsksOf(c)})
InHand(c) == Cardinality({h \in handling : h[2] = c})
LastIn(s, c) == Cardinality({k \in DOMAIN s : s[k] \in LastsOf(c)})

LEMMA FlyingOnce ==
    ASSUME WholeInv, NEW c \in Calls, Flying(c)
    PROVE  Asking(c) + InHand(c) + LastIn(todo[Response(c)], c) + LastIn(toClient, c)
               + LastIn(buffer, c) = 1
<1>1. /\ toServer \in Seq(GoodUp) /\ todo[Response(c)] \in Seq(Good)
      /\ toClient \in Seq(Good) /\ buffer \in Seq(Good)
  BY StreamsKnown, MsgIds DEF WholeInv, Labels, Streams
<1>2. /\ NotAsked(c) => Asking(c) = 0
      /\ Once(toServer, AsksOf(c)) => Asking(c) = 1
  BY <1>1, Counted DEF Asking, NotAsked
<1>3. /\ ~Handled(c) => InHand(c) = 0
      /\ Handled(c) => InHand(c) = 1
  <2>1. handling \subseteq Calls \X Calls /\ \A h \in handling : h[1] = h[2]
    BY DEF WholeInv, CallInv, TypeOK, Labels, Asked
  <2>2. \A h \in handling : h[2] = c => h = <<c, c>>
    BY <2>1
  <2>3. ~Handled(c) => {h \in handling : h[2] = c} = {}
    BY <2>2 DEF Handled
  <2>4. Handled(c) => {h \in handling : h[2] = c} = {<<c, c>>}
    BY <2>2 DEF Handled
  <2>. QED BY <2>3, <2>4, FS_EmptySet, FS_Singleton DEF InHand
<1>4. /\ NotDue(c) => LastIn(todo[Response(c)], c) = 0
      /\ Once(todo[Response(c)], LastsOf(c)) => LastIn(todo[Response(c)], c) = 1
  BY <1>1, Counted DEF LastIn, NotDue
<1>5. /\ None(toClient, LastsOf(c)) => LastIn(toClient, c) = 0
      /\ Once(toClient, LastsOf(c)) => LastIn(toClient, c) = 1
      /\ None(buffer, LastsOf(c)) => LastIn(buffer, c) = 0
      /\ Once(buffer, LastsOf(c)) => LastIn(buffer, c) = 1
  BY <1>1, Counted DEF LastIn
<1>6. /\ NotSent(c) => None(buffer, LastsOf(c)) /\ None(toClient, LastsOf(c))
      /\ Once(Pipe, LastsOf(c)) => \/ Once(buffer, LastsOf(c)) /\ None(toClient, LastsOf(c))
                                   \/ None(buffer, LastsOf(c)) /\ Once(toClient, LastsOf(c))
  BY <1>1, JoinedOnce DEF NotSent, Pipe
<1>7. NotSent(c) => LastIn(toClient, c) = 0 /\ LastIn(buffer, c) = 0
  BY <1>5, <1>6
<1>8. Once(Pipe, LastsOf(c)) => \/ LastIn(toClient, c) = 0 /\ LastIn(buffer, c) = 1
                                \/ LastIn(toClient, c) = 1 /\ LastIn(buffer, c) = 0
  BY <1>5, <1>6
<1>9. \/ /\ Asking(c) = 1 /\ InHand(c) = 0 /\ LastIn(todo[Response(c)], c) = 0
         /\ LastIn(toClient, c) = 0 /\ LastIn(buffer, c) = 0
      \/ /\ Asking(c) = 0 /\ InHand(c) = 1 /\ LastIn(todo[Response(c)], c) = 0
         /\ LastIn(toClient, c) = 0 /\ LastIn(buffer, c) = 0
      \/ /\ Asking(c) = 0 /\ InHand(c) = 0 /\ LastIn(todo[Response(c)], c) = 1
         /\ LastIn(toClient, c) = 0 /\ LastIn(buffer, c) = 0
      \/ /\ Asking(c) = 0 /\ InHand(c) = 0 /\ LastIn(todo[Response(c)], c) = 0
         /\ \/ LastIn(toClient, c) = 0 /\ LastIn(buffer, c) = 1
            \/ LastIn(toClient, c) = 1 /\ LastIn(buffer, c) = 0
  BY <1>2, <1>3, <1>4, <1>7, <1>8 DEF Flying, Posed, Handed, Due, Sent
<1>. QED BY <1>9

\* The sets of the property are those of the invariant.
LEMMA InFlight ==
    ASSUME WholeInv, NEW c \in Calls, Flying(c)
    PROVE  CallInFlight(c)
<1>1. /\ toServer \in Seq(GoodUp) /\ todo[Response(c)] \in Seq(Good)
      /\ toClient \in Seq(Good) /\ buffer \in Seq(Good)
  BY StreamsKnown, MsgIds DEF WholeInv, Labels, Streams
<1>2. {k \in DOMAIN toServer : toServer[k].kind = "request" /\ toServer[k].call = c
                                  /\ toServer[k].part # "rest"}
          = {k \in DOMAIN toServer : toServer[k] \in AsksOf(c)}
  BY <1>1 DEF AsksOf
<1>3. ASSUME NEW s \in Seq(Good)
      PROVE  {k \in DOMAIN s : s[k].msg = Response(c) /\ ~s[k].chunked /\ s[k].kind # "continue"}
                 = {k \in DOMAIN s : s[k] \in LastsOf(c)}
  BY DEF LastsOf
<1>. QED BY <1>1, <1>2, <1>3, FlyingOnce
    DEF CallInFlight, Count, Asks, Answers, Asking, InHand, LastIn

LEMMA BeatInFlight ==
    ASSUME WholeInv, NEW b \in 1..MaxTraffic, Sounding(b)
    PROVE  Cardinality({k \in DOMAIN toClient : toClient[k] \in BeatsOf(b)})
             + Cardinality({k \in DOMAIN buffer : buffer[k] \in BeatsOf(b)})
             + Cardinality({k \in DOMAIN toServer : toServer[k] \in AnswersTo(b)}) = 1
<1> DEFINE x == Cardinality({k \in DOMAIN toClient : toClient[k] \in BeatsOf(b)})
           y == Cardinality({k \in DOMAIN buffer : buffer[k] \in BeatsOf(b)})
           z == Cardinality({k \in DOMAIN toServer : toServer[k] \in AnswersTo(b)})
<1>1. toServer \in Seq(GoodUp) /\ toClient \in Seq(Good) /\ buffer \in Seq(Good)
  BY StreamsKnown DEF WholeInv, Labels, Streams
<1>2. /\ None(toClient, BeatsOf(b)) => x = 0
      /\ Once(toClient, BeatsOf(b)) => x = 1
      /\ None(buffer, BeatsOf(b)) => y = 0
      /\ Once(buffer, BeatsOf(b)) => y = 1
      /\ None(toServer, AnswersTo(b)) => z = 0
      /\ Once(toServer, AnswersTo(b)) => z = 1
  BY <1>1, Counted
<1>3. /\ None(Pipe, BeatsOf(b)) => None(buffer, BeatsOf(b)) /\ None(toClient, BeatsOf(b))
      /\ Once(Pipe, BeatsOf(b)) => \/ Once(buffer, BeatsOf(b)) /\ None(toClient, BeatsOf(b))
                                   \/ None(buffer, BeatsOf(b)) /\ Once(toClient, BeatsOf(b))
  BY <1>1, JoinedOnce DEF Pipe
<1> HIDE DEF x, y, z
<1>4. \/ x = 0 /\ y = 1 /\ z = 0
      \/ x = 1 /\ y = 0 /\ z = 0
      \/ x = 0 /\ y = 0 /\ z = 1
  BY <1>2, <1>3 DEF Sounding
<1>5. x + y + z = 1
  BY <1>4
<1>. QED BY <1>5 DEF x, y, z

\* While the connection is up, a pending request and a heartbeat that is waited
\* for are in exactly one place on their way (NothingLost), for any number of
\* calls, notifications and heartbeats and whatever is chunked or quit.
THEOREM NoneLost == Spec => []NothingLost
<1>1. LostInv => NothingLost
  <2> SUFFICES ASSUME LostInv, conn = "up" PROVE NothingLost
    BY DEF NothingLost
  <2>0. WholeInv /\ Awaited /\ AllBeating
    BY DEF LostInv, Travel
  <2>1. ASSUME NEW i \in Ids, pending[i] # 0 PROVE CallInFlight(pending[i])
    <3>1. i \in Calls /\ pending[i] = i
      BY <2>0, <2>1 DEF WholeInv, CallInv, PendingOk
    <3>2. Flying(i)
      BY <2>0, <2>1, <3>1 DEF Awaited
    <3>. QED BY <2>0, <3>1, <3>2, InFlight
  <2>2. ASSUME NEW b \in waiters
        PROVE  Cardinality({k \in DOMAIN toClient : toClient[k].kind = "request" /\ toClient[k].id = b})
                 + Cardinality({k \in DOMAIN buffer : buffer[k].kind = "request" /\ buffer[k].id = b})
                 + Cardinality({k \in DOMAIN toServer :
                                  toServer[k].kind = "response" /\ toServer[k].id = b}) = 1
    <3>1. b \in 1..MaxTraffic
      BY <2>0, StreamsKnown DEF TypeOK
    <3>2. Sounding(b)
      BY <2>0, <2>2, <3>1 DEF AllBeating, Beating
    <3>3. toServer \in Seq(GoodUp) /\ toClient \in Seq(Good) /\ buffer \in Seq(Good)
      BY <2>0, StreamsKnown DEF WholeInv, Labels, Streams
    <3>4. /\ {k \in DOMAIN toClient : toClient[k].kind = "request" /\ toClient[k].id = b}
                 = {k \in DOMAIN toClient : toClient[k] \in BeatsOf(b)}
          /\ {k \in DOMAIN buffer : buffer[k].kind = "request" /\ buffer[k].id = b}
                 = {k \in DOMAIN buffer : buffer[k] \in BeatsOf(b)}
      BY <3>3 DEF BeatsOf
    <3>5. {k \in DOMAIN toServer : toServer[k].kind = "response" /\ toServer[k].id = b}
              = {k \in DOMAIN toServer : toServer[k] \in AnswersTo(b)}
      BY <3>3 DEF AnswersTo
    <3>. QED BY <2>0, <3>1, <3>2, <3>4, <3>5, BeatInFlight
  <2>. QED BY <2>1, <2>2 DEF NothingLost, Count
<1>. QED BY <1>1, LostInit, LostStep, PTL DEF Spec

-----------------------------------------------------------------------------
(* Why an answered request can time out (SpuriousTimeout).  A response is  *)
(* read by a filter, which parses on above the request that waits; only    *)
(* the callback of another synchronous request makes it stop early.  That  *)
(* request was interrupted, or still waits on the stack: a call that does  *)
(* not wait was not sent completely, so nothing of its response exists.    *)

Looping == {"parse", "handle"}
MovesOf(c) == {f \in GoodUp : f.kind = "request" /\ f.call = c /\ f.part # "header"}
Absent(c) == None(toServer, MovesOf(c)) /\ ~Handled(c) /\ NotDue(c) /\ NotSent(c)

Waits(c) == OnStack(Act("wait", c))
Sends(c) == OnStack(Act("send", c))
NotRead(c) == None(buffer, LastsOf(c))

Stopped(d, c) == \/ outcome[d] = "stale"
                 \/ kind[d] = "sync" /\ (d > c \/ Waits(d))
Excused(c) == \E d \in Calls \ {c} : Stopped(d, c)
LoopAbove(c) == \E j, k \in 1..Len(stack) :
    j < k /\ stack[j].at \in Looping /\ stack[k] = Act("wait", c)

Named == \A c \in Calls : c > calls <=> kind[c] = "none"
Nesting == \A j, k \in 1..Len(stack) :
    j < k => stack[j].call = 0 \/ stack[k].call < stack[j].call
Open == \A c \in Calls : (Waits(c) \/ Sends(c)) /\ outcome[c] = "none" => pending[c] = c
Flag == /\ syncDone => conn = "closed"
        /\ conn = "closed" => \A i \in Ids : pending[i] = 0
Unanswered == \A c \in Calls :
    kind[c] # "async" /\ outcome[c] = "none" /\ ~Waits(c) => Absent(c)
Heeded == \A c \in Calls :
    Waits(c) /\ outcome[c] = "none" /\ ~NotRead(c) => Excused(c) \/ LoopAbove(c)

ReadRest == Named /\ Nesting /\ Open /\ Flag /\ Unanswered /\ Heeded
ReadInv == WholeInv /\ ReadRest

LEMMA ActNames ==
    /\ \A at, c : Act(at, c).at = at /\ Act(at, c).call = c
    /\ \A c, d : Act("wait", c) # Act("send", d) /\ (Act("wait", c) = Act("wait", d) => c = d)
                 /\ (Act("send", c) = Act("send", d) => c = d)
BY DEF Act

LEMMA StackFacts ==
    ASSUME WholeInv
    PROVE  /\ stack \in Seq(Acts) /\ Len(stack) \in Nat /\ DOMAIN stack = 1..Len(stack)
           /\ \A k \in 1..Len(stack) : stack[k] \in Acts /\ stack[k].call <= calls
<1>1. stack \in Seq(Started(calls)) /\ stack \in Seq(Acts)
  BY DEF WholeInv, CallInv, TypeOK
<1>. QED BY <1>1 DEF Started

\* The ways a stack changes.
Pushed(s, t, a) ==
    /\ Len(s) \in Nat /\ Len(t) = Len(s) + 1 /\ t[1] = a
    /\ \A k \in 1..Len(s) : t[k + 1] = s[k]
Popped(s, t) ==
    /\ Len(s) \in Nat \ {0} /\ Len(t) = Len(s) - 1
    /\ \A k \in 1..Len(t) : t[k] = s[k + 1]
Swapped(s, t, a) ==
    /\ Len(s) \in Nat \ {0} /\ Len(t) = Len(s) /\ t[1] = a
    /\ \A k \in 2..Len(s) : t[k] = s[k]

LEMMA StackChanges ==
    ASSUME NEW s \in Seq(Acts), NEW a \in Acts
    PROVE  /\ Pushed(s, <<a>> \o s, a)
           /\ s # <<>> => Popped(s, Tail(s)) /\ Swapped(s, <<a>> \o Tail(s), a) /\ s[1] = Head(s)
BY DEF Pushed, Popped, Swapped

\* A filter begins, goes on, runs a handler or ends.
FilterEffect ==
    \/ Len(stack') = Len(stack) /\ \A k \in 1..Len(stack) : stack'[k] = stack[k]
    \/ \E a : a.at \in Looping /\ a.call = 0 /\ Pushed(stack, stack', a)
    \/ \E a : a.at \in Looping /\ a.call = 0 /\ stack[1].at \in Looping /\ Swapped(stack, stack', a)

LEMMA FilterStack ==
    ASSUME Len(stack) \in Nat, Nesting, DOMAIN stack = 1..Len(stack), DOMAIN stack' = 1..Len(stack'),
           FilterEffect \/ (stack[1].at \in Looping /\ Popped(stack, stack'))
    PROVE  /\ Nesting'
           /\ \A c : (Waits(c)' <=> Waits(c)) /\ (Sends(c)' <=> Sends(c))
           /\ FilterEffect => \A c : LoopAbove(c) => LoopAbove(c)'
<1>0. \A c : /\ Act("wait", c).at \notin Looping /\ Act("send", c).at \notin Looping
  BY ActNames DEF Looping
<1>1. \A c : /\ Waits(c) <=> \E k \in 1..Len(stack) : stack[k] = Act("wait", c)
             /\ Sends(c) <=> \E k \in 1..Len(stack) : stack[k] = Act("send", c)
             /\ Waits(c)' <=> \E k \in 1..Len(stack') : stack'[k] = Act("wait", c)
             /\ Sends(c)' <=> \E k \in 1..Len(stack') : stack'[k] = Act("send", c)
  BY DEF Waits, Sends, OnStack, Act
<1> DEFINE Has(s, x) == \E k \in 1..Len(s) : s[k] = x
<1>a. ASSUME \A x : x.at \notin Looping => (Has(stack', x) <=> Has(stack, x))
      PROVE  \A c : (Waits(c)' <=> Waits(c)) /\ (Sends(c)' <=> Sends(c))
  <2> SUFFICES ASSUME NEW c PROVE (Waits(c)' <=> Waits(c)) /\ (Sends(c)' <=> Sends(c))
    OBVIOUS
  <2>1. /\ Has(stack', Act("wait", c)) <=> Has(stack, Act("wait", c))
        /\ Has(stack', Act("send", c)) <=> Has(stack, Act("send", c))
    BY ONLY <1>0, <1>a
  <2> QED BY <1>1, <2>1
<1>2. CASE Len(stack') = Len(stack) /\ \A k \in 1..Len(stack) : stack'[k] = stack[k]
  BY <1>1, <1>2 DEF Nesting, LoopAbove, Looping, Act
<1>3. ASSUME NEW a, a.at \in Looping, a.call = 0, Pushed(stack, stack', a)
      PROVE  /\ Nesting' /\ \A c : LoopAbove(c) => LoopAbove(c)'
             /\ \A c : (Waits(c)' <=> Waits(c)) /\ (Sends(c)' <=> Sends(c))
  <2>1. /\ \A k \in 1..Len(stack') : k = 1 \/ (k - 1 \in 1..Len(stack) /\ stack'[k] = stack[k - 1])
        /\ \A k \in 1..Len(stack) : k + 1 \in 1..Len(stack') /\ stack'[k + 1] = stack[k]
        /\ stack'[1] = a
    BY <1>3 DEF Pushed
  <2>2. Nesting'
    <3> SUFFICES ASSUME NEW j \in 1..Len(stack'), NEW k \in 1..Len(stack'), j < k
                 PROVE  stack'[j].call = 0 \/ stack'[k].call < stack'[j].call
      BY DEF Nesting
    <3>1. CASE j = 1
      BY <1>3, <2>1, <3>1
    <3>2. CASE j # 1
      <4>1. k # 1 /\ j - 1 < k - 1
        BY <3>2
      <4>2. /\ j - 1 \in 1..Len(stack) /\ stack'[j] = stack[j - 1]
            /\ k - 1 \in 1..Len(stack) /\ stack'[k] = stack[k - 1]
        BY <2>1, <3>2, <4>1
      <4> QED BY <4>1, <4>2 DEF Nesting
    <3> QED BY <3>1, <3>2
  <2>3. ASSUME NEW c, LoopAbove(c) PROVE LoopAbove(c)'
    <3>1. PICK j, k \in 1..Len(stack) : j < k /\ stack[j].at \in Looping /\ stack[k] = Act("wait", c)
      BY <2>3 DEF LoopAbove
    <3>2. j + 1 < k + 1 /\ stack'[j + 1].at \in Looping /\ stack'[k + 1] = Act("wait", c)
          /\ j + 1 \in 1..Len(stack') /\ k + 1 \in 1..Len(stack')
      BY <2>1, <3>1
    <3>. QED BY <3>2 DEF LoopAbove, Looping, Act
  <2>4. \A c : (Waits(c)' <=> Waits(c)) /\ (Sends(c)' <=> Sends(c))
    <3>1. ASSUME NEW x, x.at \notin Looping, Has(stack', x) PROVE Has(stack, x)
      <4>1. PICK k \in 1..Len(stack') : stack'[k] = x
        BY <3>1
      <4>2. k - 1 \in 1..Len(stack) /\ stack[k - 1] = x
        BY <1>3, <2>1, <3>1, <4>1
      <4> QED BY <4>2
    <3>2. ASSUME NEW x, x.at \notin Looping, Has(stack, x) PROVE Has(stack', x)
      <4>1. PICK k \in 1..Len(stack) : stack[k] = x
        BY <3>2
      <4>2. k + 1 \in 1..Len(stack') /\ stack'[k + 1] = x
        BY <2>1, <4>1
      <4> QED BY <4>2
    <3> HIDE DEF Has
    <3> QED BY ONLY <1>a, <3>1, <3>2
  <2>. QED BY <2>2, <2>3, <2>4
<1>4. ASSUME NEW a, a.at \in Looping, a.call = 0, stack[1].at \in Looping, Swapped(stack, stack', a)
      PROVE  /\ Nesting' /\ \A c : LoopAbove(c) => LoopAbove(c)'
             /\ \A c : (Waits(c)' <=> Waits(c)) /\ (Sends(c)' <=> Sends(c))
  <2>1. /\ Len(stack') = Len(stack) /\ 1 \in 1..Len(stack) /\ stack'[1] = a
        /\ \A k \in 1..Len(stack) : k = 1 \/ stack'[k] = stack[k]
    BY <1>4 DEF Swapped
  <2>2. Nesting'
    BY <1>4, <2>1 DEF Nesting
  <2>3. ASSUME NEW c, LoopAbove(c) PROVE LoopAbove(c)'
    <3>1. PICK j, k \in 1..Len(stack) : j < k /\ stack[j].at \in Looping /\ stack[k] = Act("wait", c)
      BY <2>3 DEF LoopAbove
    <3>2. stack'[j].at \in Looping /\ stack'[k] = Act("wait", c)
      BY <1>4, <2>1, <3>1
    <3>. QED BY <2>1, <3>1, <3>2 DEF LoopAbove, Looping, Act
  <2>4. \A c : (Waits(c)' <=> Waits(c)) /\ (Sends(c)' <=> Sends(c))
    <3>1. ASSUME NEW x, x.at \notin Looping, Has(stack', x) PROVE Has(stack, x)
      <4>1. PICK k \in 1..Len(stack') : stack'[k] = x
        BY <3>1
      <4>2. k \in 1..Len(stack) /\ stack[k] = x
        BY <1>4, <2>1, <3>1, <4>1
      <4> QED BY <4>2
    <3>2. ASSUME NEW x, x.at \notin Looping, Has(stack, x) PROVE Has(stack', x)
      <4>1. PICK k \in 1..Len(stack) : stack[k] = x
        BY <3>2
      <4>2. k \in 1..Len(stack') /\ stack'[k] = x
        BY <1>4, <2>1, <3>2, <4>1
      <4> QED BY <4>2
    <3> HIDE DEF Has
    <3> QED BY ONLY <1>a, <3>1, <3>2
  <2>. QED BY <2>2, <2>3, <2>4
<1>5. CASE stack[1].at \in Looping /\ Popped(stack, stack')
  <2>0. Len(stack) \in Nat \ {0} /\ Len(stack') = Len(stack) - 1
        /\ \A k \in 1..Len(stack') : stack'[k] = stack[k + 1]
    BY <1>5 DEF Popped
  <2>1. /\ \A k \in 1..Len(stack') : k + 1 \in 1..Len(stack) /\ stack'[k] = stack[k + 1]
        /\ \A k \in 1..Len(stack) : k = 1 \/ (k - 1 \in 1..Len(stack') /\ stack'[k - 1] = stack[k])
    <3>1. \A k \in 1..Len(stack') : k + 1 \in 1..Len(stack) /\ stack'[k] = stack[k + 1]
      BY <2>0
    <3>2. \A k \in 1..Len(stack) : k = 1 \/ (k - 1 \in 1..Len(stack') /\ (k - 1) + 1 = k)
      BY <2>0
    <3>. QED BY <2>0, <3>1, <3>2
  <2>4. ~FilterEffect
    <3>0. \A n \in Nat : n - 1 # n /\ n - 1 # n + 1
      OBVIOUS
    <3>1. Len(stack') # Len(stack) /\ Len(stack') # Len(stack) + 1
      BY ONLY <2>0, <3>0
    <3>2. \A a : ~Pushed(stack, stack', a) /\ ~Swapped(stack, stack', a)
      BY ONLY <3>1 DEF Pushed, Swapped
    <3>. QED BY ONLY <3>1, <3>2 DEF FilterEffect
  <2>2. Nesting'
    BY <2>1 DEF Nesting
  <2>3. \A c : (Waits(c)' <=> Waits(c)) /\ (Sends(c)' <=> Sends(c))
    <3>1. ASSUME NEW x, x.at \notin Looping, Has(stack', x) PROVE Has(stack, x)
      <4>1. PICK k \in 1..Len(stack') : stack'[k] = x
        BY <3>1
      <4>2. k + 1 \in 1..Len(stack) /\ stack[k + 1] = x
        BY <2>1, <4>1
      <4> QED BY <4>2
    <3>2. ASSUME NEW x, x.at \notin Looping, Has(stack, x) PROVE Has(stack', x)
      <4>1. PICK k \in 1..Len(stack) : stack[k] = x
        BY <3>2
      <4>2. k - 1 \in 1..Len(stack') /\ stack'[k - 1] = x
        BY <1>5, <2>1, <3>2, <4>1
      <4> QED BY <4>2
    <3> HIDE DEF Has
    <3> QED BY ONLY <1>a, <3>1, <3>2
  <2>. QED BY <2>2, <2>3, <2>4
<1>. QED BY ONLY <1>2, <1>3, <1>4, <1>5,
                 FilterEffect \/ (stack[1].at \in Looping /\ Popped(stack, stack'))
         DEF FilterEffect

-----------------------------------------------------------------------------
(* What every step keeps.                                                  *)

\* A quit call, or one with a higher number, stays an excuse; so does one that
\* waits below.
LEMMA ExcuseKept ==
    ASSUME NEW c \in Calls, Excused(c),
           \A d \in Calls : outcome[d] = "stale" => outcome'[d] = "stale",
           \A d \in Calls : kind[d] = "sync" => kind'[d] = "sync",
           \A d \in Calls : d > c \/ (Waits(d) => Waits(d)')
    PROVE  Excused(c)'
<1>1. PICK d \in Calls \ {c} : Stopped(d, c)
  BY DEF Excused
<1>2. Stopped(d, c)'
  BY <1>1 DEF Stopped
<1>. QED BY <1>2 DEF Excused, Calls

LEMMA UnansweredKept ==
    ASSUME Unanswered, UNCHANGED kind,
           \A c \in Calls : /\ outcome'[c] = "none" => outcome[c] = "none"
                            /\ Waits(c) /\ outcome'[c] = "none" => Waits(c)'
                            /\ Absent(c) => Absent(c)'
    PROVE  Unanswered'
BY DEF Unanswered

LEMMA OpenKept ==
    ASSUME Open,
           \A c \in Calls : (Waits(c) \/ Sends(c))' => Waits(c) \/ Sends(c),
           \A c \in Calls : outcome'[c] = "none" => outcome[c] = "none" /\ pending'[c] = pending[c]
    PROVE  Open'
BY DEF Open

\* Whoever still waits has an entry, so the connection is not closed.
LEMMA ClosedIsSettled ==
    ASSUME Open, Flag, NEW c \in Calls, Waits(c) \/ Sends(c), outcome[c] = "none"
    PROVE  conn # "closed" /\ ~syncDone /\ pending[c] = c /\ c # 0
BY Numbers DEF Open, Flag, Calls

\* A step of the parse loop that goes on: only what was said about the rest of
\* the buffer still has to be said.
LEMMA HeededOn ==
    ASSUME Heeded, UNCHANGED kind,
           \A c \in Calls : Waits(c)' <=> Waits(c),
           \A c \in Calls : outcome[c] = "stale" => outcome'[c] = "stale",
           \A c \in Calls : outcome'[c] = "none" => outcome[c] = "none",
           \A c \in Calls : NotRead(c) => NotRead(c)',
           \A c \in Calls : Waits(c) /\ outcome'[c] = "none" /\ LoopAbove(c) => LoopAbove(c)'
    PROVE  Heeded'
<1> SUFFICES ASSUME NEW c \in Calls, Waits(c)', outcome'[c] = "none", ~NotRead(c)'
             PROVE  Excused(c)' \/ LoopAbove(c)'
  BY DEF Heeded
<1>1. Excused(c) \/ LoopAbove(c)
  BY DEF Heeded
<1>. QED BY <1>1, ExcuseKept

LEMMA AbsentKept ==
    ASSUME NEW c \in Calls, Absent(c),
           Kept(toServer, toServer', MovesOf(c)), Kept(Pipe, Pipe', LastsOf(c)),
           Kept(todo[Response(c)], todo'[Response(c)], LastsOf(c)),
           Handled(c)' => Handled(c)
    PROVE  Absent(c)'
BY DEF Absent, NotDue, NotSent, Kept, MovesOf, LastsOf

\* Emacs writes a frame that does not complete the request c.
LEMMA AbsentUp ==
    ASSUME WholeInv, UNCHANGED <<todo, handling>>, NEW c \in Calls,
           Kept(Pipe, Pipe', LastsOf(c)),
           NEW u \in GoodUp, toServer' \in {toServer, Append(toServer, u)}, u \notin MovesOf(c),
           Absent(c)
    PROVE  Absent(c)'
<1>1. Kept(toServer, toServer', MovesOf(c))
  BY StreamsKnown, KeptSame, AddedOther
<1>. QED BY <1>1, KeptSame, AbsentKept DEF Handled

LEMMA AbsentRead ==
    ASSUME Streams, NEW c \in Calls, Absent(c) PROVE NotRead(c)
<1>1. buffer \in Seq(Good) /\ toClient \in Seq(Good)
  BY DEF Streams
<1>2. \A k \in 1..Len(buffer) : Pipe[k] = buffer[k] /\ k \in 1..Len(Pipe)
  BY <1>1 DEF Pipe
<1>. QED BY <1>2 DEF Absent, NotSent, NotRead, None

-----------------------------------------------------------------------------
(* The server completes no request that was not completely sent.           *)

LEMMA AbsentServes ==
    ASSUME WholeInv, NEW n \in 1..2, NEW c \in Calls, Absent(c),
           ServeRequest(n) \/ ServeNotification(n) \/ ServeResponse(n)
    PROVE  Absent(c)'
<1>1. /\ Serve(n) /\ UNCHANGED todo /\ Kept(Pipe, Pipe', LastsOf(c))
      /\ handling' = IF toServer[1].kind = "request"
                     THEN handling \cup {<<toServer[1].id, toServer[1].call>>} ELSE handling
  BY ServedEffects
<1>2. /\ toServer \in Seq(GoodUp) /\ n \in 1..Len(toServer) /\ Decodable(n)
      /\ Leaves(toServer, n, toServer')
  <2>1. toServer \in Seq(GoodUp) /\ n \in 1..Len(toServer) /\ Decodable(n)
    BY <1>1, StreamsKnown DEF Serve, Decodable
  <2>. QED BY <1>1, <2>1, ServedFrames
<1>3. \A k \in 1..Len(toServer) : toServer[k] \in GoodUp /\ toServer[k] \notin MovesOf(c)
  BY <1>2 DEF Absent, None
<1>4. Kept(toServer, toServer', MovesOf(c))
  <2>1. \A k \in 1..n : toServer[k] \notin MovesOf(c)
    BY <1>2, <1>3
  <2>. QED BY <1>2, <2>1, LeftOther
<1>5. ~(toServer[1].kind = "request" /\ toServer[1].call = c)
  <2>1. SUFFICES ASSUME toServer[1].kind = "request", toServer[1].call = c PROVE FALSE
    OBVIOUS
  <2>2. 1 \in 1..Len(toServer) /\ toServer[1] \in GoodUp /\ toServer[1] \notin MovesOf(c)
    BY <1>2, <1>3
  <2>3. toServer[1].part = "header"
    BY <2>1, <2>2 DEF MovesOf
  <2>4. /\ 2 \in 1..Len(toServer) /\ toServer[2] \in GoodUp /\ toServer[2] \notin MovesOf(c)
        /\ toServer[2].part = "rest" /\ toServer[2].call = c
    BY <1>2, <1>3, <2>1, <2>3 DEF Decodable
  <2>5. toServer[2].kind = "request"
    BY <2>4, Shapes DEF GoodUp, UpShape, UpSet
  <2>. QED BY <2>4, <2>5 DEF MovesOf
<1>6. Handled(c)' => Handled(c)
  BY <1>1, <1>5 DEF Handled
<1>. QED BY <1>1, <1>4, <1>6, KeptSame, AbsentKept

LEMMA AbsentServer ==
    ASSUME WholeInv, NEW c \in Calls, Absent(c), Server
    PROVE  Absent(c)'
<1>0. Response(c) \in Msgs /\ ~Handled(c) /\ NotDue(c)
  BY MsgIds DEF Absent
<1>1. CASE \E n \in 1..2 : ServeRequest(n) \/ ServeNotification(n) \/ ServeResponse(n)
  BY <1>1, AbsentServes
<1>2. CASE NotifyClient \/ \E i \in Calls, d \in Calls : Respond(i, d)
  <2>1. UNCHANGED <<buffer, toClient, toServer>>
    BY <1>2 DEF NotifyClient, Respond, serverRest, emacsVars
  <2>2. Pipe' = Pipe
    BY <2>1 DEF Pipe
  <2>3. todo'[Response(c)] = todo[Response(c)] /\ (Handled(c)' => Handled(c))
    <3>1. CASE NotifyClient
      <4>1. Response(c) # Note(notes + 1)
        BY DEF Response, Note
      <4>. QED BY <1>0, <3>1, <4>1, StreamsKnown DEF NotifyClient, TypeOK, Handled
    <3>2. ASSUME NEW i \in Calls, NEW d \in Calls, Respond(i, d)
          PROVE  todo'[Response(c)] = todo[Response(c)] /\ (Handled(c)' => Handled(c))
      <4>1. i = d /\ Handled(d)
        BY <3>2 DEF Respond, WholeInv, Labels, Asked, Handled
      <4>2. Response(c) # Response(d)
        BY <1>0, <4>1 DEF Response
      <4>. QED BY <1>0, <3>2, <4>2, StreamsKnown DEF Respond, TypeOK, Handled
    <3>. QED BY <1>2, <3>1, <3>2
  <2>. QED BY <2>1, <2>2, <2>3, KeptSame, AbsentKept
<1>3. ASSUME NEW m \in Msgs, WriteRaw(m) PROVE Absent(c)'
  <2>1. /\ UNCHANGED <<buffer, toServer, handling>>
        /\ todo[m] # <<>> /\ toClient' = Append(toClient, Head(todo[m]))
        /\ todo' = [todo EXCEPT ![m] = Tail(todo[m])]
    BY <1>3 DEF WriteRaw, serverRest, emacsVars
  <2>2. PICK f \in Good : f = todo[m][1] /\ f = Head(todo[m]) /\ f.msg = m
    BY <2>1, StreamsKnown, Rest, FirstTodo DEF WholeInv, Order
  <2>3. Pipe' = Append(Pipe, f) /\ Pipe \in Seq(Good)
    BY <2>1, <2>2, PipeGrows
  <2>4. Leaves(todo[m], 1, Tail(todo[m])) /\ 1 \in 1..Len(todo[m])
    BY <2>1, StreamsKnown, TailLeaves DEF Leaves
  <2>5. f \notin LastsOf(c)
    <3>1. m = Response(c) => None(todo[m], LastsOf(c))
      BY <1>0 DEF NotDue
    <3>2. m = Response(c) => f \notin LastsOf(c)
      BY ONLY <2>2, <2>4, <3>1 DEF None
    <3>. QED BY <2>2, <3>2 DEF LastsOf
  <2>6. Kept(Pipe, Pipe', LastsOf(c))
    BY <2>3, <2>5, AddedOther
  <2>7. Kept(todo[Response(c)], todo'[Response(c)], LastsOf(c))
    <3>1. CASE m = Response(c)
      <4>1. todo'[Response(c)] = Tail(todo[m])
        BY <2>1, <3>1, StreamsKnown DEF TypeOK
      <4>. QED BY <2>2, <2>4, <2>5, <3>1, <4>1, FirstGone
    <3>2. CASE m # Response(c)
      <4>1. todo'[Response(c)] = todo[Response(c)]
        BY <1>0, <2>1, <3>2, StreamsKnown DEF TypeOK
      <4>. QED BY <4>1, KeptSame
    <3>. QED BY <3>1, <3>2
  <2>. QED BY <2>1, <2>6, <2>7, KeptSame, AbsentKept DEF Handled
<1>4. CASE Heartbeat
  <2>1. /\ UNCHANGED <<buffer, toServer, handling, todo>>
        /\ toClient' = Append(toClient, Beat(beats + 1)) /\ beats + 1 \in 1..MaxTraffic
    <3>1. beats + 1 \in 1..MaxTraffic
      BY <1>4, BeatNumber, StreamsKnown
    <3>. QED BY <1>4, <3>1 DEF Heartbeat, serverRest, emacsVars
  <2>2. Beat(beats + 1) \in Good /\ Beat(beats + 1) \notin LastsOf(c)
    BY <2>1, PlainGood, MsgIds DEF Beat, Frame, LastsOf
  <2>3. Pipe' = Append(Pipe, Beat(beats + 1)) /\ Pipe \in Seq(Good)
    BY <2>1, <2>2, PipeGrows
  <2>. QED BY <2>1, <2>2, <2>3, KeptSame, AddedOther, AbsentKept DEF Handled
<1>5. CASE Break
  <2>1. /\ toServer' = <<>> /\ handling' = {} /\ todo'[Response(c)] = <<>>
        /\ UNCHANGED <<buffer, toClient>>
    BY <1>0, <1>5 DEF Break, emacsVars
  <2>2. Pipe' = Pipe
    BY <2>1 DEF Pipe
  <2>3. ~Handled(c)'
    BY <2>1 DEF Handled
  <2>4. NotSent(c)'
    BY <2>2 DEF Absent, NotSent, LastsOf
  <2>. QED BY <2>1, <2>3, <2>4, NoneEmpty DEF Absent, NotDue
<1>. QED BY <1>1, <1>2, <1>3, <1>4, <1>5 DEF Server

LEMMA ReadServer ==
    ASSUME ReadInv, Server \/ Notify \/ UNCHANGED vars PROVE ReadRest'
<1> DEFINE u == Upward("notification", 0, 0, "whole")
<1>1. /\ UNCHANGED emacsVars /\ (conn' = conn \/ (conn = "up" /\ conn' = "broken"))
      /\ Server \/ (UNCHANGED <<toClient, todo, handling>>
                    /\ toServer' \in {toServer, Append(toServer, u)})
  BY DEF Notify, Server, vars, ServeRequest, ServeNotification, ServeResponse, Respond,
         WriteRaw, NotifyClient, Heartbeat, Break, serverRest, WriteFrame, serverVars
<1>2. UNCHANGED <<stack, calls, pending, kind, outcome, syncDone, buffer>>
  BY <1>1 DEF emacsVars
<1>3. \A c \in Calls : Absent(c) => Absent(c)'
  <2> SUFFICES ASSUME NEW c \in Calls, Absent(c) PROVE Absent(c)'
    OBVIOUS
  <2>1. CASE Server
    BY <2>1, AbsentServer DEF ReadInv
  <2>2. CASE UNCHANGED <<toClient, todo, handling>> /\ toServer' \in {toServer, Append(toServer, u)}
    <3>1. u \in GoodUp /\ u \notin MovesOf(c)
      BY PlainUp DEF MovesOf, Upward
    <3>2. Pipe' = Pipe
      BY <1>2, <2>2 DEF Pipe
    <3> HIDE DEF u
    <3>. QED BY <2>2, <3>1, <3>2, KeptSame, AbsentUp DEF ReadInv
  <2>. QED BY <1>1, <2>1, <2>2
<1>4. Unanswered'
  BY <1>2, <1>3, UnansweredKept DEF ReadInv, ReadRest, Waits, OnStack
<1>5. Heeded'
  BY <1>2 DEF ReadInv, ReadRest, Heeded, Waits, OnStack, NotRead, None, LastsOf, Excused, Stopped,
              LoopAbove
<1>6. Named' /\ Nesting' /\ Open' /\ Flag'
  BY <1>1, <1>2 DEF ReadInv, ReadRest, Named, Nesting, Open, Flag, Waits, Sends, OnStack
<1>. QED BY <1>4, <1>5, <1>6 DEF ReadRest

-----------------------------------------------------------------------------
(* Emacs' loops.                                                           *)

LEMMA PlainStep ==
    ASSUME WholeInv, [Next]_vars
    PROVE  /\ \A c \in Calls : outcome[c] \notin {"none", "quit"} => outcome'[c] = outcome[c]
           /\ outcome \in [Calls -> Outcomes] /\ pending \in [Ids -> 0..MaxCalls]
           /\ kind \in [Calls -> {"none", "sync", "async"}]
BY CallStepHolds, StreamsKnown DEF WholeInv, CallStep, NoLateStep, TypeOK, Outcomes

\* The activation that runs, by name.
LEMMA TopCall ==
    ASSUME WholeInv, NEW at \in {"wait", "send"}, NEW c \in Calls, Top = Act(at, c)
    PROVE  stack # <<>> /\ 1 \in 1..Len(stack) /\ stack[1] = Act(at, c) /\ Head(stack) = Act(at, c)
           /\ OnStack(Act(at, c))
<1>1. stack \in Seq(Acts) /\ DOMAIN stack = 1..Len(stack) /\ Len(stack) \in Nat
  BY StackFacts
<1>2. stack # <<>>
  BY ActNames DEF Top
<1>3. Head(stack) = Act(at, c) /\ stack[1] = Head(stack) /\ 1 \in 1..Len(stack)
  BY <1>1, <1>2 DEF Top
<1>. QED BY <1>1, <1>2, <1>3 DEF OnStack

LEMMA TopLoop ==
    ASSUME WholeInv, Top.at \in Looping
    PROVE  stack # <<>> /\ 1 \in 1..Len(stack) /\ stack[1].at \in Looping
<1>1. stack \in Seq(Acts) /\ DOMAIN stack = 1..Len(stack) /\ Len(stack) \in Nat
  BY StackFacts
<1>2. stack # <<>>
  BY ActNames DEF Top, Looping
<1>. QED BY <1>1, <1>2 DEF Top

\* A step of Emacs that leaves the streams alone.
LEMMA AbsentEmacs ==
    ASSUME UNCHANGED <<buffer, toClient, toServer, todo, handling>>
    PROVE  \A c : (Absent(c) <=> Absent(c)') /\ (NotRead(c) <=> NotRead(c)')
BY DEF Absent, NotRead, NotSent, NotDue, Handled, Pipe, MovesOf, LastsOf, None

LEMMA ReadTimeout ==
    ASSUME ReadInv, NEW c \in Calls, Timeout(c) PROVE ReadRest'
<1>1. /\ outcome[c] = "none" /\ outcome' = [outcome EXCEPT ![c] = "timeout"]
      /\ pending' = [i \in Ids |-> IF pending[i] = c THEN 0 ELSE pending[i]]
      /\ UNCHANGED <<stack, calls, kind, syncDone, buffer, toServer, toClient, conn, todo, handling>>
  BY DEF Timeout, Settle, Forget, serverVars
<1>2. [Next]_vars
  BY DEF Next, Loops
<1>3. \A d \in Calls : /\ outcome[d] = "stale" => outcome'[d] = "stale"
                       /\ outcome'[d] = "none" => outcome[d] = "none" /\ d # c
  BY <1>1, <1>2, PlainStep DEF ReadInv
<1>4. \A d \in Calls : /\ (Waits(d)' <=> Waits(d)) /\ (Sends(d)' <=> Sends(d))
                       /\ (LoopAbove(d) <=> LoopAbove(d)')
  BY <1>1 DEF Waits, Sends, OnStack, LoopAbove
<1>5. Named' /\ Nesting' /\ Flag'
  BY <1>1 DEF ReadInv, ReadRest, Named, Nesting, Flag
<1>6. Open'
  BY <1>1, <1>3, <1>4, Numbers DEF ReadInv, ReadRest, Open
<1>7. Unanswered'
  BY <1>1, <1>3, <1>4, AbsentEmacs, UnansweredKept DEF ReadInv, ReadRest
<1>8. Heeded'
  BY <1>1, <1>3, <1>4, AbsentEmacs, HeededOn DEF ReadInv, ReadRest
<1>. QED BY <1>5, <1>6, <1>7, <1>8 DEF ReadRest

LEMMA ReadQuit ==
    ASSUME ReadInv, NEW c \in Calls, Quit(c) PROVE ReadRest'
<1>1. /\ outcome[c] = "none" /\ outcome' = [outcome EXCEPT ![c] = "quit"]
      /\ stack \in {<<Act("wait", c)>>, <<Act("send", c)>>} /\ stack' = <<>>
      /\ UNCHANGED <<pending, calls, kind, syncDone, buffer, toServer, toClient, conn, todo, handling>>
  BY DEF Quit, Settle, serverVars
<1>2. [Next]_vars
  BY DEF Next, User
<1>3. \A d \in Calls : outcome'[d] = "none" => outcome[d] = "none" /\ d # c
  BY <1>1, <1>2, PlainStep DEF ReadInv
<1>4. \A d : ~Waits(d)' /\ ~Sends(d)'
  BY <1>1 DEF Waits, Sends, OnStack
<1>5. \A d : Waits(d) => d = c
  BY <1>1, ActNames DEF Waits, OnStack
<1>6. Named' /\ Nesting' /\ Flag' /\ Open' /\ Heeded'
  BY <1>1, <1>4 DEF ReadInv, ReadRest, Named, Nesting, Flag, Open, Heeded
<1>7. Unanswered'
  BY <1>1, <1>3, <1>5, AbsentEmacs, UnansweredKept DEF ReadInv, ReadRest
<1>. QED BY <1>6, <1>7 DEF ReadRest

\* An activation of a call leaves the top of the stack.
LEMMA CallPopped ==
    ASSUME WholeInv, Nesting, NEW at \in {"wait", "send"}, NEW c \in Calls, Top = Act(at, c),
           stack' = Tail(stack)
    PROVE  /\ Nesting'
           /\ \A d \in Calls : /\ Waits(d)' => Waits(d) /\ d < c
                               /\ Sends(d)' => Sends(d)
                               /\ Waits(d) => Waits(d)' \/ (at = "wait" /\ d = c)
                               /\ LoopAbove(d) => LoopAbove(d)'
<1>1. /\ stack # <<>> /\ stack[1] = Act(at, c) /\ stack \in Seq(Acts)
      /\ Popped(stack, stack') /\ stack' \in Seq(Acts)
  <2>1. stack # <<>> /\ stack[1] = Act(at, c) /\ stack \in Seq(Acts)
    BY TopCall, StackFacts
  <2>2. Head(stack) \in Acts /\ Tail(stack) \in Seq(Acts)
    BY <2>1
  <2>3. Popped(stack, Tail(stack))
    BY <2>1, <2>2, StackChanges
  <2>. QED BY <2>1, <2>2, <2>3
<1>2. /\ \A k \in 1..Len(stack') : k + 1 \in 1..Len(stack) /\ 1 < k + 1 /\ stack'[k] = stack[k + 1]
      /\ \A k \in 1..Len(stack) : k = 1 \/ (k - 1 \in 1..Len(stack') /\ stack'[k - 1] = stack[k])
      /\ 1 \in 1..Len(stack)
  <2>0. Len(stack) \in Nat \ {0} /\ Len(stack') = Len(stack) - 1
        /\ \A k \in 1..Len(stack') : stack'[k] = stack[k + 1]
    BY <1>1 DEF Popped
  <2>1. \A k \in 1..Len(stack') : k + 1 \in 1..Len(stack) /\ 1 < k + 1 /\ stack'[k] = stack[k + 1]
    BY <2>0
  <2>2. \A k \in 1..Len(stack) : k = 1 \/ (k - 1 \in 1..Len(stack') /\ (k - 1) + 1 = k)
    BY <2>0
  <2>. QED BY <2>0, <2>1, <2>2
<1>3. /\ DOMAIN stack = 1..Len(stack) /\ DOMAIN stack' = 1..Len(stack')
      /\ \A d : Act("wait", d)' = Act("wait", d) /\ Act("send", d)' = Act("send", d)
  BY <1>1 DEF Act
<1>4. Nesting'
  BY <1>2 DEF Nesting
<1>5. ASSUME NEW d \in Calls
      PROVE  /\ Waits(d)' => Waits(d) /\ d < c
             /\ Sends(d)' => Sends(d)
             /\ Waits(d) => Waits(d)' \/ (at = "wait" /\ d = c)
  <2>1. Waits(d)' => Waits(d) /\ d < c
    <3> SUFFICES ASSUME NEW k \in 1..Len(stack'), stack'[k] = Act("wait", d) PROVE Waits(d) /\ d < c
      BY <1>3 DEF Waits, OnStack
    <3>1. k + 1 \in 1..Len(stack) /\ 1 < k + 1 /\ stack[k + 1] = Act("wait", d)
      BY <1>2
    <3>2. stack[1].call = 0 \/ stack[k + 1].call < stack[1].call
      BY <1>2, <3>1 DEF Nesting
    <3>3. c # 0 /\ stack[1].call = c /\ stack[k + 1].call = d
      BY <1>1, <3>1, ActNames DEF Calls
    <3>. QED BY <1>3, <3>1, <3>2, <3>3 DEF Waits, OnStack
  <2>2. Sends(d)' => Sends(d)
    BY <1>2, <1>3 DEF Sends, OnStack
  <2>3. Waits(d) => Waits(d)' \/ (at = "wait" /\ d = c)
    <3> SUFFICES ASSUME NEW k \in 1..Len(stack), stack[k] = Act("wait", d)
                 PROVE  Waits(d)' \/ (at = "wait" /\ d = c)
      BY <1>3 DEF Waits, OnStack
    <3>1. CASE k = 1
      BY <1>1, <3>1, ActNames
    <3>2. CASE k # 1
      <4>1. k - 1 \in DOMAIN stack' /\ stack'[k - 1] = Act("wait", d)'
        BY <1>2, <1>3, <3>2
      <4>. QED BY <4>1 DEF Waits, OnStack
    <3>. QED BY <3>1, <3>2
  <2>. QED BY <2>1, <2>2, <2>3
<1>6. ASSUME NEW d \in Calls, LoopAbove(d) PROVE LoopAbove(d)'
  <2>1. PICK j, k \in 1..Len(stack) : j < k /\ stack[j].at \in Looping /\ stack[k] = Act("wait", d)
    BY <1>6 DEF LoopAbove
  <2>2. j # 1
    BY <1>1, <2>1, ActNames DEF Looping
  <2>3. k # 1 /\ j - 1 < k - 1
    BY <2>1
  <2>4. /\ j - 1 \in 1..Len(stack') /\ k - 1 \in 1..Len(stack')
        /\ stack'[j - 1].at \in Looping /\ stack'[k - 1] = Act("wait", d)
    BY <1>2, <2>1, <2>2, <2>3
  <2>. QED BY <2>3, <2>4 DEF LoopAbove, Looping, Act
<1>. QED BY <1>4, <1>5, <1>6

LEMMA ReadReturn ==
    ASSUME ReadInv, NEW c \in Calls, Return(c) PROVE ReadRest'
<1>1. /\ outcome[c] # "none" /\ Top = Act("wait", c) /\ stack' = Tail(stack)
      /\ UNCHANGED <<calls, pending, kind, outcome, syncDone, buffer, toServer, toClient, conn,
                     todo, handling>>
  BY DEF Return, Pop, serverVars
<1>2. /\ Nesting'
      /\ \A d \in Calls : /\ Waits(d)' => Waits(d) /\ d < c
                          /\ Sends(d)' => Sends(d)
                          /\ Waits(d) => Waits(d)' \/ d = c
                          /\ LoopAbove(d) => LoopAbove(d)'
  BY <1>1, CallPopped DEF ReadInv, ReadRest
<1>3. Named' /\ Flag'
  BY <1>1 DEF ReadInv, ReadRest, Named, Flag
<1>4. Open'
  BY <1>1, <1>2, OpenKept DEF ReadInv, ReadRest
<1>5. Unanswered'
  BY <1>1, <1>2, AbsentEmacs, UnansweredKept DEF ReadInv, ReadRest
<1>6. Heeded'
  <2> SUFFICES ASSUME NEW d \in Calls, Waits(d)', outcome'[d] = "none", ~NotRead(d)'
               PROVE  Excused(d)' \/ LoopAbove(d)'
    BY DEF Heeded
  <2>1. Waits(d) /\ d < c /\ outcome[d] = "none" /\ ~NotRead(d)
    BY <1>1, <1>2, AbsentEmacs
  <2>2. Excused(d) \/ LoopAbove(d)
    BY <2>1 DEF ReadInv, ReadRest, Heeded
  <2>3. \A e \in Calls : e > d \/ (Waits(e) => Waits(e)')
    BY <1>2, <2>1 DEF Calls
  <2>. QED BY <1>1, <1>2, <2>2, <2>3, ExcuseKept
<1>. QED BY <1>2, <1>3, <1>4, <1>5, <1>6 DEF ReadRest

\* A request that was sent completely begins to wait.
LEMMA SendToWait ==
    ASSUME WholeInv, Nesting, NEW c \in Calls, Top = Act("send", c),
           stack' = <<Act("wait", c)>> \o Tail(stack)
    PROVE  /\ Nesting' /\ ~Waits(c) /\ Waits(c)' /\ Sends(c)
           /\ \A d \in Calls : /\ d # c => (Waits(d)' <=> Waits(d))
                               /\ Sends(d)' => Sends(d)
                               /\ LoopAbove(d) => LoopAbove(d)'
<1>1. /\ stack # <<>> /\ stack[1] = Act("send", c) /\ stack \in Seq(Acts)
      /\ Swapped(stack, stack', Act("wait", c)) /\ stack' \in Seq(Acts)
  <2>1. stack # <<>> /\ stack[1] = Act("send", c) /\ stack \in Seq(Acts)
    BY TopCall, StackFacts
  <2>2. Act("wait", c) \in Acts /\ Tail(stack) \in Seq(Acts)
    BY <2>1, ActTypes, RpcAssumption
  <2> DEFINE A == Acts
  <2>3. Swapped(stack, <<Act("wait", c)>> \o Tail(stack), Act("wait", c))
    BY <2>1, <2>2, StackChanges
  <2>4. <<Act("wait", c)>> \o Tail(stack) \in Seq(A)
    <3> HIDE DEF A
    <3>. QED BY <2>2 DEF A
  <2>. QED BY <2>1, <2>3, <2>4 DEF A
<1>2. /\ Len(stack') = Len(stack) /\ 1 \in 1..Len(stack) /\ stack'[1] = Act("wait", c)
      /\ \A k \in 1..Len(stack) : k = 1 \/ (1 < k /\ stack'[k] = stack[k])
  BY <1>1 DEF Swapped
<1>3. /\ DOMAIN stack = 1..Len(stack) /\ DOMAIN stack' = 1..Len(stack')
      /\ \A d : Act("wait", d)' = Act("wait", d) /\ Act("send", d)' = Act("send", d)
  BY <1>1 DEF Act
<1>4. stack[1].call = c /\ stack'[1].call = c /\ c # 0
  BY <1>1, <1>2, ActNames DEF Calls
<1>5. Nesting'
  <2> SUFFICES ASSUME NEW j \in 1..Len(stack), NEW k \in 1..Len(stack), j < k
               PROVE  stack'[j].call = 0 \/ stack'[k].call < stack'[j].call
    BY <1>2 DEF Nesting
  <2>1. stack'[j].call = stack[j].call /\ stack'[k] = stack[k]
    BY <1>2, <1>4
  <2> QED BY <2>1 DEF Nesting
<1>6. ~Waits(c)
  <2> SUFFICES ASSUME NEW k \in 1..Len(stack), stack[k] = Act("wait", c) PROVE FALSE
    BY <1>3 DEF Waits, OnStack
  <2>1. k # 1
    BY <1>1, ActNames
  <2>2. stack[k].call < stack[1].call
    BY <1>2, <1>4, <2>1 DEF Nesting
  <2>3. stack[k].call = c
    BY ActNames
  <2>. QED BY <1>4, <2>2, <2>3 DEF Calls
<1>7. Waits(c)' /\ Sends(c)
  BY <1>1, <1>2, <1>3 DEF Waits, Sends, OnStack
<1>8. ASSUME NEW d \in Calls
      PROVE  /\ d # c => (Waits(d)' <=> Waits(d))
             /\ Sends(d)' => Sends(d)
             /\ LoopAbove(d) => LoopAbove(d)'
  <2>1. ASSUME d # c PROVE Waits(d)' <=> Waits(d)
    <3>1. stack[1] # Act("wait", d) /\ stack'[1] # Act("wait", d)
      BY <1>1, <1>2, <2>1, ActNames
    <3>. QED BY <1>2, <1>3, <3>1 DEF Waits, OnStack
  <2>2. Sends(d)' => Sends(d)
    <3>1. stack'[1] # Act("send", d)
      BY <1>2, ActNames
    <3>. QED BY <1>2, <1>3, <3>1 DEF Sends, OnStack
  <2>3. ASSUME LoopAbove(d) PROVE LoopAbove(d)'
    <3>1. PICK j, k \in 1..Len(stack) : j < k /\ stack[j].at \in Looping /\ stack[k] = Act("wait", d)
      BY <2>3 DEF LoopAbove
    <3>2. j # 1 /\ k # 1
      BY <1>1, <3>1, ActNames DEF Looping
    <3>3. stack'[j].at \in Looping /\ stack'[k] = Act("wait", d)
      BY <1>2, <3>1, <3>2
    <3>. QED BY <1>2, <3>1, <3>3 DEF LoopAbove, Looping, Act
  <2>. QED BY <2>1, <2>2, <2>3
<1>. QED BY <1>5, <1>6, <1>7, <1>8

LEMMA ReadSendRest ==
    ASSUME ReadInv, NEW c \in Calls, SendRest(c) PROVE ReadRest'
<1> DEFINE u == Upward("request", 0, c, "rest")
<1>1. /\ Top = Act("send", c)
      /\ toServer' \in {toServer, Append(toServer, u)}
      /\ IF kind[c] = "sync" THEN stack' = <<Act("wait", c)>> \o Tail(stack)
                             ELSE stack' = Tail(stack)
      /\ UNCHANGED <<calls, pending, kind, outcome, syncDone, buffer, toClient, conn, todo, handling>>
  BY DEF SendRest, WriteFrame, Pop, Replace, serverVars
<1>2. UNCHANGED Pipe
  BY <1>1 DEF Pipe
<1>3. u \in GoodUp /\ \A d \in Calls : d # c => u \notin MovesOf(d)
  BY PlainUp DEF MovesOf, Upward
<1> HIDE DEF u
<1>4. \A d \in Calls : d # c /\ Absent(d) => Absent(d)'
  BY <1>1, <1>2, <1>3, KeptSame, AbsentUp DEF ReadInv
<1>5. \A d : NotRead(d)' <=> NotRead(d)
  BY <1>1 DEF NotRead, None, LastsOf
<1>6. Sends(c) /\ c <= calls /\ Named' /\ Flag'
  BY <1>1, TopStarted, TopCall DEF ReadInv, ReadRest, WholeInv, Sends, Named, Flag
<1>7. CASE kind[c] = "sync"
  <2>1. /\ Nesting' /\ ~Waits(c) /\ Waits(c)'
        /\ \A d \in Calls : /\ d # c => (Waits(d)' <=> Waits(d))
                            /\ Sends(d)' => Sends(d)
                            /\ LoopAbove(d) => LoopAbove(d)'
    BY <1>1, <1>7, SendToWait DEF ReadInv, ReadRest
  <2>2. Open'
    BY <1>1, <1>6, <2>1, OpenKept DEF ReadInv, ReadRest
  <2>3. Unanswered'
    BY <1>1, <1>4, <2>1 DEF ReadInv, ReadRest, Unanswered
  <2>4. Heeded'
    <3> SUFFICES ASSUME NEW d \in Calls, Waits(d)', outcome'[d] = "none", ~NotRead(d)'
                 PROVE  Excused(d)' \/ LoopAbove(d)'
      BY DEF Heeded
    <3>1. d # c
      <4>1. outcome[c] = "none" => Absent(c)
        BY <1>7, <2>1 DEF ReadInv, ReadRest, Unanswered
      <4>. QED BY <1>1, <1>5, <4>1, AbsentRead DEF ReadInv, WholeInv, Labels
    <3>2. Excused(d) \/ LoopAbove(d)
      BY <1>1, <1>5, <2>1, <3>1 DEF ReadInv, ReadRest, Heeded
    <3>3. \A e \in Calls : Waits(e) => Waits(e)'
      BY <2>1
    <3>. QED BY <1>1, <2>1, <3>2, <3>3, ExcuseKept
  <2>. QED BY <1>6, <2>1, <2>2, <2>3, <2>4 DEF ReadRest
<1>8. CASE kind[c] # "sync"
  <2>0. kind[c] = "async"
    <3>1. [Next]_vars
      BY DEF Next, Loops
    <3>2. kind[c] # "none"
      BY <1>6, StreamsKnown DEF ReadInv, ReadRest, Named, Calls
    <3>. QED BY <1>8, <3>1, <3>2, PlainStep DEF ReadInv
  <2>1. /\ Nesting'
        /\ \A d \in Calls : /\ Waits(d)' <=> Waits(d)
                            /\ Sends(d)' => Sends(d)
                            /\ LoopAbove(d) => LoopAbove(d)'
    BY <1>1, <1>8, CallPopped DEF ReadInv, ReadRest
  <2>2. Open'
    BY <1>1, <2>1, OpenKept DEF ReadInv, ReadRest
  <2>3. Unanswered'
    BY <1>1, <1>4, <2>0, <2>1 DEF ReadInv, ReadRest, Unanswered
  <2>4. Heeded'
    BY <1>1, <1>5, <2>1, HeededOn DEF ReadInv, ReadRest
  <2>. QED BY <1>6, <2>1, <2>2, <2>3, <2>4 DEF ReadRest
<1>. QED BY <1>7, <1>8

LEMMA ReadRequest ==
    ASSUME ReadInv, NEW k \in {"sync", "async"}, Request(k) PROVE ReadRest'
<1>1. PICK n \in Calls : NewId = n /\ n = calls + 1 /\ calls \in Nat
  BY StreamsKnown, Numbers DEF Request, NewId, ReadInv
<1>2. /\ calls' = n /\ pending' = [pending EXCEPT ![n] = n] /\ kind' = [kind EXCEPT ![n] = k]
      /\ conn # "closed"
      /\ UNCHANGED <<outcome, syncDone, buffer, toClient, conn, todo, handling>>
  BY <1>1 DEF Request, UserCode, serverVars
<1>3. UNCHANGED Pipe
  BY <1>2 DEF Pipe
<1>4. /\ \A d \in Calls : d # n => kind'[d] = kind[d] /\ pending'[d] = pending[d]
      /\ kind'[n] = k /\ pending'[n] = n /\ kind[n] = "none" /\ outcome[n] = "none"
  <2>1. n > calls
    BY <1>1
  <2>2. kind[n] = "none" /\ outcome[n] = "none"
    BY <2>1 DEF ReadInv, ReadRest, Named, WholeInv, CallInv, PendingOk
  <2>. QED BY <1>2, <2>2, Numbers, StreamsKnown DEF ReadInv, TypeOK
<1>5. /\ stack \in Seq(Acts) /\ DOMAIN stack = 1..Len(stack) /\ Len(stack) \in Nat
      /\ \A j \in 1..Len(stack) : stack[j].call < n /\ stack[j].call # n
  <2>1. \A j \in 1..Len(stack) : stack[j].call \in 0..MaxCalls /\ stack[j].call <= calls
    BY StackFacts DEF Acts, ReadInv
  <2>. QED BY <1>1, <2>1, StackFacts, RpcAssumption DEF ReadInv, RpcAssumption
<1>6. ~Waits(n) /\ Absent(n)
  <2>1. ~Waits(n)
    BY <1>5, ActNames DEF Waits, OnStack
  <2>. QED BY <1>4, <2>1 DEF ReadInv, ReadRest, Unanswered
<1>7. UNCHANGED stack \/ \E at \in {"wait", "send"} : Pushed(stack, stack', Act(at, n))
  <2>1. \A at \in {"wait", "send"} : Pushed(stack, <<Act(at, n)>> \o stack, Act(at, n))
    BY <1>1, <1>5, ActTypes, RpcAssumption, StackChanges
  <2>. QED BY <1>1, <2>1 DEF Request
<1>8. /\ DOMAIN stack' = 1..Len(stack')
      /\ \A d : Act("wait", d)' = Act("wait", d) /\ Act("send", d)' = Act("send", d)
  <2>1. stack' \in Seq(Acts)
    <3>1. Act("wait", n) \in Acts /\ Act("send", n) \in Acts
      BY <1>1, ActTypes, RpcAssumption
    <3> DEFINE A == Acts
    <3>2. stack \in Seq(A) /\ Act("wait", n) \in A /\ Act("send", n) \in A
      BY <1>5, <3>1
    <3> HIDE DEF A
    <3>3. <<Act("wait", n)>> \o stack \in Seq(A) /\ <<Act("send", n)>> \o stack \in Seq(A)
      BY <3>2
    <3>4. stack' \in Seq(A)
      BY <1>1, <3>2, <3>3 DEF Request
    <3>. QED BY <3>4 DEF A
  <2>. QED BY <2>1 DEF Act
<1>9. /\ Nesting'
      /\ \A d \in Calls : /\ d # n => (Waits(d)' <=> Waits(d)) /\ (Sends(d)' <=> Sends(d))
                          /\ LoopAbove(d) => LoopAbove(d)'
  <2>1. CASE UNCHANGED stack
    BY <2>1 DEF ReadInv, ReadRest, Nesting, Waits, Sends, OnStack, LoopAbove
  <2>2. ASSUME NEW at \in {"wait", "send"}, Pushed(stack, stack', Act(at, n))
        PROVE  /\ Nesting'
               /\ \A d \in Calls : /\ d # n => (Waits(d)' <=> Waits(d)) /\ (Sends(d)' <=> Sends(d))
                                   /\ LoopAbove(d) => LoopAbove(d)'
    <3>1. /\ \A j \in 1..Len(stack') : j = 1 \/ (j - 1 \in 1..Len(stack) /\ stack'[j] = stack[j - 1])
          /\ \A j \in 1..Len(stack) : j + 1 \in 1..Len(stack') /\ stack'[j + 1] = stack[j]
          /\ stack'[1] = Act(at, n) /\ stack'[1].call = n
      BY <2>2, ActNames DEF Pushed
    <3>2. Nesting'
      <4> SUFFICES ASSUME NEW i \in 1..Len(stack'), NEW j \in 1..Len(stack'), i < j
                   PROVE  stack'[i].call = 0 \/ stack'[j].call < stack'[i].call
        BY DEF Nesting
      <4>1. j # 1 /\ j - 1 \in 1..Len(stack) /\ stack'[j] = stack[j - 1]
        BY <3>1
      <4>2. CASE i = 1
        BY <1>5, <3>1, <4>1, <4>2
      <4>3. CASE i # 1
        <5>1. i - 1 \in 1..Len(stack) /\ stack'[i] = stack[i - 1] /\ i - 1 < j - 1
          BY <3>1, <4>3
        <5>. QED BY <4>1, <5>1 DEF ReadInv, ReadRest, Nesting
      <4>. QED BY <4>2, <4>3
    <3>3. ASSUME NEW d \in Calls, d # n PROVE (Waits(d)' <=> Waits(d)) /\ (Sends(d)' <=> Sends(d))
      <4>1. stack'[1] # Act("wait", d) /\ stack'[1] # Act("send", d)
        BY <3>1, <3>3, ActNames
      <4>2. \A a : (\E j \in DOMAIN stack' : stack'[j] = a) /\ stack'[1] # a
                      => \E j \in DOMAIN stack : stack[j] = a
        BY <1>5, <1>8, <3>1
      <4>3. \A a : (\E j \in DOMAIN stack : stack[j] = a) => \E j \in DOMAIN stack' : stack'[j] = a
        BY <1>5, <1>8, <3>1
      <4>. QED BY <1>8, <4>1, <4>2, <4>3 DEF Waits, Sends, OnStack
    <3>4. ASSUME NEW d, LoopAbove(d) PROVE LoopAbove(d)'
      <4>1. PICK i, j \in 1..Len(stack) : i < j /\ stack[i].at \in Looping /\ stack[j] = Act("wait", d)
        BY <3>4 DEF LoopAbove
      <4>2. i + 1 < j + 1 /\ stack'[i + 1].at \in Looping /\ stack'[j + 1] = Act("wait", d)
            /\ i + 1 \in 1..Len(stack') /\ j + 1 \in 1..Len(stack')
        BY <3>1, <4>1
      <4>. QED BY <4>2 DEF LoopAbove, Looping, Act
    <3>. QED BY <3>2, <3>3, <3>4
  <2>. QED BY <1>7, <2>1, <2>2
<1>10. /\ \A d \in Calls : d # n /\ Absent(d) => Absent(d)'
       /\ k = "sync" => Waits(n)' \/ Absent(n)'
  <2>1. PICK part \in {"whole", "header"} :
            /\ toServer' \in {toServer, Append(toServer, Upward("request", n, n, part))}
            /\ part = "whole" /\ k = "sync" => Waits(n)' \/ UNCHANGED toServer
    <3>1. CASE WriteFrame(Upward("request", n, n, "whole"))
               /\ stack' = IF k = "sync" THEN <<Act("wait", n)>> \o stack ELSE stack
      <4>1. k = "sync" => Waits(n)'
        <5>1. k = "sync" => Pushed(stack, stack', Act("wait", n))
          BY <1>1, <1>5, <3>1, ActTypes, RpcAssumption, StackChanges
        <5>2. k = "sync" => 1 \in 1..Len(stack') /\ stack'[1] = Act("wait", n)
          BY <5>1 DEF Pushed
        <5>. QED BY <1>8, <5>2 DEF Waits, OnStack
      <4>. QED BY <3>1, <4>1 DEF WriteFrame
    <3>2. CASE WriteFrame(Upward("request", n, n, "header"))
      BY <3>2 DEF WriteFrame
    <3>3. CASE UNCHANGED toServer
      BY <3>3
    <3>. QED BY <1>1, <3>1, <3>2, <3>3 DEF Request
  <2> DEFINE u == Upward("request", n, n, part)
  <2>2. u \in GoodUp /\ u.call = n /\ u.part = part
    BY <1>1, UpTypes DEF GoodUp, Upward
  <2>3. toServer' \in {toServer, Append(toServer, u)}
    BY <2>1
  <2> HIDE DEF u
  <2>4. (\A d : d # n => u \notin MovesOf(d)) /\ (part = "header" => u \notin MovesOf(n))
    BY <2>2 DEF MovesOf
  <2>5. \A d \in Calls : Absent(d) /\ u \notin MovesOf(d) => Absent(d)'
    BY <1>2, <1>3, <2>2, <2>3, KeptSame, AbsentUp DEF ReadInv
  <2>6. UNCHANGED toServer => Absent(n)'
    BY <1>2, <1>6, AbsentEmacs
  <2>. QED BY <1>6, <2>1, <2>4, <2>5, <2>6
<1>11. Named'
  <2>1. \A d \in Calls : d # n => (d > calls' <=> d > calls)
    BY <1>1, <1>2 DEF Calls
  <2>. QED BY <1>1, <1>2, <1>4, <2>1 DEF ReadInv, ReadRest, Named
<1>12. Open'
  BY <1>2, <1>4, <1>9 DEF ReadInv, ReadRest, Open
<1>13. Flag'
  BY <1>2 DEF ReadInv, ReadRest, Flag
<1>14. Unanswered'
  BY <1>2, <1>4, <1>9, <1>10 DEF ReadInv, ReadRest, Unanswered
<1>15. Heeded'
  <2> SUFFICES ASSUME NEW d \in Calls, Waits(d)', outcome'[d] = "none", ~NotRead(d)'
               PROVE  Excused(d)' \/ LoopAbove(d)'
    BY DEF Heeded
  <2>1. ~NotRead(d)
    BY <1>2 DEF NotRead, None, LastsOf
  <2>2. d # n
    BY <1>6, <2>1, AbsentRead DEF ReadInv, WholeInv, Labels
  <2>3. Excused(d) \/ LoopAbove(d)
    BY <1>2, <1>9, <2>1, <2>2 DEF ReadInv, ReadRest, Heeded
  <2>4. \A e \in Calls : /\ Waits(e) => Waits(e)'
                         /\ kind[e] = "sync" => kind'[e] = "sync"
    BY <1>4, <1>6, <1>9
  <2>. QED BY <1>2, <1>9, <2>3, <2>4, ExcuseKept
<1>. QED BY <1>9, <1>11, <1>12, <1>13, <1>14, <1>15 DEF ReadRest

-----------------------------------------------------------------------------
(* The filter and the sentinel.                                            *)

LEMMA ReadReceive ==
    ASSUME ReadInv, NEW n \in {0, Len(toClient)}, Receive(n) PROVE ReadRest'
<1>1. /\ buffer' = buffer \o SubSeq(toClient, 1, n)
      /\ toClient' = SubSeq(toClient, n + 1, Len(toClient))
      /\ stack' = <<Act("parse", 0)>> \o stack
      /\ UNCHANGED <<calls, pending, kind, outcome, syncDone, conn, todo, handling, toServer>>
  BY DEF Receive, parseRest, serverVars
<1>2. UNCHANGED Pipe
  BY <1>1, Moved DEF Pipe, ReadInv, WholeInv, Labels, Streams
<1>3. /\ Pushed(stack, stack', Act("parse", 0)) /\ Len(stack) \in Nat
      /\ DOMAIN stack = 1..Len(stack) /\ DOMAIN stack' = 1..Len(stack')
  <2>1. stack \in Seq(Acts) /\ Act("parse", 0) \in Acts
    BY ActTypes, RpcAssumption, StackFacts DEF ReadInv
  <2>2. stack' \in Seq(Acts)
    BY <1>1, <2>1, StackEdits
  <2>. QED BY <1>1, <2>1, <2>2, StackChanges
<1>4. /\ Nesting'
      /\ \A d : (Waits(d)' <=> Waits(d)) /\ (Sends(d)' <=> Sends(d))
  <2>1. FilterEffect
    <3>1. Act("parse", 0).at \in Looping /\ Act("parse", 0).call = 0
      BY ActNames DEF Looping
    <3>. QED BY <1>3, <3>1, Zenon DEF FilterEffect
  <2>2. Nesting
    BY DEF ReadInv, ReadRest
  <2>. QED BY ONLY <1>3, <2>1, <2>2, FilterStack
<1>5. \A d \in Calls : Absent(d) => Absent(d)'
  BY <1>1, <1>2 DEF Absent, NotDue, NotSent, Handled, MovesOf, LastsOf
<1>6. Named' /\ Flag' /\ Open' /\ Unanswered'
  BY <1>1, <1>4, <1>5, OpenKept, UnansweredKept DEF ReadInv, ReadRest, Named, Flag
<1>7. \A d : Waits(d) => LoopAbove(d)'
  <2> SUFFICES ASSUME NEW d, NEW j \in 1..Len(stack), stack[j] = Act("wait", d) PROVE LoopAbove(d)'
    BY <1>3 DEF Waits, OnStack
  <2>1. /\ 1 < j + 1 /\ 1 \in 1..Len(stack') /\ j + 1 \in 1..Len(stack')
        /\ stack'[1].at = "parse" /\ stack'[j + 1] = Act("wait", d)
    BY <1>3, ActNames DEF Pushed
  <2>. QED BY <2>1 DEF LoopAbove, Looping, Act
<1>8. Heeded'
  BY <1>4, <1>7 DEF Heeded
<1>. QED BY <1>4, <1>6, <1>8 DEF ReadRest

\* A dispatch, or the return of a handler, as a step of the parse loop.
LoopEffect == Top.at \in Looping /\ (Pop \/ \E at \in Looping : Replace(Act(at, 0)))
LoopGoes == \E at \in Looping : Replace(Act(at, 0))

LEMMA LoopStack ==
    ASSUME ReadInv, LoopEffect
    PROVE  /\ Nesting'
           /\ \A c : (Waits(c)' <=> Waits(c)) /\ (Sends(c)' <=> Sends(c))
           /\ LoopGoes => \A c : LoopAbove(c) => LoopAbove(c)'
<1>1. /\ stack # <<>> /\ stack[1].at \in Looping /\ stack \in Seq(Acts)
      /\ DOMAIN stack = 1..Len(stack) /\ Len(stack) \in Nat
  BY TopLoop, StackFacts DEF LoopEffect, ReadInv
<1>2. \A at \in Looping : Act(at, 0) \in Acts
  BY ActTypes, RpcAssumption DEF Looping
<1>3. stack' \in Seq(Acts)
  <2>1. Tail(stack) \in Seq(Acts) /\ \A at \in Looping : <<Act(at, 0)>> \o Tail(stack) \in Seq(Acts)
    BY <1>1, <1>2, StackEdits
  <2>. QED BY <2>1 DEF LoopEffect, Pop, Replace
<1>4. ASSUME LoopGoes PROVE FilterEffect
  <2>1. PICK at \in Looping : stack' = <<Act(at, 0)>> \o Tail(stack)
    BY <1>4 DEF LoopGoes, Replace
  <2>2. Swapped(stack, stack', Act(at, 0))
    BY <1>1, <1>2, <2>1, StackChanges
  <2>. QED BY <1>1, <2>2, ActNames DEF FilterEffect
<1>5. LoopGoes \/ (stack[1].at \in Looping /\ Popped(stack, stack'))
  <2>1. Pop => Popped(stack, stack')
    BY <1>1, <1>2, StackChanges DEF Pop, Looping
  <2>. QED BY <1>1, <2>1 DEF LoopEffect, LoopGoes
<1>6. DOMAIN stack' = 1..Len(stack')
  BY <1>3
<1>. QED BY <1>1, <1>4, <1>5, <1>6, FilterStack DEF ReadInv, ReadRest

\* After the connection is closed nobody waits for anything.
LEMMA ReadLoop ==
    ASSUME ReadInv, LoopEffect, LoopGoes \/ syncDone \/ buffer = <<>>,
           UNCHANGED <<calls, pending, kind, outcome, conn, todo, handling>>,
           syncDone' => syncDone,
           \A c \in Calls : (NotRead(c) => NotRead(c)') /\ (Absent(c) => Absent(c)')
    PROVE  ReadRest'
<1>1. /\ Nesting'
      /\ \A c : (Waits(c)' <=> Waits(c)) /\ (Sends(c)' <=> Sends(c))
      /\ LoopGoes => \A c : LoopAbove(c) => LoopAbove(c)'
  BY LoopStack
<1>2. Named' /\ Flag' /\ Open' /\ Unanswered'
  BY <1>1, OpenKept, UnansweredKept DEF ReadInv, ReadRest, Named, Flag
<1>3. Heeded'
  <2>1. CASE LoopGoes
    BY <1>1, <2>1, HeededOn DEF ReadInv, ReadRest
  <2>2. CASE syncDone
    BY <1>1, <2>2, ClosedIsSettled DEF ReadInv, ReadRest, Heeded
  <2>3. CASE buffer = <<>>
    <3>1. \A c \in Calls : NotRead(c)'
      BY <2>3, NoneEmpty DEF NotRead
    <3>. QED BY <3>1 DEF Heeded
  <2>. QED BY <2>1, <2>2, <2>3
<1>. QED BY <1>1, <1>2, <1>3 DEF ReadRest

LEMMA ReadBack == ASSUME ReadInv, ParseEnd \/ HandlerReturns PROVE ReadRest'
<1>1. UNCHANGED <<calls, pending, kind, outcome, conn, todo, handling, buffer, toClient, toServer>>
  BY DEF ParseEnd, HandlerReturns, parseRest, serverVars
<1>2. /\ LoopEffect /\ (LoopGoes \/ syncDone \/ buffer = <<>>) /\ (syncDone' => syncDone)
  <2>1. syncDone \in BOOLEAN
    BY StreamsKnown DEF ReadInv, TypeOK
  <2>. QED BY <2>1 DEF ParseEnd, HandlerReturns, LoopEffect, LoopGoes, Looping, AfterDispatch
<1>. QED BY <1>1, <1>2, AbsentEmacs, ReadLoop

LEMMA ReadSentinel == ASSUME ReadInv, Sentinel PROVE ReadRest'
<1> DEFINE failed == {pending[i] : i \in Ids} \ {0}
<1>1. /\ conn' = "closed" /\ pending' = [i \in Ids |-> 0]
      /\ outcome' = [c \in Calls |-> IF c \notin failed THEN outcome[c]
                                     ELSE IF outcome[c] = "quit" THEN "stale" ELSE "closed"]
      /\ UNCHANGED <<stack, calls, kind, buffer, toServer, toClient, todo, handling>>
  BY DEF Sentinel, serverVars
<1>2. \A c \in Calls : outcome'[c] = "none" => outcome[c] = "none" /\ c \notin failed
  BY <1>1
<1>3. \A c : (Waits(c)' <=> Waits(c)) /\ (Sends(c)' <=> Sends(c))
  BY <1>1 DEF Waits, Sends, OnStack
<1>4. \A c \in Calls : pending[c] = c => c \in failed
  BY Numbers DEF Calls
<1> HIDE DEF failed
<1>5. \A c \in Calls : outcome'[c] = "none" => ~Waits(c)' /\ ~Sends(c)'
  BY <1>2, <1>3, <1>4 DEF ReadInv, ReadRest, Open
<1>6. Named' /\ Nesting' /\ Flag' /\ Open' /\ Heeded'
  BY <1>1, <1>5 DEF ReadInv, ReadRest, Named, Nesting, Flag, Open, Heeded
<1>7. Unanswered'
  BY <1>1, <1>2, <1>3, AbsentEmacs, UnansweredKept DEF ReadInv, ReadRest
<1>. QED BY <1>6, <1>7 DEF ReadRest

\* A dispatch completes a call with the last frame of its response, or none.
Completes(f, c) ==
    /\ f \in LastsOf(c) /\ pending[c] = c
    /\ pending' = [pending EXCEPT ![c] = 0]
    /\ outcome' = [outcome EXCEPT ![c] = IF outcome[c] = "quit" THEN "stale" ELSE "ok"]
    /\ IF kind[c] = "sync" THEN AfterDispatch(TRUE)
                           ELSE Replace(Act("handle", 0)) /\ UNCHANGED syncDone
Continues ==
    /\ UNCHANGED <<pending, outcome>>
    /\ AfterDispatch(syncDone) \/ (Replace(Act("handle", 0)) /\ UNCHANGED syncDone)

LEMMA DeliverCases ==
    ASSUME WholeInv, NEW f \in Good, ~f.chunked, f.kind # "continue", NEW k, NEW m, NEW parts,
           Deliver(k, f.id, m, parts), f.id \in Ids,
           f.msg \in Msgs => m = f.msg /\ k = m[1],
           f.msg \notin Msgs => f.id = 0
    PROVE  Continues \/ \E c \in Calls : Completes(f, c)
<1>1. CASE k # "response"
  BY <1>1 DEF Deliver, Continues
<1>2. CASE k = "response" /\ pending[f.id] = 0
  BY <1>2 DEF Deliver, CompleteRequest, Continues
<1>3. CASE k = "response" /\ pending[f.id] # 0
  <2>1. f.id \in Calls /\ pending[f.id] = f.id /\ f.id # 0
    BY <1>3 DEF WholeInv, CallInv, PendingOk
  <2>2. f.msg \in Msgs /\ f.msg = m /\ m[1] = "response" /\ f.id = IdOf(m)
    BY <1>3, <2>1 DEF Good, Labelled
  <2>3. m = Response(f.id)
    BY <2>2, MsgIds DEF IdOf, Msgs, Response, Note
  <2>4. f \in LastsOf(f.id)
    BY <2>2, <2>3 DEF LastsOf
  <2>5. Completes(f, f.id)
    BY <1>3, <2>1, <2>4 DEF Deliver, CompleteRequest, Completes, Settle
  <2>. QED BY <2>1, <2>5
<1>. QED BY <1>1, <1>2, <1>3

LEMMA DispatchCases ==
    ASSUME WholeInv, NEW f,
           \/ SeedChunks(f) \/ DispatchWhole(f) \/ DispatchRequest(f)
           \/ AccumulateChunk(f) \/ FinishChunks(f)
    PROVE  /\ TakeFrame(f) /\ f \in Good
           /\ Continues \/ \E c \in Calls : Completes(f, c)
<1>1. TakeFrame(f)
  BY DEF SeedChunks, DispatchWhole, DispatchRequest, AccumulateChunk, FinishChunks
<1>2. FrameNames(f)
  BY <1>1, TakenFrame, StreamsKnown
<1>3. f \in Good
  BY <1>1, Taken DEF WholeInv
<1>4. CASE SeedChunks(f) \/ DispatchRequest(f)
  <2>1. Continues
    BY <1>4 DEF SeedChunks, DispatchRequest, Continues
  <2>. QED BY <1>1, <1>3, <2>1
<1>5. CASE AccumulateChunk(f)
  <2>1. f.msg \in Msgs /\ Rank(f) > 1
    BY <1>3, <1>5, FrameKinds DEF AccumulateChunk
  <2>2. chunks[f.id] # NoEntry
    BY <1>1, <2>1, EntryThere DEF WholeInv
  <2>3. Continues
    BY <1>5, <2>2 DEF AccumulateChunk, Continues
  <2>. QED BY <1>1, <1>3, <2>3
<1>6. CASE DispatchWhole(f)
  <2>1. /\ ~f.chunked /\ f.kind \in {"response", "notification"} /\ f.id \in Ids
        /\ Deliver(f.kind, f.id, f.msg, <<<<f.msg, f.part>>>>)
    BY <1>2, <1>6 DEF DispatchWhole, FrameNames
  <2>2. /\ f.msg \in Msgs => f.kind = f.msg[1]
        /\ f.msg \notin Msgs => f.id = 0
    BY <1>3, <2>1, FrameKinds DEF Good, Labelled
  <2>. QED BY <1>1, <1>3, <2>1, <2>2, DeliverCases
<1>7. CASE FinishChunks(f)
  <2>1. f.kind = "end" /\ f.msg \in Msgs /\ Rank(f) > 1 /\ ~f.chunked
    BY <1>3, <1>7, FrameKinds DEF FinishChunks
  <2>2. chunks[f.id] # NoEntry /\ chunks[f.id].msg = f.msg
    <3>1. chunks[f.id] # NoEntry /\ chunks[f.id] = Seen(f.msg, Rank(f) - 1)
      BY <1>1, <2>1, EntryThere DEF WholeInv
    <3>. QED BY <3>1 DEF Seen
  <2>3. Deliver(f.msg[1], f.id, f.msg, chunks[f.id].parts) /\ f.id \in Ids
    BY <1>2, <1>7, <2>1, <2>2 DEF FinishChunks, FrameNames
  <2>. QED BY <1>1, <1>3, <2>1, <2>3, DeliverCases
<1>. QED BY <1>4, <1>5, <1>6, <1>7

LEMMA AbsentDispatch ==
    ASSUME WholeInv, NEW f, TakeFrame(f), f \in Good,
           \/ SeedChunks(f) \/ DispatchWhole(f) \/ DispatchRequest(f)
           \/ AccumulateChunk(f) \/ FinishChunks(f)
    PROVE  /\ \A c \in Calls : (Absent(c) => Absent(c)') /\ (NotRead(c) => NotRead(c)')
           /\ \A c \in Calls : f \in LastsOf(c) => ~Absent(c)
           /\ UNCHANGED <<calls, kind, conn, todo, handling>>
<1> DEFINE u == Upward("response", f.id, 0, "whole")
<1>1. /\ Pipe # <<>> /\ f = Head(Pipe) /\ Pipe' = Tail(Pipe) /\ Pipe \in Seq(Good)
      /\ buffer \in Seq(Good) /\ buffer # <<>> /\ buffer' = Tail(buffer)
      /\ UNCHANGED <<calls, kind, conn, todo, handling>>
  BY Taken, StreamsKnown DEF WholeInv, TakeFrame, parseRest, serverVars, Labels, Streams
<1>2. Leaves(Pipe, 1, Pipe') /\ Pipe[1] = f /\ Leaves(buffer, 1, buffer') /\ 1 \in 1..Len(Pipe)
  BY <1>1, TailLeaves DEF Leaves
<1>3. UNCHANGED toServer \/ (u \in GoodUp /\ toServer' \in {toServer, Append(toServer, u)})
  <2>1. CASE DispatchRequest(f)
    <3>1. f.id \in 1..MaxTraffic
      BY <2>1, TakenFrame, StreamsKnown DEF FrameNames, DispatchRequest
    <3>. QED BY <2>1, <3>1, UpTypes DEF DispatchRequest, WriteFrame, GoodUp, Upward
  <2>2. CASE SeedChunks(f) \/ DispatchWhole(f) \/ AccumulateChunk(f) \/ FinishChunks(f)
    BY <2>2 DEF SeedChunks, DispatchWhole, AccumulateChunk, FinishChunks
  <2>. QED BY <2>1, <2>2
<1>4. \A c : u \notin MovesOf(c)
  BY DEF MovesOf, Upward
<1> HIDE DEF u
<1>5. \A c \in Calls : Kept(toServer, toServer', MovesOf(c))
  BY <1>3, <1>4, StreamsKnown, KeptSame, AddedOther
<1>6. \A c \in Calls : f \in LastsOf(c) => ~Absent(c)
  BY <1>2 DEF Absent, NotSent, None
<1>7. ASSUME NEW c \in Calls, Absent(c) PROVE Absent(c)'
  <2>1. Kept(Pipe, Pipe', LastsOf(c))
    BY <1>2, <1>6, <1>7, FirstGone
  <2>. QED BY <1>1, <1>5, <1>7, <2>1, KeptSame, AbsentKept DEF Handled
<1>8. ASSUME NEW c \in Calls, NotRead(c) PROVE NotRead(c)'
  <2>1. \A k \in 1..Len(buffer') : k + 1 \in 1..Len(buffer) /\ buffer'[k] = buffer[k + 1]
    BY <1>2, Positions
  <2>. QED BY <1>8, <2>1 DEF NotRead, None, LastsOf
<1>. QED BY <1>1, <1>6, <1>7, <1>8

LEMMA ReadDispatch ==
    ASSUME ReadInv, NEW f,
           \/ SeedChunks(f) \/ DispatchWhole(f) \/ DispatchRequest(f)
           \/ AccumulateChunk(f) \/ FinishChunks(f)
    PROVE  ReadRest'
<1>1. /\ TakeFrame(f) /\ f \in Good /\ Top.at \in Looping
      /\ Continues \/ \E c \in Calls : Completes(f, c)
  BY DispatchCases DEF ReadInv, TakeFrame, Looping
<1>2. /\ \A c \in Calls : (Absent(c) => Absent(c)') /\ (NotRead(c) => NotRead(c)')
      /\ \A c \in Calls : f \in LastsOf(c) => ~Absent(c)
      /\ UNCHANGED <<calls, kind, conn, todo, handling>>
  BY <1>1, AbsentDispatch DEF ReadInv
<1>3. CASE Continues
  <2>1. LoopEffect /\ (LoopGoes \/ syncDone) /\ (syncDone' => syncDone)
    BY <1>1, <1>3 DEF Continues, LoopEffect, LoopGoes, Looping, AfterDispatch
  <2>2. UNCHANGED <<pending, outcome>>
    BY <1>3 DEF Continues
  <2>. QED BY <1>2, <2>1, <2>2, ReadLoop
<1>4. ASSUME NEW d \in Calls, Completes(f, d) PROVE ReadRest'
  <2>1. /\ f \in LastsOf(d) /\ pending[d] = d /\ d # 0 /\ pending' = [pending EXCEPT ![d] = 0]
        /\ outcome' = [outcome EXCEPT ![d] = IF outcome[d] = "quit" THEN "stale" ELSE "ok"]
    BY <1>4 DEF Completes, Calls
  <2>2. outcome[d] \in {"none", "quit"}
    BY <2>1, Numbers DEF ReadInv, WholeInv, CallInv, PendingOk
  <2>3. /\ \A c \in Calls : c # d => outcome'[c] = outcome[c] /\ pending'[c] = pending[c]
        /\ outcome'[d] = IF outcome[d] = "quit" THEN "stale" ELSE "ok"
        /\ \A i \in Ids : pending'[i] = 0 \/ pending'[i] = pending[i]
    BY <2>1, Numbers, StreamsKnown DEF ReadInv, TypeOK
  <2>4. /\ LoopEffect /\ (syncDone' => syncDone)
        /\ kind[d] # "sync" => LoopGoes
    BY <1>1, <1>4 DEF Completes, LoopEffect, LoopGoes, Looping, AfterDispatch
  <2>5. /\ Nesting'
        /\ \A c : (Waits(c)' <=> Waits(c)) /\ (Sends(c)' <=> Sends(c))
        /\ LoopGoes => \A c : LoopAbove(c) => LoopAbove(c)'
    BY <2>4, LoopStack
  <2>6. \A c \in Calls : /\ outcome'[c] = "none" => c # d /\ outcome[c] = "none" /\ pending'[c] = pending[c]
                         /\ outcome[c] = "stale" => outcome'[c] = "stale"
    BY <2>2, <2>3
  <2>7. Named' /\ Flag'
    BY <1>2, <2>3, <2>4 DEF ReadInv, ReadRest, Named, Flag
  <2>8. Open' /\ Unanswered'
    BY <1>2, <2>5, <2>6, OpenKept, UnansweredKept DEF ReadInv, ReadRest
  <2>9. Heeded'
    <3>1. CASE kind[d] # "sync"
      BY <1>2, <2>4, <2>5, <2>6, <3>1, HeededOn DEF ReadInv, ReadRest
    <3>2. CASE kind[d] = "sync"
      <4> SUFFICES ASSUME NEW c \in Calls, outcome'[c] = "none" PROVE Excused(c)'
        BY DEF Heeded
      <4>1. d \in Calls \ {c}
        BY <2>6
      <4>2. outcome[d] = "none" => Waits(d)
        BY <1>2, <2>1, <3>2 DEF ReadInv, ReadRest, Unanswered
      <4>3. outcome'[d] = "stale" \/ (kind'[d] = "sync" /\ Waits(d)')
        BY <1>2, <2>2, <2>3, <2>5, <3>2, <4>2
      <4>4. Stopped(d, c)'
        BY <4>3 DEF Stopped
      <4>. QED BY <4>1, <4>4 DEF Excused, Calls
    <3>. QED BY <3>1, <3>2
  <2>. QED BY <2>5, <2>7, <2>8, <2>9 DEF ReadRest
<1>. QED BY <1>1, <1>3, <1>4

-----------------------------------------------------------------------------
LEMMA ReadInit == Init => ReadInv
<1> SUFFICES ASSUME Init PROVE ReadInv
  OBVIOUS
<1>1. WholeInv
  BY WholeInit
<1>2. stack = <<>> /\ toServer = <<>> /\ Pipe = <<>> /\ handling = {} /\ todo = [m \in Msgs |-> <<>>]
  BY DEF Init, Pipe
<1>3. \A c : ~Waits(c) /\ ~Sends(c)
  BY <1>2 DEF Waits, Sends, OnStack
<1>4. \A c \in Calls : Absent(c)
  BY <1>2, MsgIds, NoneEmpty DEF Absent, Handled, NotDue, NotSent
<1>5. Named /\ Nesting /\ Flag
  BY <1>2 DEF Init, Named, Nesting, Flag, Calls
<1>. QED BY <1>1, <1>3, <1>4, <1>5 DEF ReadInv, ReadRest, Open, Unanswered, Heeded

LEMMA ReadStep == ReadInv /\ [Next]_vars => ReadInv'
<1> SUFFICES ASSUME ReadInv, [Next]_vars PROVE ReadInv'
  OBVIOUS
<1>1. WholeInv'
  BY WholeStep DEF ReadInv
<1>2. CASE User
  BY <1>1, <1>2, ReadRequest, ReadServer, ReadQuit DEF User, ReadInv
<1>3. CASE Loops
  BY <1>1, <1>3, ReadSendRest, ReadTimeout, ReadReturn DEF Loops, ReadInv
<1>4. CASE Filter
  BY <1>1, <1>4, ReadBack, ReadDispatch DEF Filter, Dispatch, ReadInv
<1>5. CASE Reading
  BY <1>1, <1>5, ReadReceive, ReadSentinel DEF Reading, ReadInv
<1>6. CASE Server \/ UNCHANGED vars
  BY <1>1, <1>6, ReadServer DEF ReadInv
<1>. QED BY <1>2, <1>3, <1>4, <1>5, <1>6 DEF Next

\* Only the timeout of a request gives it the outcome "timeout".
LEMMA TimesOutTop ==
    ASSUME ReadInv, [Next]_vars, NEW c \in Calls, TimesOut(c)
    PROVE  Top = Act("wait", c)
<1>1. outcome[c] = "none" /\ outcome'[c] = "timeout"
  BY DEF TimesOut
<1>2. outcome \in [Calls -> Outcomes]
  BY PlainStep DEF ReadInv
<1>3. outcome' # outcome
  BY <1>1
<1>4. ASSUME NEW f, \/ SeedChunks(f) \/ DispatchWhole(f) \/ DispatchRequest(f)
                    \/ AccumulateChunk(f) \/ FinishChunks(f)
      PROVE  FALSE
  <2>1. Continues \/ \E d \in Calls : Completes(f, d)
    BY <1>4, DispatchCases DEF ReadInv
  <2>2. PICK d \in Calls, how \in {"stale", "ok"} : outcome' = [outcome EXCEPT ![d] = how]
    BY <1>3, <2>1 DEF Continues, Completes
  <2>. QED BY <1>1, <1>2, <2>2
<1>5. ASSUME NEW d \in Calls, Timeout(d) \/ Quit(d) PROVE Top = Act("wait", c)
  <2>1. CASE Timeout(d)
    <3>1. outcome' = [outcome EXCEPT ![d] = "timeout"] /\ Top = Act("wait", d)
      BY <2>1 DEF Timeout, Settle
    <3>2. d = c
      BY <1>1, <1>2, <3>1
    <3>. QED BY <3>1, <3>2
  <2>2. CASE Quit(d)
    <3>1. outcome' = [outcome EXCEPT ![d] = "quit"]
      BY <2>2 DEF Quit, Settle
    <3>. QED BY <1>1, <1>2, <3>1
  <2>. QED BY <1>5, <2>1, <2>2
<1>6. ~Sentinel
  BY <1>1 DEF Sentinel
<1>7. CASE User \/ Loops
  BY <1>3, <1>5, <1>7 DEF User, Loops, Request, Notify, SendRest, Return, emacsVars
<1>8. CASE Filter \/ Reading
  BY <1>3, <1>4, <1>6, <1>8 DEF Filter, Dispatch, Reading, ParseEnd, HandlerReturns, Receive
<1>9. CASE Server \/ UNCHANGED vars
  BY <1>3, <1>9 DEF Server, ServeRequest, ServeNotification, ServeResponse, Respond, WriteRaw,
     NotifyClient, Heartbeat, Break, serverRest, emacsVars, vars
<1>. QED BY <1>7, <1>8, <1>9 DEF Next

\* The step the property speaks of.
TimeoutExcused == \A c \in Calls : TimesOut(c) /\ Received(c) =>
    \E d \in Calls \ {c} :
        \/ outcome[d] = "stale"
        \/ kind[d] = "sync" /\ (d > c \/ OnStack(Act("wait", d)))

LEMMA ReadSafe == ReadInv /\ [Next]_vars => TimeoutExcused
<1> SUFFICES ASSUME ReadInv, [Next]_vars, NEW c \in Calls, TimesOut(c), Received(c)
             PROVE  Excused(c)
  BY DEF TimeoutExcused, Excused, Stopped, Waits
<1>1. Top = Act("wait", c)
  BY TimesOutTop
<1>2. Waits(c) /\ stack[1] = Act("wait", c) /\ 1 \in 1..Len(stack) /\ outcome[c] = "none"
  BY <1>1, TopCall DEF ReadInv, Waits, TimesOut
<1>3. ~NotRead(c)
  <2>1. buffer \in Seq(Good)
    BY DEF ReadInv, WholeInv, Labels, Streams
  <2>2. PICK k \in 1..Len(buffer) : buffer[k].msg = Response(c) /\ ~buffer[k].chunked
                                   /\ buffer[k].kind # "continue"
    BY <2>1 DEF Received, Answers
  <2>3. buffer[k] \in LastsOf(c)
    BY <2>1, <2>2 DEF LastsOf
  <2>. QED BY <2>3 DEF NotRead, None
<1>4. ~LoopAbove(c)
  <2> SUFFICES ASSUME NEW j \in 1..Len(stack), NEW k \in 1..Len(stack), j < k,
                      stack[j].at \in Looping, stack[k] = Act("wait", c)
               PROVE  FALSE
    BY DEF LoopAbove
  <2>1. 1 < k
    BY StackFacts DEF ReadInv
  <2>2. stack[1].call = 0 \/ stack[k].call < stack[1].call
    BY <1>2, <2>1 DEF ReadInv, ReadRest, Nesting
  <2>. QED BY <1>2, <2>2, ActNames DEF Calls
<1>. QED BY <1>2, <1>3, <1>4 DEF ReadInv, ReadRest, Heeded

\* An answered request times out only if the callback of another synchronous
\* request stopped the parsing (SpuriousTimeout): one that was interrupted, one
\* it is nested in, or one nested in it; for any number of calls and any depth.
THEOREM TimeoutsExcused == Spec => SpuriousTimeout
<1>1. ReadInv /\ [Next]_vars => [TimeoutExcused]_vars
  BY ReadSafe
<1>. QED BY <1>1, ReadInit, ReadStep, PTL DEF Spec, SpuriousTimeout, TimeoutExcused

-----------------------------------------------------------------------------
(* The transport implements Rpc (AtMostOnce).  The place where a call has  *)
(* its trace determines its stage, and every step moves one trace to the   *)
(* next place or none; a request without an outcome is registered, so the  *)
(* last frame of its response always finds it.                             *)

\* A change of the stage of one request.
OneStage(c, from, to) ==
    /\ Stage(c) = from /\ Stage(c)' = to
    /\ \A d \in Calls \ {c} : Stage(d)' = Stage(d)
SameStages == \A c \in Calls : Stage(c)' = Stage(c)

LEMMA Advances ==
    ASSUME NEW c \in Calls, NEW from, NEW to, OneStage(c, from, to)
    PROVE  Promise!Advance(c, from, to)
<1>1. [d \in Calls |-> Stage(d)]' = [[d \in Calls |-> Stage(d)] EXCEPT ![c] = to]
  BY DEF OneStage
<1>. QED BY <1>1 DEF Promise!Advance, OneStage

LEMMA SameMap ==
    ASSUME SameStages
    PROVE  [c \in Calls |-> Stage(c)]' = [c \in Calls |-> Stage(c)]
BY DEF SameStages

LEMMA AsAsk ==
    ASSUME NEW c \in Calls, OneStage(c, "new", IF conn = "up" THEN "asked" ELSE "over"),
           UNCHANGED <<outcome, conn>>
    PROVE  Promise!Next
<1>1. Promise!Ask(c)
  BY Advances DEF Promise!Ask
<1>. QED BY <1>1 DEF Promise!Next

LEMMA AsHandle ==
    ASSUME NEW c \in Calls, OneStage(c, "asked", "handled"), conn = "up", UNCHANGED <<outcome, conn>>
    PROVE  Promise!Next
<1>1. Promise!Handle(c)
  BY Advances DEF Promise!Handle
<1>. QED BY <1>1 DEF Promise!Next

LEMMA AsAnswer ==
    ASSUME NEW c \in Calls, OneStage(c, "handled", "answered"), conn = "up",
           UNCHANGED <<outcome, conn>>
    PROVE  Promise!Next
<1>1. Promise!Answer(c)
  BY Advances DEF Promise!Answer
<1>. QED BY <1>1 DEF Promise!Next

Told(c) == IF outcome[c] = "none" THEN "ok" ELSE IF outcome[c] = "quit" THEN "stale" ELSE outcome[c]

LEMMA AsTake ==
    ASSUME NEW c \in Calls, OneStage(c, "answered", "over"), UNCHANGED conn,
           outcome' = [outcome EXCEPT ![c] = Told(c)]
    PROVE  Promise!Next
<1>1. Promise!Taken(outcome[c]) = Told(c)
  BY DEF Promise!Taken, Told
<1>2. Promise!Take(c)
  BY <1>1, Advances DEF Promise!Take
<1>. QED BY <1>2 DEF Promise!Next

LEMMA AsGiveUp ==
    ASSUME NEW c \in Calls, SameStages, Stage(c) # "new", outcome[c] = "none", UNCHANGED conn,
           NEW how \in {"timeout", "quit"}, outcome' = [outcome EXCEPT ![c] = how]
    PROVE  Promise!Next
<1>1. Promise!GiveUp(c)
  BY SameMap DEF Promise!GiveUp
<1>. QED BY <1>1 DEF Promise!Next

LEMMA AsBreak ==
    ASSUME conn = "up", conn' # "up", UNCHANGED outcome,
           \A c \in Calls : \/ Stage(c)' = Stage(c)
                            \/ Stage(c) # "new" /\ Stage(c)' = "over"
    PROVE  Promise!Next
<1> DEFINE lost == {c \in Calls : Stage(c) # "new" /\ Stage(c)' = "over"}
           all == [c \in Calls |-> Stage(c)]
<1>1. lost \in SUBSET {c \in Calls : all[c] # "new"}
  OBVIOUS
<1>2. all' = [c \in Calls |-> IF c \in lost THEN "over" ELSE all[c]]
  OBVIOUS
<1>3. \E l \in SUBSET {c \in Calls : all[c] # "new"} :
          all' = [c \in Calls |-> IF c \in l THEN "over" ELSE all[c]]
  BY <1>1, <1>2
<1>4. Promise!Break
  BY <1>3 DEF Promise!Break
<1>. QED BY <1>4 DEF Promise!Next

Ended(c) == IF Stage(c) = "new" THEN outcome[c]
            ELSE IF outcome[c] = "none" THEN "closed"
            ELSE IF outcome[c] = "quit" THEN "stale" ELSE outcome[c]

LEMMA AsClose ==
    ASSUME SameStages, conn # "up", conn' # "up", outcome' = [c \in Calls |-> Ended(c)]
    PROVE  Promise!Next
<1>1. \A t : Promise!Failed(t) = IF t = "none" THEN "closed" ELSE IF t = "quit" THEN "stale" ELSE t
  BY DEF Promise!Failed
<1>2. Promise!Close
  BY <1>1, SameMap DEF Promise!Close, Ended
<1>. QED BY <1>2 DEF Promise!Next

LEMMA AsStutter ==
    ASSUME SameStages, UNCHANGED outcome, conn' = "up" <=> conn = "up"
    PROVE  UNCHANGED Promise!vars
BY SameMap DEF Promise!vars

-----------------------------------------------------------------------------
\* The stage of a request, by its place.
StageAt(c, n, asked, handled, due, sent) ==
    IF c > n THEN "new"
    ELSE IF asked THEN "asked"
    ELSE IF handled THEN "handled"
    ELSE IF due \/ sent THEN "answered"
    ELSE "over"

StageIn(c, n, ts, hd, td, tc, bf) ==
    IF c > n THEN "new"
    ELSE IF \E k \in DOMAIN ts : Asks(ts[k], c) THEN "asked"
    ELSE IF \E h \in hd : h[2] = c THEN "handled"
    ELSE IF \E s \in {td, tc, bf} : \E k \in DOMAIN s : Answers(s[k], c) THEN "answered"
    ELSE "over"

LEMMA StageKnown ==
    ASSUME NEW c \in Calls, NEW n, NEW ts \in Seq(GoodUp),
           NEW hd, hd \subseteq Calls \X Calls, \A h \in hd : h[1] = h[2],
           NEW td \in Seq(Good), NEW tc \in Seq(Good), NEW bf \in Seq(Good)
    PROVE  StageIn(c, n, ts, hd, td, tc, bf)
               = StageAt(c, n, ~None(ts, AsksOf(c)), <<c, c>> \in hd, ~None(td, LastsOf(c)),
                         ~None(bf \o tc, LastsOf(c)))
<1>1. (\E k \in DOMAIN ts : Asks(ts[k], c)) <=> ~None(ts, AsksOf(c))
  BY DEF Asks, AsksOf, None
<1>2. (\E h \in hd : h[2] = c) <=> <<c, c>> \in hd
  <2>1. \A h \in hd : h[2] = c => h = <<c, c>>
    OBVIOUS
  <2>. QED BY <2>1
<1>3. ASSUME NEW s \in Seq(Good)
      PROVE  (\E k \in DOMAIN s : Answers(s[k], c)) <=> ~None(s, LastsOf(c))
  BY DEF Answers, LastsOf, None
<1>4. None(bf \o tc, LastsOf(c)) <=> None(bf, LastsOf(c)) /\ None(tc, LastsOf(c))
  <2>1. /\ \A k \in 1..Len(bf) : (bf \o tc)[k] = bf[k]
        /\ \A k \in 1..Len(bf \o tc) : k \in 1..Len(bf)
              \/ (k - Len(bf) \in 1..Len(tc) /\ (bf \o tc)[k] = tc[k - Len(bf)])
    OBVIOUS
  <2>2. None(bf, LastsOf(c)) /\ None(tc, LastsOf(c)) => None(bf \o tc, LastsOf(c))
    BY <2>1 DEF None
  <2>3. None(bf \o tc, LastsOf(c)) => None(bf, LastsOf(c)) /\ None(tc, LastsOf(c))
    BY JoinedOnce
  <2>. QED BY <2>2, <2>3
<1>5. (\E s \in {td, tc, bf} : \E k \in DOMAIN s : Answers(s[k], c))
          <=> (~None(td, LastsOf(c)) \/ ~None(bf \o tc, LastsOf(c)))
  BY <1>3, <1>4
<1>. QED BY <1>1, <1>2, <1>5 DEF StageIn, StageAt

LEMMA Stages ==
    ASSUME WholeInv, WholeInv'
    PROVE  \A c \in Calls :
               /\ Stage(c) = StageAt(c, calls, ~NotAsked(c), Handled(c), ~NotDue(c), ~NotSent(c))
               /\ Stage(c)' = StageAt(c, calls', ~NotAsked(c)', Handled(c)', ~NotDue(c)', ~NotSent(c)')
<1> SUFFICES ASSUME NEW c \in Calls
             PROVE  /\ Stage(c) = StageAt(c, calls, ~NotAsked(c), Handled(c), ~NotDue(c), ~NotSent(c))
                    /\ Stage(c)' = StageAt(c, calls', ~NotAsked(c)', Handled(c)', ~NotDue(c)', ~NotSent(c)')
  OBVIOUS
<1>1. Stage(c) = StageAt(c, calls, ~NotAsked(c), Handled(c), ~NotDue(c), ~NotSent(c))
  <2>1. /\ toServer \in Seq(GoodUp) /\ todo[Response(c)] \in Seq(Good)
        /\ toClient \in Seq(Good) /\ buffer \in Seq(Good)
        /\ handling \subseteq Calls \X Calls /\ \A h \in handling : h[1] = h[2]
    BY MsgIds DEF WholeInv, CallInv, TypeOK, Labels, Asked, Streams, Writing
  <2>2. Stage(c) = StageIn(c, calls, toServer, handling, todo[Response(c)], toClient, buffer)
    BY DEF Stage, StageIn
  <2>. QED BY <2>1, <2>2, StageKnown DEF NotAsked, Handled, NotDue, NotSent, Pipe
<1>2. Stage(c)' = StageAt(c, calls', ~NotAsked(c)', Handled(c)', ~NotDue(c)', ~NotSent(c)')
  <2>1. /\ toServer' \in Seq(GoodUp) /\ todo'[Response(c)] \in Seq(Good)
        /\ toClient' \in Seq(Good) /\ buffer' \in Seq(Good)
        /\ handling' \subseteq Calls \X Calls /\ \A h \in handling' : h[1] = h[2]
    BY MsgIds DEF WholeInv, CallInv, TypeOK, Labels, Asked, Streams, Writing
  <2>2. Stage(c)' = StageIn(c, calls', toServer', handling', todo'[Response(c)], toClient', buffer')
    BY DEF Stage, StageIn, Response, Asks, Answers
  <2>. QED BY <2>1, <2>2, StageKnown, TraceSets DEF NotAsked, Handled, NotDue, NotSent, Pipe, Response
<1>. QED BY <1>1, <1>2

LEMMA PlaceStages ==
    ASSUME WholeInv, WholeInv', NEW c \in Calls
    PROVE  /\ c > calls => Stage(c) = "new"
           /\ ~(c > calls) => /\ Stage(c) # "new"
                              /\ Posed(c) => Stage(c) = "asked"
                              /\ Handed(c) => Stage(c) = "handled"
                              /\ Due(c) \/ Sent(c) => Stage(c) = "answered"
                              /\ Gone(c) => Stage(c) = "over"
           /\ ~(c > calls') => /\ Posed(c)' => Stage(c)' = "asked"
                               /\ Handed(c)' => Stage(c)' = "handled"
                               /\ Due(c)' \/ Sent(c)' => Stage(c)' = "answered"
                               /\ Gone(c)' => Stage(c)' = "over"
<1>1. /\ Gone(c)' => NotAsked(c)' /\ ~Handled(c)' /\ NotDue(c)' /\ NotSent(c)'
      /\ Posed(c)' => ~NotAsked(c)'
      /\ Handed(c)' => NotAsked(c)' /\ Handled(c)'
      /\ Due(c)' => NotAsked(c)' /\ ~Handled(c)' /\ ~NotDue(c)'
      /\ Sent(c)' => NotAsked(c)' /\ ~Handled(c)' /\ ~NotSent(c)'
  BY DEF Gone, Posed, Handed, Due, Sent, NotAsked, NotDue, NotSent, None, Once
<1>. QED BY <1>1, Stages, OnePlace DEF StageAt, Gone

LEMMA KeptStage ==
    ASSUME WholeInv, WholeInv', NEW c \in Calls, Placed(c), CallKept(c), (c > calls') <=> (c > calls)
    PROVE  Stage(c)' = Stage(c)
<1>1. CASE c > calls
  BY <1>1, Stages DEF StageAt
<1>2. CASE ~(c > calls)
  BY <1>2, KeptPlaces, PlaceStages DEF Placed, Flying
<1>. QED BY <1>1, <1>2

-----------------------------------------------------------------------------
\* A request that has no outcome yet is registered.
Registered == \A c \in Calls : c <= calls /\ outcome[c] \in {"none", "quit"} => pending[c] = c
PromiseInv == LostInv /\ Registered

\* What a step does to the promise's variables.
Keeps == Registered' /\ [Promise!Next]_(Promise!vars)

LEMMA KeptRegistered ==
    ASSUME Registered, UNCHANGED <<calls, pending, outcome>> PROVE Registered'
BY DEF Registered

\* Steps that change no stage.
LEMMA KeptStages ==
    ASSUME WholeInv, WholeInv', AllPlaced, UNCHANGED calls, \A c \in Calls : CallKept(c)
    PROVE  SameStages
BY KeptStage DEF AllPlaced, SameStages

LEMMA PromiseRequest ==
    ASSUME PromiseInv, WholeInv', NEW k \in {"sync", "async"}, Request(k)
    PROVE  Keeps
<1>1. WholeInv /\ AllPlaced /\ TypeOK /\ calls \in Nat
  BY StreamsKnown DEF PromiseInv, LostInv, Travel
<1>2. PICK n \in Calls :
          /\ n = calls + 1 /\ calls' = n /\ conn' = conn
          /\ \A c \in Calls \ {n} : CallKept(c) /\ (pending'[c] # 0 => pending[c] # 0)
          /\ IF conn = "up" THEN Gone(n) /\ Posed(n)' ELSE Gone(n) /\ CallKept(n)
          /\ conn = "up" /\ AllBeating => AllBeating'
  BY <1>1, RequestTraces
<1>3. /\ n > calls /\ ~(n > calls')
      /\ \A c \in Calls \ {n} : (c > calls' <=> c > calls) /\ (c <= calls' => c <= calls)
  BY <1>1, <1>2 DEF Calls
<1>4. ASSUME NEW c \in Calls \ {n} PROVE Stage(c)' = Stage(c)
  BY <1>1, <1>2, <1>3, KeptStage DEF AllPlaced
<1>5. Stage(n) = "new"
  BY <1>1, <1>3, PlaceStages
<1>6. Stage(n)' = IF conn = "up" THEN "asked" ELSE "over"
  BY <1>1, <1>2, <1>3, PlaceStages, KeptPlaces
<1>7. OneStage(n, "new", IF conn = "up" THEN "asked" ELSE "over")
  BY <1>4, <1>5, <1>6 DEF OneStage
<1>8. UNCHANGED outcome /\ pending' = [pending EXCEPT ![n] = n]
  BY <1>2 DEF Request, NewId
<1>9. Registered'
  BY <1>1, <1>2, <1>3, <1>8, Numbers DEF PromiseInv, Registered, TypeOK
<1>. QED BY <1>2, <1>7, <1>8, <1>9, AsAsk DEF Keeps

LEMMA PromiseQuiet ==
    ASSUME PromiseInv, WholeInv', Quietly, UNCHANGED <<pending, outcome>>, (conn' = "up" <=> conn = "up")
    PROVE  Keeps
<1>1. WholeInv /\ AllPlaced
  BY DEF PromiseInv, LostInv, Travel
<1>2. UNCHANGED calls /\ \A c \in Calls : CallKept(c)
  BY <1>1, QuietStreams, QuietTraces
<1>3. SameStages
  BY <1>1, <1>2, KeptStages
<1>. QED BY <1>2, <1>3, KeptRegistered, AsStutter DEF Keeps, PromiseInv

\* The outcomes that are settled by the caller.
LEMMA PromiseGivenUp ==
    ASSUME PromiseInv, WholeInv', NEW c \in Calls, Timeout(c) \/ Quit(c)
    PROVE  Keeps
<1>1. WholeInv /\ AllPlaced /\ TypeOK /\ CallInv
  BY DEF PromiseInv, LostInv, Travel, WholeInv, CallInv
<1>2. UNCHANGED <<calls, conn>> /\ \A d \in Calls : CallKept(d)
  <2>1. Quietly
    BY DEF Quietly
  <2>. QED BY <1>1, <2>1, QuietStreams, QuietTraces DEF Timeout, Quit
<1>3. SameStages
  BY <1>1, <1>2, KeptStages
<1>4. c <= calls /\ ~(c > calls) /\ outcome[c] = "none"
  <2>1. c <= calls
    BY <1>1, TopStarted DEF Timeout, Quit
  <2>. QED BY <2>1, StreamsKnown, <1>1 DEF Timeout, Quit, Calls
<1>5. PICK how \in {"timeout", "quit"} : outcome' = [outcome EXCEPT ![c] = how]
  BY DEF Timeout, Quit, Settle
<1>6. Registered'
  <2>1. CASE Timeout(c)
    <3>1. /\ pending' = [i \in Ids |-> IF pending[i] = c THEN 0 ELSE pending[i]]
          /\ outcome' = [outcome EXCEPT ![c] = "timeout"]
      BY <2>1 DEF Timeout, Settle, Forget
    <3>. QED BY <1>1, <1>2, <3>1, Numbers DEF PromiseInv, Registered, TypeOK
  <2>2. CASE Quit(c)
    <3>1. UNCHANGED pending /\ outcome' = [outcome EXCEPT ![c] = "quit"]
      BY <2>2 DEF Quit, Settle
    <3>. QED BY <1>1, <1>2, <1>4, <3>1 DEF PromiseInv, Registered, TypeOK
  <2>. QED BY <2>1, <2>2
<1>7. Stage(c) # "new"
  BY <1>1, <1>4, PlaceStages
<1>. QED BY <1>2, <1>3, <1>4, <1>5, <1>6, <1>7, AsGiveUp DEF Keeps

\* The sentinel tells every caller that has no answer.
LEMMA PromiseClosed ==
    ASSUME PromiseInv, WholeInv', Sentinel
    PROVE  Keeps
<1>1. WholeInv /\ AllPlaced /\ TypeOK /\ PendingOk /\ calls \in Nat
  BY StreamsKnown DEF PromiseInv, LostInv, Travel, WholeInv, CallInv
<1>2. UNCHANGED calls /\ \A d \in Calls : CallKept(d)
  <2>1. Quietly
    BY DEF Quietly
  <2>. QED BY <1>1, <2>1, QuietStreams, QuietTraces DEF Sentinel
<1>3. SameStages
  BY <1>1, <1>2, KeptStages
<1> DEFINE failed == {pending[i] : i \in Ids} \ {0}
<1>4. conn = "broken" /\ conn' = "closed"
      /\ outcome' = [c \in Calls |-> IF c \notin failed THEN outcome[c]
                                     ELSE IF outcome[c] = "quit" THEN "stale" ELSE "closed"]
  BY DEF Sentinel
<1>5. ASSUME NEW c \in Calls
      PROVE  c \in failed <=> (c <= calls /\ outcome[c] \in {"none", "quit"})
  <2>1. c # 0 /\ c \in Ids
    BY Numbers DEF Calls
  <2>2. c \in failed => pending[c] = c
    BY <1>1, <2>1 DEF PendingOk
  <2>3. pending[c] = c => c \in failed
    BY <2>1
  <2>. QED BY <1>1, <2>1, <2>2, <2>3 DEF PromiseInv, Registered, PendingOk
<1> HIDE DEF failed
<1>6. ASSUME NEW c \in Calls PROVE outcome'[c] = Ended(c)
  <2>1. Stage(c) = "new" <=> ~(c <= calls)
    BY <1>1, PlaceStages DEF Calls
  <2>. QED BY <1>4, <1>5, <2>1 DEF Ended
<1>7. outcome' = [c \in Calls |-> Ended(c)]
  BY <1>4, <1>6
<1>8. Registered'
  <2>1. \A c \in Calls : c <= calls => outcome'[c] \notin {"none", "quit"}
    BY <1>4, <1>5
  <2>. QED BY <1>2, <2>1 DEF Registered
<1>. QED BY <1>3, <1>4, <1>7, <1>8, AsClose DEF Keeps

LEMMA PromiseDispatch ==
    ASSUME PromiseInv, WholeInv', NEW f,
           \/ SeedChunks(f) \/ DispatchWhole(f) \/ DispatchRequest(f)
           \/ AccumulateChunk(f) \/ FinishChunks(f)
    PROVE  Keeps
<1>1. WholeInv /\ AllPlaced /\ TypeOK /\ PendingOk /\ calls \in Nat
  BY StreamsKnown DEF PromiseInv, LostInv, Travel, WholeInv, CallInv
<1>2. /\ \A c \in Calls : IF f \in LastsOf(c) THEN Sent(c) /\ Gone(c)' /\ pending'[c] = 0
                          ELSE CallKept(c) /\ (pending'[c] # 0 => pending[c] # 0)
      /\ conn = "up" /\ AllBeating => AllBeating'
  BY <1>1, DispatchTraces
<1>3. UNCHANGED <<calls, conn>>
  BY <1>1, DispatchEffects
<1>4. Continues \/ \E c \in Calls : Completes(f, c)
  BY <1>1, DispatchCases
<1>5. CASE \A c \in Calls : f \notin LastsOf(c)
  <2>1. UNCHANGED <<pending, outcome>>
    BY <1>4, <1>5 DEF Continues, Completes
  <2>2. SameStages
    BY <1>1, <1>2, <1>3, <1>5, KeptStages
  <2>. QED BY <1>3, <2>1, <2>2, KeptRegistered, AsStutter DEF Keeps, PromiseInv
<1>6. ASSUME NEW c \in Calls, f \in LastsOf(c) PROVE Keeps
  <2>1. \A d \in Calls \ {c} : f \notin LastsOf(d)
    BY <1>6 DEF LastsOf, Response
  <2>2. Sent(c) /\ Gone(c)' /\ pending'[c] = 0 /\ ~(c > calls) /\ c <= calls
    BY <1>1, <1>2, <1>6, OnePlace DEF AllPlaced, Placed, Calls, Flying
  <2>3. Stage(c) = "answered" /\ Stage(c)' = "over"
    BY <1>1, <1>3, <2>2, PlaceStages
  <2>4. \A d \in Calls \ {c} : Stage(d)' = Stage(d)
    BY <1>1, <1>2, <1>3, <2>1, KeptStage DEF AllPlaced
  <2>5. OneStage(c, "answered", "over")
    BY <2>3, <2>4 DEF OneStage
  <2>6. c # 0 /\ c \in Ids
    BY Numbers DEF Calls
  <2>7. outcome' = [outcome EXCEPT ![c] = Told(c)] /\ Registered'
    <3>1. CASE Continues
      <4>1. UNCHANGED <<pending, outcome>>
        BY <3>1 DEF Continues
      <4>2. pending[c] # c /\ outcome[c] \notin {"none", "quit"}
        BY <2>2, <2>6, <4>1 DEF PromiseInv, Registered
      <4>3. Told(c) = outcome[c]
        BY <4>2 DEF Told
      <4>. QED BY <1>1, <1>3, <4>1, <4>3, KeptRegistered DEF PromiseInv, TypeOK
    <3>2. ASSUME NEW d \in Calls, Completes(f, d)
          PROVE  outcome' = [outcome EXCEPT ![c] = Told(c)] /\ Registered'
      <4>1. d = c
        BY <2>1, <3>2 DEF Completes
      <4>2. /\ pending[c] = c /\ pending' = [pending EXCEPT ![c] = 0]
            /\ outcome' = [outcome EXCEPT ![c] = IF outcome[c] = "quit" THEN "stale" ELSE "ok"]
        BY <3>2, <4>1 DEF Completes
      <4>3. outcome[c] \in {"none", "quit"}
        BY <1>1, <2>6, <4>2 DEF PendingOk
      <4>4. Told(c) = IF outcome[c] = "quit" THEN "stale" ELSE "ok"
        BY <4>3 DEF Told
      <4>5. Registered'
        BY <1>1, <1>3, <4>2, Numbers DEF PromiseInv, Registered, TypeOK
      <4>. QED BY <4>2, <4>4, <4>5
    <3>. QED BY <1>4, <3>1, <3>2
  <2>. QED BY <1>3, <2>5, <2>7, AsTake DEF Keeps
<1>. QED BY <1>5, <1>6

LEMMA PromiseServer ==
    ASSUME PromiseInv, WholeInv', Server
    PROVE  Keeps
<1>1. WholeInv /\ AllPlaced
  BY DEF PromiseInv, LostInv, Travel
<1>2. conn = "up" /\ UNCHANGED <<calls, pending, outcome>> /\ (~Break => conn' = conn)
  BY DEF Server, ServeRequest, ServeNotification, ServeResponse, Serve, Respond, WriteRaw,
     NotifyClient, Heartbeat, Break, serverRest, emacsVars
<1>3. Registered'
  BY <1>2, KeptRegistered DEF PromiseInv
<1>4. ASSUME NEW n \in 1..2, ServeRequest(n) \/ ServeNotification(n) \/ ServeResponse(n), ~Break
      PROVE  Keeps
  <2>1. \A c \in Calls : IF toServer[1] \in AsksOf(c) THEN Posed(c) /\ Handed(c)' ELSE CallKept(c)
    BY <1>1, <1>4, ServeTraces
  <2>2. CASE \A c \in Calls : toServer[1] \notin AsksOf(c)
    <3>1. SameStages
      BY <1>1, <1>2, <2>1, <2>2, KeptStages
    <3>. QED BY <1>2, <1>3, <1>4, <3>1, AsStutter DEF Keeps
  <2>3. ASSUME NEW c \in Calls, toServer[1] \in AsksOf(c) PROVE Keeps
    <3>1. \A d \in Calls \ {c} : CallKept(d)
      BY <2>1, <2>3 DEF AsksOf
    <3>2. Posed(c) /\ Handed(c)' /\ ~(c > calls)
      BY <1>1, <2>1, <2>3, OnePlace DEF AllPlaced, Placed, Flying
    <3>3. OneStage(c, "asked", "handled")
      BY <1>1, <1>2, <3>1, <3>2, PlaceStages, KeptStage DEF OneStage, AllPlaced
    <3>. QED BY <1>2, <1>3, <1>4, <3>3, AsHandle DEF Keeps
  <2>. QED BY <2>2, <2>3
<1>5. ASSUME NEW i \in Calls, NEW d \in Calls, Respond(i, d), ~Break PROVE Keeps
  <2>1. Handed(d) /\ Due(d)' /\ \A c \in Calls \ {d} : CallKept(c)
    BY <1>1, <1>5, RespondTraces
  <2>2. ~(d > calls)
    BY <1>1, <2>1, OnePlace DEF AllPlaced, Placed, Flying
  <2>3. OneStage(d, "handled", "answered")
    BY <1>1, <1>2, <2>1, <2>2, PlaceStages, KeptStage DEF OneStage, AllPlaced
  <2>. QED BY <1>2, <1>3, <1>5, <2>3, AsAnswer DEF Keeps
<1>6. ASSUME \/ NotifyClient \/ Heartbeat
             \/ \E m \in Msgs : WriteRaw(m),
             ~Break
      PROVE  Keeps
  <2>1. ASSUME NEW c \in Calls PROVE Stage(c)' = Stage(c)
    <3>1. CallKept(c) \/ (Due(c) /\ Sent(c)')
      BY <1>1, <1>6, StartTraces, HeartbeatTraces, WriteTraces
    <3>2. CASE CallKept(c)
      BY <1>1, <1>2, <3>2, KeptStage DEF AllPlaced
    <3>3. CASE Due(c) /\ Sent(c)'
      <4>1. ~(c > calls)
        BY <1>1, <3>3, OnePlace DEF AllPlaced, Placed, Flying
      <4>. QED BY <1>1, <1>2, <3>3, <4>1, PlaceStages
    <3>. QED BY <3>1, <3>2, <3>3
  <2>2. SameStages
    BY <2>1 DEF SameStages
  <2>. QED BY <1>2, <1>3, <1>6, <2>2, AsStutter DEF Keeps
<1>7. CASE Break
  <2>1. conn' # "up"
    BY <1>7 DEF Break
  <2>2. ASSUME NEW c \in Calls
        PROVE  Stage(c)' = Stage(c) \/ (Stage(c) # "new" /\ Stage(c)' = "over")
    <3>1. IF Sent(c) THEN CallKept(c) ELSE Gone(c)'
      BY <1>1, <1>7, BreakTraces
    <3>2. CASE Sent(c)
      BY <1>1, <1>2, <3>1, <3>2, KeptStage DEF AllPlaced
    <3>3. CASE ~Sent(c) /\ ~(c > calls)
      BY <1>1, <1>2, <3>1, <3>3, PlaceStages
    <3>4. CASE c > calls
      BY <1>1, <1>2, <3>4, Stages DEF StageAt
    <3>. QED BY <3>2, <3>3, <3>4
  <2>. QED BY <1>2, <1>3, <2>1, <2>2, AsBreak DEF Keeps
<1>. QED BY <1>4, <1>5, <1>6, <1>7 DEF Server

LEMMA PromiseStep == PromiseInv /\ [Next]_vars => PromiseInv' /\ [Promise!Next]_(Promise!vars)
<1> SUFFICES ASSUME PromiseInv, [Next]_vars PROVE PromiseInv' /\ [Promise!Next]_(Promise!vars)
  OBVIOUS
<1>1. LostInv' /\ WholeInv'
  BY LostStep DEF PromiseInv, LostInv
<1>2. ASSUME \/ Notify \/ ParseEnd \/ HandlerReturns \/ UNCHANGED vars
             \/ \E n \in {0, Len(toClient)} : Receive(n)
             \/ \E c \in Calls : SendRest(c) \/ Return(c)
      PROVE  Keeps
  <2>1. Quietly
    BY <1>2 DEF Quietly
  <2>2. UNCHANGED <<pending, outcome, conn>>
    BY <1>2 DEF Notify, ParseEnd, HandlerReturns, Receive, SendRest, Return, parseRest, emacsVars, vars
  <2>. QED BY <1>1, <2>1, <2>2, PromiseQuiet
<1>3. Keeps
  BY <1>1, <1>2, PromiseRequest, PromiseGivenUp, PromiseClosed, PromiseDispatch, PromiseServer
     DEF Next, User, Loops, Filter, Dispatch, Reading
<1>. QED BY <1>1, <1>3 DEF Keeps, PromiseInv

LEMMA PromiseInit == Init => PromiseInv /\ Promise!Init
<1> SUFFICES ASSUME Init PROVE PromiseInv /\ Promise!Init
  OBVIOUS
<1>1. LostInv
  BY LostInit
<1>2. Registered
  BY DEF Init, Registered, Calls
<1>3. \A c \in Calls : Stage(c) = "new"
  BY DEF Init, Stage, Calls
<1>4. Promise!Init
  BY <1>3 DEF Init, Promise!Init
<1>. QED BY <1>1, <1>2, <1>4 DEF PromiseInv

\* The transport keeps the promise of Rpc (AtMostOnce): each request is handled
\* at most once, answered at most once and settled once, and while the connection
\* is up it goes through every stage; whatever is chunked, nested, timed out or
\* quit, and for any number of requests.
THEOREM ImplementsRpc == Spec => AtMostOnce
<1>. QED BY PromiseInit, PromiseStep, PTL DEF Spec, AtMostOnce, Promise!Spec

=============================================================================
