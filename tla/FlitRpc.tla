------------------------------ MODULE FlitRpc ------------------------------
(***************************************************************************)
(* The RPC transport: flitrpc.el in Emacs, server/flitrpc/flitrpc.go on    *)
(* the server, and the two ordered byte streams between them.              *)
(*                                                                         *)
(* Emacs has one thread, but its activations nest: while a synchronous     *)
(* request waits (accept-process-output), and while a full pipe makes      *)
(* process-send-string wait, Emacs runs timers and the process filter,     *)
(* which parses frames and calls handlers, which may start requests of     *)
(* their own.  "stack" holds these activations, the running one first.     *)
(*                                                                         *)
(* Abstracted: the encoding; a payload is a sequence of parts that name    *)
(* the message they belong to, so a mix-up shows.  An error response is a  *)
(* response.  Callbacks of asynchronous requests do not signal.            *)
(***************************************************************************)
EXTENDS Integers, Sequences, FiniteSets

CONSTANTS
    MaxCalls,   \* bound: requests Emacs makes
    MaxTraffic, \* bound: notifications of either side and heartbeats, together
    MaxDepth,   \* bound: synchronous requests in progress at once
    Large,      \* the messages whose payload exceeds chunkSize
    Quits,      \* the user may type C-g
    PipeFills   \* a write of Emacs may have to wait

Calls == 1..MaxCalls
Notes == 1..MaxTraffic
Response(c) == <<"response", c>>
Note(n) == <<"notification", n>>
Msgs == {Response(c) : c \in Calls} \cup {Note(n) : n \in Notes}

ASSUME RpcAssumption ==
    /\ MaxCalls \in Nat /\ MaxTraffic \in Nat /\ MaxDepth \in Nat
    /\ Large \subseteq Msgs
    /\ Quits \in BOOLEAN /\ PipeFills \in BOOLEAN

VARIABLES
    \* Emacs
    stack,      \* its activations, the running one first
    calls,      \* conn.next-id
    pending,    \* conn.pending: the call each id stands for, or 0
    kind,       \* whether a call is synchronous
    outcome,    \* what became of a call; "stale": its callback ran after C-g
    syncDone,   \* conn.sync-done
    buffer,     \* conn.buffer: complete frames
    chunks,     \* conn.chunks: message and reversed list of parts by id
    \* the streams
    toServer, toClient,
    conn,       \* the connection: up, broken, or closed (the sentinel has run)
    inputs,     \* notifications Emacs has sent
    \* the server
    handling,   \* requests whose handler runs, with their ids
    todo,       \* frames of each message not written yet
    notes,      \* notifications sent
    waiters,    \* callbackWaiters
    beats,      \* heartbeats sent
    \* history
    got         \* the payload each message was delivered with

emacsVars  == <<stack, calls, pending, kind, outcome, syncDone, buffer, chunks, got>>
serverVars == <<handling, todo, notes, waiters, beats>>
vars == <<emacsVars, toServer, toClient, conn, inputs, serverVars>>

-----------------------------------------------------------------------------
(* Messages and frames.                                                    *)

\* Mutant: notifications are numbered like requests.
NoteId_Positive(n) == n

\* The unique negative id of a notification.
NoteId(n) == -n

Ids == (-MaxTraffic)..MaxCalls
Parts == Msgs \X {1, 2}

Frame(k, id, m, part, chunked) ==
    [kind |-> k, id |-> id, msg |-> m, part |-> part, chunked |-> chunked]

NoMsg == <<"none", 0>>
Beat(b) == Frame("request", b, NoMsg, 0, FALSE)
BadNote == Frame("response", 0, NoMsg, 0, FALSE)

FrameSet(k, i, m, p, ch) == [kind : k, id : i, msg : m, part : p, chunked : ch]

Frames == UNION {
    FrameSet({"response", "notification"}, Ids, Msgs, {1}, BOOLEAN),
    FrameSet({"continue"}, Ids, Msgs, {2}, {FALSE}),
    FrameSet({"end"}, Ids, Msgs, {0}, {FALSE}),
    FrameSet({"request"}, 1..MaxTraffic, {NoMsg}, {0}, {FALSE}),
    {BadNote} }

\* writeChunked, or a single frame.
FramesOf(m, id) ==
    IF m \in Large
    THEN << Frame(m[1], id, m, 1, TRUE), Frame("continue", id, m, 2, FALSE),
            Frame("end", id, m, 0, FALSE) >>
    ELSE << Frame(m[1], id, m, 1, FALSE) >>

Payload(m) == IF m \in Large THEN <<<<m, 1>>, <<m, 2>>>> ELSE <<<<m, 1>>>>

Upward(k, id, c, part) == [kind |-> k, id |-> id, call |-> c, part |-> part]
UpSet(k, i, c, p) == [kind : k, id : i, call : c, part : p]

UpFrames == UNION {
    UpSet({"request"}, Calls, Calls, {"whole", "header"}),
    UpSet({"request"}, {0}, Calls, {"rest"}),
    UpSet({"response"}, 1..MaxTraffic, {0}, {"whole"}),
    UpSet({"notification"}, {0}, {0}, {"whole"}) }

\* flitrpc--write-frame; what is written to a broken connection is lost.
WriteFrame(f) == toServer' = IF conn = "up" THEN Append(toServer, f) ELSE toServer

-----------------------------------------------------------------------------
(* Activations.                                                            *)

Act(at, c) == [at |-> at, call |-> c]
Acts == [at : {"idle", "wait", "send", "parse", "handle"}, call : 0..MaxCalls]
Top == IF stack = <<>> THEN Act("idle", 0) ELSE Head(stack)
OnStack(a) == \E k \in DOMAIN stack : stack[k] = a
Depth == Cardinality({k \in DOMAIN stack : stack[k].at = "wait"})
Replace(a) == stack' = <<a>> \o Tail(stack)
Pop == stack' = Tail(stack)

\* Emacs waits for output: it runs filters, sentinels and timers.  After a
\* timeout the loop accepts output once more.
Accepting ==
    \/ Top.at \in {"idle", "send"}
    \/ Top.at = "wait" /\ outcome[Top.call] \in {"none", "timeout"}

NoEntry == [msg |-> NoMsg, parts |-> <<>>]
Entries == [msg : Msgs, parts : Seq(Parts)] \cup {NoEntry}

TypeOK ==
    /\ stack \in Seq(Acts)
    /\ calls \in 0..MaxCalls
    /\ pending \in [Ids -> 0..MaxCalls]
    /\ kind \in [Calls -> {"none", "sync", "async"}]
    /\ outcome \in [Calls -> {"none", "ok", "timeout", "closed", "quit", "stale"}]
    /\ syncDone \in BOOLEAN
    /\ buffer \in Seq(Frames) /\ toClient \in Seq(Frames)
    /\ chunks \in [Ids -> Entries]
    /\ toServer \in Seq(UpFrames)
    /\ conn \in {"up", "broken", "closed"} /\ inputs \in 0..MaxTraffic
    /\ handling \subseteq Calls \X Calls
    /\ todo \in [Msgs -> Seq(Frames)]
    /\ notes \in 0..MaxTraffic
    /\ waiters \subseteq 1..MaxTraffic
    /\ beats \in 0..MaxTraffic
    /\ got \in [Msgs -> Seq(Parts)]

\* Messages other than requests and responses, so far.
Traffic == notes + beats + inputs

Init ==
    /\ stack = <<>> /\ calls = 0
    /\ pending = [i \in Ids |-> 0]
    /\ kind = [c \in Calls |-> "none"] /\ outcome = [c \in Calls |-> "none"]
    /\ syncDone = FALSE /\ buffer = <<>>
    /\ chunks = [i \in Ids |-> NoEntry]
    /\ toServer = <<>> /\ toClient = <<>> /\ conn = "up" /\ inputs = 0
    /\ handling = {} /\ todo = [m \in Msgs |-> <<>>]
    /\ notes = 0
    /\ waiters = {} /\ beats = 0
    /\ got = [m \in Msgs |-> <<>>]

-----------------------------------------------------------------------------
(* Emacs: requests.                                                        *)

\* Mutant: ids are reused.
NewId_Reuse == Cardinality({i \in Ids : pending[i] # 0}) + 1

\* (cl-incf next-id)
NewId == calls + 1

\* Where a command, a handler or a timer may run.
UserCode == conn # "closed" /\ (Accepting \/ Top.at = "handle")

\* flitrpc-request, called directly or (k = "sync") by flitrpc-request-sync.
\* The pipe may be full after the header, and writing to a dead process signals.
Request(k) ==
    /\ UserCode /\ calls < MaxCalls
    /\ k = "sync" => Depth < MaxDepth
    /\ calls' = calls + 1
    /\ pending' = [pending EXCEPT ![NewId] = calls + 1]
    /\ kind' = [kind EXCEPT ![calls + 1] = k]
    /\ \/ /\ WriteFrame(Upward("request", NewId, calls + 1, "whole"))
          /\ stack' = IF k = "sync" THEN <<Act("wait", calls + 1)>> \o stack ELSE stack
       \/ /\ PipeFills
          /\ WriteFrame(Upward("request", NewId, calls + 1, "header"))
          /\ stack' = <<Act("send", calls + 1)>> \o stack
       \/ conn = "broken" /\ UNCHANGED <<stack, toServer>>
    /\ UNCHANGED <<outcome, syncDone, buffer, chunks, got, toClient, conn, inputs, serverVars>>

\* The pipe has room again.
SendRest(c) ==
    /\ Top = Act("send", c)
    /\ WriteFrame(Upward("request", 0, c, "rest"))
    /\ IF kind[c] = "sync" THEN Replace(Act("wait", c)) ELSE Pop
    /\ UNCHANGED <<calls, pending, kind, outcome, syncDone, buffer, chunks, got, toClient,
                   conn, inputs, serverVars>>

\* flitrpc-notify.
Notify ==
    /\ UserCode /\ Traffic < MaxTraffic
    /\ inputs' = inputs + 1
    /\ WriteFrame(Upward("notification", 0, 0, "whole"))
    /\ UNCHANGED <<emacsVars, toClient, conn, serverVars>>

Settle(c, how) == outcome' = [outcome EXCEPT ![c] = how]
Forget(c) == pending' = [i \in Ids |-> IF pending[i] = c THEN 0 ELSE pending[i]]

\* Mutant: the entry stays behind.
Timeout_KeepPending(c) ==
    /\ Top = Act("wait", c) /\ outcome[c] = "none"
    /\ Settle(c, "timeout")
    /\ UNCHANGED <<stack, calls, pending, kind, syncDone, buffer, chunks, got, toServer,
                   toClient, conn, inputs, serverVars>>

\* Mutant: after a timeout the request is sent again.
Timeout_Retry(c) ==
    /\ Top = Act("wait", c) /\ outcome[c] = "none"
    /\ WriteFrame(Upward("request", c, c, "whole"))
    /\ UNCHANGED <<stack, calls, pending, kind, outcome, syncDone, buffer, chunks, got, toClient,
                   conn, inputs, serverVars>>

\* The loop of flitrpc-request-sync finds the deadline passed.
Timeout(c) ==
    /\ Top = Act("wait", c) /\ outcome[c] = "none"
    /\ Settle(c, "timeout")
    /\ Forget(c)
    /\ UNCHANGED <<stack, calls, kind, syncDone, buffer, chunks, got, toServer, toClient,
                   conn, inputs, serverVars>>

\* Mutant: the loop waits for the connection's flag.
Return_SharedFlag(c) ==
    /\ Top = Act("wait", c) /\ syncDone
    /\ Pop
    /\ UNCHANGED <<calls, pending, kind, outcome, syncDone, buffer, chunks, got, toServer,
                   toClient, conn, inputs, serverVars>>

\* The loop ends: a result is returned or an error signalled.
Return(c) ==
    /\ Top = Act("wait", c) /\ outcome[c] # "none"
    /\ Pop
    /\ UNCHANGED <<calls, pending, kind, outcome, syncDone, buffer, chunks, got, toServer,
                   toClient, conn, inputs, serverVars>>

\* C-g unwinds the request; Emacs inhibits it in filters and timers.  Nothing
\* removes the pending entry, and an unfinished frame stays unfinished.
Quit(c) ==
    /\ Quits /\ stack \in {<<Act("wait", c)>>, <<Act("send", c)>>} /\ outcome[c] = "none"
    /\ Settle(c, "quit")
    /\ stack' = <<>>
    /\ UNCHANGED <<calls, pending, kind, syncDone, buffer, chunks, got, toServer, toClient,
                   conn, inputs, serverVars>>

-----------------------------------------------------------------------------
(* Emacs: the process filter, flitrpc--parse-frames and the sentinel.      *)

parseRest == <<calls, kind, conn, inputs, serverVars>>

\* The filter inserts what was read: all that was written (what is read later
\* may as well be written later), or only the beginning of a frame, which
\* matters when frames were left in the buffer.
Receive(n) ==
    /\ conn # "closed" /\ Accepting
    /\ toClient # <<>> /\ n \in {0, Len(toClient)}
    /\ n = 0 => buffer # <<>>
    /\ buffer' = buffer \o SubSeq(toClient, 1, n)
    /\ toClient' = SubSeq(toClient, n + 1, Len(toClient))
    /\ stack' = <<Act("parse", 0)>> \o stack
    /\ UNCHANGED <<parseRest, pending, outcome, syncDone, chunks, got, toServer>>

ParseEnd ==
    /\ Top.at = "parse" /\ buffer = <<>>
    /\ Pop
    /\ UNCHANGED <<parseRest, pending, outcome, syncDone, buffer, chunks, got, toServer, toClient>>

\* Mutant: the flag is not cleared.
AfterDispatch_KeepFlag(done) ==
    /\ syncDone' = done
    /\ IF done THEN Pop ELSE Replace(Act("parse", 0))

\* After a dispatch parse-frames looks at sync-done, and stops if it was set.
AfterDispatch(done) ==
    /\ syncDone' = FALSE
    /\ IF done THEN Pop ELSE Replace(Act("parse", 0))

\* flitrpc--complete-request: a synchronous request's callback sets done and
\* sync-done; any other callback is user code.
CompleteRequest(id, m, parts) ==
    LET c == pending[id] IN
    IF c = 0
    THEN AfterDispatch(syncDone) /\ UNCHANGED <<pending, outcome, got>>
    ELSE /\ pending' = [pending EXCEPT ![id] = 0]
         /\ Settle(c, IF outcome[c] = "quit" THEN "stale" ELSE "ok")
         /\ got' = IF m = NoMsg THEN got ELSE [got EXCEPT ![m] = parts]
         /\ IF kind[c] = "sync" THEN AfterDispatch(TRUE)
                                ELSE Replace(Act("handle", 0)) /\ UNCHANGED syncDone

\* flitrpc--dispatch-frame for a whole message.
Deliver(k, id, m, parts) ==
    IF k = "response" THEN CompleteRequest(id, m, parts)
    ELSE /\ got' = [got EXCEPT ![m] = parts]
         /\ Replace(Act("handle", 0))
         /\ UNCHANGED <<pending, outcome, syncDone>>

\* The first frame leaves the buffer before it is dispatched.
TakeFrame(f) ==
    /\ Top.at = "parse" /\ buffer # <<>> /\ f = Head(buffer)
    /\ buffer' = Tail(buffer)
    /\ UNCHANGED <<parseRest, toClient>>

\* The first frame of a chunked message is only stored.
SeedChunks(f) ==
    /\ f.chunked
    /\ TakeFrame(f)
    /\ chunks' = [chunks EXCEPT ![f.id] = [msg |-> f.msg, parts |-> <<<<f.msg, f.part>>>>]]
    /\ AfterDispatch(syncDone)
    /\ UNCHANGED <<pending, outcome, got, toServer>>

DispatchWhole(f) ==
    /\ ~f.chunked /\ f.kind \in {"response", "notification"}
    /\ TakeFrame(f)
    /\ Deliver(f.kind, f.id, f.msg, <<<<f.msg, f.part>>>>)
    /\ UNCHANGED <<chunks, toServer>>

\* Mutant: the answer carries no id.
DispatchRequest_NoId(f) ==
    /\ f.kind = "request"
    /\ TakeFrame(f)
    /\ WriteFrame(Upward("response", 0, 0, "whole"))
    /\ AfterDispatch(syncDone)
    /\ UNCHANGED <<pending, outcome, chunks, got>>

\* A request of the server (heartbeat) is answered at once.
DispatchRequest(f) ==
    /\ f.kind = "request"
    /\ TakeFrame(f)
    /\ WriteFrame(Upward("response", f.id, 0, "whole"))
    /\ AfterDispatch(syncDone)
    /\ UNCHANGED <<pending, outcome, chunks, got>>

Extended(entry, part) == [msg |-> entry.msg, parts |-> Append(entry.parts, part)]

\* flitrpc--accumulate-chunk-data: an unknown id is an error, which ends the filter.
AccumulateChunk(f) ==
    /\ f.kind = "continue"
    /\ TakeFrame(f)
    /\ IF chunks[f.id] = NoEntry
       THEN Pop /\ UNCHANGED <<chunks, syncDone>>
       ELSE /\ chunks' = [chunks EXCEPT ![f.id] = Extended(chunks[f.id], <<f.msg, f.part>>)]
            /\ AfterDispatch(syncDone)
    /\ UNCHANGED <<pending, outcome, got, toServer>>

\* flitrpc--finish-chunks.
FinishChunks(f) ==
    /\ f.kind = "end"
    /\ TakeFrame(f)
    /\ chunks' = [chunks EXCEPT ![f.id] = NoEntry]
    /\ LET entry == chunks[f.id] IN
       IF entry = NoEntry
       THEN AfterDispatch(syncDone) /\ UNCHANGED <<pending, outcome, got>>
       ELSE Deliver(entry.msg[1], f.id, entry.msg, entry.parts)
    /\ UNCHANGED toServer

\* A notification handler, or the callback of an asynchronous request, returns.
HandlerReturns ==
    /\ Top.at = "handle"
    /\ AfterDispatch(syncDone)
    /\ UNCHANGED <<parseRest, pending, outcome, buffer, chunks, got, toServer, toClient>>

\* The sentinel, once all output was read: every pending request fails.
Sentinel ==
    /\ conn = "broken" /\ toClient = <<>> /\ Accepting
    /\ conn' = "closed"
    /\ LET failed == {pending[i] : i \in Ids} \ {0} IN
       /\ outcome' = [c \in Calls |->
              IF c \notin failed THEN outcome[c]
              ELSE IF outcome[c] = "quit" THEN "stale" ELSE "closed"]
       /\ syncDone' = (syncDone \/ \E c \in failed : kind[c] = "sync")
    /\ pending' = [i \in Ids |-> 0]
    /\ UNCHANGED <<stack, calls, kind, buffer, chunks, got, toServer, toClient, inputs,
                   serverVars>>

-----------------------------------------------------------------------------
(* The server.                                                             *)

serverRest == <<emacsVars, conn, inputs>>

\* Serve decodes the first frame; a header must be followed by its own rest.
Decodable(n) ==
    /\ n \in 1..2 /\ Len(toServer) >= n
    /\ IF n = 1 THEN toServer[1].part = "whole"
       ELSE toServer[1].part = "header" /\ toServer[2].part = "rest"
            /\ toServer[2].call = toServer[1].call

Serve(n) ==
    /\ conn = "up" /\ Decodable(n)
    /\ toServer' = SubSeq(toServer, n + 1, Len(toServer))

\* A request is handled in a goroutine of its own.
ServeRequest(n) ==
    /\ Serve(n) /\ toServer[1].kind = "request"
    /\ handling' = handling \cup {<<toServer[1].id, toServer[1].call>>}
    /\ UNCHANGED <<serverRest, toClient, todo, notes, waiters, beats>>

\* A notification is handled inline; if its handler fails it is answered, with id 0.
ServeNotification(n) ==
    /\ Serve(n) /\ toServer[1].kind = "notification"
    /\ toClient' \in {toClient, Append(toClient, BadNote)}
    /\ UNCHANGED <<serverRest, handling, todo, notes, waiters, beats>>

\* handleCallbackResponse: SendRequest returns.
ServeResponse(n) ==
    /\ Serve(n) /\ toServer[1].kind = "response"
    /\ waiters' = waiters \ {toServer[1].id}
    /\ UNCHANGED <<serverRest, toClient, handling, todo, notes, beats>>

\* A handler is done: sendResult has the response's frames to write.
Respond(id, c) ==
    /\ conn = "up" /\ <<id, c>> \in handling
    /\ handling' = handling \ {<<id, c>>}
    /\ todo' = [todo EXCEPT ![Response(c)] = FramesOf(Response(c), id)]
    /\ UNCHANGED <<serverRest, toServer, toClient, notes, waiters, beats>>

\* NotifyWithPayload, by any goroutine.
NotifyClient ==
    /\ conn = "up" /\ Traffic < MaxTraffic
    /\ notes' = notes + 1
    /\ todo' = [todo EXCEPT ![Note(notes + 1)] =
                 FramesOf(Note(notes + 1), NoteId(notes + 1))]
    /\ UNCHANGED <<serverRest, toServer, toClient, handling, waiters, beats>>

\* writeRaw: one frame under the writer's mutex.
WriteRaw(m) ==
    /\ conn = "up" /\ todo[m] # <<>>
    /\ toClient' = Append(toClient, Head(todo[m]))
    /\ todo' = [todo EXCEPT ![m] = Tail(@)]
    /\ UNCHANGED <<serverRest, toServer, handling, notes, waiters, beats>>

\* The heartbeat goroutine: SendRequest registers, then writes; one at a time.
Heartbeat ==
    /\ conn = "up" /\ waiters = {} /\ Traffic < MaxTraffic
    /\ beats' = beats + 1
    /\ waiters' = {beats + 1}
    /\ toClient' = Append(toClient, Beat(beats + 1))
    /\ UNCHANGED <<serverRest, toServer, handling, todo, notes>>

\* The server or the stream between fails, or a frame cannot be decoded, which
\* ends Serve.  What was written arrives: a frame that is lost may as well not
\* have been written.
Break ==
    /\ conn = "up"
    /\ conn' = "broken"
    /\ toServer' = <<>> /\ handling' = {} /\ waiters' = {}
    /\ todo' = [m \in Msgs |-> <<>>]
    /\ UNCHANGED <<emacsVars, toClient, inputs, notes, beats>>

-----------------------------------------------------------------------------
User == \/ \E k \in {"sync", "async"} : Request(k)
        \/ Notify
        \/ \E c \in Calls : Quit(c)

Loops == \E c \in Calls : SendRest(c) \/ Timeout(c) \/ Return(c)

Dispatch == \E f \in {buffer[k] : k \in DOMAIN buffer} :
    \/ SeedChunks(f) \/ DispatchWhole(f) \/ DispatchRequest(f)
    \/ AccumulateChunk(f) \/ FinishChunks(f)

Filter == ParseEnd \/ Dispatch \/ HandlerReturns

Reading == (\E n \in {0, Len(toClient)} : Receive(n)) \/ Sentinel

Server ==
    \/ \E n \in 1..2 : ServeRequest(n) \/ ServeNotification(n) \/ ServeResponse(n)
    \/ \E i \in Calls, c \in Calls : Respond(i, c)
    \/ \E m \in Msgs : WriteRaw(m)
    \/ NotifyClient \/ Heartbeat \/ Break

\* An iteration of the parse loop and a step of the server commute, so the
\* server may be taken to step before or after the loop.
Next == User \/ Loops \/ Filter \/ Reading \/ (Top.at # "parse" /\ Server)

\* Emacs's code runs on, handlers return, a full pipe empties and deadlines
\* pass.  Nothing is assumed of the server, the stream or the user.
Spec == Init /\ [][Next]_vars /\ WF_vars(Loops) /\ WF_vars(Filter)

-----------------------------------------------------------------------------
(* Properties.                                                             *)

\* Every message handed to a callback or handler is whole: its own parts, all
\* of them, in order, whatever frames of others came in between.
WholeMessages == \A m \in Msgs : got[m] # <<>> => got[m] = Payload(m)

\* A request succeeds with its own response and with no other, even after a
\* timeout, C-g or the end of the connection.
AnswersOwn ==
    \A c \in Calls : outcome[c] = "ok" \/ (outcome[c] = "stale" /\ conn # "closed")
                        => got[Response(c)] # <<>>

Count(s, Is(_)) == Cardinality({k \in DOMAIN s : Is(s[k])})

\* The frame that begins the request, and the one that ends its response.
Asks(f, c) == f.kind = "request" /\ f.call = c /\ f.part # "rest"
Answers(f, c) == f.msg = Response(c) /\ ~f.chunked /\ f.kind # "continue"

\* A pending request is in exactly one place on its way, until its callback runs.
CallInFlight(c) ==
    LET Asking(f) == Asks(f, c)
        Last(f) == Answers(f, c)
    IN Count(toServer, Asking) + Cardinality({h \in handling : h[2] = c})
         + Count(todo[Response(c)], Last) + Count(toClient, Last) + Count(buffer, Last) = 1

\* While the connection is up nothing that is waited for is lost or doubled:
\* neither a pending request nor the heartbeat the server waits for.
NothingLost ==
    conn = "up" =>
        /\ \A i \in Ids : pending[i] # 0 => CallInFlight(pending[i])
        /\ \A b \in waiters :
               LET Sounds(f) == f.kind = "request" /\ f.id = b
                   Echoes(f) == f.kind = "response" /\ f.id = b
               IN Count(toClient, Sounds) + Count(buffer, Sounds) + Count(toServer, Echoes) = 1

\* A callback runs at most once, and never after its caller stopped waiting
\* (but C-g leaves the callback registered).
NoLateCallback ==
    [][\A c \in Calls : outcome[c] \notin {"none", "quit"} => outcome'[c] = outcome[c]]_vars

\* The response has been read completely.
Received(c) == \E k \in DOMAIN buffer : Answers(buffer[k], c)

TimesOut(c) == outcome[c] = "none" /\ outcome'[c] = "timeout"

\* An answered request times out only if the callback of another synchronous
\* request stopped the parsing: one that was interrupted with C-g, one it
\* was nested in, or one nested in it.
SpuriousTimeout ==
    [][\A c \in Calls : TimesOut(c) /\ Received(c) =>
          \E d \in Calls \ {c} :
              \/ outcome[d] = "stale"
              \/ kind[d] = "sync" /\ (d > c \/ OnStack(Act("wait", d)))]_vars

\* How far a request has come, and the promise of Rpc: the server runs its
\* handler at most once, its outcome is its own answer, and while the connection
\* is up it goes through every stage.
Stage(c) ==
    IF c > calls THEN "new"
    ELSE IF \E k \in DOMAIN toServer : Asks(toServer[k], c) THEN "asked"
    ELSE IF \E h \in handling : h[2] = c THEN "handled"
    ELSE IF \E s \in {todo[Response(c)], toClient, buffer} :
                \E k \in DOMAIN s : Answers(s[k], c) THEN "answered"
    ELSE "over"

Promise == INSTANCE Rpc WITH
    Requests <- Calls, stage <- [c \in Calls |-> Stage(c)], up <- (conn = "up")
AtMostOnce == Promise!Spec

\* Every synchronous request returns, whatever runs nested in it.
SyncReturns ==
    \A c \in Calls : OnStack(Act("wait", c)) ~> ~OnStack(Act("wait", c))
=============================================================================
