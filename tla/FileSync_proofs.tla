--------------------------- MODULE FileSync_proofs ---------------------------
(***************************************************************************)
(* For every number of callbacks, contents and instants, and every size of *)
(* the contents: what the user typed is kept, nothing unseen is            *)
(* overwritten, a buffer that counts as saved was written or forced, an    *)
(* ordinary change of the file is told, and a buffer that was told of one  *)
(* comes to show it.                                                       *)
(***************************************************************************)
EXTENDS FileSync, TLAPS

Answer == {"reply", "content", "saved", "mismatch"}
Message  == [type : Event \cup Answer, info : File]
Callback == [stage : {"idle", "read", "send"}, type : Event,
             stat : Stat \cup {None}, info : File]
Order    == [op : {"open", "close"}, stat : Stat \cup {None}]
Requests == [op : {"none", "info", "read", "write"},
             stage : {"none", "sent", "read", "stat", "watched", "checked",
                      "mismatch", "open", "data", "done", "replied"},
             why : {"none", "visit", "look", "revert", "save"}, ver : Ver, info : File,
             expect : Time, force : BOOLEAN]


(* The steps, one by one.                                                  *)
LEMMA NextSteps ==
    ASSUME [Next]_vars
    PROVE  \/ Put \/ Tick \/ UNCHANGED vars
           \/ \E k \in Callbacks : CbStart(k) \/ CbRead(k) \/ CbSend(k)
           \/ InfoStat \/ InfoWatch \/ InfoReply \/ ReadContent \/ ReadStat \/ ReadReply
           \/ WriteCheck \/ WriteOpen \/ WriteData \/ WriteStat \/ WriteReply
           \/ MismatchReply
           \/ \E r \in async : OpenStat(r) \/ OpenStore(r) \/ Close(r)
           \/ Visit \/ Look \/ Kill \/ Edit \/ Save \/ AutoRevert \/ Receive
BY DEF Next, Server, Client
-----------------------------------------------------------------------------
(* Records.                                                                *)

LEMMA Constants ==
    /\ 0 \in Ver /\ 0 \in Time /\ Time \subseteq Nat
    /\ None \notin Stat /\ None \notin File /\ None \notin Buffer
    /\ CbIdle \in Callback /\ Idle \in Requests
<1>1. 0 \in Ver /\ 0 \in Time /\ Time \subseteq Nat
  BY FileSyncAssumption DEF FileSyncAssumption, Ver
<1>2. None \notin Stat /\ None \notin File /\ None \notin Buffer
  BY NoneAssumption DEF NoneAssumption
<1>3. CbIdle \in Callback /\ Idle \in Requests
  BY <1>1 DEF CbIdle, Callback, Event, File, Idle, Requests
<1> QED BY <1>1, <1>2, <1>3

LEMMA Stats ==
    ASSUME NEW f \in File
    PROVE  /\ StatOf(f) \in Stat /\ StatOf(f) # None
           /\ StatOf(f).mtime = f.mtime /\ StatOf(f).size = Size(f.ver)
           /\ f.ver \in Ver /\ f.mtime \in Time
<1>1. f.ver \in Ver /\ f.mtime \in Time
  BY DEF File
<1>2. Size(f.ver) \in Nat
  BY <1>1, FileSyncAssumption DEF FileSyncAssumption, Ver
<1> QED BY <1>1, <1>2, Constants DEF StatOf, Stat

LEMMA Restats ==
    ASSUME NEW f \in File, disk \in File
    PROVE  Restat(f) \in File /\ Restat(f).ver = f.ver /\ Restat(f).mtime = disk.mtime
BY DEF Restat, File

LEMMA Emptied ==
    ASSUME NEW f \in File
    PROVE  NoContent(f) \in File /\ NoContent(f).ver = 0 /\ NoContent(f).mtime = f.mtime
BY Constants DEF NoContent, File

LEMMA Buffers ==
    ASSUME NEW f \in File
    PROVE  /\ BufOf(f) \in Buffer /\ BufOf(f) # None
           /\ BufOf(f).text = f.ver /\ ~BufOf(f).modified /\ ~BufOf(f).changed
<1>1. f.ver \in Ver /\ f.mtime \in Time
  BY DEF File
<1>2. BufOf(f) \in Buffer
  BY <1>1 DEF BufOf, Buffer
<1>3. BufOf(f).text = f.ver /\ ~BufOf(f).modified /\ ~BufOf(f).changed
  BY DEF BufOf
<1> QED BY <1>2, <1>3, Constants

LEMMA Notifieds ==
    ASSUME NEW b \in Buffer, NEW f \in File, NEW t
    PROVE  /\ Notified(b, t, f) \in Buffer
           /\ Notified(b, t, f).text = b.text
           /\ Notified(b, t, f).modified = b.modified
           /\ ~Notified(b, t, f).modified /\ ~Notified(b, t, f).changed /\ t = "modified"
                => b.text = f.ver \/ f.ver = 0
           /\ ~Notified(b, t, f).changed => ~b.changed
           /\ ~Notified(b, t, f).modified /\ ~Notified(b, t, f).changed /\ t # "modified"
                => Notified(b, t, f).visited = f.mtime
<1> DEFINE n == Notified(b, t, f)
<1>1. \/ n = b
      \/ n = [b EXCEPT !.visited = f.mtime]
      \/ n = [b EXCEPT !.changed = TRUE]
  BY DEF Notified
<1>2. b.text \in Ver /\ b.modified \in BOOLEAN /\ b.visited \in Time
      /\ b.changed \in BOOLEAN /\ f.mtime \in Time
  BY Zenon DEF Buffer, File
<1>3. [b EXCEPT !.visited = f.mtime] \in Buffer /\ [b EXCEPT !.changed = TRUE] \in Buffer
  BY DEF Buffer, File
<1>4. n \in Buffer
  BY <1>1, <1>3
<1>5. n.text = b.text /\ n.modified = b.modified
  BY <1>1 DEF Buffer
<1>6. ~n.changed => ~b.changed
  BY <1>1 DEF Buffer
<1>7. ~n.modified /\ ~n.changed /\ t = "modified" => b.text = f.ver \/ f.ver = 0
  BY DEF Notified, Buffer
<1>8. ~n.modified /\ ~n.changed /\ t # "modified" => n.visited = f.mtime
  BY DEF Notified, Buffer
<1> QED BY <1>4, <1>5, <1>6, <1>7, <1>8

LEMMA Asking ==
    ASSUME NEW op \in {"info", "read", "write"},
           NEW why \in {"visit", "look", "revert", "save"}
    PROVE  /\ Request(op, why) \in Requests
           /\ Request(op, why).op = op /\ Request(op, why).stage = "sent"
           /\ Request(op, why).why = why /\ Request(op, why).force = FALSE
           /\ Request(op, why).ver = 0
           /\ Request(op, why).info = [ver |-> 0, mtime |-> 0]
BY Constants DEF Request, Idle, Requests, File
-----------------------------------------------------------------------------
(* Types.                                                                  *)

Stored   == disk \in File /\ clock \in Time /\ fresh \in 2..MaxVer + 1
Tables   == /\ meta \in Stat \cup {None} /\ pending \subseteq Event
            /\ cb \in [Callbacks -> Callback] /\ async \subseteq Order
Asked    == req \in Requests
Streamed == stream \in Seq(Message)
Shown    == cache \in File \cup {None} /\ buf \in Buffer \cup {None}
History  == /\ change \in {"none", "owed", "told", "hinted", "adopted", "overtaken"}
            /\ written \subseteq Ver /\ forced \subseteq Ver

TypeInv == Stored /\ Tables /\ Asked /\ Streamed /\ Shown /\ History

LEMMA Messages ==
    ASSUME Streamed
    PROVE  /\ \A m \in Message : Append(stream, m) \in Seq(Message)
           /\ stream # <<>> => Tail(stream) \in Seq(Message) /\ Head(stream) \in Message
BY DEF Streamed

LEMMA PutType ==
    ASSUME TypeInv, Put \/ WriteOpen \/ WriteData
    PROVE  TypeInv'
<1> USE DEF TypeInv
<1>1. \A v \in Ver, t \in Time : [ver |-> v, mtime |-> t] \in File
  BY DEF File
<1>2. PICK f \in File, type \in Event, o \in BOOLEAN : Store(f, type, o)
  <2>1. CASE Put
    <3>1. fresh \in Ver
      BY <2>1 DEF Put, Stored, Ver
    <3>2. PICK type \in Event, m \in {0, clock} :
             Store([ver |-> fresh, mtime |-> m], type,
                   meta # None /\ m > meta.mtime /\ m > disk.mtime)
      BY <2>1 DEF Put
    <3>3. [ver |-> fresh, mtime |-> m] \in File
      BY <1>1, <3>1, Constants DEF Stored
    <3> QED BY <3>2, <3>3, Zenon
  <2>2. CASE WriteOpen
    <3>1. Store([ver |-> 0, mtime |-> clock], "modified", FALSE)
      BY <2>2 DEF WriteOpen
    <3> QED BY <3>1, <1>1, Constants DEF Stored, Event
  <2>3. CASE WriteData
    <3>1. Store([ver |-> req.ver, mtime |-> clock], "modified", FALSE)
      BY <2>3 DEF WriteData
    <3>2. req.ver \in Ver
      BY DEF Asked, Requests
    <3> QED BY <3>1, <3>2, <1>1 DEF Stored, Event
  <2> QED BY <2>1, <2>2, <2>3
<1>3. /\ disk' = f /\ written' = written \cup {f.ver} /\ f.ver \in Ver
      /\ pending' \subseteq pending \cup {type} /\ change' \in {"owed", "none"}
  BY <1>2, Stats DEF Store
<1>4. /\ UNCHANGED <<clock, meta, cb, async, stream, cache, buf, forced>>
      /\ fresh' = fresh \/ (fresh \in Ver /\ fresh' = fresh + 1)
  <2>1. CASE Put
    <3>1. fresh <= MaxVer /\ fresh' = fresh + 1
      BY <2>1 DEF Put
    <3>2. fresh \in Ver
      BY <3>1, FileSyncAssumption DEF FileSyncAssumption, Stored, Ver
    <3> QED BY <2>1, <3>1, <3>2 DEF Put
  <2>2. CASE WriteOpen \/ WriteData
    BY <2>2 DEF WriteOpen, WriteData, ReqVars
  <2> QED BY <2>1, <2>2
<1>5. req' \in Requests
  BY DEF Put, WriteOpen, WriteData, ReqVars, Asked, Requests
<1>6. Stored'
  BY <1>3, <1>4, FileSyncAssumption DEF FileSyncAssumption, Stored, Ver
<1>7. Tables'
  BY <1>3, <1>4 DEF Tables
<1>8. History'
  BY <1>3, <1>4 DEF History
<1>9. Streamed' /\ Shown'
  BY <1>4 DEF Streamed, Shown
<1> QED BY <1>5, <1>6, <1>7, <1>8, <1>9 DEF Asked

LEMMA CallbackType ==
    ASSUME TypeInv, NEW k \in Callbacks, CbStart(k) \/ CbRead(k) \/ CbSend(k)
    PROVE  TypeInv'
<1> USE DEF TypeInv
<1>1. /\ cb[k] \in Callback
      /\ \A c \in Callback : [cb EXCEPT ![k] = c] \in [Callbacks -> Callback]
  BY DEF Tables
<1>2. UNCHANGED <<clock, fresh, disk, written, forced, async, req, cache, buf>>
  BY DEF CbStart, CbRead, CbSend, CbVars
<1>3. Stored' /\ Asked' /\ Shown'
  BY <1>2 DEF Stored, Asked, Shown
<1>4. CASE CbStart(k)
  <2>1. pending' \subseteq pending /\ UNCHANGED <<meta, stream, change>>
    BY <1>4 DEF CbStart
  <2>2. cb' \in [Callbacks -> Callback]
    <3>1. \A type \in Event, st \in Stat \cup {None} :
             [CbIdle EXCEPT !.stage = "read", !.type = type, !.stat = st] \in Callback
      BY Constants DEF CbIdle, Callback, File
    <3>2. PICK type \in pending :
             LET st == IF type = "modified" /\ meta # None THEN StatOf(disk) ELSE None
             IN  IF st # None /\ Suppressed(st)
                 THEN UNCHANGED cb
                 ELSE cb' = [cb EXCEPT ![k] = [CbIdle EXCEPT !.stage = "read",
                                               !.type = type, !.stat = st]]
      BY <1>4 DEF CbStart
    <3>3. type \in Event /\ StatOf(disk) \in Stat
      BY Stats DEF Tables, Stored
    <3> QED BY <1>1, <3>1, <3>2, <3>3 DEF Tables
  <2> QED BY <1>2, <1>3, <2>1, <2>2 DEF Tables, Streamed, History
<1>5. CASE CbRead(k)
  <2>1. [cb EXCEPT ![k].stage = "send", ![k].info = disk] \in [Callbacks -> Callback]
    BY <1>1 DEF Callback, Stored
  <2>2. meta' \in Stat \cup {None}
    BY <1>5, <1>1 DEF CbRead, Tables, Callback
  <2>3. UNCHANGED <<pending, stream, change>>
        /\ cb' = [cb EXCEPT ![k].stage = "send", ![k].info = disk]
    BY <1>5 DEF CbRead
  <2> QED BY <1>2, <1>3, <2>1, <2>2, <2>3 DEF Tables, Streamed, History
<1>6. CASE CbSend(k)
  <2>1. PICK info \in File : stream' = Append(stream, [type |-> cb[k].type, info |-> info])
    <3>1. cb[k].info \in File /\ Restat(cb[k].info) \in File
      BY <1>1, Restats DEF Callback, Stored
    <3> QED BY <1>6, <3>1 DEF CbSend, Send
  <2>2. stream' \in Seq(Message)
    BY <1>1, <2>1, Messages DEF Callback, Message
  <2>3. change' \in {change, "told", "hinted", "overtaken"} /\ UNCHANGED <<meta, pending>>
        /\ cb' = [cb EXCEPT ![k] = CbIdle]
    BY <1>6 DEF CbSend, Telling
  <2> QED BY <1>1, <1>2, <1>3, <2>2, <2>3, Constants DEF Tables, Streamed, History
<1> QED BY <1>4, <1>5, <1>6

LEMMA HandlerType ==
    ASSUME TypeInv,
           \/ InfoStat \/ InfoWatch \/ InfoReply \/ ReadContent \/ ReadStat \/ ReadReply
           \/ WriteCheck \/ WriteStat \/ WriteReply \/ MismatchReply
    PROVE  TypeInv'
<1> USE DEF TypeInv
<1>1. UNCHANGED <<clock, fresh, cb, async, cache, buf, disk, pending, written, forced>>
  BY DEF InfoStat, InfoWatch, InfoReply, ReadContent, ReadStat, ReadReply, WriteCheck,
     WriteStat, WriteReply, MismatchReply, ReqVars, diskVars
<1>2. Stored' /\ Shown'
  BY <1>1 DEF Stored, Shown
<1>3. req.info \in File /\ Restat(req.info) \in File
  BY Restats DEF Stored, Asked, Requests
<1>9. NoContent(disk) \in File
  BY Emptied DEF Stored
<1>4. req' \in Requests
  <2>1. CASE InfoWatch \/ InfoReply \/ ReadReply \/ WriteStat \/ WriteReply \/ MismatchReply
    BY <1>3, <2>1 DEF InfoWatch, InfoReply, ReadReply, WriteStat, WriteReply, MismatchReply,
       Asked, Requests, Stored
  <2>2. CASE InfoStat \/ ReadContent \/ ReadStat
    BY <1>3, <1>9, <2>2 DEF InfoStat, ReadContent, ReadStat, Asked, Requests, Stored
  <2>3. CASE WriteCheck
    BY <2>3 DEF WriteCheck, Asked, Requests, Stored
  <2> QED BY <2>1, <2>2, <2>3
<1>5. meta' \in Stat \cup {None}
  <2>1. [mtime |-> 0, size |-> 0] \in Stat
    BY Constants DEF Stat
  <2>2. [mtime |-> clock, size |-> Size(req.ver)] \in Stat
    <3>1. req.ver \in Ver
      BY DEF Asked, Requests
    <3>2. Size(req.ver) \in Nat
      BY <3>1, FileSyncAssumption DEF FileSyncAssumption, Ver
    <3> QED BY <3>2 DEF Stored, Stat
  <2>3. StatOf(req.info) \in Stat
    BY <1>3, Stats
  <2> QED BY <2>1, <2>2, <2>3 DEF InfoStat, InfoWatch, InfoReply, ReadContent, ReadStat,
             ReadReply, WriteCheck, WriteStat, WriteReply, MismatchReply, Tables
<1>6. stream' \in Seq(Message)
  <2>1. \/ stream' = stream
        \/ \E t \in Answer, f \in File : stream' = Append(stream, [type |-> t, info |-> f])
    BY <1>3 DEF InfoStat, InfoWatch, InfoReply, ReadContent, ReadStat, ReadReply,
       WriteCheck, WriteStat, WriteReply, MismatchReply, Send, Answer
  <2>2. \A t \in Answer, f \in File : [type |-> t, info |-> f] \in Message
    BY DEF Message
  <2> QED BY <2>1, <2>2, Messages DEF Streamed
<1>7. change' \in {change, "told", "hinted", "adopted", "overtaken"}
  BY DEF InfoStat, InfoWatch, InfoReply, ReadContent, ReadStat, ReadReply, WriteCheck,
     WriteStat, WriteReply, MismatchReply, Telling, Adopting
<1>8. Tables' /\ History'
  BY <1>1, <1>5, <1>7 DEF Tables, History
<1> QED BY <1>2, <1>4, <1>6, <1>8 DEF Asked, Streamed

LEMMA OrderType ==
    ASSUME TypeInv, NEW r \in async, OpenStat(r) \/ OpenStore(r) \/ Close(r)
    PROVE  TypeInv'
<1> USE DEF TypeInv
<1>1. UNCHANGED <<clock, fresh, disk, written, forced, cb, req, stream, cache, buf>>
  BY DEF OpenStat, OpenStore, Close, AsyncVars
<1>2. Stored' /\ Asked' /\ Streamed' /\ Shown'
  BY <1>1 DEF Stored, Asked, Streamed, Shown
<1>3. r \in Order /\ StatOf(disk) \in Stat
  BY Stats DEF Tables, Stored
<1>4. [r EXCEPT !.stat = StatOf(disk)] \in Order
  BY <1>3 DEF Order
<1>5. async' \subseteq Order
  BY <1>3, <1>4 DEF OpenStat, OpenStore, Close, Tables
<1>6. meta' \in {meta, r.stat, None} /\ r.stat \in Stat \cup {None}
  BY <1>3 DEF OpenStat, OpenStore, Close, Order
<1>7. pending' \in {pending, {}} /\ change' \in {change, "adopted", "none"}
  BY DEF OpenStat, OpenStore, Close, Adopting
<1> QED BY <1>1, <1>2, <1>5, <1>6, <1>7 DEF Tables, History

LEMMA UserType ==
    ASSUME TypeInv, Tick \/ Visit \/ Look \/ Kill \/ Edit \/ Save \/ AutoRevert
    PROVE  TypeInv'
<1> USE DEF TypeInv
<1>1. UNCHANGED <<disk, pending, written, forced, meta, cb, change, stream, cache>>
  BY DEF Tick, Visit, Look, Kill, Edit, Save, AutoRevert, ServerVars, clientVars
<1>2. Streamed' /\ History'
  BY <1>1 DEF Streamed, History
<1>3. async' \subseteq Order
  <2>1. [op |-> "open", stat |-> None] \in Order /\ [op |-> "close", stat |-> None] \in Order
    BY DEF Order
  <2> QED BY <2>1 DEF Tick, Visit, Look, Kill, Edit, Save, AutoRevert, OpenBuffer, Tables
<1>4. cache # None => BufOf(cache) \in Buffer
  BY Buffers DEF Shown
<1>11. \A why \in {"visit", "look", "revert"} : Fetch(why) => req' \in Requests
  BY Asking DEF Fetch
<1>5. CASE Tick
  BY <1>1, <1>2, <1>5 DEF Tick, Stored, Tables, Asked, Shown
<1>6. CASE Visit
  <2>1. req' \in Requests
    BY <1>6, <1>11 DEF Visit, Asked
  <2>2. buf' \in Buffer \cup {None}
    BY <1>4, <1>6 DEF Visit, Cached, OpenBuffer, Shown
  <2> QED BY <1>1, <1>2, <1>3, <1>6, <2>1, <2>2 DEF Visit, ServerVars, Stored, Tables,
             Asked, Shown
<1>7. CASE Kill
  BY <1>1, <1>2, <1>3, <1>7 DEF Kill, ServerVars, Stored, Tables, Asked, Shown
<1>8. CASE Edit
  <2>1. fresh \in Ver /\ fresh + 1 \in 2..MaxVer + 1
    BY <1>8, FileSyncAssumption DEF Edit, FileSyncAssumption, Stored, Ver
  <2>2. buf' \in Buffer
    BY <1>8, <2>1 DEF Edit, Shown, Buffer
  <2>3. Stored'
    BY <1>1, <1>8, <2>1 DEF Edit, ServerVars, Stored
  <2> QED BY <1>1, <1>2, <1>3, <1>8, <2>2, <2>3 DEF Edit, ServerVars, Tables, Asked, Shown
<1>9. CASE Save
  <2>1. buf.text \in Ver /\ buf.visited \in Time
    BY <1>9 DEF Save, Shown, Buffer
  <2>2. PICK r \in Requests : req' = [r EXCEPT !.ver = buf.text, !.expect = buf.visited]
    BY <1>9, Asking DEF Save
  <2>3. req' \in Requests
    BY <2>1, <2>2 DEF Requests
  <2> QED BY <1>1, <1>2, <1>3, <1>9, <2>3 DEF Save, ServerVars, clientVars, Stored, Tables,
             Asked, Shown
<1>10. CASE AutoRevert
  <2>1. req' \in Requests
    BY <1>10, <1>11 DEF AutoRevert, Asked
  <2>2. buf' \in Buffer \cup {None}
    BY <1>4, <1>10 DEF AutoRevert, Cached, Stale, Shown, Buffer
  <2> QED BY <1>1, <1>2, <1>3, <1>10, <2>1, <2>2 DEF AutoRevert, ServerVars, Stored, Tables,
             Asked, Shown
<1>12. CASE Look
  <2>1. req' \in Requests
    BY <1>11, <1>12 DEF Look
  <2> QED BY <1>1, <1>2, <1>3, <1>12, <2>1 DEF Look, ServerVars, Stored, Tables, Asked,
             Shown
<1> QED BY <1>5, <1>6, <1>7, <1>8, <1>9, <1>10, <1>12
-----------------------------------------------------------------------------
(* Requests and their answers.                                             *)

\* What is asked for, and why: the buffer a revert or a save is for stays.
Purpose ==
    /\ req.op = "none" <=> req = Idle
    /\ req.op = "info" => req.why \in {"visit", "look", "revert"}
    /\ req.op = "read" => req.why \in {"visit", "revert"}
    /\ req.op = "write" => req.why = "save"
    /\ req.why = "visit" => buf = None
    /\ req.why = "revert" => buf # None /\ ~buf.modified
    /\ req.why = "save" => buf # None /\ buf.modified

\* The request that an answer answers.
OpOf(type) == CASE type = "reply" -> "info" [] type = "content" -> "read" [] OTHER -> "write"

\* At most one answer is on its way, to a request that waits for it.
OneAnswer ==
    /\ \A i \in DOMAIN stream : stream[i].type \in Answer =>
          /\ req.stage = "replied"
          /\ req.op = OpOf(stream[i].type)
    /\ \A i, j \in DOMAIN stream :
          stream[i].type \in Answer /\ stream[j].type \in Answer => i = j

Protocol == Purpose /\ OneAnswer

LEMMA Received ==
    ASSUME TypeInv, Protocol, Receive
    PROVE  \E m \in Message :
             /\ stream # <<>> /\ m = Head(stream) /\ stream' = Tail(stream)
             /\ m.info \in File
             /\ UNCHANGED <<clock, disk, pending, written, meta, cb, change, fresh>>
             /\ \/ m.type \in Event /\ HandleChanged(m)
                \/ /\ HandleInfo(m) /\ m.type = "reply"
                   /\ req.op = "info" /\ req.stage = "replied"
                   /\ req.why \in {"visit", "look", "revert"}
                   /\ req.why = "visit" => buf = None
                   /\ req.why = "revert" => buf # None /\ ~buf.modified
                \/ /\ HandleContent(m) /\ m.type = "content"
                   /\ req.op = "read" /\ req.stage = "replied"
                   /\ req.why \in {"visit", "revert"}
                   /\ req.why = "visit" => buf = None
                   /\ req.why = "revert" => buf # None /\ ~buf.modified
                \/ /\ HandleSaved(m) \/ HandleMismatch(m)
                   /\ m.type \in {"saved", "mismatch"}
                   /\ req.op = "write" /\ req.stage = "replied" /\ req.why = "save"
                   /\ buf # None /\ buf.modified
<1> DEFINE m == Head(stream)
<1>1. stream # <<>> /\ stream' = Tail(stream)
      /\ UNCHANGED <<clock, disk, pending, written, meta, cb, change, fresh>>
  BY DEF Receive, ServerVars
<1>2. m \in Message
  BY <1>1, Messages DEF TypeInv
<1>3. m = stream[1] /\ 1 \in DOMAIN stream
  BY <1>1 DEF TypeInv, Streamed
<1>4. m.type \in Answer => /\ req.stage = "replied"
                           /\ req.op = OpOf(m.type)
  BY <1>3 DEF Protocol, OneAnswer
<1>5. \/ HandleChanged(m) \/ HandleInfo(m) \/ HandleContent(m)
      \/ HandleSaved(m) \/ HandleMismatch(m)
  BY DEF Receive
<1>6. CASE HandleChanged(m)
  <2>1. m.type \in Event /\ m.info \in File
    BY <1>2, <1>6 DEF HandleChanged, Message
  <2> QED BY <1>1, <1>2, <1>6, <2>1
<1>7. CASE HandleInfo(m)
  <2>1. m.type = "reply" /\ m.info \in File
    BY <1>2, <1>7 DEF HandleInfo, Message
  <2>2. req.op = "info" /\ req.stage = "replied"
    BY <1>4, <2>1 DEF Answer, OpOf
  <2>3. /\ req.why \in {"visit", "look", "revert"}
        /\ req.why = "visit" => buf = None
        /\ req.why = "revert" => buf # None /\ ~buf.modified
    BY <2>2 DEF Protocol, Purpose
  <2> QED BY <1>1, <1>2, <1>7, <2>1, <2>2, <2>3
<1>9. CASE HandleContent(m)
  <2>1. m.type = "content" /\ m.info \in File
    BY <1>2, <1>9 DEF HandleContent, Message
  <2>2. req.op = "read" /\ req.stage = "replied"
    BY <1>4, <2>1 DEF Answer, OpOf
  <2>3. /\ req.why \in {"visit", "revert"}
        /\ req.why = "visit" => buf = None
        /\ req.why = "revert" => buf # None /\ ~buf.modified
    BY <2>2 DEF Protocol, Purpose
  <2> QED BY <1>1, <1>2, <1>9, <2>1, <2>2, <2>3
<1>8. CASE HandleSaved(m) \/ HandleMismatch(m)
  <2>1. m.type \in {"saved", "mismatch"} /\ m.info \in File
    BY <1>2, <1>8 DEF HandleSaved, HandleMismatch, Message
  <2>2. req.op = "write" /\ req.stage = "replied"
    BY <1>4, <2>1 DEF Answer, OpOf
  <2>3. req.why = "save" /\ buf # None /\ buf.modified
    BY <2>2 DEF Protocol, Purpose
  <2> QED BY <1>1, <1>2, <1>8, <2>1, <2>2, <2>3
<1> QED BY <1>5, <1>6, <1>7, <1>8, <1>9

LEMMA ReceiveType == ASSUME TypeInv, Protocol, Receive PROVE TypeInv'
<1> USE DEF TypeInv
<1>1. PICK m \in Message :
             /\ stream # <<>> /\ m = Head(stream) /\ stream' = Tail(stream)
             /\ m.info \in File
             /\ UNCHANGED <<clock, disk, pending, written, meta, cb, change, fresh>>
             /\ \/ m.type \in Event /\ HandleChanged(m)
                \/ /\ HandleInfo(m) /\ m.type = "reply"
                   /\ req.op = "info" /\ req.stage = "replied"
                   /\ req.why \in {"visit", "look", "revert"}
                   /\ req.why = "visit" => buf = None
                   /\ req.why = "revert" => buf # None /\ ~buf.modified
                \/ /\ HandleContent(m) /\ m.type = "content"
                   /\ req.op = "read" /\ req.stage = "replied"
                   /\ req.why \in {"visit", "revert"}
                   /\ req.why = "visit" => buf = None
                   /\ req.why = "revert" => buf # None /\ ~buf.modified
                \/ /\ HandleSaved(m) \/ HandleMismatch(m)
                   /\ m.type \in {"saved", "mismatch"}
                   /\ req.op = "write" /\ req.stage = "replied" /\ req.why = "save"
                   /\ buf # None /\ buf.modified
  BY Received
<1>2. Stored' /\ Streamed'
  BY <1>1, Messages DEF Stored, Streamed
<1>3. async' \subseteq Order
  <2>1. [op |-> "open", stat |-> None] \in Order
    BY DEF Order
  <2> QED BY <1>1, <2>1 DEF HandleChanged, HandleInfo, HandleContent, HandleSaved,
             HandleMismatch, OpenBuffer, Tables
<1>4. CASE m.type \in Event /\ HandleChanged(m)
  <2>1. buf # None => Notified(buf, m.type, m.info) \in Buffer
    BY <1>1, Notifieds DEF Shown
  <2> QED BY <1>1, <1>2, <1>3, <1>4, <2>1 DEF HandleChanged, Tables, Asked, Shown, History
<1>0. NoContent(m.info) \in File
  BY <1>1, Emptied
<1>5. CASE HandleInfo(m) /\ req.why \in {"visit", "look", "revert"}
  <2>1. Request("read", req.why) \in Requests /\ Idle \in Requests
    BY <1>5, Asking, Constants
  <2>2. req' \in Requests /\ cache' \in File /\ UNCHANGED <<buf, forced>>
    BY <1>0, <1>5, <2>1 DEF HandleInfo
  <2> QED BY <1>1, <1>2, <1>3, <2>2 DEF Tables, Asked, Shown, History
<1>8. CASE /\ HandleContent(m) /\ req.why \in {"visit", "revert"}
           /\ req.why = "revert" => buf # None
  <2>1. BufOf(m.info) \in Buffer
    BY <1>1, Buffers
  <2>2. buf # None => [BufOf(m.info) EXCEPT !.changed = buf.changed] \in Buffer
    BY <2>1 DEF Shown, Buffer
  <2>3. buf' \in Buffer \cup {None} /\ cache' \in File \cup {None}
    BY <1>0, <1>8, <2>1, <2>2 DEF HandleContent, OpenBuffer, Shown
  <2>4. req' \in Requests /\ forced' = forced
    BY <1>8, Constants DEF HandleContent
  <2> QED BY <1>1, <1>2, <1>3, <2>3, <2>4 DEF Tables, Asked, Shown, History
<1>6. CASE HandleSaved(m) /\ buf # None
  <2>1. buf.text \in Ver /\ m.info.mtime \in Time
    BY <1>1, <1>6 DEF Shown, Buffer, File
  <2>2. cache' \in File
    BY <1>0, <1>6 DEF HandleSaved
  <2>3. buf' \in Buffer
    BY <1>6, <2>1 DEF HandleSaved, Shown, Buffer
  <2>4. forced' \subseteq Ver /\ req' \in Requests
    BY <1>6, <2>1, Constants DEF HandleSaved, History
  <2>5. Tables' /\ Asked' /\ Shown'
    BY <1>1, <1>3, <2>2, <2>3, <2>4 DEF Tables, Asked, Shown
  <2> QED BY <1>1, <1>2, <2>4, <2>5 DEF History
<1>7. CASE HandleMismatch(m)
  <2>1. [Request("write", "save") EXCEPT !.expect = req.expect, !.force = TRUE] \in Requests
    <3>1. Request("write", "save") \in Requests /\ req \in Requests
      BY Asking DEF Asked
    <3> QED BY <3>1 DEF Requests
  <2>2. req' \in Requests
    BY <1>7, <2>1, Constants DEF HandleMismatch
  <2> QED BY <1>1, <1>2, <1>3, <1>7, <2>2 DEF HandleMismatch, Tables, Asked, Shown, History
<1> QED BY <1>1, <1>4, <1>5, <1>6, <1>7, <1>8

LEMMA Appended ==
    ASSUME Streamed, NEW m
    PROVE  \A i \in DOMAIN Append(stream, m) :
              \/ i \in DOMAIN stream /\ Append(stream, m)[i] = stream[i]
              \/ i \notin DOMAIN stream /\ i = Len(stream) + 1 /\ Append(stream, m)[i] = m
BY DEF Streamed

LEMMA Taken ==
    ASSUME Streamed, stream # <<>>
    PROVE  /\ 1 \in DOMAIN stream /\ Head(stream) = stream[1]
           /\ \A i \in DOMAIN Tail(stream) : /\ i \in Nat /\ i + 1 \in DOMAIN stream /\ i + 1 # 1
                                             /\ Tail(stream)[i] = stream[i + 1]
BY DEF Streamed

LEMMA PurposeStep == ASSUME TypeInv, Protocol, [Next]_vars PROVE Purpose'
<1> USE DEF Protocol
<1>1. CASE Put \/ Tick
  BY <1>1 DEF Put, Tick, Purpose
<1>2. ASSUME NEW k \in Callbacks, CbStart(k) \/ CbRead(k) \/ CbSend(k) PROVE Purpose'
  BY <1>2 DEF CbStart, CbRead, CbSend, CbVars, Purpose
<1>3. ASSUME NEW r \in async, OpenStat(r) \/ OpenStore(r) \/ Close(r) PROVE Purpose'
  BY <1>3 DEF OpenStat, OpenStore, Close, AsyncVars, Purpose
<1>4. CASE \/ InfoStat \/ InfoWatch \/ InfoReply \/ ReadContent \/ ReadStat
           \/ ReadReply \/ WriteCheck \/ WriteOpen
           \/ WriteData \/ WriteStat \/ WriteReply \/ MismatchReply
  <2>1. req.op \in {"info", "read", "write"} /\ buf' = buf
    BY <1>4 DEF InfoStat, InfoWatch, InfoReply, ReadContent, ReadStat, ReadReply,
       WriteCheck, WriteOpen, WriteData, WriteStat, WriteReply, MismatchReply, Handling,
       ReqVars
  <2>2. req'.op = req.op /\ req'.why = req.why
    BY <1>4 DEF InfoStat, InfoWatch, InfoReply, ReadContent, ReadStat, ReadReply,
       WriteCheck, WriteOpen, WriteData, WriteStat, WriteReply, MismatchReply, TypeInv,
       Asked, Requests
  <2>3. Idle.op = "none"
    BY DEF Idle
  <2> QED BY <2>1, <2>2, <2>3 DEF Purpose
<1>5. CASE Visit
  <2>1. buf = None /\ req = Idle
    BY <1>5 DEF Visit, Free
  <2>2. CASE Cached
    BY <1>5, <2>1, <2>2 DEF Visit, Purpose, Idle
  <2>3. CASE ~Cached
    <3>1. Fetch("visit") /\ buf' = None
      BY <1>5, <2>1, <2>3 DEF Visit
    <3>2. req'.op \in {"info", "read"} /\ req'.why = "visit" /\ Idle.op = "none"
      BY <3>1, Asking DEF Fetch, Idle
    <3> QED BY <3>1, <3>2 DEF Purpose
  <2> QED BY <2>2, <2>3
<1>6. CASE Kill \/ Edit
  BY <1>6 DEF Kill, Edit, Free, Purpose, Idle
<1>7. CASE Save
  <2>1. /\ req' = [Request("write", "save") EXCEPT !.ver = buf.text, !.expect = buf.visited]
        /\ buf' = buf /\ buf # None /\ buf.modified
    BY <1>7 DEF Save, clientVars
  <2>2. req'.op = "write" /\ req'.why = "save" /\ Idle.op = "none"
    BY <2>1, Asking DEF Idle, Requests
  <2> QED BY <2>1, <2>2 DEF Purpose
<1>8. CASE AutoRevert
  <2>1. buf # None /\ ~buf.modified /\ req = Idle
    BY <1>8 DEF AutoRevert, Stale, Free
  <2>2. CASE Cached
    BY <1>8, <2>1, <2>2 DEF AutoRevert, Purpose, Idle
  <2>3. CASE ~Cached
    <3>1. Fetch("revert") /\ buf' = [buf EXCEPT !.changed = FALSE]
      BY <1>8, <2>1, <2>3 DEF AutoRevert
    <3>2. buf' \in Buffer /\ buf'.modified = buf.modified
      BY <2>1, <3>1 DEF TypeInv, Shown, Buffer
    <3>3. req'.op \in {"info", "read"} /\ req'.why = "revert" /\ Idle.op = "none"
      BY <3>1, Asking DEF Fetch, Idle
    <3> QED BY <2>1, <3>2, <3>3, Constants DEF Purpose
  <2> QED BY <2>2, <2>3
<1>9. CASE Receive
  <2>1. PICK m \in Message :
          /\ m.info \in File
          /\ \/ HandleChanged(m) \/ HandleContent(m)
             \/ HandleInfo(m) /\ req.op = "info"
             \/ /\ HandleSaved(m) \/ HandleMismatch(m)
                /\ buf # None /\ buf.modified
    BY <1>9, Received
  <2>2. CASE HandleChanged(m)
    <3>1. buf = None => buf' = None
      BY <2>2 DEF HandleChanged
    <3>2. buf # None => buf' \in Buffer /\ buf'.modified = buf.modified
      BY <2>1, <2>2, Notifieds DEF HandleChanged, TypeInv, Shown
    <3> QED BY <2>2, <3>1, <3>2, Constants DEF HandleChanged, Purpose
  <2>3. CASE HandleContent(m) \/ HandleSaved(m)
    <3>1. req' = Idle
      BY <2>3 DEF HandleContent, HandleSaved
    <3> QED BY <3>1 DEF Idle, Purpose
  <2>5. CASE HandleInfo(m) /\ req.op = "info"
    <3>1. CASE req.why = "look"
      BY <2>5, <3>1 DEF HandleInfo, Idle, Purpose
    <3>2. CASE req.why # "look"
      <4>1. req' = Request("read", req.why) /\ buf' = buf /\ req.why \in {"visit", "revert"}
        BY <2>5, <3>2 DEF HandleInfo, Purpose
      <4>2. req'.op = "read" /\ req'.why = req.why /\ Idle.op = "none"
        BY <4>1, Asking DEF Idle
      <4> QED BY <4>1, <4>2 DEF Purpose
    <3> QED BY <3>1, <3>2
  <2>4. CASE HandleMismatch(m) /\ buf # None /\ buf.modified
    <3>1. CASE req' = Idle
      BY <3>1 DEF Idle, Purpose
    <3>2. CASE req' = [Request("write", "save") EXCEPT !.expect = req.expect, !.force = TRUE]
      <4>1. req'.op = "write" /\ req'.why = "save" /\ Idle.op = "none"
        BY <3>2, Asking DEF Idle, Requests
      <4> QED BY <2>4, <4>1 DEF HandleMismatch, Purpose
    <3> QED BY <2>4, <3>1, <3>2 DEF HandleMismatch
  <2> QED BY <2>1, <2>2, <2>3, <2>4, <2>5
<1>10. CASE UNCHANGED vars
  BY <1>10 DEF vars, Purpose
<1>11. CASE Look
  <2>1. Fetch("look") /\ req = Idle /\ cache = None /\ buf' = buf
    BY <1>11 DEF Look, Free
  <2>2. req'.op = "info" /\ req'.why = "look" /\ Idle.op = "none"
    BY <2>1, Asking DEF Fetch, Idle
  <2> QED BY <2>1, <2>2 DEF Purpose
<1> QED BY <1>1, <1>2, <1>3, <1>4, <1>5, <1>6, <1>7, <1>8, <1>9, <1>10, <1>11, NextSteps

\* What a step does to the stream and to the request.
LEMMA WireStep ==
    ASSUME TypeInv, Protocol, [Next]_vars
    PROVE  \/ stream' = stream /\ (req' = req \/ req.stage # "replied")
           \/ \E m \in Message : /\ stream' = Append(stream, m)
                                 /\ m.type \in Event /\ req' = req
           \/ \E m \in Message : /\ stream' = Append(stream, m)
                                 /\ m.type \in Answer /\ req.stage # "replied"
                                 /\ req'.stage = "replied"
                                 /\ req'.op = OpOf(m.type)
                                 /\ m.type = "content" => m.info.ver = req'.info.ver
           \/ /\ stream # <<>> /\ stream' = Tail(stream)
              /\ Head(stream).type \in Answer \/ req' = req
<1>1. CASE Put \/ Tick
  BY <1>1 DEF Put, Tick
<1>2. ASSUME NEW k \in Callbacks, CbStart(k) \/ CbRead(k)
      PROVE  stream' = stream /\ req' = req
  BY <1>2 DEF CbStart, CbRead, CbVars
<1>3. ASSUME NEW k \in Callbacks, CbSend(k)
      PROVE  \E m \in Message : stream' = Append(stream, m) /\ m.type \in Event /\ req' = req
  <2>1. cb[k].info \in File /\ cb[k].type \in Event /\ Restat(cb[k].info) \in File
    BY Restats DEF TypeInv, Tables, Callback, Stored
  <2>2. PICK info \in File : stream' = Append(stream, [type |-> cb[k].type, info |-> info])
    BY <1>3, <2>1 DEF CbSend, Send
  <2>3. [type |-> cb[k].type, info |-> info] \in Message
    BY <2>1 DEF Message
  <2> QED BY <1>3, <2>1, <2>2, <2>3 DEF CbSend, CbVars
<1>4. ASSUME NEW r \in async, OpenStat(r) \/ OpenStore(r) \/ Close(r)
      PROVE  stream' = stream /\ req' = req
  BY <1>4 DEF OpenStat, OpenStore, Close, AsyncVars
<1>5. CASE \/ InfoStat \/ InfoWatch \/ ReadContent \/ ReadStat \/ WriteCheck \/ WriteOpen
           \/ WriteData \/ WriteStat
  BY <1>5 DEF InfoStat, InfoWatch, ReadContent, ReadStat, WriteCheck, WriteOpen, WriteData,
     WriteStat, Handling
<1>6. CASE InfoReply \/ ReadReply \/ WriteReply \/ MismatchReply
  <2>1. req.info \in File /\ Restat(req.info) \in File
    BY Restats DEF TypeInv, Asked, Requests, Stored
  <2>2. req.stage # "replied" /\ req'.stage = "replied" /\ req'.op = req.op
        /\ req'.info = req.info
    BY <1>6 DEF InfoReply, ReadReply, WriteReply, MismatchReply, Handling, TypeInv, Asked,
       Requests
  <2>3. PICK t \in Answer, info \in File :
           /\ stream' = Append(stream, [type |-> t, info |-> info])
           /\ req.op = OpOf(t) /\ (t = "content" => info = req.info)
    BY <1>6, <2>1 DEF InfoReply, ReadReply, WriteReply, MismatchReply, Handling, Send,
       Answer, OpOf
  <2>4. [type |-> t, info |-> info] \in Message
    BY DEF Message
  <2> QED BY <2>2, <2>3, <2>4
<1>7. CASE Visit \/ Look \/ Kill \/ Edit \/ Save \/ AutoRevert
  BY <1>7 DEF Visit, Look, Kill, Edit, Save, AutoRevert, Free, Idle, clientVars
<1>8. CASE Receive
  <2>1. PICK m \in Message :
          /\ stream # <<>> /\ m = Head(stream) /\ stream' = Tail(stream)
          /\ HandleChanged(m) \/ m.type \in Answer
    BY <1>8, Received DEF Answer
  <2> QED BY <2>1 DEF HandleChanged
<1>9. CASE UNCHANGED vars
  BY <1>9 DEF vars
<1> QED BY <1>1, <1>2, <1>3, <1>4, <1>5, <1>6, <1>7, <1>8, <1>9, NextSteps

LEMMA AnswerStep == ASSUME TypeInv, Protocol, [Next]_vars PROVE OneAnswer'
<1> USE DEF Protocol
<1>0. Streamed
  BY DEF TypeInv
<1>1. CASE stream' = stream /\ (req' = req \/ req.stage # "replied")
  BY <1>1 DEF OneAnswer
<1>2. ASSUME NEW m \in Message, stream' = Append(stream, m), m.type \in Event, req' = req
      PROVE  OneAnswer'
  <2>1. m.type \notin Answer
    BY <1>2 DEF Event, Answer
  <2>2. \A i \in DOMAIN stream' : stream'[i].type \in Answer
                                    => i \in DOMAIN stream /\ stream'[i] = stream[i]
    BY <1>0, <1>2, <2>1, Appended
  <2> QED BY <1>2, <2>2 DEF OneAnswer
<1>3. ASSUME NEW m \in Message, stream' = Append(stream, m), m.type \in Answer,
             req.stage # "replied", req'.stage = "replied",
             req'.op = OpOf(m.type)
      PROVE  OneAnswer'
  <2>1. \A i \in DOMAIN stream : stream[i].type \notin Answer
    BY <1>3 DEF OneAnswer
  <2>2. \A i \in DOMAIN stream' : stream'[i].type \in Answer
                                    => i = Len(stream) + 1 /\ stream'[i] = m
    BY <1>0, <1>3, <2>1, Appended
  <2> QED BY <1>3, <2>2 DEF OneAnswer
<1>4. CASE stream # <<>> /\ stream' = Tail(stream)
           /\ (Head(stream).type \in Answer \/ req' = req)
  <2>1. /\ 1 \in DOMAIN stream /\ Head(stream) = stream[1]
        /\ \A i \in DOMAIN stream' : /\ i \in Nat /\ i + 1 \in DOMAIN stream /\ i + 1 # 1
                                     /\ stream'[i] = stream[i + 1]
    BY <1>0, <1>4, Taken
  <2>2. CASE Head(stream).type \in Answer
    <3>1. \A i \in DOMAIN stream' : stream'[i].type \notin Answer
      BY <2>1, <2>2 DEF OneAnswer
    <3> QED BY <3>1 DEF OneAnswer
  <2>3. CASE req' = req
    <3>1. \A i \in DOMAIN stream' : stream'[i].type \in Answer =>
              /\ req.stage = "replied"
              /\ req.op = OpOf(stream'[i].type)
      BY <2>1 DEF OneAnswer
    <3>2. \A i, j \in DOMAIN stream' :
              stream'[i].type \in Answer /\ stream'[j].type \in Answer => i + 1 = j + 1
      BY <2>1 DEF OneAnswer
    <3>3. \A i, j \in DOMAIN stream' : i + 1 = j + 1 => i = j
      BY <2>1
    <3> QED BY <2>3, <3>1, <3>2, <3>3 DEF OneAnswer
  <2> QED BY <1>4, <2>2, <2>3
<1> QED BY <1>1, <1>2, <1>3, <1>4, WireStep

LEMMA TypeStep == TypeInv /\ Protocol /\ [Next]_vars => TypeInv' /\ Protocol'
<1> SUFFICES ASSUME TypeInv, Protocol, [Next]_vars PROVE TypeInv' /\ Protocol'
  OBVIOUS
<1>1. CASE UNCHANGED vars
  <2>1. Stored' /\ Tables'
    BY <1>1 DEF vars, TypeInv, Stored, Tables
  <2>2. Asked' /\ Streamed' /\ Shown'
    BY <1>1 DEF vars, TypeInv, Asked, Streamed, Shown
  <2>3. History'
    BY <1>1 DEF vars, TypeInv, History
  <2> QED BY <2>1, <2>2, <2>3, PurposeStep, AnswerStep DEF TypeInv, Protocol
<1>2. TypeInv'
  BY <1>1, NextSteps, PutType, CallbackType, HandlerType, OrderType, UserType, ReceiveType
<1> QED BY <1>2, PurposeStep, AnswerStep DEF Protocol

LEMMA InitType == Init => TypeInv /\ Protocol
<1> SUFFICES ASSUME Init PROVE TypeInv /\ Protocol
  OBVIOUS
<1>1. Stored
  <2>1. 1 \in Ver /\ 2 \in 2..MaxVer + 1
    BY FileSyncAssumption DEF FileSyncAssumption, Ver
  <2> QED BY <2>1, Constants DEF Init, Stored, File
<1>2. Tables
  <2>1. meta = None /\ pending = {} /\ async = {} /\ cb = [k \in Callbacks |-> CbIdle]
    BY DEF Init
  <2>2. cb \in [Callbacks -> Callback]
    BY <2>1, Constants
  <2> QED BY <2>1, <2>2 DEF Tables
<1>3. Asked /\ Streamed /\ Shown
  BY Constants DEF Init, Asked, Streamed, Shown
<1>4. History
  BY FileSyncAssumption DEF FileSyncAssumption, Init, History, Ver
<1>5. Protocol
  BY DEF Init, Protocol, Purpose, OneAnswer, Idle
<1> QED BY <1>1, <1>2, <1>3, <1>4, <1>5 DEF TypeInv

LEMMA TypeInvariant == Spec => [](TypeInv /\ Protocol)
BY InitType, TypeStep, PTL DEF Spec

\* The file, the session's state, the requests and their answers, the stream,
\* the cache entry and the buffer are well typed at all times; in particular a
\* revert or a save that waits for its answer still has its buffer (flit--write,
\* flit--revert-buffer).
THEOREM TypeCorrect == Spec => []TypeOK
<1>1. TypeInv /\ Protocol => TypeOK
  <2> SUFFICES ASSUME TypeInv, Protocol PROVE TypeOK
    OBVIOUS
  <2>1. clock \in Time /\ fresh \in 1..MaxVer + 1 /\ disk \in File
    BY FileSyncAssumption DEF FileSyncAssumption, TypeInv, Stored
  <2>2. \A k \in Callbacks :
          /\ cb[k].stage \in {"idle", "read", "send"} /\ cb[k].type \in Event
          /\ cb[k].stat \in Stat \cup {None} /\ cb[k].info \in File
    BY DEF TypeInv, Tables, Callback
  <2>3. \A r \in async : r.op \in {"open", "close"} /\ r.stat \in Stat \cup {None}
    BY DEF TypeInv, Tables, Order
  <2>4. /\ req.why \in {"revert", "save"} => buf # None
        /\ req.info \in File /\ req.expect \in Time /\ req.ver \in Ver
    BY DEF TypeInv, Asked, Requests, Protocol, Purpose
  <2>5. \A i \in DOMAIN stream : stream[i].info \in File
    <3>1. \A i \in DOMAIN stream : stream[i] \in Message
      BY DEF TypeInv, Streamed
    <3> QED BY <3>1 DEF Message
  <2> QED BY <2>1, <2>2, <2>3, <2>4, <2>5 DEF TypeOK, TypeInv, Tables, Shown, History
<1> QED BY <1>1, TypeInvariant, PTL
-----------------------------------------------------------------------------
(* What the user typed.                                                    *)

LEMMA BufferSteps ==
    ASSUME [Next]_vars
    PROVE  UNCHANGED <<cache, buf>> \/ Visit \/ Kill \/ Edit \/ AutoRevert \/ Receive
<1>1. CASE Put \/ Tick \/ Look \/ Save \/ UNCHANGED vars
  BY <1>1 DEF Put, Tick, Look, Save, clientVars, vars
<1>2. ASSUME NEW k \in Callbacks, CbStart(k) \/ CbRead(k) \/ CbSend(k)
      PROVE  UNCHANGED <<cache, buf>>
  BY <1>2 DEF CbStart, CbRead, CbSend, CbVars
<1>3. CASE \/ InfoStat \/ InfoWatch \/ InfoReply \/ ReadContent \/ ReadStat
           \/ ReadReply \/ WriteCheck \/ WriteOpen
           \/ WriteData \/ WriteStat \/ WriteReply \/ MismatchReply
  BY <1>3 DEF InfoStat, InfoWatch, InfoReply, ReadContent, ReadStat, ReadReply, WriteCheck,
     WriteOpen, WriteData, WriteStat, WriteReply, MismatchReply, ReqVars
<1>4. ASSUME NEW r \in async, OpenStat(r) \/ OpenStore(r) \/ Close(r)
      PROVE  UNCHANGED <<cache, buf>>
  BY <1>4 DEF OpenStat, OpenStore, Close, AsyncVars
<1> QED BY <1>1, <1>2, <1>3, <1>4, NextSteps

\* The text of a buffer changes by typing, or is read anew.
LEMMA TextStep ==
    ASSUME TypeInv, Protocol, [Next]_vars, buf # None, buf' # None
    PROVE  \/ buf'.text = buf.text
           \/ Edit /\ buf'.text = fresh /\ buf'.modified
           \/ ~buf.modified /\ req.op # "write"
<1>0. buf \in Buffer
  BY DEF TypeInv, Shown
<1>1. CASE UNCHANGED <<cache, buf>>
  BY <1>1
<1>2. CASE Visit \/ Kill
  BY <1>2 DEF Visit, Kill
<1>3. CASE Edit
  BY <1>0, <1>3 DEF Edit, Buffer
<1>4. CASE AutoRevert
  BY <1>4 DEF AutoRevert, Stale, Free, Idle
<1>5. CASE Receive
  <2>1. PICK m \in Message :
          /\ m.info \in File
          /\ \/ HandleChanged(m) /\ m.type \in Event
             \/ HandleInfo(m)
             \/ HandleContent(m) /\ req.op = "read" /\ (req.why = "visit" => buf = None)
                /\ (req.why = "revert" => ~buf.modified) /\ req.why \in {"visit", "revert"}
             \/ HandleSaved(m) \/ HandleMismatch(m)
    BY <1>5, Received
  <2>2. CASE HandleChanged(m)
    BY <1>0, <2>1, <2>2, Notifieds DEF HandleChanged
  <2>3. CASE HandleInfo(m)
    BY <2>3 DEF HandleInfo
  <2>5. CASE /\ HandleContent(m) /\ req.op = "read" /\ (req.why = "visit" => buf = None)
             /\ (req.why = "revert" => ~buf.modified) /\ req.why \in {"visit", "revert"}
    BY <2>5
  <2>4. CASE HandleSaved(m) \/ HandleMismatch(m)
    BY <1>0, <2>4 DEF HandleSaved, HandleMismatch, Buffer
  <2> QED BY <2>1, <2>2, <2>3, <2>4, <2>5
<1> QED BY <1>1, <1>2, <1>3, <1>4, <1>5, BufferSteps

\* Whatever notification, answer or revert comes in between, the text of a
\* buffer with unsaved edits changes only by typing (flit--handle-file-changed,
\* flit--buffer-stale-p, flit--revert-buffer).
THEOREM EditsSurvive == Spec => UnsavedEditsKept
<1>1. TypeInv /\ Protocol /\ [Next]_vars
        => [buf # None /\ buf' # None /\ buf.modified
              => buf'.text = buf.text \/ (buf'.text = fresh /\ buf'.modified)]_vars
  BY TextStep
<1> QED BY <1>1, TypeInvariant, PTL DEF Spec, UnsavedEditsKept
-----------------------------------------------------------------------------
(* The check before a file is truncated.                                   *)

\* A handler that passed the check of an unforced write passed it on the stat
\* it keeps.
CheckedInv ==
    Handling("write", "checked") /\ ~req.force
      => Distance(req.info.mtime, req.expect) <= 2

LEMMA CheckedStep == ASSUME TypeInv, Protocol, CheckedInv, [Next]_vars PROVE CheckedInv'
<1>1. CASE Put \/ Tick \/ Kill \/ Edit \/ UNCHANGED vars
  BY <1>1 DEF Put, Tick, Kill, Edit, vars, CheckedInv, Handling, Distance
<1>2. ASSUME NEW k \in Callbacks, CbStart(k) \/ CbRead(k) \/ CbSend(k) PROVE CheckedInv'
  BY <1>2 DEF CbStart, CbRead, CbSend, CbVars, CheckedInv, Handling, Distance
<1>3. ASSUME NEW r \in async, OpenStat(r) \/ OpenStore(r) \/ Close(r) PROVE CheckedInv'
  BY <1>3 DEF OpenStat, OpenStore, Close, AsyncVars, CheckedInv, Handling, Distance
<1>4. CASE \/ InfoStat \/ InfoWatch \/ InfoReply \/ ReadContent \/ ReadStat
           \/ ReadReply \/ WriteOpen
           \/ WriteData \/ WriteStat \/ WriteReply \/ MismatchReply
  <2>1. req'.stage # "checked"
    BY <1>4 DEF InfoStat, InfoWatch, InfoReply, ReadContent, ReadStat, ReadReply, WriteOpen,
       WriteData, WriteStat, WriteReply, MismatchReply, TypeInv, Asked, Requests
  <2> QED BY <2>1 DEF CheckedInv, Handling
<1>5. CASE WriteCheck
  <2>1. /\ req' = [req EXCEPT !.stage = IF Mismatch THEN "mismatch" ELSE "checked",
                              !.info = disk]
    BY <1>5 DEF WriteCheck
  <2>2. /\ req'.stage = (IF Mismatch THEN "mismatch" ELSE "checked")
        /\ req'.info = disk /\ req'.force = req.force /\ req'.expect = req.expect
    BY <2>1 DEF TypeInv, Asked, Requests
  <2>3. disk.mtime \in Nat /\ req.expect \in Nat
    BY Constants DEF TypeInv, Stored, File, Asked, Requests
  <2>4. ~Mismatch /\ ~req.force => Distance(disk.mtime, req.expect) <= 2
    BY <2>3 DEF Mismatch, Distance
  <2>5. Distance(req'.info.mtime, req'.expect) = Distance(disk.mtime, req.expect)
    BY <2>2
  <2>6. req'.stage = "checked" /\ ~req'.force => Distance(req'.info.mtime, req'.expect) <= 2
    BY <2>2, <2>4, <2>5
  <2> QED BY <2>6 DEF CheckedInv, Handling, Distance
<1>6. CASE Visit \/ Look \/ Save \/ AutoRevert
  <2>1. \A why \in {"visit", "look", "revert"} : Fetch(why) => req'.stage = "sent"
    BY Asking DEF Fetch
  <2>2. req' = req \/ req'.stage = "sent"
    <3>1. CASE Save
      <4>1. PICK r \in Requests : /\ r.stage = "sent"
                                  /\ req' = [r EXCEPT !.ver = buf.text, !.expect = buf.visited]
        BY <3>1, Asking DEF Save
      <4> QED BY <4>1 DEF Requests
    <3>2. CASE Visit \/ Look \/ AutoRevert
      BY <2>1, <3>2, Asking DEF Visit, Look, AutoRevert
    <3> QED BY <1>6, <3>1, <3>2
  <2> QED BY <2>2 DEF CheckedInv, Handling, Distance
<1>7. CASE Receive
  <2>1. PICK m \in Message :
          \/ HandleChanged(m) \/ HandleContent(m) \/ HandleSaved(m) \/ HandleMismatch(m)
          \/ HandleInfo(m) /\ req.why \in {"visit", "look", "revert"}
    BY <1>7, Received
  <2>2. ASSUME req' = [Request("write", "save") EXCEPT !.expect = req.expect, !.force = TRUE]
        PROVE  req'.stage = "sent"
    BY <2>2, Asking DEF Requests
  <2>3. HandleMismatch(m) => req'.stage # "checked"
    BY <2>2 DEF HandleMismatch, Idle
  <2>4. HandleChanged(m) \/ HandleContent(m) \/ HandleSaved(m)
          => req' = req \/ req'.stage # "checked"
    BY DEF HandleChanged, HandleContent, HandleSaved, Idle
  <2>5. HandleInfo(m) /\ req.why \in {"visit", "look", "revert"} => req'.stage # "checked"
    BY Asking DEF HandleInfo, Idle
  <2> QED BY <2>1, <2>3, <2>4, <2>5 DEF CheckedInv, Handling, Distance
<1> QED BY <1>1, <1>2, <1>3, <1>4, <1>5, <1>6, <1>7, NextSteps

\* A save that was not forced truncates only a content whose mtime is within
\* the tolerance of the one the buffer visited, unless the file changed after
\* the check (fs.Handler.Write stats, compares and then opens).
THEOREM OverwritesSeen == Spec => NoUnseenOverwrite
<1>1. Init => CheckedInv
  BY DEF Init, CheckedInv, Handling, Idle
<1>2. TypeInv /\ Protocol /\ CheckedInv /\ [Next]_vars => CheckedInv'
  BY CheckedStep
<1>3. CheckedInv /\ [Next]_vars
        => [Handling("write", "checked") /\ disk' # disk /\ req' # req /\ ~req.force
              => disk # req.info \/ Distance(disk.mtime, req.expect) <= 2]_vars
  BY DEF CheckedInv
<1> QED BY <1>1, <1>2, <1>3, TypeInvariant, PTL DEF Spec, NoUnseenOverwrite
-----------------------------------------------------------------------------
(* Where contents come from.                                               *)

\* Every content that is under way has been on the disk.
DiskGenuine == disk.ver \in written
CbGenuine == \A k \in Callbacks : cb[k].stage = "send" => cb[k].info.ver \in written
ReqGenuine ==
    /\ req.op = "read" /\ req.stage \in {"read", "stat"} => req.info.ver \in written
    /\ Handling("write", "mismatch") => req.info.ver \in written
StreamGenuine ==
    \A i \in DOMAIN stream :
        stream[i].type \notin {"reply", "saved"} => stream[i].info.ver \in written

\* What an unforced save writes is the text of the buffer, and it is written by
\* the time it is answered.
ReqSaves ==
    /\ req.op = "write" /\ ~req.force => req.ver = buf.text
    /\ req.op = "write" /\ req.stage \in {"data", "done"} => req.ver \in written
StreamSaves ==
    \A i \in DOMAIN stream : stream[i].type = "saved" => req.ver \in written

Accounted ==
    /\ buf # None /\ ~buf.modified => buf.text \in written \cup forced
    /\ Cached => cache.ver \in written \cup forced

Genuine == /\ DiskGenuine /\ CbGenuine /\ ReqGenuine /\ StreamGenuine
           /\ ReqSaves /\ StreamSaves /\ Accounted

LEMMA DiskSteps ==
    ASSUME [Next]_vars
    PROVE  UNCHANGED <<disk, written>> \/ Put \/ WriteOpen \/ WriteData
<1>1. CASE Tick \/ Visit \/ Look \/ Kill \/ Edit \/ Save \/ AutoRevert \/ Receive \/ UNCHANGED vars
  BY <1>1 DEF Tick, Visit, Look, Kill, Edit, Save, AutoRevert, Receive, ServerVars, vars
<1>2. ASSUME NEW k \in Callbacks, CbStart(k) \/ CbRead(k) \/ CbSend(k)
      PROVE  UNCHANGED <<disk, written>>
  BY <1>2 DEF CbStart, CbRead, CbSend, CbVars
<1>3. CASE \/ InfoStat \/ InfoWatch \/ InfoReply \/ ReadContent \/ ReadStat
           \/ ReadReply \/ WriteCheck
           \/ WriteStat \/ WriteReply \/ MismatchReply
  BY <1>3 DEF InfoStat, InfoWatch, InfoReply, ReadContent, ReadStat, ReadReply, WriteCheck,
     WriteStat, WriteReply, MismatchReply, diskVars
<1>4. ASSUME NEW r \in async, OpenStat(r) \/ OpenStore(r) \/ Close(r)
      PROVE  UNCHANGED <<disk, written>>
  BY <1>4 DEF OpenStat, OpenStore, Close, AsyncVars
<1> QED BY <1>1, <1>2, <1>3, <1>4, NextSteps

\* A step that writes to the disk.
LEMMA Stores ==
    ASSUME TypeInv, Put \/ WriteOpen \/ WriteData
    PROVE  /\ disk' \in File /\ written' = written \cup {disk'.ver}
           /\ WriteOpen => disk'.ver = 0
           /\ WriteData => disk'.ver = req.ver
           /\ WriteOpen \/ WriteData => change' = "none"
           /\ UNCHANGED <<clock, meta, cb, async, stream, cache, buf, forced>>
<1>1. disk' \in File
  BY PutType DEF TypeInv, Stored
<1>2. CASE Put
  <2>1. PICK type \in Event, m \in {0, clock} :
          Store([ver |-> fresh, mtime |-> m], type,
                meta # None /\ m > meta.mtime /\ m > disk.mtime)
    BY <1>2 DEF Put
  <2>2. written' = written \cup {disk'.ver}
    BY <2>1 DEF Store
  <2>3. ~WriteOpen /\ ~WriteData
    <3>1. fresh \in Nat /\ fresh' = fresh + 1
      BY <1>2, FileSyncAssumption DEF FileSyncAssumption, Put, TypeInv, Stored
    <3>2. fresh' # fresh
      BY <3>1
    <3> QED BY <3>2 DEF WriteOpen, WriteData, ReqVars
  <2> QED BY <1>1, <1>2, <2>2, <2>3 DEF Put
<1>3. CASE WriteOpen
  <2>1. ~WriteData
    BY <1>3 DEF WriteOpen, WriteData, Handling
  <2> QED BY <1>1, <1>3, <2>1 DEF WriteOpen, Store, ReqVars
<1>4. CASE WriteData
  <2>1. ~WriteOpen
    BY <1>4 DEF WriteOpen, WriteData, Handling
  <2> QED BY <1>1, <1>4, <2>1 DEF WriteData, Store, ReqVars
<1> QED BY <1>2, <1>3, <1>4

LEMMA WrittenGrows ==
    ASSUME TypeInv, [Next]_vars
    PROVE  written \subseteq written'
BY DiskSteps, Stores

LEMMA DiskGenuineStep == ASSUME TypeInv, DiskGenuine, [Next]_vars PROVE DiskGenuine'
BY DiskSteps, Stores DEF DiskGenuine

LEMMA CallbackSteps ==
    ASSUME [Next]_vars
    PROVE  UNCHANGED cb \/ \E k \in Callbacks : CbStart(k) \/ CbRead(k) \/ CbSend(k)
<1>1. CASE \/ Put \/ Tick \/ Visit \/ Look \/ Kill \/ Edit \/ Save \/ AutoRevert \/ Receive
           \/ UNCHANGED vars
  BY <1>1 DEF Put, Tick, Visit, Look, Kill, Edit, Save, AutoRevert, Receive, ServerVars,
     vars
<1>3. CASE \/ InfoStat \/ InfoWatch \/ InfoReply \/ ReadContent \/ ReadStat
           \/ ReadReply \/ WriteCheck \/ WriteOpen
           \/ WriteData \/ WriteStat \/ WriteReply \/ MismatchReply
  BY <1>3 DEF InfoStat, InfoWatch, InfoReply, ReadContent, ReadStat, ReadReply, WriteCheck,
     WriteOpen, WriteData, WriteStat, WriteReply, MismatchReply, ReqVars
<1>4. ASSUME NEW r \in async, OpenStat(r) \/ OpenStore(r) \/ Close(r)
      PROVE  UNCHANGED cb
  BY <1>4 DEF OpenStat, OpenStore, Close, AsyncVars
<1> QED BY <1>1, <1>3, <1>4, NextSteps

\* What a callback's step does to the callback; the others stay.
LEMMA CallbackEdits ==
    ASSUME TypeInv, NEW k \in Callbacks, CbStart(k) \/ CbRead(k) \/ CbSend(k)
    PROVE  /\ \A j \in Callbacks : j # k => cb'[j] = cb[j]
           /\ CbStart(k) => cb'[k] = cb[k] \/ cb'[k].stage = "read"
           /\ CbRead(k) => cb'[k].stage = "send" /\ cb'[k].info = disk
           /\ CbSend(k) => cb'[k].stage = "idle"
           /\ UNCHANGED <<clock, disk, written, forced, async, req, cache, buf>>
<1>1. cb \in [Callbacks -> Callback] /\ cb[k] \in Callback
  BY DEF TypeInv, Tables
<1>2. UNCHANGED <<clock, disk, written, forced, async, req, cache, buf>>
  BY DEF CbStart, CbRead, CbSend, CbVars
<1>3. ASSUME CbStart(k)
      PROVE  \/ cb' = cb
             \/ \E c \in Callback : cb' = [cb EXCEPT ![k] = c] /\ c.stage = "read"
  <2>1. PICK type \in pending :
             LET st == IF type = "modified" /\ meta # None THEN StatOf(disk) ELSE None
             IN  IF st # None /\ Suppressed(st)
                 THEN UNCHANGED cb
                 ELSE cb' = [cb EXCEPT ![k] = [CbIdle EXCEPT !.stage = "read",
                                               !.type = type, !.stat = st]]
    BY <1>3 DEF CbStart
  <2>2. \A st \in Stat \cup {None} :
          /\ [CbIdle EXCEPT !.stage = "read", !.type = type, !.stat = st] \in Callback
          /\ [CbIdle EXCEPT !.stage = "read", !.type = type, !.stat = st].stage = "read"
    BY Constants DEF CbIdle, Callback, File, TypeInv, Tables
  <2>3. StatOf(disk) \in Stat
    BY Stats DEF TypeInv, Stored
  <2> QED BY <2>1, <2>2, <2>3
<1>4. CbRead(k) => cb' = [cb EXCEPT ![k] = [cb[k] EXCEPT !.stage = "send", !.info = disk]]
  BY <1>1 DEF CbRead
<1>5. CbSend(k) => cb' = [cb EXCEPT ![k] = CbIdle]
  BY DEF CbSend
<1>6. CbStart(k) => /\ \A j \in Callbacks : j # k => cb'[j] = cb[j]
                    /\ cb'[k] = cb[k] \/ cb'[k].stage = "read"
  BY <1>1, <1>3
<1>7. CbRead(k) => /\ \A j \in Callbacks : j # k => cb'[j] = cb[j]
                   /\ cb'[k].stage = "send" /\ cb'[k].info = disk
  <2>1. /\ [cb[k] EXCEPT !.stage = "send", !.info = disk].stage = "send"
        /\ [cb[k] EXCEPT !.stage = "send", !.info = disk].info = disk
    BY <1>1 DEF Callback
  <2> QED BY <1>1, <1>4, <2>1
<1>8. CbSend(k) => /\ \A j \in Callbacks : j # k => cb'[j] = cb[j]
                   /\ cb'[k].stage = "idle"
  BY <1>1, <1>5 DEF CbIdle
<1>9. /\ ~(CbStart(k) /\ CbRead(k)) /\ ~(CbStart(k) /\ CbSend(k))
      /\ ~(CbRead(k) /\ CbSend(k))
  BY DEF CbStart, CbRead, CbSend
<1> QED BY <1>2, <1>6, <1>7, <1>8

LEMMA CbGenuineStep ==
    ASSUME TypeInv, DiskGenuine, CbGenuine, [Next]_vars PROVE CbGenuine'
<1>1. CASE UNCHANGED cb
  BY <1>1, WrittenGrows DEF CbGenuine
<1>2. ASSUME NEW k \in Callbacks, CbStart(k) \/ CbRead(k) \/ CbSend(k) PROVE CbGenuine'
  <2>1. cb'[k].stage = "send" => cb'[k] = cb[k] \/ cb'[k].info = disk
    BY <1>2, CallbackEdits
  <2>2. written' = written /\ \A j \in Callbacks : j # k => cb'[j] = cb[j]
    BY <1>2, CallbackEdits
  <2> QED BY <2>1, <2>2 DEF CbGenuine, DiskGenuine
<1> QED BY <1>1, <1>2, CallbackSteps

HandlerStep == \/ InfoStat \/ InfoWatch \/ InfoReply \/ ReadContent \/ ReadStat
               \/ ReadReply \/ WriteCheck \/ WriteOpen
               \/ WriteData \/ WriteStat \/ WriteReply \/ MismatchReply

\* A step leaves the request alone, is one of its handler's, or one of the
\* client's, which makes a new request or none.
LEMMA RequestSteps ==
    ASSUME TypeInv, Protocol, [Next]_vars
    PROVE  \/ req' = req
           \/ HandlerStep
           \/ req' = Idle
           \/ /\ req.op # "write" /\ req'.stage = "sent" /\ req'.info.mtime = 0
              /\ req'.op = "write" => /\ ~req'.force /\ req'.ver = buf.text
                                      /\ buf' = buf
           \/ /\ req.op = "write" /\ req'.stage = "sent" /\ req'.info.mtime = 0
              /\ req'.op = "write" /\ req'.force /\ req'.ver = 0
<1>1. CASE Put \/ Tick \/ Kill \/ Edit \/ UNCHANGED vars
  BY <1>1 DEF Put, Tick, Kill, Edit, vars
<1>2. ASSUME NEW k \in Callbacks, CbStart(k) \/ CbRead(k) \/ CbSend(k) PROVE req' = req
  BY <1>2 DEF CbStart, CbRead, CbSend, CbVars
<1>3. ASSUME NEW r \in async, OpenStat(r) \/ OpenStore(r) \/ Close(r) PROVE req' = req
  BY <1>3 DEF OpenStat, OpenStore, Close, AsyncVars
<1>0. \A op \in {"info", "read"}, why \in {"visit", "look", "revert"} :
         /\ Request(op, why).stage = "sent" /\ Request(op, why).op # "write"
         /\ Request(op, why).info.mtime = 0
  BY Asking
<1>4. CASE Visit \/ Look \/ AutoRevert
  <2>1. \A why \in {"visit", "look", "revert"} :
          Fetch(why) => req'.stage = "sent" /\ req'.op # "write" /\ req'.info.mtime = 0
    BY <1>0 DEF Fetch
  <2>2. req.op # "write"
    BY <1>4 DEF Visit, Look, AutoRevert, Free, Idle
  <2>3. \/ req' = req
        \/ \E why \in {"visit", "look", "revert"} : Fetch(why)
    BY <1>4 DEF Visit, Look, AutoRevert
  <2> QED BY <2>1, <2>2, <2>3
<1>5. CASE Save
  <2>1. req' = [Request("write", "save") EXCEPT !.ver = buf.text, !.expect = buf.visited]
        /\ buf' = buf /\ req.op # "write"
    BY <1>5 DEF Save, clientVars, Free, Idle
  <2>2. /\ req'.stage = "sent" /\ req'.force = FALSE /\ req'.ver = buf.text
        /\ req'.info = [ver |-> 0, mtime |-> 0]
    BY <2>1, Asking DEF Requests
  <2> QED BY <2>1, <2>2
<1>6. CASE Receive
  <2>1. PICK m \in Message :
          \/ HandleChanged(m) \/ HandleContent(m)
          \/ HandleInfo(m) /\ req.op = "info" /\ req.why \in {"visit", "look", "revert"}
          \/ (HandleSaved(m) \/ HandleMismatch(m)) /\ req.op = "write"
    BY <1>6, Received
  <2>2. CASE HandleChanged(m)
    BY <2>2 DEF HandleChanged
  <2>3. CASE HandleContent(m) \/ HandleSaved(m)
    BY <2>3 DEF HandleContent, HandleSaved
  <2>5. CASE HandleInfo(m) /\ req.op = "info" /\ req.why \in {"visit", "look", "revert"}
    <3>1. req' = Idle \/ req' = Request("read", req.why)
      BY <2>5 DEF HandleInfo
    <3> QED BY <1>0, <2>5, <3>1
  <2>4. CASE HandleMismatch(m) /\ req.op = "write"
    <3>1. CASE req' = Idle
      BY <3>1
    <3>2. CASE req' = [Request("write", "save") EXCEPT !.expect = req.expect, !.force = TRUE]
      <4>1. /\ req'.stage = "sent" /\ req'.force = TRUE /\ req'.op = "write"
            /\ req'.info = [ver |-> 0, mtime |-> 0] /\ req'.ver = 0
        BY <3>2, Asking DEF Requests
      <4> QED BY <2>4, <4>1
    <3> QED BY <2>4, <3>1, <3>2 DEF HandleMismatch
  <2> QED BY <2>1, <2>2, <2>3, <2>4, <2>5
<1> QED BY <1>1, <1>2, <1>3, <1>4, <1>5, <1>6, NextSteps DEF HandlerStep

LEMMA HandlerEdits ==
    ASSUME TypeInv, HandlerStep
    PROVE  /\ req'.op = req.op /\ req'.why = req.why /\ req'.ver = req.ver
           /\ req'.force = req.force /\ req'.expect = req.expect
           /\ UNCHANGED <<clock, fresh, cb, async, cache, buf, forced>>
           /\ InfoStat => req.op = "info" /\ req'.stage = "stat"
           /\ InfoWatch => req.op = "info" /\ req'.stage = "watched"
           /\ ReadContent => /\ req.op = "read" /\ req'.stage = "read"
                             /\ req'.info = disk /\ disk' = disk
           /\ ReadStat => /\ req.op = "read" /\ req.stage = "read" /\ req'.stage = "stat"
                          /\ req'.info.ver = req.info.ver
           /\ WriteCheck => /\ req'.stage \in {"mismatch", "checked"} /\ req'.info = disk
                            /\ disk' = disk
           /\ WriteOpen => req'.stage = (IF req.ver = 0 THEN "data" ELSE "open")
                           /\ req'.info = req.info
           /\ WriteData => req'.stage = "data" /\ req'.info = req.info
           /\ WriteStat => req.stage = "data" /\ req'.stage = "done" /\ req'.info = disk
                           /\ disk' = disk
           /\ InfoReply \/ ReadReply \/ WriteReply \/ MismatchReply
                => req'.stage = "replied" /\ req'.info = req.info
<1> USE DEF TypeInv, Asked, Requests
<1> DEFINE Kept == UNCHANGED <<clock, fresh, cb, async, cache, buf, forced>>
<1>1. InfoStat => /\ req.op = "info" /\ req.stage = "sent" /\ Kept
                  /\ req' = [req EXCEPT !.stage = "stat", !.info = NoContent(disk)]
  BY DEF InfoStat, Handling, ReqVars, diskVars
<1>2. InfoWatch => /\ req.op = "info" /\ req.stage = "stat" /\ Kept
                   /\ req' = [req EXCEPT !.stage = "watched"]
  BY DEF InfoWatch, Handling, ReqVars, diskVars
<1>3. ReadContent => /\ req.op = "read" /\ req.stage = "sent" /\ Kept /\ disk' = disk
                     /\ req' = [req EXCEPT !.stage = "read", !.info = disk]
  BY DEF ReadContent, Handling, ReqVars, diskVars
<1>4. ReadStat => /\ req.op = "read" /\ req.stage = "read" /\ Kept
                  /\ req' = [req EXCEPT !.stage = "stat", !.info = Restat(req.info)]
                  /\ Restat(req.info).ver = req.info.ver
  BY Restats DEF ReadStat, Handling, ReqVars, diskVars, Stored
<1>5. WriteCheck => /\ req.op = "write" /\ req.stage = "sent" /\ Kept /\ disk' = disk
                    /\ req' = [req EXCEPT !.stage = IF Mismatch THEN "mismatch" ELSE "checked",
                                          !.info = disk]
  BY DEF WriteCheck, Handling, ReqVars, diskVars
<1>6. WriteOpen => /\ req.op = "write" /\ req.stage = "checked" /\ Kept
                   /\ req' = [req EXCEPT !.stage = IF req.ver = 0 THEN "data" ELSE "open"]
  BY DEF WriteOpen, Handling, ReqVars
<1>7. WriteData => /\ req.op = "write" /\ req.stage = "open" /\ Kept
                   /\ req' = [req EXCEPT !.stage = "data"]
  BY DEF WriteData, Handling, ReqVars
<1>8. WriteStat => /\ req.op = "write" /\ req.stage = "data" /\ Kept /\ disk' = disk
                   /\ req' = [req EXCEPT !.stage = "done", !.info = disk]
  BY DEF WriteStat, Handling, ReqVars, diskVars
<1>9. InfoReply \/ ReadReply \/ WriteReply \/ MismatchReply
        => /\ \/ req.op = "info" /\ req.stage = "watched"
              \/ req.op = "read" /\ req.stage = "stat"
              \/ req.op = "write" /\ req.stage \in {"done", "mismatch"}
           /\ Kept /\ req' = [req EXCEPT !.stage = "replied"]
  BY DEF InfoReply, ReadReply, WriteReply, MismatchReply, Handling, ReqVars, diskVars
<1>10. CASE InfoStat
  BY <1>1, <1>2, <1>3, <1>4, <1>5, <1>6, <1>7, <1>8, <1>9, <1>10
<1>11. CASE InfoWatch
  BY <1>1, <1>2, <1>3, <1>4, <1>5, <1>6, <1>7, <1>8, <1>9, <1>11
<1>12. CASE ReadContent
  BY <1>1, <1>2, <1>3, <1>4, <1>5, <1>6, <1>7, <1>8, <1>9, <1>12
<1>13. CASE ReadStat
  BY <1>1, <1>2, <1>3, <1>4, <1>5, <1>6, <1>7, <1>8, <1>9, <1>13
<1>14. CASE WriteCheck
  BY <1>1, <1>2, <1>3, <1>4, <1>5, <1>6, <1>7, <1>8, <1>9, <1>14
<1>15. CASE WriteOpen
  BY <1>1, <1>2, <1>3, <1>4, <1>5, <1>6, <1>7, <1>8, <1>9, <1>15
<1>16. CASE WriteData
  BY <1>1, <1>2, <1>3, <1>4, <1>5, <1>6, <1>7, <1>8, <1>9, <1>16
<1>17. CASE WriteStat
  BY <1>1, <1>2, <1>3, <1>4, <1>5, <1>6, <1>7, <1>8, <1>9, <1>17
<1>18. CASE InfoReply \/ ReadReply \/ WriteReply \/ MismatchReply
  BY <1>1, <1>2, <1>3, <1>4, <1>5, <1>6, <1>7, <1>8, <1>9, <1>18
<1> QED BY <1>10, <1>11, <1>12, <1>13, <1>14, <1>15, <1>16, <1>17, <1>18 DEF HandlerStep

LEMMA ReqGenuineStep ==
    ASSUME TypeInv, Protocol, DiskGenuine, ReqGenuine, [Next]_vars PROVE ReqGenuine'
<1>1. CASE req' = req
  BY <1>1, WrittenGrows DEF ReqGenuine, Handling
<1>2. CASE req' = Idle \/ req'.stage = "sent"
  BY <1>2 DEF ReqGenuine, Handling, Idle
<1>3. CASE HandlerStep
  <2>1. CASE ReadContent \/ WriteCheck
    <3>1. req'.info = disk
      BY <1>3, <2>1, HandlerEdits
    <3> QED BY <3>1, WrittenGrows DEF ReqGenuine, DiskGenuine
  <2>2. CASE ReadStat
    <3>1. /\ req.op = "read" /\ req.stage = "read" /\ req'.op = "read"
          /\ req'.info.ver = req.info.ver
      BY <1>3, <2>2, HandlerEdits
    <3> QED BY <3>1, WrittenGrows DEF ReqGenuine, Handling
  <2>4. CASE InfoStat \/ InfoWatch
    <3>1. req'.op = "info"
      BY <1>3, <2>4, HandlerEdits
    <3> QED BY <3>1 DEF ReqGenuine, Handling
  <2>3. CASE \/ WriteOpen \/ WriteData \/ WriteStat
             \/ InfoReply \/ ReadReply \/ WriteReply \/ MismatchReply
    <3>1. req'.stage \in {"open", "data", "done", "replied"}
      BY <1>3, <2>3, HandlerEdits
    <3> QED BY <3>1 DEF ReqGenuine, Handling
  <2> QED BY <1>3, <2>1, <2>2, <2>3, <2>4 DEF HandlerStep
<1> QED BY <1>1, <1>2, <1>3, RequestSteps

LEMMA ReqSavesStep ==
    ASSUME TypeInv, Protocol, ReqSaves, [Next]_vars PROVE ReqSaves'
<1>1. ASSUME req.op = "write", req'.op = "write", ~req'.force, req'.ver = req.ver,
             req'.force = req.force
      PROVE  req'.ver = buf'.text
  <2>1. buf # None /\ req' # Idle /\ req # Idle
    BY <1>1 DEF Protocol, Purpose, Idle
  <2>2. buf' # None
    <3>1. Purpose'
      BY PurposeStep
    <3> QED BY <1>1, <3>1 DEF Purpose
  <2>3. ~Edit
    BY <2>1 DEF Edit, Free
  <2>4. buf'.text = buf.text
    BY <1>1, <2>1, <2>2, <2>3, TextStep
  <2> QED BY <1>1, <2>4 DEF ReqSaves
<1>2. CASE req' = req
  BY <1>1, <1>2, WrittenGrows DEF ReqSaves
<1>3. CASE req' = Idle
  BY <1>3 DEF ReqSaves, Idle
<1>4. CASE /\ req.op # "write" /\ req'.stage = "sent"
           /\ req'.op = "write" => ~req'.force /\ req'.ver = buf.text /\ buf' = buf
  BY <1>4 DEF ReqSaves
<1>5. CASE req'.stage = "sent" /\ req'.force
  BY <1>5 DEF ReqSaves
<1>6. CASE HandlerStep
  <2>1. req'.op = req.op /\ req'.ver = req.ver /\ req'.force = req.force
    BY <1>6, HandlerEdits
  <2>2. req'.op = "write" /\ ~req'.force => req'.ver = buf'.text
    BY <1>1, <2>1
  <2>3. req'.op = "write" /\ req'.stage \in {"data", "done"} => req'.ver \in written'
    <3>1. CASE WriteOpen \/ WriteData
      <4>1. req'.stage = "data" => disk'.ver = req.ver
        BY <1>6, <3>1, HandlerEdits, Stores
      <4>2. written' = written \cup {disk'.ver}
        BY <3>1, Stores
      <4>3. WriteData => req'.stage = "data"
        BY <1>6, HandlerEdits
      <4>4. WriteOpen => req'.stage \in {"data", "open"}
        BY <1>6, HandlerEdits
      <4> QED BY <2>1, <3>1, <4>1, <4>2, <4>3, <4>4
    <3>2. CASE WriteStat
      BY <1>6, <2>1, <3>2, HandlerEdits, WrittenGrows DEF ReqSaves
    <3>3. CASE InfoStat \/ InfoWatch \/ ReadContent \/ ReadStat
      BY <2>1, <3>3 DEF InfoStat, InfoWatch, ReadContent, ReadStat, Handling
    <3>4. CASE WriteCheck \/ InfoReply \/ ReadReply \/ WriteReply \/ MismatchReply
      <4>1. req'.stage \in {"mismatch", "checked", "replied"}
        BY <1>6, <3>4, HandlerEdits
      <4> QED BY <4>1
    <3> QED BY <1>6, <3>1, <3>2, <3>3, <3>4 DEF HandlerStep
  <2> QED BY <2>2, <2>3 DEF ReqSaves
<1> QED BY <1>2, <1>3, <1>4, <1>5, <1>6, RequestSteps

LEMMA StreamGenuineStep ==
    ASSUME TypeInv, Protocol, Genuine, [Next]_vars PROVE StreamGenuine' /\ StreamSaves'
<1>0. Streamed /\ written \subseteq written'
  BY WrittenGrows DEF TypeInv
<1>1. CASE stream' = stream /\ (req' = req \/ req.stage # "replied")
  <2>1. StreamGenuine'
    BY <1>0, <1>1 DEF Genuine, StreamGenuine
  <2>2. req' # req => \A i \in DOMAIN stream : stream[i].type # "saved"
    BY <1>1 DEF Protocol, OneAnswer, Answer
  <2> QED BY <1>0, <1>1, <2>1, <2>2 DEF Genuine, StreamSaves
<1>2. ASSUME NEW m \in Message, stream' = Append(stream, m),
             m.type \notin {"reply", "saved"} => m.info.ver \in written,
             m.type = "saved" => req'.ver \in written,
             req' = req \/ req.stage # "replied"
      PROVE  StreamGenuine' /\ StreamSaves'
  <2>1. \A i \in DOMAIN stream' : \/ i \in DOMAIN stream /\ stream'[i] = stream[i]
                                  \/ stream'[i] = m
    BY <1>0, <1>2, Appended
  <2>2. StreamGenuine'
    BY <1>0, <1>2, <2>1 DEF Genuine, StreamGenuine
  <2>3. req' # req => \A i \in DOMAIN stream : stream[i].type # "saved"
    BY <1>2 DEF Protocol, OneAnswer, Answer
  <2> QED BY <1>0, <1>2, <2>1, <2>2, <2>3 DEF Genuine, StreamSaves
<1>3. CASE stream # <<>> /\ stream' = Tail(stream)
           /\ (Head(stream).type \in Answer \/ req' = req)
  <2>1. /\ 1 \in DOMAIN stream /\ Head(stream) = stream[1]
        /\ \A i \in DOMAIN stream' : /\ i \in Nat /\ i + 1 \in DOMAIN stream /\ i + 1 # 1
                                     /\ stream'[i] = stream[i + 1]
    BY <1>0, <1>3, Taken
  <2>2. StreamGenuine'
    BY <1>0, <2>1 DEF Genuine, StreamGenuine
  <2>3. Head(stream).type \in Answer
          => \A i \in DOMAIN stream' : stream'[i].type # "saved"
    BY <2>1 DEF Protocol, OneAnswer, Answer
  <2>4. req' = req => StreamSaves'
    BY <1>0, <2>1 DEF Genuine, StreamSaves
  <2> QED BY <1>3, <2>2, <2>3, <2>4 DEF StreamSaves
<1>4. ASSUME NEW k \in Callbacks, CbSend(k) PROVE StreamGenuine' /\ StreamSaves'
  <2>1. cb[k].info \in File /\ cb[k].type \in Event /\ Restat(cb[k].info) \in File
        /\ Restat(cb[k].info).ver = cb[k].info.ver
    BY Restats DEF TypeInv, Tables, Callback, Stored
  <2>2. PICK info \in File : /\ stream' = Append(stream, [type |-> cb[k].type, info |-> info])
                             /\ info.ver = cb[k].info.ver
    BY <1>4, <2>1 DEF CbSend, Send
  <2>3. [type |-> cb[k].type, info |-> info] \in Message /\ cb[k].type # "saved"
    BY <2>1 DEF Message, Event
  <2>4. cb[k].info.ver \in written /\ req' = req
    BY <1>4 DEF CbSend, CbVars, Genuine, CbGenuine
  <2> QED BY <1>2, <2>2, <2>3, <2>4
<1>5. CASE InfoReply \/ ReadReply \/ MismatchReply \/ WriteReply
  <2>1. req.info \in File /\ Restat(req.info) \in File /\ Restat(req.info).ver = req.info.ver
    BY Restats DEF TypeInv, Asked, Requests, Stored
  <2>2. /\ req'.ver = req.ver /\ req.stage # "replied"
    BY <1>5, HandlerEdits DEF HandlerStep, InfoReply, ReadReply, MismatchReply, WriteReply,
       Handling
  <2>3. CASE ReadReply \/ MismatchReply
    <3>1. PICK t \in {"content", "mismatch"}, info \in File :
             stream' = Append(stream, [type |-> t, info |-> info]) /\ info.ver = req.info.ver
      BY <2>1, <2>3 DEF ReadReply, MismatchReply, Send
    <3>2. [type |-> t, info |-> info] \in Message /\ t # "saved"
      BY DEF Message, Answer
    <3>3. req.info.ver \in written
      BY <2>3 DEF ReadReply, MismatchReply, Handling, Genuine, ReqGenuine
    <3> QED BY <1>2, <2>2, <3>1, <3>2, <3>3
  <2>5. CASE InfoReply
    <3>1. stream' = Append(stream, [type |-> "reply", info |-> req.info])
      BY <2>5 DEF InfoReply, Send
    <3>2. [type |-> "reply", info |-> req.info] \in Message
      BY <2>1 DEF Message, Answer
    <3> QED BY <1>2, <2>2, <3>1, <3>2
  <2>4. CASE WriteReply
    <3>1. stream' = Append(stream, [type |-> "saved", info |-> req.info])
      BY <2>4 DEF WriteReply, Send
    <3>2. [type |-> "saved", info |-> req.info] \in Message
      BY <2>1 DEF Message, Answer
    <3>3. req.ver \in written
      BY <2>4 DEF WriteReply, Handling, Genuine, ReqSaves
    <3> QED BY <1>2, <2>2, <3>1, <3>2, <3>3
  <2> QED BY <1>5, <2>3, <2>4, <2>5
<1>6. ASSUME NEW m \in Message, stream' = Append(stream, m)
      PROVE  \/ \E k \in Callbacks : CbSend(k)
             \/ InfoReply \/ ReadReply \/ MismatchReply \/ WriteReply
  <2>1. stream' # stream
    BY <1>0, <1>6 DEF Streamed
  <2>2. CASE \/ Put \/ Tick \/ Visit \/ Look \/ Kill \/ Edit \/ Save \/ AutoRevert
             \/ UNCHANGED vars
    BY <2>1, <2>2 DEF Put, Tick, Visit, Look, Kill, Edit, Save, AutoRevert, vars
  <2>3. ASSUME NEW k \in Callbacks, CbStart(k) \/ CbRead(k) PROVE FALSE
    BY <2>1, <2>3 DEF CbStart, CbRead
  <2>4. CASE \/ InfoStat \/ InfoWatch \/ ReadContent \/ ReadStat \/ WriteCheck
             \/ WriteOpen \/ WriteData \/ WriteStat
    BY <2>1, <2>4 DEF InfoStat, InfoWatch, ReadContent, ReadStat, WriteCheck, WriteOpen,
       WriteData, WriteStat
  <2>5. ASSUME NEW r \in async, OpenStat(r) \/ OpenStore(r) \/ Close(r) PROVE FALSE
    BY <2>1, <2>5 DEF OpenStat, OpenStore, Close, AsyncVars
  <2>6. CASE Receive
    <3>1. stream # <<>> /\ stream' = Tail(stream)
      BY <2>6 DEF Receive
    <3>2. Len(Append(stream, m)) = Len(stream) + 1 /\ Len(Tail(stream)) = Len(stream) - 1
          /\ Len(stream) \in Nat
      BY <1>0, <3>1 DEF Streamed
    <3> QED BY <1>6, <3>1, <3>2
  <2> QED BY <2>2, <2>3, <2>4, <2>5, <2>6, NextSteps
<1> QED BY <1>1, <1>3, <1>4, <1>5, <1>6, WireStep

LEMMA AccountedStep ==
    ASSUME TypeInv, Protocol, Genuine, [Next]_vars PROVE Accounted'
<1> USE DEF Genuine
<1>0. /\ written \subseteq written' /\ forced \subseteq forced'
      /\ buf # None => buf \in Buffer
  <2> SUFFICES forced \subseteq forced'
    BY WrittenGrows DEF TypeInv, Shown
  <2>1. CASE Receive
    BY <2>1 DEF Receive, HandleChanged, HandleInfo, HandleContent, HandleSaved,
       HandleMismatch
  <2>2. CASE \/ Put \/ Tick \/ Visit \/ Look \/ Kill \/ Edit \/ Save \/ AutoRevert
             \/ UNCHANGED vars
    BY <2>2 DEF Put, Tick, Visit, Look, Kill, Edit, Save, AutoRevert, clientVars, vars
  <2>3. ASSUME NEW k \in Callbacks, CbStart(k) \/ CbRead(k) \/ CbSend(k)
        PROVE forced' = forced
    BY <2>3 DEF CbStart, CbRead, CbSend, CbVars
  <2>4. CASE HandlerStep
    BY <2>4, HandlerEdits
  <2>5. ASSUME NEW r \in async, OpenStat(r) \/ OpenStore(r) \/ Close(r) PROVE forced' = forced
    BY <2>5 DEF OpenStat, OpenStore, Close, AsyncVars
  <2> QED BY <2>1, <2>2, <2>3, <2>4, <2>5, NextSteps DEF HandlerStep
<1>1. CASE UNCHANGED <<cache, buf>>
  BY <1>0, <1>1 DEF Accounted, Cached
<1>2. CASE Visit \/ Kill \/ AutoRevert
  <2>1. UNCHANGED cache
    BY <1>2 DEF Visit, Kill, AutoRevert
  <2>2. cache # None => BufOf(cache).text = cache.ver
    BY Buffers DEF TypeInv, Shown
  <2>3. \/ buf' \in {None, buf}
        \/ Cached /\ cache # None /\ buf' = BufOf(cache)
        \/ buf # None /\ buf' = [buf EXCEPT !.changed = FALSE]
    BY <1>2 DEF Visit, Kill, AutoRevert, Cached, OpenBuffer, Stale
  <2>4. buf # None /\ buf' = [buf EXCEPT !.changed = FALSE]
          => buf'.text = buf.text /\ buf'.modified = buf.modified
    BY <1>0 DEF Buffer
  <2> QED BY <1>0, <2>1, <2>2, <2>3, <2>4 DEF Accounted, Cached
<1>3. CASE Edit
  <2>1. buf'.modified /\ cache' = cache
    BY <1>0, <1>3 DEF Edit, Buffer
  <2> QED BY <1>0, <2>1 DEF Accounted, Cached
<1>4. CASE Receive
  <2>1. PICK m \in Message :
          /\ stream # <<>> /\ m = Head(stream)
          /\ m.info \in File
          /\ \/ HandleChanged(m) /\ m.type \in Event
             \/ HandleInfo(m)
             \/ HandleContent(m) /\ m.type = "content" /\ req.why \in {"visit", "revert"}
                /\ (req.why = "revert" => buf # None)
             \/ (HandleSaved(m) \/ HandleMismatch(m)) /\ m.type \in {"saved", "mismatch"}
                /\ buf # None /\ buf.modified /\ req.op = "write"
    BY <1>4, Received
  <2>2. m = stream[1] /\ 1 \in DOMAIN stream
    BY <2>1, Taken DEF TypeInv
  <2>3. m.type \notin {"reply", "saved"} => m.info.ver \in written
    BY <2>2 DEF StreamGenuine
  <2>8. NoContent(m.info) # None /\ NoContent(m.info).ver = 0
    BY <2>1, Emptied, Constants
  <2>4. CASE HandleChanged(m) /\ m.type \in Event
    <3>1. cache' = None \/ cache' = m.info
      BY <2>4 DEF HandleChanged
    <3>2. m.info.ver \in written
      BY <2>3, <2>4 DEF Event
    <3>3. buf = None => buf' = None
      BY <2>4 DEF HandleChanged
    <3>4. buf # None => buf'.text = buf.text /\ buf'.modified = buf.modified
      BY <1>0, <2>1, <2>4, Notifieds DEF HandleChanged
    <3> QED BY <1>0, <3>1, <3>2, <3>3, <3>4 DEF Accounted, Cached
  <2>9. CASE HandleInfo(m)
    <3>1. cache' = NoContent(m.info) /\ buf' = buf
      BY <2>9 DEF HandleInfo
    <3> QED BY <1>0, <2>8, <3>1 DEF Accounted, Cached
  <2>5. CASE HandleContent(m) /\ m.type = "content" /\ req.why \in {"visit", "revert"}
             /\ (req.why = "revert" => buf # None)
    <3>1. BufOf(m.info) \in Buffer /\ BufOf(m.info).text = m.info.ver
      BY <2>1, Buffers
    <3>2. [BufOf(m.info) EXCEPT !.changed = buf.changed].text = m.info.ver
      BY <3>1 DEF Buffer
    <3>3. \/ UNCHANGED <<cache, buf>>
          \/ cache' = NoContent(m.info) /\ buf'.text = m.info.ver
      BY <2>5, <3>1, <3>2 DEF HandleContent, OpenBuffer
    <3>4. m.info.ver \in written
      BY <2>3, <2>5
    <3> QED BY <1>0, <1>1, <2>8, <3>3, <3>4 DEF Accounted, Cached
  <2>6. CASE HandleSaved(m)
    <3>1. /\ m.type = "saved" /\ buf # None /\ req.op = "write"
      BY <2>1, <2>6 DEF HandleSaved, HandleChanged, HandleInfo, HandleContent, Event
    <3>2. /\ cache' = NoContent(m.info)
          /\ forced' = IF req.force THEN forced \cup {buf.text} ELSE forced
      BY <2>6 DEF HandleSaved
    <3>3. buf'.text = buf.text
      BY <1>0, <2>6, <3>1 DEF HandleSaved, Buffer
    <3>4. req.ver \in written
      BY <2>2, <3>1 DEF StreamSaves
    <3>5. buf.text \in written \cup forced'
      BY <3>1, <3>2, <3>4 DEF ReqSaves
    <3> QED BY <1>0, <2>8, <3>2, <3>3, <3>5 DEF Accounted, Cached
  <2>7. CASE HandleMismatch(m)
    <3>1. m.type = "mismatch" /\ cache' = m.info /\ buf' = buf
      BY <2>7 DEF HandleMismatch
    <3> QED BY <1>0, <2>3, <3>1 DEF Accounted, Cached
  <2> QED BY <2>1, <2>4, <2>5, <2>6, <2>7, <2>9
<1> QED BY <1>1, <1>2, <1>3, <1>4, BufferSteps

LEMMA GenuineInvariant == Spec => [](TypeInv /\ Protocol /\ Genuine)
<1>1. Init => Genuine
  <2> SUFFICES ASSUME Init PROVE Genuine
    OBVIOUS
  <2>1. DiskGenuine /\ ReqGenuine /\ StreamGenuine /\ ReqSaves /\ StreamSaves /\ Accounted
    BY DEF Init, DiskGenuine, ReqGenuine, StreamGenuine, ReqSaves, StreamSaves, Accounted,
       Cached, Idle, Handling
  <2>2. CbGenuine
    BY DEF Init, CbGenuine, CbIdle
  <2> QED BY <2>1, <2>2 DEF Genuine
<1>2. TypeInv /\ Protocol /\ Genuine /\ [Next]_vars => Genuine'
  BY DiskGenuineStep, CbGenuineStep, ReqGenuineStep, StreamGenuineStep, ReqSavesStep,
     AccountedStep DEF Genuine
<1> QED BY <1>1, <1>2, TypeInvariant, PTL DEF Spec

\* A buffer that counts as saved shows a text that was on the disk, or one whose
\* save the user had forced, whose second request carries no payload
\* (flit--write, flit--handle-write-mismatch).
THEOREM SavesWritten == Spec => []OnlyForcedSavesLost
<1>1. Genuine => OnlyForcedSavesLost
  BY DEF Genuine, Accounted, OnlyForcedSavesLost
<1> QED BY <1>1, GenuineInvariant, PTL
-----------------------------------------------------------------------------
(* Ordinary changes.                                                       *)

\* No stat or mtime lies in the future.
Past ==
    /\ disk.mtime <= clock
    /\ \A r \in async : r.stat # None => r.stat.mtime <= clock
    /\ req.op = "write" => req.info.mtime <= clock

\* While a change is owed, what fs/open and fs/write will store is not later.
Recent ==
    /\ \A r \in async : r.stat # None => r.stat.mtime <= disk.mtime
    /\ Handling("write", "done") => req.info.mtime <= disk.mtime

Unsuppressed == ~Suppressed(StatOf(disk))

\* What will tell of the content on the disk, or replace it.
PendingCarries == "deleted" \in pending \/ ("modified" \in pending /\ Unsuppressed)
CallbackCarries(k) ==
    cb[k].stage = "read" \/ (cb[k].stage = "send" /\ cb[k].info.ver = disk.ver)
RequestCarries ==
    \/ Handling("write", "checked")
    \/ Handling("write", "mismatch") /\ req.info.ver = disk.ver
Carried == PendingCarries \/ RequestCarries \/ \E k \in Callbacks : CallbackCarries(k)

OwedInv == change = "owed" => meta # None /\ Recent /\ Carried

\* An equal mtime and an equal size make an equal stat: a stat that is not the
\* disk's and not later than it does not suppress it.
LEMMA OlderStat ==
    ASSUME disk \in File, meta \in Stat, meta.mtime <= disk.mtime, meta # StatOf(disk)
    PROVE  Unsuppressed
<1>1. StatOf(disk) \in Stat /\ StatOf(disk).mtime = disk.mtime /\ disk.mtime \in Nat
  BY Stats, Constants
<1>2. meta.mtime = StatOf(disk).mtime /\ meta.size = StatOf(disk).size => meta = StatOf(disk)
  BY <1>1 DEF Stat
<1>3. meta.mtime \in Nat
  BY Constants DEF Stat
<1> QED BY <1>1, <1>2, <1>3 DEF Unsuppressed, Suppressed

\* Time passes, and what is put on the disk carries the present second or 0.
LEMMA ClockSteps ==
    ASSUME TypeInv, Protocol, [Next]_vars
    PROVE  /\ clock \in Nat /\ clock' \in Nat /\ clock <= clock'
           /\ disk' = disk \/ (disk'.mtime \in {0, clock} /\ clock' = clock)
<1>1. clock \in Nat /\ clock' \in Nat
  <2>1. TypeInv'
    BY TypeStep
  <2> QED BY <2>1, Constants DEF TypeInv, Stored
<1>2. clock <= clock'
  <2>1. CASE Tick
    BY <2>1, <1>1, Constants DEF Tick
  <2>2. CASE clock' = clock
    BY <1>1, <2>2
  <2>3. CASE Visit \/ Look \/ Kill \/ Edit \/ Save \/ AutoRevert \/ Receive \/ Put \/ UNCHANGED vars
    BY <2>2, <2>3 DEF Put, Visit, Look, Kill, Edit, Save, AutoRevert, Receive, ServerVars,
       vars
  <2>4. ASSUME NEW k \in Callbacks, CbStart(k) \/ CbRead(k) \/ CbSend(k)
        PROVE  clock' = clock
    BY <2>4 DEF CbStart, CbRead, CbSend, CbVars
  <2>5. ASSUME NEW r \in async, OpenStat(r) \/ OpenStore(r) \/ Close(r)
        PROVE  clock' = clock
    BY <2>5 DEF OpenStat, OpenStore, Close, AsyncVars
  <2>6. CASE HandlerStep
    BY <2>2, <2>6, HandlerEdits
  <2> QED BY <2>1, <2>2, <2>3, <2>4, <2>5, <2>6, NextSteps DEF HandlerStep
<1>3. ASSUME Put \/ WriteOpen \/ WriteData PROVE disk'.mtime \in {0, clock} /\ clock' = clock
  <2>1. CASE Put
    <3>1. PICK type \in Event, m \in {0, clock} :
            Store([ver |-> fresh, mtime |-> m], type,
                  meta # None /\ m > meta.mtime /\ m > disk.mtime)
      BY <2>1 DEF Put
    <3> QED BY <1>3, <3>1, Stores DEF Store
  <2>2. CASE WriteOpen \/ WriteData
    BY <2>2, Stores DEF WriteOpen, WriteData, Store
  <2> QED BY <1>3, <2>1, <2>2
<1> QED BY <1>1, <1>2, <1>3, DiskSteps

\* An fs/open under way is an old one, a new one without a stat, or one that has
\* just taken the disk's.
LEMMA OrderSteps ==
    ASSUME TypeInv, [Next]_vars
    PROVE  \A r \in async' : \/ r \in async \/ r.stat = None
                             \/ r.stat = StatOf(disk) /\ disk' = disk /\ req' = req
<1>1. CASE async' \subseteq async
  BY <1>1
<1>2. CASE Put \/ Tick \/ Look \/ Edit \/ Save \/ AutoRevert \/ UNCHANGED vars
  BY <1>2 DEF Put, Tick, Look, Edit, Save, AutoRevert, vars
<1>3. CASE Visit \/ Kill
  BY <1>3 DEF Visit, Kill, OpenBuffer
<1>4. CASE Receive
  <2>1. async' = async \/ async' = async \cup {[op |-> "open", stat |-> None]}
    BY <1>4 DEF Receive, HandleChanged, HandleInfo, HandleContent, HandleSaved,
       HandleMismatch, OpenBuffer
  <2> QED BY <2>1
<1>5. ASSUME NEW k \in Callbacks, CbStart(k) \/ CbRead(k) \/ CbSend(k) PROVE async' = async
  BY <1>5 DEF CbStart, CbRead, CbSend, CbVars
<1>6. ASSUME NEW r \in async, OpenStore(r) \/ Close(r) PROVE async' \subseteq async
  BY <1>6 DEF OpenStore, Close
<1>7. ASSUME NEW r \in async, OpenStat(r)
      PROVE  /\ async' = (async \ {r}) \cup {[r EXCEPT !.stat = StatOf(disk)]}
             /\ disk' = disk /\ req' = req
  BY <1>7 DEF OpenStat, AsyncVars
<1>8. ASSUME NEW r \in async, OpenStat(r), NEW q \in async'
      PROVE  q \in async \/ q.stat = StatOf(disk)
  <2>1. [r EXCEPT !.stat = StatOf(disk)].stat = StatOf(disk)
    BY DEF TypeInv, Tables, Order
  <2> QED BY <1>7, <1>8, <2>1
<1>9. CASE \/ InfoStat \/ InfoWatch \/ InfoReply \/ ReadContent \/ ReadStat
           \/ ReadReply \/ WriteCheck \/ WriteOpen
           \/ WriteData \/ WriteStat \/ WriteReply \/ MismatchReply
  BY <1>9 DEF InfoStat, InfoWatch, InfoReply, ReadContent, ReadStat, ReadReply, WriteCheck,
     WriteOpen, WriteData, WriteStat, WriteReply, MismatchReply, ReqVars
<1> QED BY <1>1, <1>2, <1>3, <1>4, <1>5, <1>6, <1>7, <1>8, <1>9, NextSteps

LEMMA PastStep == ASSUME TypeInv, Protocol, Past, [Next]_vars PROVE Past'
<1> USE DEF Past
<1>0. /\ disk.mtime \in Nat /\ clock \in Nat /\ clock' \in Nat /\ clock <= clock'
      /\ req.info.mtime \in Nat
      /\ \A r \in async : r.stat # None => r.stat.mtime \in Nat
  BY ClockSteps, Constants DEF TypeInv, Stored, File, Asked, Requests, Tables, Order, Stat
<1>1. disk'.mtime <= clock'
  BY <1>0, ClockSteps
<1>2. ASSUME NEW r \in async', r.stat # None PROVE r.stat.mtime <= clock'
  <2>1. StatOf(disk).mtime = disk.mtime
    BY Stats DEF TypeInv, Stored
  <2>2. r \in async \/ r.stat = StatOf(disk)
    BY <1>2, OrderSteps
  <2> QED BY <1>0, <1>2, <2>1, <2>2
<1>3. ASSUME req'.op = "write" PROVE req'.info.mtime <= clock'
  <2>1. CASE req' = req
    BY <1>0, <1>3, <2>1
  <2>2. CASE req'.info.mtime = 0
    BY <1>0, <2>2
  <2>3. CASE HandlerStep
    <3>1. req.op = "write"
      BY <1>3, <2>3, HandlerEdits
    <3>2. ~InfoStat /\ ~InfoWatch /\ ~ReadContent /\ ~ReadStat
      BY <3>1 DEF InfoStat, InfoWatch, ReadContent, ReadStat, Handling
    <3>3. req'.info = disk \/ req'.info = req.info
      BY <2>3, <3>2, HandlerEdits DEF HandlerStep
    <3> QED BY <1>0, <3>1, <3>3
  <2>4. req' # Idle
    BY <1>3 DEF Idle
  <2> QED BY <2>1, <2>2, <2>3, <2>4, RequestSteps
<1> QED BY <1>1, <1>2, <1>3

\* An ordinary change comes with an event.
LEMMA PutOwes ==
    ASSUME TypeInv, Past, Put, change' = "owed"
    PROVE  meta' # None /\ Recent' /\ Carried'
<1>1. PICK type \in Event, m \in {0, clock} :
        Store([ver |-> fresh, mtime |-> m], type,
              meta # None /\ m > meta.mtime /\ m > disk.mtime)
  BY DEF Put
<1>2. meta # None /\ m > meta.mtime /\ m > disk.mtime
  BY <1>1 DEF Store
<1>3. /\ disk' = [ver |-> fresh, mtime |-> m] /\ pending' \subseteq Event /\ pending' # {}
      /\ UNCHANGED <<clock, meta, cb, async, req, stream, cache, buf>>
  BY <1>1, <1>2 DEF Store, Put, TypeInv, Tables
<1>4. meta \in Stat /\ disk \in File /\ meta.mtime \in Nat /\ disk.mtime \in Nat
      /\ clock \in Nat
  BY <1>2, Constants DEF TypeInv, Tables, Stored, Stat, File
<1>5. m = clock
  BY <1>2, <1>4
<1>6. Recent'
  <2>1. \A r \in async' : r.stat # None => r.stat.mtime <= disk'.mtime
    BY <1>3, <1>5 DEF Past
  <2>2. Handling("write", "done")' => req'.info.mtime <= disk'.mtime
    BY <1>3, <1>5 DEF Past, Handling
  <2> QED BY <2>1, <2>2 DEF Recent
<1>7. Unsuppressed'
  <2>1. StatOf(disk').mtime = m
    BY <1>3 DEF StatOf
  <2>2. Suppressed(StatOf(disk))' => m <= meta.mtime
    BY <1>3, <1>4, <1>5, <2>1 DEF Suppressed, StatOf
  <2>3. ~Suppressed(StatOf(disk))'
    BY <1>2, <1>4, <1>5, <2>1, <2>2
  <2> QED BY <2>3 DEF Unsuppressed
<1>8. PendingCarries'
  BY <1>3, <1>7 DEF PendingCarries, Event
<1> QED BY <1>2, <1>3, <1>6, <1>8 DEF Carried

\* Only an ordinary change makes one owed.
LEMMA OwedBefore ==
    ASSUME [Next]_vars, change' = "owed", ~Put
    PROVE  change = "owed" /\ disk' = disk
<1>1. ~WriteOpen /\ ~WriteData
  BY DEF WriteOpen, WriteData, Store
<1>2. CASE Tick \/ Visit \/ Look \/ Kill \/ Edit \/ Save \/ AutoRevert \/ Receive \/ UNCHANGED vars
  BY <1>2 DEF Tick, Visit, Look, Kill, Edit, Save, AutoRevert, Receive, ServerVars, vars
<1>3. ASSUME NEW k \in Callbacks, CbStart(k) \/ CbRead(k) \/ CbSend(k)
      PROVE  change = "owed"
  BY <1>3 DEF CbStart, CbRead, CbSend, Telling
<1>4. ASSUME NEW r \in async, OpenStat(r) \/ OpenStore(r) \/ Close(r) PROVE change = "owed"
  BY <1>4 DEF OpenStat, OpenStore, Close, Adopting
<1>5. CASE \/ InfoStat \/ InfoWatch \/ InfoReply \/ ReadContent \/ ReadStat
           \/ ReadReply \/ WriteCheck
           \/ WriteStat \/ WriteReply \/ MismatchReply
  BY <1>5 DEF InfoStat, InfoWatch, InfoReply, ReadContent, ReadStat, ReadReply, WriteCheck,
     WriteStat, WriteReply, MismatchReply, Adopting, Telling, diskVars
<1> QED BY <1>1, <1>2, <1>3, <1>4, <1>5, NextSteps, DiskSteps

LEMMA RecentStep ==
    ASSUME TypeInv, Protocol, Recent, disk' = disk, [Next]_vars
    PROVE  Recent'
<1>0. disk.mtime \in Nat
  BY Constants DEF TypeInv, Stored, File
<1>1. ASSUME NEW r \in async', r.stat # None PROVE r.stat.mtime <= disk'.mtime
  <2>1. StatOf(disk).mtime = disk.mtime
    BY Stats DEF TypeInv, Stored
  <2>2. r \in async \/ r.stat = StatOf(disk)
    BY <1>1, OrderSteps
  <2> QED BY <1>0, <1>1, <2>1, <2>2 DEF Recent
<1>2. ASSUME req'.op = "write", req'.stage = "done" PROVE req'.info.mtime <= disk'.mtime
  <2>1. CASE req' = req
    BY <1>2, <2>1 DEF Recent, Handling
  <2>2. CASE HandlerStep
    <3>1. WriteStat
      BY <1>2, <2>2, HandlerEdits DEF HandlerStep
    <3>2. req'.info = disk
      BY <2>2, <3>1, HandlerEdits
    <3> QED BY <1>0, <3>2
  <2>3. req' # Idle /\ req'.stage # "sent"
    BY <1>2 DEF Idle
  <2> QED BY <2>1, <2>2, <2>3, RequestSteps
<1> QED BY <1>1, <1>2 DEF Recent, Handling

\* What carries the change goes on, while the disk, the stored state, the events
\* and the callbacks are left alone and a request ends only once it is answered.
LEMMA CarriedAlong ==
    ASSUME Carried, UNCHANGED <<disk, meta, pending, cb>>,
           req' = req \/ ~RequestCarries
    PROVE  Carried'
<1>1. PendingCarries => PendingCarries'
  BY DEF PendingCarries, Unsuppressed, Suppressed, StatOf
<1>2. \A k \in Callbacks : CallbackCarries(k) => CallbackCarries(k)'
  BY DEF CallbackCarries
<1>3. RequestCarries => RequestCarries'
  BY DEF RequestCarries, Handling
<1> QED BY <1>1, <1>2, <1>3 DEF Carried

LEMMA CallbackCarriesOn ==
    ASSUME TypeInv, meta # None, Carried, change' = "owed",
           NEW k \in Callbacks, CbStart(k) \/ CbRead(k) \/ CbSend(k)
    PROVE  meta' # None /\ Carried'
<1>0. /\ \A j \in Callbacks : j # k => cb'[j] = cb[j]
      /\ UNCHANGED <<disk, req>>
  BY CallbackEdits
<1>1. RequestCarries => RequestCarries'
  BY <1>0 DEF RequestCarries, Handling
<1>2. \A j \in Callbacks : j # k /\ CallbackCarries(j) => CallbackCarries(j)'
  BY <1>0 DEF CallbackCarries
<1>3. CASE CbStart(k)
  <2>1. PICK type \in pending :
          /\ pending' = pending \ {type}
          /\ LET st == IF type = "modified" /\ meta # None THEN StatOf(disk) ELSE None
             IN  IF st # None /\ Suppressed(st)
                 THEN UNCHANGED cb
                 ELSE cb' = [cb EXCEPT ![k] = [CbIdle EXCEPT !.stage = "read",
                                               !.type = type, !.stat = st]]
    BY <1>3 DEF CbStart
  <2>2. meta' = meta /\ cb[k].stage = "idle"
    BY <1>3 DEF CbStart
  <2>3. CASE type = "modified" /\ Suppressed(StatOf(disk))
    <3>1. cb' = cb
      <4>1. StatOf(disk) # None
        BY Stats DEF TypeInv, Stored
      <4> QED BY <2>1, <2>3, <4>1
    <3>2. PendingCarries => PendingCarries'
      BY <2>1, <2>3 DEF PendingCarries, Unsuppressed
    <3>3. ~CallbackCarries(k)
      BY <2>2 DEF CallbackCarries
    <3> QED BY <1>1, <1>2, <2>2, <3>2, <3>3 DEF Carried
  <2>4. CASE ~(type = "modified" /\ Suppressed(StatOf(disk)))
    <3>1. PICK st \in Stat \cup {None} :
            cb' = [cb EXCEPT ![k] = [CbIdle EXCEPT !.stage = "read", !.type = type, !.stat = st]]
      <4>1. StatOf(disk) \in Stat
        BY Stats DEF TypeInv, Stored
      <4> QED BY <2>1, <2>4, <4>1
    <3>2. [CbIdle EXCEPT !.stage = "read", !.type = type, !.stat = st].stage = "read"
      BY DEF CbIdle
    <3>3. cb'[k].stage = "read"
      BY <3>1, <3>2 DEF TypeInv, Tables
    <3> QED BY <2>2, <3>3 DEF Carried, CallbackCarries
  <2> QED BY <2>3, <2>4
<1>4. CASE CbRead(k)
  <2>1. cb'[k].stage = "send" /\ cb'[k].info = disk
    BY <1>4, CallbackEdits
  <2>2. meta' # None
    BY <1>4 DEF CbRead
  <2> QED BY <1>0, <2>1, <2>2 DEF Carried, CallbackCarries
<1>5. CASE CbSend(k)
  <2>1. meta' = meta /\ pending' = pending
    BY <1>5 DEF CbSend
  <2>2. cb[k].stage = "send" /\ cb[k].info.ver # disk.ver
    <3>1. Restat(cb[k].info).ver = cb[k].info.ver
      BY Restats DEF TypeInv, Stored, Tables, Callback
    <3>2. cb[k].info.ver # disk.ver
      BY <1>5, <3>1 DEF CbSend, Telling
    <3> QED BY <1>5, <3>2 DEF CbSend
  <2>3. ~CallbackCarries(k)
    BY <2>2 DEF CallbackCarries
  <2>4. PendingCarries => PendingCarries'
    BY <1>0, <2>1 DEF PendingCarries, Unsuppressed, Suppressed, StatOf
  <2> QED BY <1>1, <1>2, <2>1, <2>3, <2>4 DEF Carried
<1> QED BY <1>3, <1>4, <1>5

\* A stat that fs/open or fs/write stores is the disk's, and adopts the change, or
\* leaves the event that is pending unsuppressed.
LEMMA StoredStat ==
    ASSUME TypeInv, Carried, NEW st \in Stat, meta' = st, st.mtime <= disk.mtime,
           change = "owed", change' = "owed", Adopting(st),
           UNCHANGED <<disk, pending, cb>>, req' = req \/ ~RequestCarries
    PROVE  meta' # None /\ Carried'
<1>1. st # StatOf(disk)
  BY DEF Adopting
<1>2. st # None
  BY Constants
<1>3. Unsuppressed'
  <2>1. disk' = disk
    OBVIOUS
  <2>2. disk'.mtime \in Nat /\ st.mtime \in Nat /\ StatOf(disk') \in Stat
        /\ StatOf(disk').mtime = disk'.mtime
    BY <2>1, Stats, Constants DEF TypeInv, Stored, Stat, File
  <2>3. st.mtime = StatOf(disk').mtime /\ st.size = StatOf(disk').size => st = StatOf(disk')
    BY <2>2 DEF Stat
  <2>4. st # StatOf(disk')
    BY <1>1, <2>1
  <2>5. ~Suppressed(StatOf(disk))'
    BY <2>1, <2>2, <2>3, <2>4 DEF Suppressed
  <2> QED BY <2>5 DEF Unsuppressed
<1>4. PendingCarries => PendingCarries'
  BY <1>3 DEF PendingCarries
<1>5. \A k \in Callbacks : CallbackCarries(k) => CallbackCarries(k)'
  BY DEF CallbackCarries
<1>6. RequestCarries => RequestCarries'
  BY DEF RequestCarries, Handling
<1> QED BY <1>2, <1>4, <1>5, <1>6 DEF Carried

LEMMA CarriedStep ==
    ASSUME TypeInv, Protocol, meta # None, Recent, Carried, change = "owed",
           disk' = disk, change' = "owed", ~Put, [Next]_vars
    PROVE  meta' # None /\ Carried'
<1>1. CASE Tick \/ Visit \/ Look \/ Kill \/ Edit \/ Save \/ AutoRevert \/ UNCHANGED vars
  <2>1. UNCHANGED <<disk, meta, pending, cb>>
    BY <1>1 DEF Tick, Visit, Look, Kill, Edit, Save, AutoRevert, ServerVars, vars
  <2>2. req' = req \/ req = Idle
    BY <1>1 DEF Tick, Visit, Look, Kill, Edit, Save, AutoRevert, Free, vars
  <2>3. req = Idle => ~RequestCarries
    BY DEF RequestCarries, Handling, Idle
  <2> QED BY <2>1, <2>2, <2>3, CarriedAlong
<1>2. CASE Receive
  <2>1. PICK m \in Message :
          /\ UNCHANGED <<disk, pending, meta, cb>>
          /\ HandleChanged(m) \/ req.stage = "replied"
    BY <1>2, Received
  <2>2. req' = req \/ ~RequestCarries
    BY <2>1 DEF HandleChanged, RequestCarries, Handling
  <2> QED BY <2>1, <2>2, CarriedAlong
<1>3. ASSUME NEW k \in Callbacks, CbStart(k) \/ CbRead(k) \/ CbSend(k)
      PROVE  meta' # None /\ Carried'
  BY <1>3, CallbackCarriesOn
<1>4. CASE \/ InfoStat \/ InfoWatch \/ InfoReply \/ ReadContent \/ ReadStat \/ ReadReply
           \/ WriteStat \/ MismatchReply
  <2>1. UNCHANGED <<disk, meta, pending, cb>>
    BY <1>4 DEF InfoStat, InfoWatch, InfoReply, ReadContent, ReadStat, ReadReply, WriteStat,
       MismatchReply, ReqVars, diskVars
  <2>2. CASE InfoStat \/ InfoWatch \/ InfoReply \/ ReadContent \/ ReadStat \/ ReadReply \/ WriteStat
    <3>1. ~RequestCarries
      BY <2>2 DEF InfoStat, InfoWatch, InfoReply, ReadContent, ReadStat, ReadReply,
         WriteStat, RequestCarries, Handling
    <3> QED BY <2>1, <3>1, CarriedAlong
  <2>3. CASE MismatchReply
    <3>1. req.info.ver # disk.ver
      BY <2>3 DEF MismatchReply, Telling
    <3>2. ~RequestCarries
      BY <2>3, <3>1 DEF MismatchReply, RequestCarries, Handling
    <3> QED BY <2>1, <3>2, CarriedAlong
  <2> QED BY <1>4, <2>2, <2>3
<1>5. CASE WriteCheck
  <2>1. /\ req'.op = req.op /\ req'.info = disk /\ req'.stage \in {"mismatch", "checked"}
    BY <1>5, HandlerEdits DEF HandlerStep
  <2>2. req.op = "write"
    BY <1>5 DEF WriteCheck, Handling
  <2>3. meta' # None
    <3>1. req.ver \in Ver /\ clock \in Nat
      BY Constants DEF TypeInv, Asked, Requests, Stored
    <3>2. [mtime |-> clock, size |-> Size(req.ver)] \in Stat
      BY <3>1, FileSyncAssumption DEF FileSyncAssumption, TypeInv, Stored, Stat, Ver
    <3> QED BY <1>5, <3>2, Constants DEF WriteCheck
  <2> QED BY <2>1, <2>2, <2>3 DEF Carried, RequestCarries, Handling
<1>6. CASE WriteOpen \/ WriteData
  <2>1. change' = "none"
    BY <1>6, Stores
  <2> QED BY <2>1
<1>7. CASE WriteReply
  <2>1. /\ Handling("write", "done") /\ meta' = StatOf(req.info) /\ Adopting(StatOf(req.info))
        /\ UNCHANGED <<pending, cb>>
    BY <1>7 DEF WriteReply, ReqVars, diskVars
  <2>2. StatOf(req.info) \in Stat /\ StatOf(req.info).mtime <= disk.mtime
    BY <2>1, Stats DEF TypeInv, Asked, Requests, Recent
  <2>3. ~RequestCarries
    BY <2>1 DEF RequestCarries, Handling
  <2> QED BY <2>1, <2>2, <2>3, StoredStat
<1>8. ASSUME NEW r \in async, OpenStat(r) \/ OpenStore(r) \/ Close(r)
      PROVE  meta' # None /\ Carried'
  <2>1. CASE OpenStat(r)
    <3>1. UNCHANGED <<disk, meta, pending, cb, req>>
      BY <2>1 DEF OpenStat, AsyncVars
    <3> QED BY <3>1, CarriedAlong
  <2>2. CASE OpenStore(r)
    <3>1. /\ r.stat # None /\ meta' = r.stat /\ Adopting(r.stat)
          /\ UNCHANGED <<pending, cb, req>>
      BY <2>2 DEF OpenStore, AsyncVars
    <3>2. r.stat \in Stat /\ r.stat.mtime <= disk.mtime
      BY <3>1 DEF TypeInv, Tables, Order, Recent
    <3> QED BY <3>1, <3>2, StoredStat
  <2>3. CASE Close(r)
    BY <2>3 DEF Close
  <2> QED BY <1>8, <2>1, <2>2, <2>3
<1> QED BY <1>1, <1>2, <1>3, <1>4, <1>5, <1>6, <1>7, <1>8, NextSteps

\* Once nothing is under way, a change of a watched file with a later mtime has
\* been reported or its stat taken over: an event that is pending, a callback, or
\* the write that is checked against it carries it until then
\* (Session.InitWatcher's filter, UpdateFileState, OpenFile).
THEOREM ChangesTold == Spec => []OrdinaryChangesTold
<1>1. Init => Past /\ OwedInv
  <2> SUFFICES ASSUME Init PROVE Past /\ OwedInv
    OBVIOUS
  <2>1. clock \in Nat /\ disk.mtime = clock /\ async = {} /\ req.op # "write"
        /\ change = "none"
    BY Constants DEF Init, Idle
  <2> QED BY <2>1 DEF Past, OwedInv
<1>2. TypeInv /\ Protocol /\ Past /\ OwedInv /\ [Next]_vars => Past' /\ OwedInv'
  <2> SUFFICES ASSUME TypeInv, Protocol, Past, OwedInv, [Next]_vars, change' = "owed"
               PROVE  meta' # None /\ Recent' /\ Carried'
    BY PastStep DEF OwedInv
  <2>1. CASE Put
    BY <2>1, PutOwes
  <2>2. CASE ~Put
    <3>1. change = "owed" /\ disk' = disk
      BY <2>2, OwedBefore
    <3>2. meta # None /\ Recent /\ Carried
      BY <3>1 DEF OwedInv
    <3> QED BY <2>2, <3>1, <3>2, RecentStep, CarriedStep
  <2> QED BY <2>1, <2>2
<1>3. OwedInv => OrdinaryChangesTold
  BY DEF OwedInv, OrdinaryChangesTold, Quiet, Carried, PendingCarries, CallbackCarries,
     RequestCarries, Handling, Idle, CbIdle
<1> QED BY <1>1, <1>2, <1>3, TypeInvariant, PTL DEF Spec
-----------------------------------------------------------------------------
(* A change that was told is what the buffer comes to show.                *)

\* Every version is below the next one.
Below ==
    /\ \A v \in written \cup forced : v < fresh
    /\ buf # None => buf.text < fresh
    /\ req.op = "write" => req.ver < fresh

Recalled == change \in {"owed", "told", "hinted"}

\* A revert that has read an older content.
OldRead ==
    /\ req.op = "read" /\ req.stage \in {"read", "stat", "replied"}
    /\ req.why = "revert" /\ req.info.ver # disk.ver

\* An ordinary change makes a version that nobody else has: what a callback read
\* of it is the file as it is, and a buffer whose revert has read something older
\* does not show it.
NewVersion ==
    Recalled =>
      /\ disk.ver # 0
      /\ \A k \in Callbacks :
            cb[k].stage = "send" /\ cb[k].info.ver = disk.ver => cb[k].info = disk
      /\ OldRead => buf.text # disk.ver

\* The answer of fs/read carries what its handler read.
ReadKept ==
    \A i \in DOMAIN stream : stream[i].type = "content" => stream[i].info.ver = req.info.ver

\* A message about file f that does not lead away from it, while h became of the
\* last change and the request was made for purpose w.
Harmless(m, f, h, w) ==
    /\ m.type # "saved"
    /\ m.type \in Event => m.info = f
    /\ m.type = "mismatch" => m.info.ver = f.ver
    /\ m.type = "content" => m.info.ver = f.ver \/ (h = "told" /\ w = "revert")

\* A message that tells of file f, or hints at it.
Tells(m, f, h) ==
    IF h = "told" THEN m.type \in {"modified", "mismatch"} /\ m.info.ver = f.ver
                  ELSE m.type = "deleted" /\ m.info = f

\* The news is on its way: a message tells, and those behind it are harmless.
Coming ==
    \E i \in DOMAIN stream :
       /\ Tells(stream[i], disk, change)
       /\ \A j \in DOMAIN stream : j > i => Harmless(stream[j], disk, change, req.why)

\* ... or it has arrived.
Calm == \A j \in DOMAIN stream : Harmless(stream[j], disk, change, req.why)
CacheHeard == cache = None \/ cache.ver \in {0, disk.ver}
BufferHeard ==
    buf # None =>
      \/ buf.modified
      \/ buf.changed
      \/ buf.text = disk.ver
      \/ change = "hinted" /\ buf.visited = disk.mtime
      \/ req.why = "revert"
RevertHeard == change = "told" /\ OldRead => buf.changed
Heard == Calm /\ CacheHeard /\ BufferHeard /\ RevertHeard

News == change \in {"told", "hinted"} => Coming \/ Heard

CatchUpInv == Below /\ NewVersion /\ ReadKept /\ News

LEMMA FreshSteps ==
    ASSUME TypeInv, Protocol, [Next]_vars
    PROVE  /\ fresh \in Nat /\ fresh' \in Nat /\ 2 <= fresh
           /\ fresh' = fresh \/ fresh' = fresh + 1
           /\ Put \/ Edit => fresh' = fresh + 1
<1>1. fresh \in 2..MaxVer + 1 /\ fresh' \in 2..MaxVer + 1
  <2>1. TypeInv'
    BY TypeStep
  <2> QED BY <2>1 DEF TypeInv, Stored
<1>2. fresh \in Nat /\ fresh' \in Nat /\ 2 <= fresh
  BY <1>1, FileSyncAssumption DEF FileSyncAssumption
<1>3. CASE Put \/ Edit
  BY <1>2, <1>3 DEF Put, Edit
<1>4. CASE ~Put /\ ~Edit
  <2>1. CASE Tick \/ Visit \/ Look \/ Kill \/ Save \/ AutoRevert \/ Receive \/ UNCHANGED vars
    BY <1>2, <1>4, <2>1 DEF Tick, Visit, Look, Kill, Save, AutoRevert, Receive, clientVars,
       vars
  <2>2. ASSUME NEW k \in Callbacks, CbStart(k) \/ CbRead(k) \/ CbSend(k)
        PROVE  fresh' = fresh
    BY <2>2 DEF CbStart, CbRead, CbSend, CbVars
  <2>3. CASE HandlerStep
    BY <1>2, <1>4, <2>3, HandlerEdits
  <2>4. ASSUME NEW r \in async, OpenStat(r) \/ OpenStore(r) \/ Close(r)
        PROVE  fresh' = fresh
    BY <2>4 DEF OpenStat, OpenStore, Close, AsyncVars
  <2> QED BY <1>2, <1>4, <2>1, <2>2, <2>3, <2>4, NextSteps DEF HandlerStep
<1> QED BY <1>3, <1>4

\* A buffer that is modified after a step was there before it.
LEMMA ModifiedStep ==
    ASSUME TypeInv, Protocol, [Next]_vars, buf' # None, buf'.modified
    PROVE  buf # None /\ (buf'.text = buf.text \/ (Edit /\ buf'.text = fresh))
<1>0. buf # None => buf \in Buffer
  BY DEF TypeInv, Shown
<1>1. CASE UNCHANGED <<cache, buf>>
  BY <1>1
<1>2. CASE Visit \/ Kill \/ AutoRevert
  <2>1. cache # None => ~BufOf(cache).modified
    BY Buffers DEF TypeInv, Shown
  <2>2. \/ buf' \in {None, buf}
        \/ cache # None /\ buf' = BufOf(cache)
        \/ buf # None /\ buf' = [buf EXCEPT !.changed = FALSE]
    BY <1>2 DEF Visit, Kill, AutoRevert, Cached, OpenBuffer, Stale
  <2>3. buf # None /\ buf' = [buf EXCEPT !.changed = FALSE] => buf'.text = buf.text
    BY <1>0 DEF Buffer
  <2> QED BY <2>1, <2>2, <2>3
<1>3. CASE Edit
  BY <1>0, <1>3 DEF Edit, Buffer
<1>4. CASE Receive
  <2>1. PICK m \in Message :
          /\ m.info \in File
          /\ \/ HandleChanged(m) \/ HandleInfo(m) \/ HandleMismatch(m)
             \/ HandleContent(m) /\ req.why \in {"visit", "revert"}
                /\ (req.why = "revert" => buf # None)
             \/ HandleSaved(m) /\ buf # None
    BY <1>4, Received
  <2>2. CASE HandleChanged(m)
    BY <1>0, <2>1, <2>2, Notifieds DEF HandleChanged
  <2>3. CASE HandleInfo(m) \/ HandleMismatch(m)
    BY <2>3 DEF HandleInfo, HandleMismatch
  <2>4. CASE HandleContent(m) /\ req.why \in {"visit", "revert"}
             /\ (req.why = "revert" => buf # None)
    <3>1. BufOf(m.info) \in Buffer /\ ~BufOf(m.info).modified
      BY <2>1, Buffers
    <3>2. ~[BufOf(m.info) EXCEPT !.changed = buf.changed].modified
      BY <3>1 DEF Buffer
    <3>3. buf' = buf
      BY <2>4, <3>1, <3>2 DEF HandleContent, OpenBuffer
    <3> QED BY <3>3
  <2>5. CASE HandleSaved(m) /\ buf # None
    <3>1. ~buf'.modified
      BY <1>0, <2>5 DEF HandleSaved, Buffer
    <3> QED BY <3>1
  <2> QED BY <2>1, <2>2, <2>3, <2>4, <2>5
<1> QED BY <1>1, <1>2, <1>3, <1>4, BufferSteps

\* The texts whose save was forced grow by the buffer's.
LEMMA ForcedStep ==
    ASSUME TypeInv, Protocol, [Next]_vars
    PROVE  forced' = forced \/ (buf # None /\ forced' = forced \cup {buf.text})
<1>1. CASE Receive
  <2>1. PICK m \in Message :
          \/ HandleChanged(m) \/ HandleInfo(m) \/ HandleContent(m) \/ HandleMismatch(m)
          \/ HandleSaved(m) /\ buf # None
    BY <1>1, Received
  <2> QED BY <2>1 DEF HandleChanged, HandleInfo, HandleContent, HandleMismatch, HandleSaved
<1>2. CASE \/ Put \/ Tick \/ Visit \/ Look \/ Kill \/ Edit \/ Save \/ AutoRevert
           \/ UNCHANGED vars
  BY <1>2 DEF Put, Tick, Visit, Look, Kill, Edit, Save, AutoRevert, clientVars, vars
<1>3. ASSUME NEW k \in Callbacks, CbStart(k) \/ CbRead(k) \/ CbSend(k)
      PROVE forced' = forced
  BY <1>3 DEF CbStart, CbRead, CbSend, CbVars
<1>4. CASE HandlerStep
  BY <1>4, HandlerEdits
<1>5. ASSUME NEW r \in async, OpenStat(r) \/ OpenStore(r) \/ Close(r) PROVE forced' = forced
  BY <1>5 DEF OpenStat, OpenStore, Close, AsyncVars
<1> QED BY <1>1, <1>2, <1>3, <1>4, <1>5, NextSteps DEF HandlerStep

LEMMA BelowStep ==
    ASSUME TypeInv, Protocol, Genuine, Genuine', Below, [Next]_vars PROVE Below'
<1>0. /\ fresh \in Nat /\ fresh' \in Nat /\ 2 <= fresh /\ fresh <= fresh'
      /\ Put \/ Edit => fresh < fresh'
  BY FreshSteps
<1>9. /\ written \cup forced \subseteq Nat /\ (buf # None => buf.text \in Nat)
      /\ req.ver \in Nat /\ Ver \subseteq Nat
  BY FileSyncAssumption DEF FileSyncAssumption, TypeInv, History, Shown, Buffer, Asked,
     Requests, Ver
<1>1. ASSUME NEW v \in written' PROVE v < fresh'
  <2>1. CASE v \in written
    BY <1>0, <1>9, <2>1 DEF Below
  <2>2. CASE Put
    <3>1. disk'.ver = fresh /\ written' = written \cup {disk'.ver}
      BY <2>2, Stores DEF Put, Store
    <3> QED BY <1>0, <1>1, <2>1, <2>2, <3>1
  <2>3. CASE WriteOpen \/ WriteData
    <3>1. disk'.ver \in {0, req.ver} /\ written' = written \cup {disk'.ver}
      BY <2>3, Stores
    <3>2. req.ver < fresh
      BY <2>3 DEF WriteOpen, WriteData, Handling, Below
    <3> QED BY <1>0, <1>1, <1>9, <2>1, <3>1, <3>2
  <2> QED BY <1>1, <2>1, <2>2, <2>3, DiskSteps
<1>2. ASSUME NEW v \in forced' PROVE v < fresh'
  <2>1. v \in forced \/ (buf # None /\ v = buf.text)
    BY <1>2, ForcedStep
  <2> QED BY <1>0, <1>9, <2>1 DEF Below
<1>3. ASSUME buf' # None PROVE buf'.text < fresh'
  <2>1. CASE ~buf'.modified
    BY <1>1, <1>2, <1>3, <2>1 DEF Genuine, Accounted
  <2>2. CASE buf'.modified
    <3>1. buf # None /\ (buf'.text = buf.text \/ (Edit /\ buf'.text = fresh))
      BY <1>3, <2>2, ModifiedStep
    <3> QED BY <1>0, <1>9, <3>1 DEF Below
  <2> QED BY <2>1, <2>2
<1>4. ASSUME req'.op = "write" PROVE req'.ver < fresh'
  <2>1. CASE req' = req
    BY <1>0, <1>4, <1>9, <2>1 DEF Below
  <2>2. CASE HandlerStep
    <3>1. req'.op = req.op /\ req'.ver = req.ver
      BY <2>2, HandlerEdits
    <3> QED BY <1>0, <1>4, <1>9, <3>1 DEF Below
  <2>3. CASE req'.ver = buf.text /\ buf' = buf
    <3>1. Purpose'
      BY PurposeStep
    <3>2. buf' # None
      BY <1>4, <3>1 DEF Purpose
    <3> QED BY <1>3, <2>3, <3>2
  <2>4. CASE req'.ver = 0
    BY <1>0, <2>4
  <2>5. req' # Idle
    BY <1>4 DEF Idle
  <2> QED BY <1>4, <2>1, <2>2, <2>3, <2>4, <2>5, RequestSteps
<1> QED BY <1>1, <1>2, <1>3, <1>4 DEF Below

\* Only another change of the disk, or fs/close, ends the account of one.
LEMMA RecalledBefore ==
    ASSUME [Next]_vars, Recalled', ~Put
    PROVE  Recalled /\ disk' = disk
<1> USE DEF Recalled
<1>1. ~WriteOpen /\ ~WriteData
  BY DEF WriteOpen, WriteData, Store
<1>2. CASE Tick \/ Visit \/ Look \/ Kill \/ Edit \/ Save \/ AutoRevert \/ Receive \/ UNCHANGED vars
  BY <1>2 DEF Tick, Visit, Look, Kill, Edit, Save, AutoRevert, Receive, ServerVars, vars
<1>3. ASSUME NEW k \in Callbacks, CbStart(k) \/ CbRead(k) \/ CbSend(k)
      PROVE  Recalled
  BY <1>3 DEF CbStart, CbRead, CbSend, Telling
<1>4. ASSUME NEW r \in async, OpenStat(r) \/ OpenStore(r) \/ Close(r) PROVE Recalled
  BY <1>4 DEF OpenStat, OpenStore, Close, Adopting
<1>5. CASE \/ InfoStat \/ InfoWatch \/ InfoReply \/ ReadContent \/ ReadStat \/ ReadReply
           \/ WriteCheck \/ WriteStat \/ WriteReply \/ MismatchReply
  BY <1>5 DEF InfoStat, InfoWatch, InfoReply, ReadContent, ReadStat, ReadReply, WriteCheck,
     WriteStat, WriteReply, MismatchReply, Adopting, Telling, diskVars
<1> QED BY <1>1, <1>2, <1>3, <1>4, <1>5, NextSteps, DiskSteps

\* A revert that has read something older had done so before the step, and
\* nothing else fills the buffer or clears its mark while it waits.
LEMMA OldReadStep ==
    ASSUME TypeInv, Protocol, disk' = disk, OldRead', [Next]_vars
    PROVE  OldRead /\ buf # None /\ buf' # None /\ ~buf.modified
           /\ buf'.text = buf.text /\ (buf.changed => buf'.changed)
<1>1. req'.op = "read" /\ req'.stage \in {"read", "stat", "replied"}
      /\ req'.why = "revert" /\ req'.info.ver # disk.ver
  BY DEF OldRead
<1>2. ASSUME req' = req PROVE OldRead
  BY <1>1, <1>2 DEF OldRead
<1>3. ASSUME HandlerStep PROVE OldRead
  <2>1. req'.op = req.op /\ req'.why = req.why
    BY <1>3, HandlerEdits
  <2>2. ~InfoStat /\ ~InfoWatch /\ ~InfoReply /\ ~WriteCheck /\ ~WriteOpen /\ ~WriteData
        /\ ~WriteStat /\ ~WriteReply /\ ~MismatchReply
    BY <1>1, <2>1 DEF InfoStat, InfoWatch, InfoReply, WriteCheck, WriteOpen, WriteData,
       WriteStat, WriteReply, MismatchReply, Handling
  <2>3. ~ReadContent
    BY <1>1, <1>3, HandlerEdits
  <2>4. ReadStat => req.stage = "read" /\ req'.info.ver = req.info.ver
    BY <1>3, HandlerEdits
  <2>5. ReadReply => req.stage = "stat" /\ req'.info = req.info
    BY <1>3, HandlerEdits DEF ReadReply, Handling
  <2> QED BY <1>1, <1>3, <2>1, <2>2, <2>3, <2>4, <2>5 DEF HandlerStep, OldRead
<1>4. OldRead
  <2>1. req' # Idle /\ req'.stage # "sent"
    BY <1>1 DEF Idle
  <2> QED BY <1>2, <1>3, <2>1, RequestSteps
<1>5. req # Idle /\ req.op = "read" /\ buf # None /\ buf \in Buffer /\ ~buf.modified
  BY <1>4 DEF OldRead, Protocol, Purpose, Idle, TypeInv, Shown
<1>6. CASE UNCHANGED <<cache, buf>>
  BY <1>4, <1>5, <1>6
<1>7. CASE Visit \/ Kill \/ Edit \/ AutoRevert
  BY <1>5, <1>7 DEF Visit, Kill, Edit, AutoRevert, Free
<1>8. CASE Receive
  <2>1. PICK m \in Message :
          /\ m.info \in File
          /\ HandleChanged(m) \/ HandleContent(m) \/ req.op \in {"info", "write"}
    BY <1>8, Received
  <2>2. ~HandleContent(m)
    BY <1>1 DEF HandleContent, Idle
  <2>3. buf' = Notified(buf, m.type, m.info)
    BY <1>5, <2>1, <2>2 DEF HandleChanged
  <2>4. buf' \in Buffer /\ buf'.text = buf.text /\ (buf.changed => buf'.changed)
    BY <1>5, <2>1, <2>3, Notifieds
  <2> QED BY <1>4, <1>5, <2>4, Constants
<1> QED BY <1>6, <1>7, <1>8, BufferSteps

LEMMA NewVersionStep ==
    ASSUME TypeInv, Protocol, Genuine, Below, NewVersion, [Next]_vars
    PROVE  NewVersion'
<1> SUFFICES ASSUME Recalled'
             PROVE  /\ disk'.ver # 0
                    /\ \A k \in Callbacks : cb'[k].stage = "send" /\ cb'[k].info.ver = disk'.ver
                                              => cb'[k].info = disk'
                    /\ OldRead' => buf'.text # disk'.ver
  BY DEF NewVersion
<1>1. CASE Put
  <2>1. disk'.ver = fresh /\ UNCHANGED <<cb, req, buf>>
    BY <1>1 DEF Put, Store
  <2>2. fresh \in Nat /\ 2 <= fresh /\ \A v \in written : v < fresh
    BY FreshSteps DEF Below
  <2>3. \A k \in Callbacks : cb'[k].stage = "send" => cb'[k].info.ver \in written
    BY <2>1 DEF Genuine, CbGenuine
  <2>4. OldRead' => buf # None /\ buf.text \in Nat
    <3>1. OldRead' => req.why = "revert"
      BY <2>1 DEF OldRead
    <3> QED BY <3>1, FileSyncAssumption DEF FileSyncAssumption, Protocol, Purpose, TypeInv,
               Shown, Buffer, Ver
  <2>5. OldRead' => buf'.text < fresh
    BY <2>1, <2>4 DEF Below
  <2> QED BY <2>1, <2>2, <2>3, <2>4, <2>5
<1>2. CASE ~Put
  <2>1. Recalled /\ disk' = disk
    BY <1>2, RecalledBefore
  <2>2. OldRead' => buf'.text # disk'.ver
    BY <2>1, OldReadStep DEF NewVersion
  <2>3. ASSUME NEW k \in Callbacks, cb'[k].stage = "send", cb'[k].info.ver = disk'.ver
        PROVE  cb'[k].info = disk'
    <3>1. cb'[k] = cb[k] \/ cb'[k].info = disk
      BY <2>3, CallbackSteps, CallbackEdits
    <3> QED BY <2>1, <2>3, <3>1 DEF NewVersion
  <2> QED BY <2>1, <2>2, <2>3 DEF NewVersion
<1> QED BY <1>1, <1>2

LEMMA ReadKeptStep == ASSUME TypeInv, Protocol, ReadKept, [Next]_vars PROVE ReadKept'
<1>0. Streamed
  BY DEF TypeInv
<1>1. CASE stream' = stream /\ (req' = req \/ req.stage # "replied")
  BY <1>1 DEF ReadKept, Protocol, OneAnswer, Answer
<1>2. ASSUME NEW m \in Message, stream' = Append(stream, m),
             \/ m.type \in Event /\ req' = req
             \/ /\ m.type \in Answer /\ req.stage # "replied"
                /\ m.type = "content" => m.info.ver = req'.info.ver
      PROVE  ReadKept'
  <2>1. \A i \in DOMAIN stream' : \/ i \in DOMAIN stream /\ stream'[i] = stream[i]
                                  \/ stream'[i] = m
    BY <1>0, <1>2, Appended
  <2>2. req' # req => \A i \in DOMAIN stream : stream[i].type # "content"
    BY <1>2 DEF Protocol, OneAnswer, Answer
  <2>3. m.type \in Event => m.type # "content"
    BY DEF Event
  <2> QED BY <1>2, <2>1, <2>2, <2>3 DEF ReadKept
<1>3. CASE stream # <<>> /\ stream' = Tail(stream)
           /\ (Head(stream).type \in Answer \/ req' = req)
  <2>1. /\ 1 \in DOMAIN stream /\ Head(stream) = stream[1]
        /\ \A i \in DOMAIN stream' : /\ i \in Nat /\ i + 1 \in DOMAIN stream /\ i + 1 # 1
                                     /\ stream'[i] = stream[i + 1]
    BY <1>0, <1>3, Taken
  <2>2. Head(stream).type \in Answer
          => \A i \in DOMAIN stream' : stream'[i].type # "content"
    BY <2>1 DEF Protocol, OneAnswer, Answer
  <2>3. req' = req => ReadKept'
    BY <2>1 DEF ReadKept
  <2> QED BY <1>3, <2>2, <2>3 DEF ReadKept
<1> QED BY <1>1, <1>2, <1>3, WireStep

\* A step leaves the stream alone, and then an answer that is in it goes on
\* waiting and nothing is told; or it sends or receives a message.
LEMMA StreamSteps ==
    ASSUME TypeInv, [Next]_vars
    PROVE  \/ /\ stream' = stream /\ (req' = req \/ req.stage # "replied")
              /\ change' \in {"told", "hinted"} => change' = change
           \/ \E k \in Callbacks : CbSend(k)
           \/ InfoReply \/ ReadReply \/ WriteReply \/ MismatchReply
           \/ Receive
<1>1. CASE Put \/ Tick \/ Visit \/ Look \/ Kill \/ Edit \/ Save \/ AutoRevert \/ UNCHANGED vars
  BY <1>1 DEF Put, Store, Tick, Visit, Look, Kill, Edit, Save, AutoRevert, Free, Idle,
     ServerVars, clientVars, vars
<1>2. ASSUME NEW k \in Callbacks, CbStart(k) \/ CbRead(k)
      PROVE  stream' = stream /\ req' = req /\ change' = change
  BY <1>2 DEF CbStart, CbRead, CbVars
<1>3. CASE InfoStat \/ InfoWatch \/ ReadContent \/ ReadStat \/ WriteCheck \/ WriteStat
  BY <1>3 DEF InfoStat, InfoWatch, ReadContent, ReadStat, WriteCheck, WriteStat, Handling
<1>4. CASE WriteOpen \/ WriteData
  BY <1>4, Stores DEF WriteOpen, WriteData, Handling
<1>5. ASSUME NEW r \in async, OpenStat(r) \/ OpenStore(r) \/ Close(r)
      PROVE  /\ stream' = stream /\ req' = req
             /\ change' \in {"told", "hinted"} => change' = change
  BY <1>5 DEF OpenStat, OpenStore, Close, AsyncVars, Adopting
<1> QED BY <1>1, <1>2, <1>3, <1>4, <1>5, NextSteps

\* A request under way keeps its purpose until its answer is handled.
LEMMA PurposeKept ==
    ASSUME TypeInv, [Next]_vars, ~Receive
    PROVE  req'.why = req.why \/ req = Idle
<1>1. CASE Put \/ Tick \/ Kill \/ Edit \/ UNCHANGED vars
  BY <1>1 DEF Put, Tick, Kill, Edit, vars
<1>2. CASE Visit \/ Look \/ Save \/ AutoRevert
  BY <1>2 DEF Visit, Look, Save, AutoRevert, Free
<1>3. ASSUME NEW k \in Callbacks, CbStart(k) \/ CbRead(k) \/ CbSend(k) PROVE req' = req
  BY <1>3 DEF CbStart, CbRead, CbSend, CbVars
<1>4. ASSUME NEW r \in async, OpenStat(r) \/ OpenStore(r) \/ Close(r) PROVE req' = req
  BY <1>4 DEF OpenStat, OpenStore, Close, AsyncVars
<1>5. CASE HandlerStep
  BY <1>5, HandlerEdits
<1> QED BY <1>1, <1>2, <1>3, <1>4, <1>5, NextSteps DEF HandlerStep

\* What the user does leaves a buffer that has heard the news in that state.
LEMMA HeardKept ==
    ASSUME TypeInv, Protocol, [Next]_vars, ~Receive, disk' = disk, change' = change,
           change \in {"told", "hinted"}, CacheHeard, BufferHeard, RevertHeard
    PROVE  CacheHeard' /\ BufferHeard' /\ RevertHeard'
<1>1. RevertHeard'
  BY OldReadStep DEF RevertHeard
<1>2. cache' = cache
  BY BufferSteps DEF Visit, Kill, Edit, AutoRevert
<1>3. BufferHeard'
  <2>0. buf # None => buf \in Buffer
    BY DEF TypeInv, Shown
  <2>1. CASE UNCHANGED <<cache, buf>>
    <3>1. req.why = "revert" => req'.why = "revert"
      BY PurposeKept DEF Idle
    <3> QED BY <2>1, <3>1 DEF BufferHeard
  <2>2. Cached => BufOf(cache).text = disk.ver
    BY Buffers DEF Cached, CacheHeard, TypeInv, Shown
  <2>3. CASE Visit
    <3>1. buf' = None \/ (Cached /\ buf' = BufOf(cache))
      BY <2>3 DEF Visit, OpenBuffer
    <3> QED BY <2>2, <3>1 DEF BufferHeard
  <2>4. CASE Kill
    BY <2>4 DEF Kill, BufferHeard
  <2>5. CASE Edit
    BY <2>0, <2>5 DEF Edit, Buffer, BufferHeard
  <2>6. CASE AutoRevert
    <3>1. \/ Cached /\ buf' = BufOf(cache)
          \/ Fetch("revert")
      BY <2>6 DEF AutoRevert
    <3>2. Fetch("revert") => req'.why = "revert"
      BY Asking DEF Fetch
    <3> QED BY <2>2, <3>1, <3>2 DEF BufferHeard
  <2> QED BY <2>1, <2>3, <2>4, <2>5, <2>6, BufferSteps
<1> QED BY <1>1, <1>2, <1>3 DEF CacheHeard

\* A harmless message behind the news.
LEMMA HarmlessSent ==
    ASSUME TypeInv, NEW m, stream' = Append(stream, m), disk' = disk, change' = change,
           req'.why = req.why, Harmless(m, disk, change, req.why)
    PROVE  (Coming => Coming') /\ (Calm => Calm')
<1>1. \A i \in DOMAIN stream' : \/ i \in DOMAIN stream /\ stream'[i] = stream[i]
                                \/ stream'[i] = m
  BY Appended DEF TypeInv
<1>2. \A i \in DOMAIN stream : i \in DOMAIN stream' /\ stream'[i] = stream[i]
  BY DEF TypeInv, Streamed
<1>3. Calm => Calm'
  BY <1>1 DEF Calm
<1>4. ASSUME Coming PROVE Coming'
  <2>1. PICK i \in DOMAIN stream :
          /\ Tells(stream[i], disk, change)
          /\ \A j \in DOMAIN stream : j > i => Harmless(stream[j], disk, change, req.why)
    BY <1>4 DEF Coming
  <2>2. i \in DOMAIN stream' /\ Tells(stream'[i], disk', change')
    BY <1>2, <2>1
  <2>3. \A j \in DOMAIN stream' : j > i => Harmless(stream'[j], disk', change', req'.why)
    BY <1>1, <2>1
  <2> QED BY <2>2, <2>3 DEF Coming
<1> QED BY <1>3, <1>4

\* The news is sent.
LEMMA NewsSent ==
    ASSUME TypeInv, NEW m, stream' = Append(stream, m), Tells(m, disk', change')
    PROVE  Coming'
<1>1. /\ Len(stream) \in Nat /\ Len(stream) + 1 \in DOMAIN stream'
      /\ stream'[Len(stream) + 1] = m
      /\ \A j \in DOMAIN stream' : j \in Nat /\ j <= Len(stream) + 1
  BY DEF TypeInv, Streamed
<1>2. \A j \in DOMAIN stream' : ~(j > Len(stream) + 1)
  BY <1>1
<1> QED BY <1>1, <1>2 DEF Coming

\* A message of the disk's version is sent, which tells of it or is harmless.
LEMMA TellingSent ==
    ASSUME TypeInv, Protocol, [Next]_vars, ~Receive, disk' = disk, Recalled, News,
           NEW m, stream' = Append(stream, m), req'.why = req.why,
           m.type \in {"modified", "deleted", "mismatch"}, m.info.ver = disk.ver,
           m.type \in Event => m.info = disk,
           Telling(m.info.ver, m.type # "deleted"), change' \in {"told", "hinted"}
    PROVE  Coming' \/ Heard'
<1>1. Harmless(m, disk, change, req.why)
  BY DEF Harmless
<1>2. CASE change' = change
  <2>1. CASE Coming
    BY <1>1, <1>2, <2>1, HarmlessSent
  <2>2. CASE Heard
    <3>1. Calm'
      BY <1>1, <1>2, <2>2, HarmlessSent DEF Heard
    <3>2. CacheHeard' /\ BufferHeard' /\ RevertHeard'
      BY <1>2, <2>2, HeardKept DEF Heard
    <3> QED BY <3>1, <3>2 DEF Heard
  <2> QED BY <1>2, <2>1, <2>2 DEF News
<1>3. CASE change' # change
  <2>1. \/ change' = "told" /\ m.type # "deleted"
        \/ change' = "hinted" /\ m.type = "deleted"
    BY <1>3 DEF Telling, Recalled
  <2>2. Tells(m, disk', change')
    BY <2>1 DEF Tells, Event
  <2> QED BY <2>2, NewsSent
<1> QED BY <1>2, <1>3

\* What is left of the stream once its first message is handled.
LEMMA RestHarmless ==
    ASSUME TypeInv, Protocol, Receive, disk' = disk, change' = change,
           NEW i \in DOMAIN stream,
           \A j \in DOMAIN stream : j > i => Harmless(stream[j], disk, change, req.why)
    PROVE  \A j \in DOMAIN stream' :
              j + 1 > i => Harmless(stream'[j], disk', change', req'.why)
<1>1. PICK m \in Message :
        /\ stream # <<>> /\ m = Head(stream) /\ stream' = Tail(stream)
        /\ HandleChanged(m) \/ m.type \in Answer
  BY Received DEF Answer
<1>2. /\ 1 \in DOMAIN stream /\ m = stream[1]
      /\ \A j \in DOMAIN stream' : /\ j \in Nat /\ j + 1 \in DOMAIN stream /\ j + 1 # 1
                                   /\ stream'[j] = stream[j + 1]
  BY <1>1, Taken DEF TypeInv
<1>3. CASE HandleChanged(m)
  <2>1. req' = req
    BY <1>3 DEF HandleChanged
  <2> QED BY <1>2, <2>1
<1>4. CASE m.type \in Answer
  <2>1. \A j \in DOMAIN stream' : stream'[j].type \notin Answer
    BY <1>2, <1>4 DEF Protocol, OneAnswer
  <2>2. \A j \in DOMAIN stream' : stream'[j].type # "content"
    BY <2>1 DEF Answer
  <2>3. ASSUME NEW j \in DOMAIN stream', j + 1 > i
        PROVE  Harmless(stream'[j], disk', change', req'.why)
    <3>1. Harmless(stream[j + 1], disk, change, req.why) /\ stream'[j] = stream[j + 1]
      BY <1>2, <2>3
    <3> QED BY <2>2, <3>1 DEF Harmless
  <2> QED BY <2>3
<1> QED BY <1>1, <1>3, <1>4

\* A notification that tells, or is harmless to one who has heard.
LEMMA ChangedHeard ==
    ASSUME TypeInv, Protocol, NewVersion, change \in {"told", "hinted"}, [Next]_vars,
           disk' = disk, change' = change, NEW m \in Message, m.info \in File,
           m.type \in Event, HandleChanged(m),
           \/ Tells(m, disk, change)
           \/ m.info = disk /\ CacheHeard /\ BufferHeard /\ RevertHeard
    PROVE  CacheHeard' /\ BufferHeard' /\ RevertHeard'
<1>0. buf # None => buf \in Buffer
  BY DEF TypeInv, Shown
<1>1. m.info.ver = disk.ver /\ disk.ver # 0 /\ (change = "hinted" => m.info = disk)
  BY DEF Tells, NewVersion, Recalled, Event
<1>2. CacheHeard'
  BY <1>1 DEF HandleChanged, CacheHeard
<1>3. /\ req' = req
      /\ buf' = IF buf = None THEN None ELSE Notified(buf, m.type, m.info)
  BY DEF HandleChanged
<1>4. buf # None => /\ buf' \in Buffer /\ buf'.text = buf.text
                    /\ buf'.modified = buf.modified
                    /\ buf.changed => buf'.changed
                    /\ ~buf'.modified /\ ~buf'.changed /\ m.type = "modified"
                         => buf.text = disk.ver
                    /\ ~buf'.modified /\ ~buf'.changed /\ m.type = "deleted"
                         => buf'.visited = m.info.mtime
  BY <1>0, <1>1, <1>3, Notifieds
<1>5. BufferHeard'
  <2> SUFFICES ASSUME buf' # None, ~buf'.modified, ~buf'.changed
               PROVE  \/ buf'.text = disk'.ver
                      \/ change' = "hinted" /\ buf'.visited = disk'.mtime
                      \/ req'.why = "revert"
    BY DEF BufferHeard
  <2>1. buf # None
    BY <1>3
  <2>2. CASE m.type = "modified"
    BY <1>4, <2>1, <2>2
  <2>3. CASE m.type = "deleted" /\ change = "hinted"
    BY <1>1, <1>4, <2>1, <2>3
  <2>4. CASE m.type = "deleted" /\ change = "told"
    <3>1. BufferHeard
      BY <2>4 DEF Tells
    <3> QED BY <1>3, <1>4, <2>1, <2>4, <3>1 DEF BufferHeard
  <2> QED BY <2>2, <2>3, <2>4 DEF Event
<1>6. RevertHeard'
  <2> SUFFICES ASSUME change' = "told", OldRead'
               PROVE  buf'.changed
    BY DEF RevertHeard
  <2>1. OldRead /\ buf # None /\ ~buf.modified /\ (buf.changed => buf'.changed)
    BY OldReadStep
  <2>2. CASE Tells(m, disk, change)
    <3>1. m.type = "modified"
      BY <2>2 DEF Tells, Event
    <3>2. buf.text # disk.ver
      BY <2>1 DEF NewVersion, Recalled
    <3> QED BY <1>4, <2>1, <3>1, <3>2
  <2>3. CASE RevertHeard
    BY <2>1, <2>3 DEF RevertHeard
  <2> QED BY <2>2, <2>3
<1> QED BY <1>2, <1>5, <1>6

\* The answer of fs/read, for one who has heard.
LEMMA ContentHeard ==
    ASSUME TypeInv, Protocol, NewVersion, ReadKept, change \in {"told", "hinted"},
           disk' = disk, change' = change, NEW m \in Message, m.info \in File,
           HandleContent(m), m.type = "content", req.op = "read", req.stage = "replied",
           req.why \in {"visit", "revert"}, req.why = "revert" => buf # None,
           m.info.ver = req.info.ver, Harmless(m, disk, change, req.why),
           CacheHeard, RevertHeard
    PROVE  CacheHeard' /\ BufferHeard' /\ RevertHeard'
<1>0. buf # None => buf \in Buffer
  BY DEF TypeInv, Shown
<1>1. RevertHeard'
  BY DEF HandleContent, Idle, RevertHeard, OldRead
<1>2. CacheHeard'
  BY Emptied DEF HandleContent, CacheHeard
<1>3. disk.ver # 0
  BY DEF NewVersion, Recalled
<1>4. CASE m.info.ver = disk.ver
  <2>1. BufOf(m.info) \in Buffer /\ BufOf(m.info).text = disk.ver
    BY <1>4, Buffers
  <2>2. [BufOf(m.info) EXCEPT !.changed = buf.changed].text = disk.ver
    BY <2>1 DEF Buffer
  <2>3. buf'.text = disk.ver
    BY <1>3, <1>4, <2>1, <2>2 DEF HandleContent, OpenBuffer
  <2> QED BY <1>1, <1>2, <2>3 DEF BufferHeard
<1>5. CASE m.info.ver # disk.ver
  <2>1. change = "told" /\ req.why = "revert"
    BY <1>5 DEF Harmless
  <2>2. OldRead
    BY <1>5, <2>1 DEF OldRead
  <2>3. buf # None /\ buf.changed
    BY <2>1, <2>2 DEF RevertHeard
  <2>4. buf' = buf \/ buf' = [BufOf(m.info) EXCEPT !.changed = buf.changed]
    BY <2>1 DEF HandleContent
  <2>5. [BufOf(m.info) EXCEPT !.changed = buf.changed].changed = buf.changed
    BY Buffers DEF Buffer
  <2> QED BY <1>1, <1>2, <2>3, <2>4, <2>5 DEF BufferHeard
<1> QED BY <1>4, <1>5

\* The answers of fs/info and of a write that found a mismatch.
LEMMA AnswerHeard ==
    ASSUME TypeInv, Protocol, [Next]_vars, disk' = disk, change' = change,
           NEW m \in Message, m.info \in File,
           \/ /\ HandleInfo(m) /\ BufferHeard /\ req.why \in {"visit", "look", "revert"}
           \/ HandleMismatch(m) /\ m.info.ver = disk.ver /\ buf # None /\ buf.modified
    PROVE  CacheHeard' /\ BufferHeard' /\ RevertHeard'
<1>1. CASE HandleInfo(m) /\ BufferHeard /\ req.why \in {"visit", "look", "revert"}
  <2>1. cache' = NoContent(m.info) /\ NoContent(m.info).ver = 0 /\ buf' = buf
    BY <1>1, Emptied DEF HandleInfo
  <2>2. \/ req.why = "look" /\ req' = Idle
        \/ req'.stage = "sent" /\ req'.why = req.why
    BY <1>1, Asking DEF HandleInfo
  <2>3. BufferHeard'
    BY <1>1, <2>1, <2>2 DEF BufferHeard
  <2>4. RevertHeard'
    BY <2>2 DEF RevertHeard, OldRead, Idle
  <2> QED BY <2>1, <2>3, <2>4 DEF CacheHeard
<1>2. CASE HandleMismatch(m) /\ m.info.ver = disk.ver /\ buf # None /\ buf.modified
  <2>1. cache' = m.info /\ buf' = buf
    BY <1>2 DEF HandleMismatch
  <2>2. req' = Idle \/ req'.op = "write"
    <3>1. [Request("write", "save") EXCEPT !.expect = req.expect, !.force = TRUE].op = "write"
      BY Asking DEF Requests
    <3> QED BY <1>2, <3>1 DEF HandleMismatch
  <2>3. RevertHeard'
    BY <2>2 DEF RevertHeard, OldRead, Idle
  <2> QED BY <1>2, <2>1, <2>3 DEF CacheHeard, BufferHeard
<1> QED BY <1>1, <1>2

LEMMA NewsReceived ==
    ASSUME TypeInv, Protocol, NewVersion, ReadKept, News, change \in {"told", "hinted"},
           disk' = disk, change' = change, [Next]_vars, Receive
    PROVE  Coming' \/ Heard'
<1>1. PICK m \in Message :
             /\ stream # <<>> /\ m = Head(stream) /\ stream' = Tail(stream)
             /\ m.info \in File
             /\ \/ m.type \in Event /\ HandleChanged(m)
                \/ /\ HandleInfo(m) /\ m.type = "reply"
                   /\ req.why \in {"visit", "look", "revert"}
                \/ /\ HandleContent(m) /\ m.type = "content"
                   /\ req.op = "read" /\ req.stage = "replied"
                   /\ req.why \in {"visit", "revert"}
                   /\ req.why = "revert" => buf # None
                \/ HandleSaved(m) /\ m.type = "saved"
                \/ HandleMismatch(m) /\ m.type = "mismatch" /\ buf # None /\ buf.modified
  BY Received DEF HandleSaved, HandleMismatch
<1>2. /\ 1 \in DOMAIN stream /\ m = stream[1]
      /\ \A j \in DOMAIN stream' : j \in Nat /\ j + 1 > 1
      /\ \A i \in DOMAIN stream : i # 1 => /\ i \in Nat /\ i > 1 /\ i - 1 \in DOMAIN stream'
                                           /\ stream'[i - 1] = stream[i]
  BY <1>1 DEF TypeInv, Streamed
<1>3. ASSUME NEW i \in DOMAIN stream, i # 1, Tells(stream[i], disk, change),
             \A j \in DOMAIN stream : j > i => Harmless(stream[j], disk, change, req.why)
      PROVE  Coming'
  <2>1. i - 1 \in DOMAIN stream' /\ Tells(stream'[i - 1], disk', change')
    BY <1>2, <1>3
  <2>2. \A j \in DOMAIN stream' : j + 1 > i => Harmless(stream'[j], disk', change', req'.why)
    BY <1>3, RestHarmless
  <2>3. \A j \in DOMAIN stream' : j > i - 1 => j + 1 > i
    BY <1>2, <1>3
  <2> QED BY <2>1, <2>2, <2>3 DEF Coming
<1>4. ASSUME \A j \in DOMAIN stream : j > 1 => Harmless(stream[j], disk, change, req.why),
             \/ Tells(m, disk, change)
             \/ /\ Harmless(m, disk, change, req.why)
                /\ CacheHeard /\ BufferHeard /\ RevertHeard
      PROVE  Heard'
  <2>1. Calm'
    BY <1>2, <1>4, RestHarmless DEF Calm
  <2>2. CASE m.type \in Event /\ HandleChanged(m)
    <3>1. Harmless(m, disk, change, req.why) => m.info = disk
      BY <2>2 DEF Harmless
    <3> QED BY <1>1, <1>4, <2>1, <2>2, <3>1, ChangedHeard DEF Heard
  <2>3. CASE HandleInfo(m) /\ m.type = "reply" /\ req.why \in {"visit", "look", "revert"}
    <3>1. ~Tells(m, disk, change)
      BY <2>3 DEF Tells
    <3> QED BY <1>1, <1>4, <2>1, <2>3, <3>1, AnswerHeard DEF Heard
  <2>4. CASE /\ HandleContent(m) /\ m.type = "content"
             /\ req.op = "read" /\ req.stage = "replied" /\ req.why \in {"visit", "revert"}
             /\ req.why = "revert" => buf # None
    <3>1. ~Tells(m, disk, change)
      BY <2>4 DEF Tells
    <3>2. m.info.ver = req.info.ver
      BY <1>2, <2>4 DEF ReadKept
    <3> QED BY <1>1, <1>4, <2>1, <2>4, <3>1, <3>2, ContentHeard DEF Heard
  <2>5. CASE m.type = "saved"
    BY <1>4, <2>5 DEF Tells, Harmless
  <2>6. CASE HandleMismatch(m) /\ m.type = "mismatch" /\ buf # None /\ buf.modified
    <3>1. m.info.ver = disk.ver
      BY <1>4, <2>6 DEF Tells, Harmless
    <3> QED BY <1>1, <2>1, <2>6, <3>1, AnswerHeard DEF Heard
  <2> QED BY <1>1, <2>2, <2>3, <2>4, <2>5, <2>6
<1>5. CASE Coming
  <2>1. PICK i \in DOMAIN stream :
          /\ Tells(stream[i], disk, change)
          /\ \A j \in DOMAIN stream : j > i => Harmless(stream[j], disk, change, req.why)
    BY <1>5 DEF Coming
  <2>2. CASE i = 1
    BY <1>2, <1>4, <2>1, <2>2
  <2> QED BY <1>3, <2>1, <2>2
<1>6. CASE Heard
  <2>1. /\ Harmless(m, disk, change, req.why)
        /\ \A j \in DOMAIN stream : j > 1 => Harmless(stream[j], disk, change, req.why)
    BY <1>2, <1>6 DEF Heard, Calm
  <2> QED BY <1>4, <1>6, <2>1 DEF Heard
<1> QED BY <1>5, <1>6 DEF News

LEMMA NewsStep ==
    ASSUME TypeInv, Protocol, NewVersion, ReadKept, News, [Next]_vars
    PROVE  News'
<1> SUFFICES ASSUME change' \in {"told", "hinted"} PROVE Coming' \/ Heard'
  BY DEF News
<1>0. ~Put
  BY DEF Put, Store
<1>1. Recalled /\ disk' = disk
  BY <1>0, RecalledBefore DEF Recalled
<1>2. CASE Receive
  <2>1. change' = change
    BY <1>2 DEF Receive, ServerVars
  <2> QED BY <1>1, <1>2, <2>1, NewsReceived
<1>3. CASE /\ ~Receive /\ stream' = stream /\ change' = change
           /\ req' = req \/ req.stage # "replied"
  <2>1. \A j \in DOMAIN stream : stream[j].type = "content" => req' = req
    BY <1>3 DEF Protocol, OneAnswer, Answer
  <2>2. \A j \in DOMAIN stream : Harmless(stream[j], disk, change, req.why)
                                   => Harmless(stream'[j], disk', change', req'.why)
    BY <1>1, <1>3, <2>1 DEF Harmless
  <2>3. Coming => Coming'
    BY <1>1, <1>3, <2>2 DEF Coming
  <2>4. Heard => Heard'
    <3>1. Calm => Calm'
      BY <1>3, <2>2 DEF Calm
    <3> QED BY <1>1, <1>3, <3>1, HeardKept DEF Heard
  <2> QED BY <1>3, <2>3, <2>4 DEF News
<1>4. ASSUME NEW k \in Callbacks, CbSend(k), ~Receive PROVE Coming' \/ Heard'
  <2>1. cb[k] \in Callback /\ cb[k].stage = "send" /\ req' = req
    BY <1>4 DEF CbSend, CbVars, TypeInv, Tables
  <2> DEFINE type == cb[k].type
             info == IF type = "modified" THEN Restat(cb[k].info) ELSE cb[k].info
             m == [type |-> type, info |-> info]
  <2>2. stream' = Append(stream, m) /\ Telling(info.ver, type = "modified")
    BY <1>4 DEF CbSend, Send
  <2>3. info.ver = cb[k].info.ver /\ type \in Event /\ info.ver = disk.ver
    <3>1. info.ver = cb[k].info.ver /\ type \in Event
      BY <2>1, Restats DEF Callback, TypeInv, Stored
    <3>2. info.ver = disk.ver
      BY <2>2 DEF Telling
    <3> QED BY <3>1, <3>2
  <2>4. info = disk
    <3>1. cb[k].info = disk
      BY <1>1, <2>1, <2>3 DEF NewVersion
    <3>2. Restat(disk) = disk
      BY DEF Restat, TypeInv, Stored, File
    <3> QED BY <3>1, <3>2
  <2>5. /\ m.type \in {"modified", "deleted"} /\ m.info = disk
        /\ Telling(m.info.ver, m.type # "deleted")
    BY <2>2, <2>3, <2>4 DEF Event
  <2> QED BY <1>1, <1>4, <2>1, <2>2, <2>5, TellingSent
<1>5. CASE MismatchReply /\ ~Receive
  <2>1. /\ stream' = Append(stream, [type |-> "mismatch", info |-> Restat(req.info)])
        /\ Telling(req.info.ver, TRUE)
    BY <1>5 DEF MismatchReply, Send
  <2>2. req.info \in File /\ Restat(req.info).ver = req.info.ver
    BY Restats DEF TypeInv, Asked, Requests, Stored
  <2>3. req.info.ver = disk.ver
    BY <2>1 DEF Telling
  <2>4. req'.why = req.why
    BY <1>5, HandlerEdits DEF HandlerStep
  <2> DEFINE m == [type |-> "mismatch", info |-> Restat(req.info)]
  <2>5. /\ m.type = "mismatch" /\ m.info.ver = disk.ver /\ m.type \notin Event
        /\ Telling(m.info.ver, m.type # "deleted")
    BY <2>1, <2>2, <2>3 DEF Event
  <2> QED BY <1>1, <1>5, <2>1, <2>4, <2>5, TellingSent
<1>6. CASE (InfoReply \/ ReadReply) /\ ~Receive
  <2>1. PICK m : /\ stream' = Append(stream, m) /\ change' = change
                 /\ Harmless(m, disk, change, req.why)
    <3>1. CASE InfoReply
      <4>1. Harmless([type |-> "reply", info |-> req.info], disk, change, req.why)
        BY DEF Harmless, Event
      <4> QED BY <3>1, <4>1 DEF InfoReply, Send
    <3>2. CASE ReadReply
      <4>1. /\ stream' = Append(stream, [type |-> "content", info |-> req.info])
            /\ req.why \in {"visit", "revert"}
        BY <3>2 DEF ReadReply, Send, Handling, Protocol, Purpose
      <4>2. /\ change' = change
            /\ req.info.ver = disk.ver \/ (change = "told" /\ req.why = "revert")
        BY <1>1, <3>2, <4>1 DEF ReadReply, Telling, Recalled
      <4>3. Harmless([type |-> "content", info |-> req.info], disk, change, req.why)
        BY <4>2 DEF Harmless, Event
      <4> QED BY <4>1, <4>2, <4>3
    <3> QED BY <1>6, <3>1, <3>2
  <2>2. req'.why = req.why
    BY <1>6, HandlerEdits DEF HandlerStep
  <2>3. (Coming => Coming') /\ (Calm => Calm')
    BY <1>1, <2>1, <2>2, HarmlessSent
  <2>4. Heard => Heard'
    BY <1>1, <1>6, <2>1, <2>3, HeardKept DEF Heard
  <2> QED BY <2>1, <2>3, <2>4 DEF News
<1>7. ~WriteReply
  BY <1>1 DEF WriteReply, Adopting, Recalled
<1> QED BY <1>2, <1>3, <1>4, <1>5, <1>6, <1>7, StreamSteps

LEMMA CatchUpStep ==
    ASSUME TypeInv, Protocol, Genuine, Genuine', CatchUpInv, [Next]_vars
    PROVE  CatchUpInv'
<1>1. Below /\ NewVersion /\ ReadKept /\ News
  BY DEF CatchUpInv
<1>2. Below'
  BY <1>1, BelowStep
<1>3. NewVersion'
  BY <1>1, NewVersionStep
<1>4. ReadKept' /\ News'
  BY <1>1, ReadKeptStep, NewsStep
<1> QED BY <1>2, <1>3, <1>4 DEF CatchUpInv

\* A change that the client was told of is what an unmodified buffer with no
\* revert due shows once nothing is on its way, unless something older was sent
\* after it: the message that tells is in the stream, with nothing behind it that
\* leads away, or the cache entry and the buffer have taken it in
\* (flit--handle-file-changed, flit--cache-from-response, flit--read).
THEOREM ToldIsShown == Spec => []BufferCatchesUp
<1>1. Init => CatchUpInv
  <2> SUFFICES ASSUME Init PROVE CatchUpInv
    OBVIOUS
  <2>1. NewVersion /\ ReadKept /\ News
    BY DEF Init, NewVersion, Recalled, ReadKept, News
  <2>2. Below
    BY DEF Init, Below, Idle
  <2> QED BY <2>1, <2>2 DEF CatchUpInv
<1>2. TypeInv /\ Protocol /\ Genuine /\ Genuine' /\ CatchUpInv /\ [Next]_vars
        => CatchUpInv'
  BY CatchUpStep
<1>3. TypeInv /\ CatchUpInv => BufferCatchesUp
  <2> SUFFICES ASSUME CatchUpInv, buf # None, ~buf.modified, ~buf.changed, Free,
                      stream = <<>>, change \in {"told", "hinted"}
               PROVE  \/ buf.text = disk.ver
                      \/ change = "hinted" /\ buf.visited = disk.mtime
    BY DEF BufferCatchesUp
  <2>1. ~Coming
    BY DEF Coming
  <2>2. BufferHeard
    BY <2>1 DEF CatchUpInv, News, Heard
  <2> QED BY <2>2 DEF BufferHeard, Free, Idle
<1> QED BY <1>1, <1>2, <1>3, GenuineInvariant, PTL DEF Spec
=============================================================================
