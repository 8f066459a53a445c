------------------------------ MODULE FileSync ------------------------------
(***************************************************************************)
(* One remote file, the session that serves it and the Emacs that edits    *)
(* it: fs/info, fs/write, fs/open and fs/close on the server, the watcher  *)
(* callback with its mtime filter, the ordered stream to the client, and   *)
(* the client's cache entry and buffer (src/flit.el).                      *)
(*                                                                         *)
(* A content is a version number: 0 is the empty file, 1 the first         *)
(* content, and every edit or foreign write makes the next number.  Time   *)
(* is in whole seconds, as Unix() gives it.  The file is regular, smaller  *)
(* than 1 MB and never missing: deletion and recreation are FsWatcher's    *)
(* subject.  Debounce proves that an event is followed by a callback that  *)
(* starts after it, so the debouncer is a set of event types here.         *)
(***************************************************************************)
EXTENDS Integers, Sequences, FiniteSets

CONSTANTS
    Callbacks,       \* watcher callbacks that can be under way at once
    MaxVer,          \* bound: contents that ever exist
    Time,            \* bound: the seconds at which things happen
    Size(_),         \* length of a content; Size(0) is 0
    None

ASSUME FileSyncAssumption ==
    /\ MaxVer \in Nat \ {0}
    /\ Time \subseteq Nat /\ 0 \in Time
    /\ \A v \in 0..MaxVer : Size(v) \in Nat
    /\ Size(0) = 0

VARIABLES
    clock,      \* the second it is
    fresh,      \* the next version to be made
    disk,       \* the file: version and mtime
    meta,       \* the session's WatchMeta for the path, None when not watched
    pending,    \* types of the events the debouncer holds for the path
    cb,         \* the watcher callbacks
    async,      \* fs/open and fs/close requests under way
    req,        \* the client's blocking request and its handler
    stream,     \* from the server's writer to the client's reader, in order
    cache,      \* the client's cache entry, None when there is none
    buf,        \* the buffer visiting the file, None when there is none
    change,     \* history: what became of the last change of the disk
    written,    \* history: the versions that were ever on the disk
    forced      \* history: the texts whose save the user had forced

vars == <<clock, fresh, disk, meta, pending, cb, async, req, stream, cache,
          buf, change, written, forced>>
diskVars   == <<disk, pending, written, forced>>
clientVars == <<cache, buf, fresh>>

Ver  == 0..MaxVer
File == [ver : Ver, mtime : Time]
Stat == [mtime : Time, size : Nat]
Buffer == [text : Ver, modified : BOOLEAN, visited : Time, changed : BOOLEAN]
Event == {"modified", "deleted"}

ASSUME NoneAssumption == None \notin Stat \cup File \cup Buffer

Idle   == [op |-> "none", stage |-> "none", why |-> "none", ver |-> 0,
           info |-> [ver |-> 0, mtime |-> 0], expect |-> 0, force |-> FALSE]
CbIdle == [stage |-> "idle", type |-> "modified", stat |-> None,
           info |-> [ver |-> 0, mtime |-> 0]]

StatOf(f) == [mtime |-> f.mtime, size |-> Size(f.ver)]
-----------------------------------------------------------------------------
(* The disk *)

\* The disk holds f.  A watched path gets an event: of its own, or absorbed
\* by the timer that runs for an earlier one.
Store(f, type, ordinary) ==
    /\ disk' = f
    /\ pending' \in IF meta = None THEN {pending}
                    ELSE {pending \cup {type}} \cup ({pending} \ {{}})
    /\ change' = IF ordinary THEN "owed" ELSE "none"
    /\ written' = written \cup {f.ver}

\* Somebody else changes the file, in place or by renaming another file over
\* it: inotify then reports the old one's removal, and the new one may have
\* a very old mtime.  The change is ordinary when the path is watched
\* and the mtime is later than the file's last one and the stored one.
Put ==
    /\ fresh <= MaxVer
    /\ \E type \in Event, m \in {0, clock} :
          /\ type = "modified" => m = clock
          /\ Store([ver |-> fresh, mtime |-> m], type,
                   meta # None /\ m > meta.mtime /\ m > disk.mtime)
    /\ fresh' = fresh + 1
    /\ UNCHANGED <<clock, meta, cb, async, req, stream, cache, buf, forced>>

Tick ==
    /\ clock' \in {t \in Time : t > clock}
    /\ UNCHANGED <<fresh, disk, meta, pending, cb, async, req, stream, cache,
                   buf, change, written, forced>>

\* fs.Handler.getInfo reads the content and then stats the file again: the
\* mtime of the answer is the later one, its content is not.
Restat(info) == [info EXCEPT !.mtime = disk.mtime]

Send(m) == stream' = Append(stream, m)

\* A message about version v goes out, with its content or without.  One
\* about an older version comes after what the client was told.
Telling(v, content) ==
    change' = IF v # disk.ver
              THEN IF change \in {"told", "hinted"} THEN "overtaken" ELSE change
              ELSE IF content /\ change \in {"owed", "hinted"} THEN "told"
              ELSE IF change = "owed" THEN "hinted"
              ELSE change

\* A stat taken of version v is stored, and the client is not told.
Adopting(st) ==
    change' = IF change = "owed" /\ st = StatOf(disk) THEN "adopted" ELSE change
-----------------------------------------------------------------------------
(* The watcher callback of Session.InitWatcher *)

\* "Suppress if mtime is older (stale event) or unchanged with same size".
Suppressed(st) ==
    \/ st.mtime < meta.mtime
    \/ st.mtime = meta.mtime /\ st.size = meta.size

CbVars == <<clock, fresh, disk, written, forced, async, req, cache, buf>>

\* GetFileState and Lstat; only "modified" events of a watched path are
\* compared with the stored state.
CbStart(k) ==
    /\ cb[k].stage = "idle"
    /\ \E type \in pending :
          /\ pending' = pending \ {type}
          /\ LET st == IF type = "modified" /\ meta # None
                       THEN StatOf(disk) ELSE None
             IN  IF st # None /\ Suppressed(st)
                 THEN UNCHANGED cb
                 ELSE cb' = [cb EXCEPT ![k] = [CbIdle EXCEPT !.stage = "read",
                                               !.type = type, !.stat = st]]
    /\ UNCHANGED <<CbVars, meta, stream, change>>

\* UpdateFileState, then GetInfo's first stat and its read of the content.
CbRead(k) ==
    /\ cb[k].stage = "read"
    /\ meta' = IF cb[k].stat # None /\ meta # None THEN cb[k].stat ELSE meta
    /\ cb' = [cb EXCEPT ![k].stage = "send", ![k].info = disk]
    /\ UNCHANGED <<CbVars, pending, stream, change>>

\* Mutant: the stored state is brought up to date after the content was read.
CbSend_StoresLate(k) ==
    /\ cb[k].stage = "send"
    /\ meta' = IF meta = None THEN None ELSE StatOf(disk)
    /\ Send([type |-> cb[k].type, info |-> Restat(cb[k].info)])
    /\ Telling(cb[k].info.ver, cb[k].type = "modified")
    /\ cb' = [cb EXCEPT ![k] = CbIdle]
    /\ UNCHANGED <<CbVars, pending>>

\* GetInfo's second stat and fs/changed.  A "deleted" event of a file that
\* is there again carries GetInfoBasic's stat, without content.
CbSend(k) ==
    /\ cb[k].stage = "send"
    /\ LET type == cb[k].type
           info == IF type = "modified" THEN Restat(cb[k].info) ELSE cb[k].info
       IN  /\ Send([type |-> type, info |-> info])
           /\ Telling(info.ver, type = "modified")
    /\ cb' = [cb EXCEPT ![k] = CbIdle]
    /\ UNCHANGED <<CbVars, meta, pending>>
-----------------------------------------------------------------------------
(* fs/info, fs/read, fs/open, fs/close *)

ReqVars == <<clock, fresh, cb, async, cache, buf>>

Handling(op, stage) == req.op = op /\ req.stage = stage

\* What the client keeps of an answer whose content is left out of its
\* cache entry; an empty content is left out of every message.
NoContent(info) == [info EXCEPT !.ver = 0]

\* The last stat of GetInfoWithEntries: the content read before it travels in
\* the frame's payload, which the client drops.
InfoStat ==
    /\ Handling("info", "sent")
    /\ req' = [req EXCEPT !.stage = "stat", !.info = NoContent(disk)]
    /\ UNCHANGED <<ReqVars, diskVars, meta, stream, change>>

\* Session.WatchFile: nothing when the path is watched, else an empty state.
InfoWatch ==
    /\ Handling("info", "stat")
    /\ meta' = IF meta = None THEN [mtime |-> 0, size |-> 0] ELSE meta
    /\ req' = [req EXCEPT !.stage = "watched"]
    /\ UNCHANGED <<ReqVars, diskVars, stream, change>>

InfoReply ==
    /\ Handling("info", "watched")
    /\ Send([type |-> "reply", info |-> req.info])
    /\ req' = [req EXCEPT !.stage = "replied"]
    /\ UNCHANGED <<ReqVars, diskVars, meta, change>>

\* fs.Handler.Read: the content first, then the stat.
ReadContent ==
    /\ Handling("read", "sent")
    /\ req' = [req EXCEPT !.stage = "read", !.info = disk]
    /\ UNCHANGED <<ReqVars, diskVars, meta, stream, change>>

ReadStat ==
    /\ Handling("read", "read")
    /\ req' = [req EXCEPT !.stage = "stat", !.info = Restat(req.info)]
    /\ UNCHANGED <<ReqVars, diskVars, meta, stream, change>>

\* A buffer that is being filled for the first time has no mark; one that is
\* reverted keeps the one that a change of content gave it.
ReadReply ==
    /\ Handling("read", "stat")
    /\ Send([type |-> "content", info |-> req.info])
    /\ IF req.info.ver # disk.ver /\ (req.why = "visit" \/ change = "hinted")
       THEN Telling(req.info.ver, TRUE)
       ELSE UNCHANGED change
    /\ req' = [req EXCEPT !.stage = "replied"]
    /\ UNCHANGED <<ReqVars, diskVars, meta>>

AsyncVars == <<clock, fresh, disk, written, forced, cb, req, stream, cache, buf>>

\* Session.OpenFile stats the file before it takes watchedMu.
OpenStat(r) ==
    /\ r \in async /\ r.op = "open" /\ r.stat = None
    /\ async' = (async \ {r}) \cup {[r EXCEPT !.stat = StatOf(disk)]}
    /\ UNCHANGED <<AsyncVars, meta, pending, change>>

\* Session.OpenFile under watchedMu: watch or not, the stat is stored.
OpenStore(r) ==
    /\ r \in async /\ r.op = "open" /\ r.stat # None
    /\ meta' = r.stat
    /\ Adopting(r.stat)
    /\ async' = async \ {r}
    /\ UNCHANGED <<AsyncVars, pending>>

\* Session.CloseFile; a debounce timer is stopped, a callback is not.
Close(r) ==
    /\ r \in async /\ r.op = "close"
    /\ meta' = None
    /\ pending' \in {{}, pending}
    /\ async' = async \ {r}
    /\ change' = "none"
    /\ UNCHANGED AsyncVars
-----------------------------------------------------------------------------
(* fs/write *)

Distance(a, b) == IF a < b THEN b - a ELSE a - b

\* Mutant: no absolute difference.
Mismatch_LaterOnly == ~req.force /\ disk.mtime - req.expect > 2

\* The check of fs.Handler.Write: 2 seconds of tolerance, unless forced.
Mismatch == ~req.force /\ Distance(disk.mtime, req.expect) > 2

\* UpdateFileState with the present second and the length to be written,
\* then Handler.Write's check.
WriteCheck ==
    /\ Handling("write", "sent")
    /\ meta' = IF meta = None THEN None
               ELSE [mtime |-> clock, size |-> Size(req.ver)]
    /\ req' = [req EXCEPT !.stage = IF Mismatch THEN "mismatch" ELSE "checked",
                          !.info = disk]
    /\ UNCHANGED <<ReqVars, diskVars, stream, change>>

\* O_TRUNC; the empty file needs no second write.
WriteOpen ==
    /\ Handling("write", "checked")
    /\ Store([ver |-> 0, mtime |-> clock], "modified", FALSE)
    /\ req' = [req EXCEPT !.stage = IF req.ver = 0 THEN "data" ELSE "open"]
    /\ UNCHANGED <<ReqVars, meta, stream, forced>>

WriteData ==
    /\ Handling("write", "open")
    /\ Store([ver |-> req.ver, mtime |-> clock], "modified", FALSE)
    /\ req' = [req EXCEPT !.stage = "data"]
    /\ UNCHANGED <<ReqVars, meta, stream, forced>>

\* getInfo after the write; its content is dropped, the stat is not.
WriteStat ==
    /\ Handling("write", "data")
    /\ req' = [req EXCEPT !.stage = "done", !.info = disk]
    /\ UNCHANGED <<ReqVars, diskVars, meta, stream, change>>

\* UpdateFileState with that stat, and the answer.  The client has skipped
\* what it was told of before, because its buffer was modified.
WriteReply ==
    /\ Handling("write", "done")
    /\ meta' = IF meta = None THEN None ELSE StatOf(req.info)
    /\ IF change \in {"told", "hinted"}
       THEN change' = "overtaken"
       ELSE Adopting(StatOf(req.info))
    /\ Send([type |-> "saved", info |-> req.info])
    /\ req' = [req EXCEPT !.stage = "replied"]
    /\ UNCHANGED <<ReqVars, diskVars>>

\* The mismatch answer carries getInfo, with content.
MismatchReply ==
    /\ Handling("write", "mismatch")
    /\ Send([type |-> "mismatch", info |-> Restat(req.info)])
    /\ Telling(req.info.ver, TRUE)
    /\ req' = [req EXCEPT !.stage = "replied"]
    /\ UNCHANGED <<ReqVars, diskVars, meta>>
-----------------------------------------------------------------------------
(* The client.  Emacs handles what arrives while it waits for an answer.   *)

BufOf(info) == [text |-> info.ver, modified |-> FALSE, visited |-> info.mtime,
                changed |-> FALSE]

ServerVars == <<clock, disk, pending, written, meta, cb, change>>

Free == req = Idle

Request(op, why) == [Idle EXCEPT !.op = op, !.stage = "sent", !.why = why]

\* insert-file-contents, flit--read: the cached content if there is one, else
\* fs/read, after fs/info when nothing is cached.
Cached == cache # None /\ cache.ver # 0

Fetch(why) == req' = Request(IF cache = None THEN "info" ELSE "read", why)

\* find-file; the buffer's fs/open is asynchronous.
\* Bound: one fs/open and one fs/close under way.
OpenBuffer(info) ==
    /\ buf' = BufOf(info)
    /\ async' = async \cup {[op |-> "open", stat |-> None]}

Visit ==
    /\ buf = None /\ Free
    /\ \A r \in async : r.op # "open"
    /\ IF Cached
       THEN OpenBuffer(cache) /\ UNCHANGED req
       ELSE Fetch("visit") /\ UNCHANGED <<buf, async>>
    /\ UNCHANGED <<ServerVars, forced, fresh, stream, cache>>

\* Any other file operation, verify-visited-file-modtime among them, asks
\* when nothing is cached.
Look ==
    /\ cache = None /\ Free
    /\ Fetch("look")
    /\ UNCHANGED <<ServerVars, forced, fresh, async, stream, cache, buf>>

\* kill-buffer: fs/close; the cache entry stays.
Kill ==
    /\ buf # None /\ Free
    /\ \A r \in async : r.op # "close"
    /\ buf' = None
    /\ async' = async \cup {[op |-> "close", stat |-> None]}
    /\ UNCHANGED <<ServerVars, forced, fresh, req, stream, cache>>

Edit ==
    /\ buf # None /\ Free /\ fresh <= MaxVer
    /\ buf' = [buf EXCEPT !.text = fresh, !.modified = TRUE]
    /\ fresh' = fresh + 1
    /\ UNCHANGED <<ServerVars, forced, async, req, stream, cache>>

\* save-buffer, write-region, flit--write.  The user may confirm the question
\* that verify-visited-file-modtime raises, so it is no guard.
Save ==
    /\ buf # None /\ buf.modified /\ Free
    /\ req' = [Request("write", "save") EXCEPT !.ver = buf.text,
                                               !.expect = buf.visited]
    /\ UNCHANGED <<ServerVars, forced, clientVars, async, stream>>

\* Mutant: no look at buffer-modified-p.
Stale_AnyBuffer == buf # None /\ buf.changed

\* flit--buffer-stale-p.
Stale == buf # None /\ buf.changed /\ ~buf.modified

\* auto-revert: the flag of a stale buffer is cleared, and the buffer is read
\* again.
AutoRevert ==
    /\ Stale /\ Free
    /\ IF Cached
       THEN buf' = BufOf(cache) /\ UNCHANGED req
       ELSE buf' = [buf EXCEPT !.changed = FALSE] /\ Fetch("revert")
    /\ UNCHANGED <<ServerVars, forced, fresh, async, stream, cache>>

\* Mutant: the same mtime counts as in sync, whatever the content.
Notified_ByMtime(b, type, info) ==
    LET inSync == info.mtime = b.visited
    IN  IF inSync \/ b.modified THEN b ELSE [b EXCEPT !.changed = TRUE]

\* flit--handle-file-changed on the visiting buffer.  The content of an empty
\* file is left out of the message.
Notified(b, type, info) ==
    LET content == type = "modified" /\ info.ver # 0
        inSync  == IF content THEN info.ver = b.text ELSE info.mtime = b.visited
    IN  IF inSync THEN [b EXCEPT !.visited = info.mtime]
        ELSE IF b.modified THEN b ELSE [b EXCEPT !.changed = TRUE]

HandleChanged(m) ==
    /\ m.type \in Event
    /\ cache' = IF m.type = "deleted" THEN None ELSE m.info
    /\ buf' = IF buf = None THEN None ELSE Notified(buf, m.type, m.info)
    /\ UNCHANGED <<req, async, forced>>

\* flit--cache-from-response overwrites the entry with the content by the
\* answer's own, without it: insert-file-contents goes on to fs/read.
HandleInfo(m) ==
    /\ m.type = "reply"
    /\ cache' = NoContent(m.info)
    /\ req' = IF req.why = "look" THEN Idle ELSE Request("read", req.why)
    /\ UNCHANGED <<buf, async, forced>>

\* The rest of insert-file-contents; only the stat is cached.  A frame without
\* payload has no content, so the insertion of an empty file fails.
HandleContent(m) ==
    /\ m.type = "content"
    /\ req' = Idle
    /\ IF m.info.ver = 0 THEN UNCHANGED <<cache, buf, async>>
       ELSE /\ cache' = NoContent(m.info)
            /\ IF req.why = "visit" THEN OpenBuffer(m.info)
               ELSE /\ buf' = [BufOf(m.info) EXCEPT !.changed = buf.changed]
                    /\ UNCHANGED async
    /\ UNCHANGED forced

\* The answer's stat is cached, and its mtime becomes the visited one.
HandleSaved(m) ==
    /\ m.type = "saved"
    /\ cache' = NoContent(m.info)
    /\ buf' = [buf EXCEPT !.modified = FALSE, !.visited = m.info.mtime,
                          !.changed = FALSE]
    /\ forced' = IF req.force THEN forced \cup {buf.text} ELSE forced
    /\ req' = Idle
    /\ UNCHANGED async

\* Mutant: giving up leaves the buffer marked as saved.
HandleMismatch_Saved(m) ==
    /\ m.type = "mismatch"
    /\ cache' = m.info
    /\ req' = Idle
    /\ buf' = [buf EXCEPT !.modified = FALSE]
    /\ UNCHANGED <<async, forced>>

\* The user gives up, or has the write forced: the second request has no
\* payload.
HandleMismatch(m) ==
    /\ m.type = "mismatch"
    /\ cache' = m.info
    /\ req' \in {Idle, [Request("write", "save") EXCEPT !.expect = req.expect,
                                                        !.force = TRUE]}
    /\ UNCHANGED <<buf, async, forced>>

Receive ==
    /\ stream # <<>>
    /\ stream' = Tail(stream)
    /\ LET m == Head(stream)
       IN  \/ HandleChanged(m)
           \/ HandleInfo(m)
           \/ HandleContent(m)
           \/ HandleSaved(m)
           \/ HandleMismatch(m)
    /\ UNCHANGED <<ServerVars, fresh>>
-----------------------------------------------------------------------------
Init ==
    /\ clock \in Time /\ fresh = 2
    /\ disk = [ver |-> 1, mtime |-> clock]
    /\ meta = None /\ pending = {} /\ async = {}
    /\ cb = [k \in Callbacks |-> CbIdle]
    /\ req = Idle /\ stream = <<>>
    /\ cache = None /\ buf = None
    /\ change = "none"
    /\ written = {1} /\ forced = {}

Server ==
    \/ \E k \in Callbacks : CbStart(k) \/ CbRead(k) \/ CbSend(k)
    \/ InfoStat \/ InfoWatch \/ InfoReply
    \/ ReadContent \/ ReadStat \/ ReadReply
    \/ WriteCheck \/ WriteOpen \/ WriteData \/ WriteStat \/ WriteReply
    \/ MismatchReply
    \/ \E r \in async : OpenStat(r) \/ OpenStore(r) \/ Close(r)

Client == Visit \/ Look \/ Kill \/ Edit \/ Save \/ AutoRevert \/ Receive

Next == Put \/ Tick \/ Server \/ Client

Spec == Init /\ [][Next]_vars
-----------------------------------------------------------------------------
(* Properties *)

\* The types of the variables.
TypeOK ==
    /\ clock \in Time /\ fresh \in 1..MaxVer + 1
    /\ disk \in File
    /\ meta \in Stat \cup {None}
    /\ pending \subseteq Event
    /\ \A k \in Callbacks :
          /\ cb[k].stage \in {"idle", "read", "send"} /\ cb[k].type \in Event
          /\ cb[k].stat \in Stat \cup {None} /\ cb[k].info \in File
    /\ \A r \in async : r.op \in {"open", "close"} /\ r.stat \in Stat \cup {None}
    /\ req.why \in {"revert", "save"} => buf # None
    /\ req.info \in File /\ req.expect \in Time /\ req.ver \in Ver
    /\ \A i \in DOMAIN stream : stream[i].info \in File
    /\ cache \in File \cup {None}
    /\ buf \in Buffer \cup {None}
    /\ change \in {"none", "owed", "told", "hinted", "adopted", "overtaken"}
    /\ written \subseteq Ver /\ forced \subseteq Ver

Quiet == pending = {} /\ async = {} /\ req = Idle /\ stream = <<>>
         /\ \A k \in Callbacks : cb[k] = CbIdle

\* Whatever arrives while the user edits or saves, the text of a modified
\* buffer changes only by the user's own typing.
UnsavedEditsKept ==
    [][buf # None /\ buf' # None /\ buf.modified
         => buf'.text = buf.text \/ (buf'.text = fresh /\ buf'.modified)]_vars

\* A save that was not forced truncates a content only when its mtime is
\* within 2 seconds of the one the buffer visited, or it came after the check.
NoUnseenOverwrite ==
    [][Handling("write", "checked") /\ disk' # disk /\ req' # req /\ ~req.force
         => disk # req.info \/ Distance(disk.mtime, req.expect) <= 2]_vars

\* When nothing is under way, a change that carried a later mtime than the
\* session had stored has been reported, unless the stat that fs/open or
\* fs/write stores for the client's own view took it over.
OrdinaryChangesTold ==
    Quiet /\ meta # None => change # "owed"

\* An ordinary change that the client was told of is what an unmodified buffer
\* with no revert due shows, unless something older was sent after it: the
\* text that fills a new buffer, the answer to a save, another callback's
\* message.  Told without content, a buffer of the same mtime stays as it is.
BufferCatchesUp ==
    buf # None /\ ~buf.modified /\ ~buf.changed /\ Free /\ stream = <<>> =>
      /\ change = "told" => buf.text = disk.ver
      /\ change = "hinted" => buf.text = disk.ver \/ buf.visited = disk.mtime

\* A text that the client counts as saved has been on the disk.
SavedTextWritten == buf # None /\ ~buf.modified => buf.text \in written

\* ... unless the user had the save forced.
OnlyForcedSavesLost ==
    buf # None /\ ~buf.modified => buf.text \in written \cup forced
=============================================================================
