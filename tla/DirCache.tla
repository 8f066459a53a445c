------------------------------ MODULE DirCache ------------------------------
(***************************************************************************)
(* One remote directory and the client's cached listing of it: fs/info,    *)
(* fs/openDir, the pushes of PrefetchAncestors, AsyncFetchChildEntries and *)
(* fs/batch, the watcher callback, session/clearCache, and the ordered     *)
(* stream to the client.  The client takes a name that is not in a cached  *)
(* listing for a file that does not exist, without asking.                 *)
(*                                                                         *)
(* A listing carries the number of changes of the directory before it was  *)
(* read.  The directory exists throughout (FsWatcher has removal), its     *)
(* size does not tell its states apart, and of its children only the names *)
(* count: a pushed child entry stays until its own path is watched.        *)
(***************************************************************************)
EXTENDS Integers, Sequences, FiniteSets

CONSTANTS
    Names,          \* file names in the directory
    Callbacks,      \* bound: watcher callbacks under way at once
    Fetches,        \* bound: child fetches under way at once
    Workers,        \* the limit of a BoundedWaitGroup
    MaxDefault,     \* MaxEntriesDefault
    MaxExplicit,    \* MaxEntriesExplicit
    MaxVer,         \* bound: changes of the directory
    MaxTime,        \* bound: the last second
    MaxCalls,       \* bound: operations of the client
    None

Listing == [ver : 0..MaxVer, names : SUBSET Names]

ASSUME DirCacheAssumption ==
    /\ IsFiniteSet(Names) /\ None \notin Listing
    /\ Workers \in Nat \ {0}
    /\ MaxDefault \in Nat /\ MaxExplicit \in Nat /\ MaxDefault <= MaxExplicit
    /\ MaxVer \in Nat /\ MaxTime \in Nat \ {0} /\ MaxCalls \in Nat

VARIABLES
    dir,        \* the directory: changes so far, names and mtime in seconds
    meta,       \* the mtime in the session's WatchMeta, None when not watched
    rich,       \* richFetched of the directory
    due,        \* the debouncer holds an event of the directory
    cb,         \* the watcher callbacks
    info,       \* the handler of the client's blocking fs/info
    open,       \* the handler of an fs/openDir
    prefetch,   \* PrefetchAncestors after an fs/open, as for this directory
    batch,      \* the goroutine of an fs/batch that reads this directory
    fetch,      \* the goroutines of AsyncFetchChildEntries
    stream,     \* from the server's writer to the client's reader, in order
    asked,      \* the request Emacs waits for
    cache,      \* the names in the client's cached listing, None without one
    calls,      \* operations of the client so far
    fate,       \* history: what became of the last change of the directory
    fetches     \* history: child fetches since the session's state was reset

vars == <<dir, meta, rich, due, cb, info, open, prefetch, batch, fetch,
          stream, asked, cache, calls, fate, fetches>>

NoTask  == [stage |-> "none", list |-> None]
NoFetch == [todo |-> {}, running |-> {}, results |-> {}, children |-> {}]

\* readDirWithTypes.
ReadDir == [ver |-> dir.ver, names |-> dir.names]

\* Whoever has a listing that is in the cache or on its way there.
Held ==
    \/ cache # None
    \/ \E i \in DOMAIN stream : stream[i].list # None
    \/ \E t \in {info, prefetch, batch} \cup {cb[k] : k \in Callbacks} :
          t.stage = "read"
    \/ info.stage \in {"watched", "fetched"}
-----------------------------------------------------------------------------
(* The directory and its watch *)

\* A name comes or goes, now or in a later second than the last time.  A
\* watched directory gets an event.
Change ==
    /\ dir.ver < MaxVer
    /\ \E n \in Names, time \in dir.mtime..MaxTime :
          /\ dir' = [ver   |-> dir.ver + 1,
                     names |-> IF n \in dir.names THEN dir.names \ {n}
                                                  ELSE dir.names \cup {n},
                     mtime |-> time]
          /\ \/ meta # None /\ meta = time /\ fate' = "sameSecond"
             \/ meta # None /\ meta # time /\ fate' = "owed"
             \/ meta = None /\ Held        /\ fate' = "unwatched"
             \/ meta = None /\ ~Held       /\ fate' = "owed"
    /\ due' = (due \/ meta # None)
    /\ UNCHANGED <<meta, rich, cb, info, open, prefetch, batch, fetch, stream,
                   asked, cache, calls, fetches>>

\* Session.WatchDir: nothing when the path is watched, else an empty WatchMeta.
WatchDir == meta' = IF meta = None THEN 0 ELSE meta

\* The server sends a message; one with a listing tells the client.
Send(type, list) ==
    /\ stream' = Append(stream, [type |-> type, list |-> list])
    /\ \/ list = None /\ UNCHANGED fate
       \/ list # None /\ list.ver = dir.ver /\ fate' = "told"
       \/ /\ list # None /\ list.ver # dir.ver
          /\ fate' = IF fate = "told" THEN "overtaken" ELSE fate
-----------------------------------------------------------------------------
(* The watcher callback of Session.InitWatcher *)

CbVars == <<dir, rich, info, open, prefetch, batch, fetch, asked, cache,
            calls, fetches>>

\* "Suppress if mtime is older or unchanged with same size".
Suppressed(stored) == stored # None /\ dir.mtime <= stored

\* GetFileState, Lstat and UpdateFileState.  A timer that fired as the watch was
\* dropped runs all the same, and compares nothing.
CbStart(k) ==
    /\ due /\ cb[k].stage = "none"
    /\ due' = FALSE
    /\ IF Suppressed(meta)
       THEN UNCHANGED <<meta, cb>>
       ELSE /\ meta' = IF meta = None THEN None ELSE dir.mtime
            /\ cb' = [cb EXCEPT ![k].stage = "changed"]
    /\ UNCHANGED <<CbVars, stream, fate>>

\* GetInfo: an event of a directory is always "modified".
CbRead(k) ==
    /\ cb[k].stage = "changed"
    /\ cb' = [cb EXCEPT ![k] = [stage |-> "read", list |-> ReadDir]]
    /\ UNCHANGED <<CbVars, meta, due, stream, fate>>

CbSend(k) ==
    /\ cb[k].stage = "read"
    /\ Send("changed", cb[k].list)
    /\ cb' = [cb EXCEPT ![k] = NoTask]
    /\ UNCHANGED <<CbVars, meta, due>>
-----------------------------------------------------------------------------
(* AsyncFetchChildEntries and its BoundedWaitGroup *)

Active(f) == fetch[f] # NoFetch

\* Mutant: the directory is tested, but not marked.
AsyncFetch_NoMark(names, limit) ==
    IF names # {} /\ ~rich /\ Cardinality(names) <= limit
    THEN /\ UNCHANGED rich
         /\ fetches' = fetches + 1
         /\ \E f \in Fetches :
               /\ ~Active(f)
               /\ fetch' = [fetch EXCEPT ![f] = [NoFetch EXCEPT !.todo = names,
                                                               !.children = names]]
    ELSE UNCHANGED <<rich, fetch, fetches>>

\* With shouldRichFetch, which tests and marks the directory under the lock.
AsyncFetch(names, limit) ==
    IF names # {} /\ ~rich /\ Cardinality(names) <= limit
    THEN /\ rich' = TRUE
         /\ fetches' = fetches + 1
         /\ \E f \in Fetches :
               /\ ~Active(f)
               /\ fetch' = [fetch EXCEPT ![f] = [NoFetch EXCEPT !.todo = names,
                                                               !.children = names]]
    ELSE UNCHANGED <<rich, fetch, fetches>>

FetchVars == <<dir, meta, rich, due, cb, info, open, prefetch, batch,
               asked, cache, calls, fetches>>

\* BoundedWaitGroup.Add, which blocks at the limit, and the worker's start; the
\* children have an order.
FetchAdd(f) ==
    /\ fetch[f].todo # {} /\ Cardinality(fetch[f].running) < Workers
    /\ LET n == CHOOSE n \in fetch[f].todo : TRUE
       IN  fetch' = [fetch EXCEPT ![f].todo = @ \ {n}, ![f].running = @ \cup {n}]
    /\ UNCHANGED <<FetchVars, stream, fate>>

\* Mutant: a worker gives its place back only when nobody waits for one.
FetchWork_NoDone(f) ==
    /\ \E n \in fetch[f].running :
          fetch' = [fetch EXCEPT ![f].running = IF fetch[f].todo = {} THEN {} ELSE @,
                                 ![f].results = @ \cup {n}]
    /\ UNCHANGED <<FetchVars, stream, fate>>

\* A worker has the child's info, and BoundedWaitGroup.Done.
FetchWork(f) ==
    /\ \E n \in fetch[f].running :
          fetch' = [fetch EXCEPT ![f].running = @ \ {n}, ![f].results = @ \cup {n}]
    /\ UNCHANGED <<FetchVars, stream, fate>>

\* Mutant: the group counts a worker when it starts, not when it is added.
FetchSend_CountsLate(f) ==
    /\ Active(f) /\ fetch[f].todo = {}
    /\ fetch' = [fetch EXCEPT ![f] = NoFetch]
    /\ Send("entries", None)
    /\ UNCHANGED FetchVars

\* BoundedWaitGroup.Wait, then fs/entryInfo.
FetchSend(f) ==
    /\ Active(f) /\ fetch[f].todo = {} /\ fetch[f].running = {}
    /\ fetch' = [fetch EXCEPT ![f] = NoFetch]
    /\ Send("entries", None)
    /\ UNCHANGED FetchVars
-----------------------------------------------------------------------------
(* fs/info and fs/openDir *)

InfoVars == <<dir, due, cb, prefetch, batch, asked, cache, calls>>

\* GetInfoWithEntries, then WatchDir, then the child fetch and the reply.
Info ==
    \/ /\ info.stage = "sent"
       /\ info' = [stage |-> "read", list |-> ReadDir]
       /\ UNCHANGED <<meta, rich, fetch, fetches, stream, fate>>
    \/ /\ info.stage = "read"
       /\ WatchDir
       /\ info' = [info EXCEPT !.stage = "watched"]
       /\ UNCHANGED <<rich, fetch, fetches, stream, fate>>
    \/ /\ info.stage = "watched"
       /\ AsyncFetch(info.list.names, MaxDefault)
       /\ info' = [info EXCEPT !.stage = "fetched"]
       /\ UNCHANGED <<meta, stream, fate>>
    \/ /\ info.stage = "fetched"
       /\ Send("reply", info.list)
       /\ info' = NoTask
       /\ UNCHANGED <<meta, rich, fetch, fetches>>

\* The same with the higher limit; the client drops the reply.
OpenDir ==
    \/ /\ open.stage = "sent"
       /\ open' = [stage |-> "read", list |-> ReadDir]
       /\ UNCHANGED <<meta, rich, fetch, fetches>>
    \/ /\ open.stage = "read"
       /\ WatchDir
       /\ open' = [open EXCEPT !.stage = "watched"]
       /\ UNCHANGED <<rich, fetch, fetches>>
    \/ /\ open.stage = "watched"
       /\ AsyncFetch(open.list.names, MaxExplicit)
       /\ open' = NoTask
       /\ UNCHANGED meta
-----------------------------------------------------------------------------
(* PrefetchAncestors and fs/batch *)

\* Mutant: the directory is read, and then watched.
PrefetchFetch_ReadsFirst ==
    \/ /\ prefetch.stage = "filtered"
       /\ prefetch' = [stage |-> "watched", list |-> ReadDir]
       /\ UNCHANGED meta
    \/ /\ prefetch.stage = "watched"
       /\ WatchDir
       /\ prefetch' = [prefetch EXCEPT !.stage = "read"]

\* "Watch before fetching to avoid race".
PrefetchFetch ==
    \/ /\ prefetch.stage = "filtered"
       /\ WatchDir
       /\ prefetch' = [prefetch EXCEPT !.stage = "watched"]
    \/ /\ prefetch.stage = "watched"
       /\ prefetch' = [stage |-> "read", list |-> ReadDir]
       /\ UNCHANGED meta

\* Only a directory that is not watched yet is fetched; then
\* fs/ancestorInfo, and the child fetch.
Prefetch ==
    \/ /\ prefetch.stage = "sent"
       /\ prefetch' = IF meta = None THEN [prefetch EXCEPT !.stage = "filtered"]
                                     ELSE NoTask
       /\ UNCHANGED <<meta, rich, fetch, fetches, stream, fate>>
    \/ PrefetchFetch /\ UNCHANGED <<rich, fetch, fetches, stream, fate>>
    \/ /\ prefetch.stage = "read"
       /\ Send("ancestor", prefetch.list)
       /\ prefetch' = [prefetch EXCEPT !.stage = "told"]
       /\ UNCHANGED <<meta, rich, fetch, fetches>>
    \/ /\ prefetch.stage = "told"
       /\ AsyncFetch(prefetch.list.names, MaxDefault)
       /\ prefetch' = NoTask
       /\ UNCHANGED <<meta, stream, fate>>

\* fs/batch pushes the parent directories of its paths, and watches nothing.
Batch ==
    \/ /\ batch.stage = "sent"
       /\ batch' = [stage |-> "read", list |-> ReadDir]
       /\ UNCHANGED <<stream, fate>>
    \/ /\ batch.stage = "read"
       /\ Send("entries", batch.list)
       /\ batch' = NoTask
-----------------------------------------------------------------------------
(* session/clearCache *)

\* Session.ClearCacheState under watchedMu, and the reply.  The watcher drops
\* the directory's debounce state, or meets its event later.
ClearCacheState ==
    /\ asked = "clear" /\ \A i \in DOMAIN stream : stream[i].type # "cleared"
    /\ meta' = None /\ rich' = FALSE /\ fetches' = 0
    /\ due' \in {FALSE, due}
    /\ stream' = Append(stream, [type |-> "cleared", list |-> None])
    /\ fate' = IF fate = "owed" /\ Held THEN "unwatched" ELSE fate
    /\ UNCHANGED <<dir, cb, info, open, prefetch, batch, fetch, asked,
                   cache, calls>>
-----------------------------------------------------------------------------
(* The client.  Emacs handles what arrives while it waits for an answer.   *)

ClientVars == <<dir, meta, rich, due, cb, fetch, stream, fate, fetches>>

Call == calls < MaxCalls /\ calls' = calls + 1

\* flit--get-info of the directory when its listing is not cached.
GetInfo ==
    /\ Call /\ asked = "nothing" /\ cache = None
    /\ asked' = "info"
    /\ info' = [info EXCEPT !.stage = "sent"]
    /\ UNCHANGED <<ClientVars, open, prefetch, batch, cache>>

\* flit--open-dir-async, the fs/open of a file in the directory, and
\* flit--batch-prefetch.  Bound: one of each is under way.
Async ==
    /\ Call
    /\ \/ /\ open.stage = "none"
          /\ open' = [open EXCEPT !.stage = "sent"]
          /\ UNCHANGED <<prefetch, batch>>
       \/ /\ prefetch.stage = "none"
          /\ prefetch' = [prefetch EXCEPT !.stage = "sent"]
          /\ UNCHANGED <<open, batch>>
       \/ /\ batch.stage = "none"
          /\ batch' = [batch EXCEPT !.stage = "sent"]
          /\ UNCHANGED <<open, prefetch>>
    /\ UNCHANGED <<ClientVars, info, asked, cache>>

\* dired-uncache, and the retry for a file that the listing does not have.
Invalidate ==
    /\ Call /\ cache # None
    /\ cache' = None
    /\ UNCHANGED <<ClientVars, info, open, prefetch, batch, asked>>

\* flit-clear-cache: the client's entries go first, the server is told next.
ClearCache ==
    /\ Call /\ asked = "nothing"
    /\ cache' = None
    /\ asked' = "clear"
    /\ UNCHANGED <<ClientVars, info, open, prefetch, batch>>

\* flit--handle-file-changed, -ancestor-info, -entry-info and the reply of
\* fs/info: all store the listing they carry.
Receive ==
    /\ stream # <<>>
    /\ stream' = Tail(stream)
    /\ LET m == Head(stream)
       IN  /\ cache' = IF m.list = None THEN cache ELSE m.list.names
           /\ asked' = IF m.type \in {"reply", "cleared"} THEN "nothing" ELSE asked
    /\ UNCHANGED <<dir, meta, rich, due, cb, info, open, prefetch, batch,
                   fetch, calls, fate, fetches>>
-----------------------------------------------------------------------------
Init ==
    /\ \E names \in SUBSET Names : dir = [ver |-> 0, names |-> names, mtime |-> 1]
    /\ meta = None /\ rich = FALSE /\ due = FALSE
    /\ cb = [k \in Callbacks |-> NoTask]
    /\ info = NoTask /\ open = NoTask /\ prefetch = NoTask /\ batch = NoTask
    /\ fetch = [f \in Fetches |-> NoFetch]
    /\ stream = <<>>
    /\ asked = "nothing" /\ cache = None /\ calls = 0
    /\ fate = "owed" /\ fetches = 0

Callback(k) == CbStart(k) \/ CbRead(k) \/ CbSend(k)

Fetch(f) == FetchAdd(f) \/ FetchWork(f) \/ FetchSend(f)

Handlers ==
    \/ Info /\ UNCHANGED <<InfoVars, open>>
    \/ OpenDir /\ UNCHANGED <<InfoVars, info, stream, fate>>
    \/ Prefetch /\ UNCHANGED <<dir, due, cb, info, open, batch, asked,
                               cache, calls>>
    \/ Batch /\ UNCHANGED <<dir, meta, rich, due, cb, info, open, prefetch,
                            fetch, asked, cache, calls, fetches>>
    \/ ClearCacheState

Client == GetInfo \/ Async \/ Invalidate \/ ClearCache \/ Receive

Next ==
    \/ Change \/ Client \/ Handlers
    \/ \E k \in Callbacks : Callback(k)
    \/ \E f \in Fetches : Fetch(f)

\* The goroutines of a child fetch that can run do.
Spec == Init /\ [][Next]_vars /\ \A f \in Fetches : WF_vars(Fetch(f))
-----------------------------------------------------------------------------
(* Properties *)

Task(stages) == [stage : stages, list : Listing \cup {None}]

\* The types of the variables, and a wait group keeps its limit.
TypeOK ==
    /\ calls \in 0..MaxCalls
    /\ dir \in [ver : 0..MaxVer, names : SUBSET Names, mtime : 1..MaxTime]
    /\ meta \in 0..MaxTime \cup {None}
    /\ rich \in BOOLEAN /\ due \in BOOLEAN
    /\ cb \in [Callbacks -> Task({"none", "changed", "read"})]
    /\ info \in Task({"none", "sent", "read", "watched", "fetched"})
    /\ open \in Task({"none", "sent", "read", "watched"})
    /\ prefetch \in Task({"none", "sent", "filtered", "watched", "read", "told"})
    /\ batch \in Task({"none", "sent", "read"})
    /\ fetch \in [Fetches -> [todo : SUBSET Names, running : SUBSET Names,
                              results : SUBSET Names, children : SUBSET Names]]
    /\ \A f \in Fetches : Cardinality(fetch[f].running) <= Workers
    /\ stream \in Seq([type : {"reply", "changed", "ancestor", "entries", "cleared"},
                       list : Listing \cup {None}])
    /\ asked \in {"nothing", "info", "clear"}
    /\ cache \in (SUBSET Names) \cup {None}
    /\ fate \in {"owed", "told", "unwatched", "sameSecond", "overtaken"}
    /\ fetches \in Nat

Quiet ==
    /\ ~due /\ stream = <<>>
    /\ \A t \in {info, prefetch, batch} \cup {cb[k] : k \in Callbacks} : t = NoTask

\* When nothing is under way, a cached listing that is not the directory's
\* was left behind by a change of one of three kinds: it came while the
\* directory was not watched and its listing was cached or on its way; it came
\* in the second of the last change that was reported; or the message with the
\* newer listing was sent before one with an older.
StaleListingCauses ==
    Quiet /\ cache # None /\ cache # dir.names
      => fate \in {"unwatched", "sameSecond", "overtaken"}

\* "Must be called BEFORE starting the async fetch to prevent races": however
\* fs/info, fs/openDir and prefetches overlap, the children of a directory are
\* fetched once.
RichFetchOnce == fetches <= 1

\* An fs/entryInfo is sent when every child has been read.
PushComplete ==
    [][\A f \in Fetches : Active(f) /\ fetch'[f] = NoFetch
          => fetch[f].results = fetch[f].children]_vars

\* A child fetch comes to its end, with more children than workers too.
FetchEnds == \A f \in Fetches : Active(f) ~> ~Active(f)
=============================================================================
