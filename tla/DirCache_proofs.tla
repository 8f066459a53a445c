--------------------------- MODULE DirCache_proofs ---------------------------
(***************************************************************************)
(* For any directory, number of callbacks and child fetches, and any       *)
(* limits: the types, the child fetches, and what can leave a stale        *)
(* listing with the client.                                                *)
(***************************************************************************)
EXTENDS DirCache, FiniteSetTheorems, TLAPS

\* The actions, without their grouping.
ClientStep == GetInfo \/ Async \/ Invalidate \/ ClearCache \/ Receive

InfoStep     == Info /\ UNCHANGED <<InfoVars, open>>
OpenStep     == OpenDir /\ UNCHANGED <<InfoVars, info, stream, fate>>
PrefetchStep == Prefetch /\ UNCHANGED <<dir, due, cb, info, open, batch, asked,
                                        cache, calls>>
BatchStep    == Batch /\ UNCHANGED <<dir, meta, rich, due, cb, info, open,
                                     prefetch, fetch, asked, cache, calls, fetches>>

LEMMA NextSteps ==
    ASSUME [Next]_vars
    PROVE  \/ Change \/ GetInfo \/ Async \/ Invalidate \/ ClearCache \/ Receive
           \/ InfoStep \/ OpenStep \/ PrefetchStep \/ BatchStep
           \/ ClearCacheState
           \/ \E k \in Callbacks : CbStart(k) \/ CbRead(k) \/ CbSend(k)
           \/ \E f \in Fetches : FetchAdd(f) \/ FetchWork(f) \/ FetchSend(f)
           \/ UNCHANGED vars
BY DEF Next, Client, Handlers, Callback, Fetch, InfoStep, OpenStep,
       PrefetchStep, BatchStep
-----------------------------------------------------------------------------
(* The stream.                                                             *)

Message == [type : {"reply", "changed", "ancestor", "entries", "cleared"},
            list : Listing \cup {None}]

LEMMA Appended ==
    ASSUME NEW s \in Seq(Message), NEW m \in Message
    PROVE  /\ Append(s, m) \in Seq(Message)
           /\ DOMAIN s = 1..Len(s) /\ Len(s) \in Nat
           /\ DOMAIN Append(s, m) = 1..Len(s) + 1
           /\ Append(s, m)[Len(s) + 1] = m
           /\ \A i \in 1..Len(s) : Append(s, m)[i] = s[i]
OBVIOUS

LEMMA Taken ==
    ASSUME NEW s \in Seq(Message), s # <<>>
    PROVE  /\ Tail(s) \in Seq(Message) /\ Head(s) \in Message /\ Head(s) = s[1]
           /\ Len(s) \in Nat /\ Len(s) > 0
           /\ DOMAIN s = 1..Len(s) /\ DOMAIN Tail(s) = 1..Len(s) - 1
           /\ \A i \in 1..Len(s) - 1 : Tail(s)[i] = s[i + 1]
OBVIOUS
-----------------------------------------------------------------------------
(* Type correctness.                                                       *)

Places    == /\ dir \in [ver : 0..MaxVer, names : SUBSET Names, mtime : 1..MaxTime]
             /\ meta \in 0..MaxTime \cup {None}
RichType  == rich \in BOOLEAN
DueType   == due \in BOOLEAN
Asking    == /\ calls \in 0..MaxCalls
             /\ asked \in {"nothing", "info", "clear"}
CacheType == cache \in (SUBSET Names) \cup {None}
Told      == fate \in {"owed", "told", "unwatched", "sameSecond", "overtaken"}
CbType    == cb \in [Callbacks -> Task({"none", "changed", "read"})]
TaskType  == /\ info \in Task({"none", "sent", "read", "watched", "fetched"})
             /\ open \in Task({"none", "sent", "read", "watched"})
             /\ prefetch \in Task({"none", "sent", "filtered", "watched", "read", "told"})
             /\ batch \in Task({"none", "sent", "read"})
Streamed  == stream \in Seq(Message)
Fetching  == /\ fetch \in [Fetches -> [todo : SUBSET Names, running : SUBSET Names,
                                       results : SUBSET Names, children : SUBSET Names]]
             /\ \A f \in Fetches : Cardinality(fetch[f].running) <= Workers
             /\ fetches \in Nat

\* A handler that goes on with the listing it has read has one.
Carried ==
    /\ info.stage \in {"read", "watched", "fetched"} => info.list \in Listing
    /\ open.stage \in {"read", "watched"} => open.list \in Listing
    /\ prefetch.stage \in {"read", "told"} => prefetch.list \in Listing
    /\ batch.stage = "read" => batch.list \in Listing
    /\ \A k \in Callbacks : cb[k].stage = "read" => cb[k].list \in Listing

TypeInv == /\ Places /\ RichType /\ DueType /\ Asking /\ CacheType /\ Told
           /\ CbType /\ TaskType /\ Streamed /\ Fetching /\ Carried

LEMMA TypeParts == TypeInv => TypeOK
BY Zenon DEF TypeInv, TypeOK, Places, RichType, DueType, Asking, CacheType, Told,
             CbType, TaskType, Streamed, Fetching, Message

LEMMA DirRead ==
    ASSUME Places, DirCacheAssumption
    PROVE  ReadDir \in Listing /\ ReadDir # None /\ ReadDir.ver = dir.ver
           /\ ReadDir.names = dir.names
BY DEF Places, ReadDir, Listing, DirCacheAssumption

LEMMA InitType == DirCacheAssumption /\ Init => TypeInv
<1> SUFFICES ASSUME DirCacheAssumption, Init PROVE TypeInv
    OBVIOUS
<1>1. MaxVer \in Nat /\ MaxTime \in Nat \ {0} /\ MaxCalls \in Nat
      BY DEF DirCacheAssumption
<1>2. Places
      BY <1>1 DEF Init, Places
<1>3. Asking /\ CacheType /\ Told
      BY <1>1 DEF Init, Asking, CacheType, Told
<1>4. TaskType /\ Carried
      BY DEF Init, TaskType, Carried, Task, NoTask
<1>5. CbType
      BY DEF Init, CbType, Task, NoTask
<1>6. RichType /\ DueType
      BY Zenon DEF Init, RichType, DueType
<1>7. Streamed
      BY DEF Init, Streamed
<1>8. Fetching
  <2>1. \A f \in Fetches : Cardinality(fetch[f].running) = 0
        BY FS_EmptySet DEF Init, NoFetch
  <2> QED BY <2>1 DEF Init, Fetching, NoFetch, DirCacheAssumption
<1> QED BY <1>2, <1>3, <1>4, <1>5, <1>6, <1>7, <1>8 DEF TypeInv

LEMMA AsyncFetchType ==
    ASSUME DirCacheAssumption, Fetching, RichType, NEW names \in SUBSET Names,
           NEW limit, AsyncFetch(names, limit)
    PROVE  Fetching' /\ RichType'
<1>1. RichType'
  <2>1. CASE UNCHANGED rich
        BY <2>1, Zenon DEF RichType
  <2>2. CASE rich' = TRUE
        BY <2>2, Zenon DEF RichType
  <2> QED BY <2>1, <2>2 DEF AsyncFetch
<1>2. CASE UNCHANGED <<fetch, fetches>>
      BY <1>1, <1>2 DEF Fetching
<1>3. CASE /\ fetches' = fetches + 1
           /\ \E f \in Fetches :
                 fetch' = [fetch EXCEPT ![f] = [NoFetch EXCEPT !.todo = names,
                                                               !.children = names]]
  <2>1. PICK f \in Fetches :
           fetch' = [fetch EXCEPT ![f] = [NoFetch EXCEPT !.todo = names,
                                                         !.children = names]]
        BY <1>3
  <2>2. fetch'[f] = [todo |-> names, running |-> {}, results |-> {}, children |-> names]
        BY <2>1 DEF Fetching, NoFetch
  <2>3. Cardinality(fetch'[f].running) <= Workers
        BY <2>2, FS_EmptySet DEF DirCacheAssumption
  <2>4. \A g \in Fetches : g # f => fetch'[g] = fetch[g]
        BY <2>1 DEF Fetching
  <2>5. \A g \in Fetches : Cardinality(fetch'[g].running) <= Workers
        BY <2>3, <2>4 DEF Fetching
  <2>6. fetch' \in [Fetches -> [todo : SUBSET Names, running : SUBSET Names,
                                results : SUBSET Names, children : SUBSET Names]]
    <3> DEFINE new == [NoFetch EXCEPT !.todo = names, !.children = names]
               Kind == [todo : SUBSET Names, running : SUBSET Names,
                        results : SUBSET Names, children : SUBSET Names]
    <3>1. new \in Kind
          BY DEF NoFetch
    <3>2. fetch \in [Fetches -> Kind]
          BY DEF Fetching
    <3> HIDE DEF new, Kind
    <3>3. [fetch EXCEPT ![f] = new] \in [Fetches -> Kind]
          BY ONLY <3>1, <3>2
    <3> QED BY <2>1, <3>3 DEF new, Kind
  <2> QED BY <1>1, <1>3, <2>5, <2>6 DEF Fetching
<1> QED BY <1>2, <1>3 DEF AsyncFetch

LEMMA OneMore ==
    ASSUME NEW S, NEW x, IsFiniteSet(S)
    PROVE  /\ Cardinality(S) \in Nat
           /\ Cardinality(S \cup {x}) \in {Cardinality(S), Cardinality(S) + 1}
           /\ Cardinality(S \ {x}) \in {Cardinality(S), Cardinality(S) - 1}
<1>1. Cardinality(S) \in Nat
      BY FS_CardinalityType
<1>2. Cardinality(S \cup {x}) = IF x \in S THEN Cardinality(S) ELSE Cardinality(S) + 1
      BY FS_AddElement
<1>3. Cardinality(S \ {x}) = IF x \in S THEN Cardinality(S) - 1 ELSE Cardinality(S)
      BY FS_RemoveElement
<1> QED BY <1>1, <1>2, <1>3

LEMMA WorkType ==
    ASSUME DirCacheAssumption, Fetching, NEW f \in Fetches, FetchAdd(f) \/ FetchWork(f)
    PROVE  Fetching'
<1>1. PICK n \in Names :
         \/ /\ Cardinality(fetch[f].running) < Workers
            /\ fetch' = [fetch EXCEPT ![f].todo = @ \ {n}, ![f].running = @ \cup {n}]
         \/ /\ n \in fetch[f].running
            /\ fetch' = [fetch EXCEPT ![f].running = @ \ {n}, ![f].results = @ \cup {n}]
  <2>1. CASE FetchAdd(f)
    <3> DEFINE n == CHOOSE n \in fetch[f].todo : TRUE
    <3>1. n \in fetch[f].todo
          BY <2>1 DEF FetchAdd
    <3>2. n \in Names
          BY <3>1 DEF Fetching
    <3> QED BY <2>1, <3>2 DEF FetchAdd
  <2>2. CASE FetchWork(f)
        BY <2>2 DEF FetchWork, Fetching
  <2> QED BY <2>1, <2>2
<1>2. IsFiniteSet(fetch[f].running)
      BY FS_Subset DEF Fetching, DirCacheAssumption
<1>3. /\ Workers \in Nat /\ Cardinality(fetch[f].running) \in Nat
      /\ Cardinality(fetch[f].running \cup {n})
            \in {Cardinality(fetch[f].running), Cardinality(fetch[f].running) + 1}
      /\ Cardinality(fetch[f].running \ {n})
            \in {Cardinality(fetch[f].running), Cardinality(fetch[f].running) - 1}
      BY <1>2, OneMore DEF DirCacheAssumption
<1>4. Cardinality(fetch[f].running) <= Workers
      BY DEF Fetching
<1>5. Cardinality(fetch'[f].running) <= Workers
  <2>1. CASE /\ Cardinality(fetch[f].running) < Workers
             /\ fetch'[f].running = fetch[f].running \cup {n}
        BY <1>3, <2>1
  <2>2. CASE fetch'[f].running = fetch[f].running \ {n}
        BY <1>3, <1>4, <2>2
  <2> QED BY <1>1, <2>1, <2>2 DEF Fetching
<1>6. \A g \in Fetches : g # f => fetch'[g] = fetch[g]
      BY <1>1 DEF Fetching
<1>7. \A g \in Fetches : Cardinality(fetch'[g].running) <= Workers
      BY <1>5, <1>6 DEF Fetching
<1>8. fetch' \in [Fetches -> [todo : SUBSET Names, running : SUBSET Names,
                              results : SUBSET Names, children : SUBSET Names]]
      BY <1>1 DEF Fetching
<1>9. fetches' \in Nat
      BY DEF Fetching, FetchAdd, FetchWork, FetchVars
<1> QED BY <1>7, <1>8, <1>9 DEF Fetching

\* The parts that only few actions touch.
LEMMA PlacesStep ==
    ASSUME DirCacheAssumption, TypeInv, [Next]_vars
    PROVE  Places'
<1>0. Places /\ MaxTime \in Nat /\ MaxVer \in Nat
      BY DEF TypeInv, DirCacheAssumption
<1>1. CASE Change
      BY <1>0, <1>1 DEF Change, Places
<1>2. CASE UNCHANGED dir /\ (UNCHANGED meta \/ meta' \in {None, 0, dir.mtime})
      BY <1>0, <1>2 DEF Places
<1>3. CASE ClientStep
      BY <1>2, <1>3 DEF ClientStep, GetInfo, Async, Invalidate, ClearCache,
                        Receive, ClientVars
<1>4. CASE InfoStep \/ OpenStep \/ PrefetchStep \/ BatchStep
      BY <1>2, <1>4 DEF InfoStep, OpenStep, PrefetchStep, BatchStep, Info, OpenDir,
                        Prefetch, PrefetchFetch, Batch, WatchDir, InfoVars
<1>5. CASE ClearCacheState
      BY <1>2, <1>5 DEF ClearCacheState
<1>6. CASE \E k \in Callbacks : CbStart(k) \/ CbRead(k) \/ CbSend(k)
      BY <1>2, <1>6 DEF CbStart, CbRead, CbSend, CbVars
<1>7. CASE \E f \in Fetches : FetchAdd(f) \/ FetchWork(f) \/ FetchSend(f)
      BY <1>2, <1>7 DEF FetchAdd, FetchWork, FetchSend, FetchVars
<1>8. CASE UNCHANGED vars
      BY <1>2, <1>8 DEF vars
<1> QED BY <1>1, <1>3, <1>4, <1>5, <1>6, <1>7, <1>8, NextSteps DEF ClientStep

LEMMA DueStep ==
    ASSUME TypeInv, [Next]_vars
    PROVE  DueType'
<1>0. DueType
      BY DEF TypeInv
<1>1. CASE UNCHANGED due
      BY <1>0, <1>1, Zenon DEF DueType
<1>2. CASE due' = FALSE
      BY <1>2, Zenon DEF DueType
<1>3. CASE Change
  <2>1. (due \/ meta # None) \in BOOLEAN
        OBVIOUS
  <2>2. due' = (due \/ meta # None)
        BY <1>3, Zenon DEF Change
  <2> QED BY <2>1, <2>2, Zenon DEF DueType
<1>4. CASE ClientStep
      BY <1>1, <1>4 DEF ClientStep, GetInfo, Async, Invalidate, ClearCache,
                        Receive, ClientVars
<1>5. CASE InfoStep \/ OpenStep \/ PrefetchStep \/ BatchStep
      BY <1>1, <1>5 DEF InfoStep, OpenStep, PrefetchStep, BatchStep, InfoVars
<1>6. CASE ClearCacheState
      BY <1>1, <1>2, <1>6 DEF ClearCacheState
<1>7. CASE \E k \in Callbacks : CbStart(k) \/ CbRead(k) \/ CbSend(k)
      BY <1>1, <1>2, <1>7 DEF CbStart, CbRead, CbSend
<1>8. CASE \E f \in Fetches : FetchAdd(f) \/ FetchWork(f) \/ FetchSend(f)
      BY <1>1, <1>8 DEF FetchAdd, FetchWork, FetchSend, FetchVars
<1>9. CASE UNCHANGED vars
      BY <1>1, <1>9 DEF vars
<1> QED BY <1>3, <1>4, <1>5, <1>6, <1>7, <1>8, <1>9, NextSteps DEF ClientStep

LEMMA AskingStep ==
    ASSUME DirCacheAssumption, TypeInv, [Next]_vars
    PROVE  Asking' /\ CacheType'
<1>0. Asking /\ CacheType /\ Streamed /\ MaxCalls \in Nat
      BY DEF TypeInv, DirCacheAssumption
<1>1. CASE UNCHANGED <<calls, asked, cache>>
      BY <1>0, <1>1 DEF Asking, CacheType
<1>2. CASE GetInfo \/ Async \/ Invalidate \/ ClearCache
      BY <1>0, <1>2 DEF GetInfo, Async, Invalidate, ClearCache, Call, Asking, CacheType
<1>3. CASE Receive
  <2>1. Head(stream) \in Message
        BY <1>0, <1>3, Taken DEF Receive, Streamed
  <2>2. Head(stream).list # None => Head(stream).list.names \in SUBSET Names
        BY <2>1 DEF Message, Listing
  <2> QED BY <1>0, <1>3, <2>2 DEF Receive, Asking, CacheType
<1>4. CASE Change
      BY <1>1, <1>4 DEF Change
<1>5. CASE InfoStep \/ OpenStep \/ PrefetchStep \/ BatchStep
      BY <1>1, <1>5 DEF InfoStep, OpenStep, PrefetchStep, BatchStep, InfoVars
<1>6. CASE ClearCacheState
      BY <1>1, <1>6 DEF ClearCacheState
<1>7. CASE \E k \in Callbacks : CbStart(k) \/ CbRead(k) \/ CbSend(k)
      BY <1>1, <1>7 DEF CbStart, CbRead, CbSend, CbVars
<1>8. CASE \E f \in Fetches : FetchAdd(f) \/ FetchWork(f) \/ FetchSend(f)
      BY <1>1, <1>8 DEF FetchAdd, FetchWork, FetchSend, FetchVars
<1>9. CASE UNCHANGED vars
      BY <1>1, <1>9 DEF vars
<1> QED BY <1>2, <1>3, <1>4, <1>5, <1>6, <1>7, <1>8, <1>9, NextSteps

LEMMA FetchingStep ==
    ASSUME DirCacheAssumption, TypeInv, [Next]_vars
    PROVE  Fetching' /\ RichType'
<1>0. Fetching /\ RichType /\ TaskType /\ Carried
      BY DEF TypeInv
<1>1. CASE UNCHANGED <<rich, fetch, fetches>>
  <2>1. Fetching'
        BY <1>0, <1>1 DEF Fetching
  <2>2. RichType'
        BY <1>0, <1>1, Zenon DEF RichType
  <2> QED BY <2>1, <2>2
<1>2. CASE ClientStep
      BY <1>1, <1>2 DEF ClientStep, GetInfo, Async, Invalidate, ClearCache,
                        Receive, ClientVars
<1>3. CASE \E names \in SUBSET Names, limit \in {MaxDefault, MaxExplicit} :
              AsyncFetch(names, limit)
      BY <1>0, <1>3, AsyncFetchType
<1>4. CASE InfoStep
  <2>1. CASE info.stage = "watched" /\ AsyncFetch(info.list.names, MaxDefault)
    <3>1. info.list.names \in SUBSET Names
          BY <1>0, <2>1 DEF Carried, Listing
    <3> QED BY <1>3, <2>1, <3>1
  <2> QED BY <1>1, <1>4, <2>1 DEF InfoStep, Info
<1>5. CASE OpenStep
  <2>1. CASE open.stage = "watched" /\ AsyncFetch(open.list.names, MaxExplicit)
    <3>1. open.list.names \in SUBSET Names
          BY <1>0, <2>1 DEF Carried, Listing
    <3> QED BY <1>3, <2>1, <3>1
  <2> QED BY <1>1, <1>5, <2>1 DEF OpenStep, OpenDir
<1>6. CASE PrefetchStep
  <2>1. CASE prefetch.stage = "told" /\ AsyncFetch(prefetch.list.names, MaxDefault)
    <3>1. prefetch.list.names \in SUBSET Names
          BY <1>0, <2>1 DEF Carried, Listing
    <3> QED BY <1>3, <2>1, <3>1
  <2> QED BY <1>1, <1>6, <2>1 DEF PrefetchStep, Prefetch
<1>7. CASE BatchStep
      BY <1>1, <1>7 DEF BatchStep
<1>8. CASE ClearCacheState
  <2>1. Fetching'
        BY <1>0, <1>8 DEF ClearCacheState, Fetching
  <2>2. RichType'
        BY <1>8, Zenon DEF ClearCacheState, RichType
  <2> QED BY <2>1, <2>2
<1>9. CASE \E k \in Callbacks : CbStart(k) \/ CbRead(k) \/ CbSend(k)
      BY <1>1, <1>9 DEF CbStart, CbRead, CbSend, CbVars
<1>10. ASSUME NEW f \in Fetches, FetchAdd(f) \/ FetchWork(f) \/ FetchSend(f)
       PROVE  Fetching' /\ RichType'
  <2>1. RichType'
    <3>1. UNCHANGED rich
          BY <1>10 DEF FetchAdd, FetchWork, FetchSend, FetchVars
    <3> QED BY <1>0, <3>1, Zenon DEF RichType
  <2>2. CASE FetchAdd(f) \/ FetchWork(f)
        BY <1>0, <2>1, <2>2, WorkType
  <2>3. CASE FetchSend(f)
    <3>1. fetch'[f] = NoFetch /\ \A g \in Fetches : g # f => fetch'[g] = fetch[g]
          BY <1>0, <2>3 DEF FetchSend, Fetching
    <3>2. \A g \in Fetches : Cardinality(fetch'[g].running) <= Workers
          BY <1>0, <3>1, FS_EmptySet DEF Fetching, NoFetch, DirCacheAssumption
    <3>3. fetch' \in [Fetches -> [todo : SUBSET Names, running : SUBSET Names,
                                  results : SUBSET Names, children : SUBSET Names]]
          BY <1>0, <2>3 DEF FetchSend, Fetching, NoFetch
    <3>4. fetches' \in Nat
          BY <1>0, <2>3 DEF FetchSend, FetchVars, Fetching
    <3> QED BY <2>1, <3>2, <3>3, <3>4 DEF Fetching
  <2> QED BY <1>10, <2>2, <2>3
<1>11. CASE UNCHANGED vars \/ Change
      BY <1>1, <1>11 DEF vars, Change
<1> QED BY <1>2, <1>4, <1>5, <1>6, <1>7, <1>8, <1>9, <1>10, <1>11, NextSteps
        DEF ClientStep

LEMMA CbStep ==
    ASSUME DirCacheAssumption, TypeInv, [Next]_vars
    PROVE  CbType' /\ \A k \in Callbacks : cb'[k].stage = "read" => cb'[k].list \in Listing
<1>0. /\ CbType /\ Places
      /\ \A k \in Callbacks : cb[k].stage = "read" => cb[k].list \in Listing
      BY DEF TypeInv, Carried
<1>1. CASE UNCHANGED cb
      BY <1>0, <1>1 DEF CbType
<1>2. ASSUME NEW k \in Callbacks, CbStart(k) \/ CbRead(k) \/ CbSend(k)
      PROVE  CbType' /\ \A j \in Callbacks : cb'[j].stage = "read" => cb'[j].list \in Listing
  <2>1. CASE CbStart(k)
    <3>1. CASE cb' = [cb EXCEPT ![k].stage = "changed"]
          BY <1>0, <3>1 DEF CbType, Task
    <3> QED BY <1>1, <2>1, <3>1 DEF CbStart
  <2>2. CASE CbRead(k)
    <3>1. ReadDir \in Listing
          BY <1>0, DirRead
    <3>2. cb' = [cb EXCEPT ![k] = [stage |-> "read", list |-> ReadDir]]
          BY <2>2 DEF CbRead
    <3> QED BY <1>0, <3>1, <3>2 DEF CbType, Task
  <2>3. CASE CbSend(k)
    <3>1. cb' = [cb EXCEPT ![k] = NoTask]
          BY <2>3 DEF CbSend
    <3> QED BY <1>0, <3>1 DEF CbType, Task, NoTask
  <2> QED BY <1>2, <2>1, <2>2, <2>3
<1>3. CASE Change \/ ClientStep \/ ClearCacheState \/ UNCHANGED vars
      BY <1>1, <1>3 DEF Change, ClientStep, GetInfo, Async, Invalidate, ClearCache,
                        Receive, ClientVars, ClearCacheState, vars
<1>4. CASE InfoStep \/ OpenStep \/ PrefetchStep \/ BatchStep
      BY <1>1, <1>4 DEF InfoStep, OpenStep, PrefetchStep, BatchStep, InfoVars
<1>5. CASE \E f \in Fetches : FetchAdd(f) \/ FetchWork(f) \/ FetchSend(f)
      BY <1>1, <1>5 DEF FetchAdd, FetchWork, FetchSend, FetchVars
<1> QED BY <1>2, <1>3, <1>4, <1>5, NextSteps DEF ClientStep

Carries ==
    /\ info.stage \in {"read", "watched", "fetched"} => info.list \in Listing
    /\ open.stage \in {"read", "watched"} => open.list \in Listing
    /\ prefetch.stage \in {"read", "told"} => prefetch.list \in Listing
    /\ batch.stage = "read" => batch.list \in Listing

LEMMA TaskStep ==
    ASSUME DirCacheAssumption, TypeInv, [Next]_vars
    PROVE  TaskType' /\ Carries'
<1>0. TaskType /\ Carries /\ ReadDir \in Listing
      BY DirRead DEF TypeInv, Carried, Carries
<1>1. CASE UNCHANGED <<info, open, prefetch, batch>>
      BY <1>0, <1>1 DEF TaskType, Carries
<1>2. CASE GetInfo \/ Async \/ Invalidate \/ ClearCache
      BY <1>0, <1>2 DEF GetInfo, Async, Invalidate, ClearCache, TaskType, Task, Carries
<1>3. CASE InfoStep
      BY <1>0, <1>3 DEF InfoStep, InfoVars, Info, TaskType, Task, NoTask, Carries
<1>4. CASE OpenStep
      BY <1>0, <1>4 DEF OpenStep, InfoVars, OpenDir, TaskType, Task, NoTask, Carries
<1>5. CASE PrefetchStep
      BY <1>0, <1>5 DEF PrefetchStep, Prefetch, PrefetchFetch, TaskType, Task, NoTask,
                        Carries
<1>6. CASE BatchStep
      BY <1>0, <1>6 DEF BatchStep, Batch, TaskType, Task, NoTask, Carries
<1>7. CASE Change \/ Receive \/ ClearCacheState \/ UNCHANGED vars
      BY <1>1, <1>7 DEF Change, Receive, ClearCacheState, vars
<1>8. CASE \E k \in Callbacks : CbStart(k) \/ CbRead(k) \/ CbSend(k)
      BY <1>1, <1>8 DEF CbStart, CbRead, CbSend, CbVars
<1>9. CASE \E f \in Fetches : FetchAdd(f) \/ FetchWork(f) \/ FetchSend(f)
      BY <1>1, <1>9 DEF FetchAdd, FetchWork, FetchSend, FetchVars
<1> QED BY <1>2, <1>3, <1>4, <1>5, <1>6, <1>7, <1>8, <1>9, NextSteps

\* The listings a handler or callback is about to send.
OnHand(list) ==
    \/ info.stage = "fetched" /\ list = info.list
    \/ prefetch.stage = "read" /\ list = prefetch.list
    \/ batch.stage = "read" /\ list = batch.list
    \/ \E k \in Callbacks : cb[k].stage = "read" /\ list = cb[k].list

\* What each step does to the stream: a message goes in at one end or out at
\* the other.
Sends(type, list) ==
    /\ type \in {"reply", "changed", "ancestor", "entries"}
    /\ list = None \/ OnHand(list)
    /\ type = "reply" => info.stage # "none" /\ info'.stage = "none" /\ UNCHANGED asked
    /\ Send(type, list)
    /\ UNCHANGED <<dir, cache>>

LEMMA StreamSteps ==
    ASSUME TypeInv, [Next]_vars
    PROVE  \/ UNCHANGED <<stream, fate>>
           \/ Change /\ UNCHANGED <<stream, cache>>
           \/ \E type, list : Sends(type, list)
           \/ ClearCacheState
           \/ Receive
<1>1. CASE GetInfo \/ Async \/ Invalidate \/ ClearCache \/ UNCHANGED vars
      BY <1>1 DEF GetInfo, Async, Invalidate, ClearCache, ClientVars, vars
<1>2. CASE Change
      BY <1>2 DEF Change
<1>3. CASE InfoStep
  <2>1. CASE info.stage = "fetched" /\ Send("reply", info.list) /\ info' = NoTask
        BY <1>3, <2>1 DEF InfoStep, InfoVars, Sends, OnHand, NoTask
  <2> QED BY <1>3, <2>1 DEF InfoStep, Info
<1>4. CASE OpenStep
      BY <1>4 DEF OpenStep
<1>5. CASE PrefetchStep
  <2>1. CASE prefetch.stage = "read" /\ Send("ancestor", prefetch.list)
        BY <1>5, <2>1 DEF PrefetchStep, Sends, OnHand
  <2> QED BY <1>5, <2>1 DEF PrefetchStep, Prefetch
<1>6. CASE BatchStep
  <2>1. CASE batch.stage = "read" /\ Send("entries", batch.list)
        BY <1>6, <2>1 DEF BatchStep, Sends, OnHand
  <2> QED BY <1>6, <2>1 DEF BatchStep, Batch
<1>7. ASSUME NEW k \in Callbacks, CbStart(k) \/ CbRead(k) \/ CbSend(k)
      PROVE  UNCHANGED <<stream, fate>> \/ \E type, list : Sends(type, list)
  <2>1. CASE CbSend(k)
    <3>1. Sends("changed", cb[k].list)
          BY <2>1 DEF CbSend, CbVars, Sends, OnHand
    <3> QED BY <3>1
  <2> QED BY <1>7, <2>1 DEF CbStart, CbRead
<1>8. ASSUME NEW f \in Fetches, FetchAdd(f) \/ FetchWork(f) \/ FetchSend(f)
      PROVE  UNCHANGED <<stream, fate>> \/ \E type, list : Sends(type, list)
  <2>1. CASE FetchSend(f)
    <3>1. Sends("entries", None)
          BY <2>1 DEF FetchSend, FetchVars, Sends
    <3> QED BY <3>1
  <2> QED BY <1>8, <2>1 DEF FetchAdd, FetchWork
<1> QED BY <1>1, <1>2, <1>3, <1>4, <1>5, <1>6, <1>7, <1>8, NextSteps

LEMMA SentListing ==
    ASSUME TypeInv, NEW type, NEW list, Sends(type, list)
    PROVE  list \in Listing \cup {None} /\ [type |-> type, list |-> list] \in Message
BY DEF TypeInv, Carried, Sends, OnHand, Message

LEMMA StreamStep ==
    ASSUME DirCacheAssumption, TypeInv, [Next]_vars
    PROVE  Streamed' /\ Told'
<1>0. Streamed /\ Told
      BY DEF TypeInv
<1>1. CASE UNCHANGED <<stream, fate>>
      BY <1>0, <1>1 DEF Streamed, Told
<1>2. CASE Change /\ UNCHANGED stream
      BY <1>0, <1>2 DEF Change, Streamed, Told
<1>3. ASSUME NEW type, NEW list, Sends(type, list)
      PROVE  Streamed' /\ Told'
  <2>1. [type |-> type, list |-> list] \in Message
        BY <1>3, SentListing
  <2>2. Streamed'
        BY <1>0, <1>3, <2>1, Appended DEF Streamed, Sends, Send
  <2>3. Told'
        BY <1>0, <1>3 DEF Told, Sends, Send
  <2> QED BY <2>2, <2>3
<1>4. CASE ClearCacheState
  <2>1. [type |-> "cleared", list |-> None] \in Message
        BY DEF Message
  <2>2. Streamed'
        BY <1>0, <1>4, <2>1, Appended DEF ClearCacheState, Streamed
  <2>3. Told'
        BY <1>0, <1>4 DEF ClearCacheState, Told
  <2> QED BY <2>2, <2>3
<1>5. CASE Receive
  <2>1. Streamed'
        BY <1>0, <1>5, Taken DEF Receive, Streamed
  <2> QED BY <1>0, <1>5, <2>1 DEF Receive, Told
<1> QED BY <1>1, <1>2, <1>3, <1>4, <1>5, StreamSteps

LEMMA TypeStep == DirCacheAssumption /\ TypeInv /\ [Next]_vars => TypeInv'
<1> SUFFICES ASSUME DirCacheAssumption, TypeInv, [Next]_vars
             PROVE  TypeInv'
    OBVIOUS
<1>1. Carried'
      BY CbStep, TaskStep DEF Carries, Carried
<1> QED BY <1>1, PlacesStep, DueStep, AskingStep, FetchingStep, CbStep, TaskStep,
           StreamStep DEF TypeInv

\* Every variable keeps its type, and a BoundedWaitGroup never runs more workers
\* than its limit.
THEOREM TypeCorrect == Spec => []TypeOK
<1>1. DirCacheAssumption
      BY DirCacheAssumption
<1> QED BY <1>1, InitType, TypeStep, TypeParts, PTL DEF Spec
-----------------------------------------------------------------------------
(* Child fetches.                                                          *)

\* Who has fetched has marked the directory, and a fetch loses no child.
FetchInv ==
    /\ ~rich => fetches = 0
    /\ fetches <= 1
    /\ \A f \in Fetches : fetch[f].todo \cup fetch[f].running \cup fetch[f].results
                             = fetch[f].children

LEMMA FetchInvStep == DirCacheAssumption /\ TypeInv /\ FetchInv /\ [Next]_vars => FetchInv'
<1> SUFFICES ASSUME DirCacheAssumption, TypeInv, FetchInv, [Next]_vars
             PROVE  FetchInv'
    OBVIOUS
<1>0. Fetching
      BY DEF TypeInv
<1>1. CASE UNCHANGED <<rich, fetch, fetches>>
      BY <1>1 DEF FetchInv
<1>2. ASSUME NEW names, NEW limit, AsyncFetch(names, limit)
      PROVE  FetchInv'
  <2>1. CASE UNCHANGED <<rich, fetch, fetches>>
        BY <1>1, <2>1
  <2>2. CASE /\ ~rich /\ rich' = TRUE /\ fetches' = fetches + 1
             /\ \E f \in Fetches :
                   fetch' = [fetch EXCEPT ![f] = [NoFetch EXCEPT !.todo = names,
                                                                 !.children = names]]
        BY <1>0, <2>2 DEF FetchInv, Fetching, NoFetch
  <2> QED BY <1>2, <2>1, <2>2 DEF AsyncFetch
<1>3. CASE InfoStep \/ OpenStep \/ PrefetchStep \/ BatchStep
      BY <1>1, <1>2, <1>3 DEF InfoStep, Info, OpenStep, OpenDir, PrefetchStep,
                              Prefetch, BatchStep
<1>4. CASE ClearCacheState
      BY <1>4 DEF ClearCacheState, FetchInv
<1>5. ASSUME NEW f \in Fetches, FetchAdd(f) \/ FetchWork(f) \/ FetchSend(f)
      PROVE  FetchInv'
  <2>1. UNCHANGED <<rich, fetches>>
        BY <1>5 DEF FetchAdd, FetchWork, FetchSend, FetchVars
  <2>2. CASE FetchAdd(f)
    <3> DEFINE n == CHOOSE n \in fetch[f].todo : TRUE
    <3>1. n \in fetch[f].todo
          BY <2>2 DEF FetchAdd
    <3>2. fetch' = [fetch EXCEPT ![f].todo = @ \ {n}, ![f].running = @ \cup {n}]
          BY <2>2 DEF FetchAdd
    <3> HIDE DEF n
    <3> QED BY <1>0, <2>1, <3>1, <3>2 DEF FetchInv, Fetching
  <2>3. CASE FetchWork(f)
    <3>1. PICK n \in fetch[f].running :
             fetch' = [fetch EXCEPT ![f].running = @ \ {n}, ![f].results = @ \cup {n}]
          BY <2>3 DEF FetchWork
    <3> QED BY <1>0, <2>1, <3>1 DEF FetchInv, Fetching
  <2>4. CASE FetchSend(f)
    <3>1. fetch' = [fetch EXCEPT ![f] = NoFetch]
          BY <2>4 DEF FetchSend
    <3> QED BY <1>0, <2>1, <3>1 DEF FetchInv, Fetching, NoFetch
  <2> QED BY <1>5, <2>2, <2>3, <2>4
<1>6. CASE Change \/ ClientStep \/ UNCHANGED vars
      BY <1>1, <1>6 DEF Change, ClientStep, GetInfo, Async, Invalidate, ClearCache,
                        Receive, ClientVars, vars
<1>7. CASE \E k \in Callbacks : CbStart(k) \/ CbRead(k) \/ CbSend(k)
      BY <1>1, <1>7 DEF CbStart, CbRead, CbSend, CbVars
<1> QED BY <1>3, <1>4, <1>5, <1>6, <1>7, NextSteps DEF ClientStep

LEMMA FetchInvInit == Init => FetchInv
BY DEF Init, FetchInv, NoFetch

\* However the handlers overlap, the children of the directory are fetched once
\* until session/clearCache.
THEOREM FetchedOnce == Spec => []RichFetchOnce
<1>1. DirCacheAssumption
      BY DirCacheAssumption
<1>2. FetchInv => RichFetchOnce
      BY DEF FetchInv, RichFetchOnce
<1> QED BY <1>1, <1>2, InitType, TypeStep, FetchInvInit, FetchInvStep, PTL DEF Spec

\* A fetch that goes away has read every child.
LEMMA SendsWhole ==
    ASSUME TypeInv, FetchInv, [Next]_vars, NEW f \in Fetches, Active(f),
           fetch'[f] = NoFetch
    PROVE  fetch[f].results = fetch[f].children
<1>0. Fetching
      BY DEF TypeInv
<1>1. CASE fetch' = fetch
      BY <1>1 DEF Active
<1>2. ASSUME NEW names, NEW limit, AsyncFetch(names, limit)
      PROVE  FALSE
  <2>1. CASE \E g \in Fetches :
               /\ ~Active(g)
               /\ fetch' = [fetch EXCEPT ![g] = [NoFetch EXCEPT !.todo = names,
                                                               !.children = names]]
        BY <1>0, <2>1 DEF Active, Fetching
  <2> QED BY <1>1, <1>2, <2>1 DEF AsyncFetch, Active
<1>3. CASE InfoStep \/ OpenStep \/ PrefetchStep \/ BatchStep
      BY <1>1, <1>2, <1>3 DEF InfoStep, Info, OpenStep, OpenDir, PrefetchStep,
                              Prefetch, BatchStep
<1>4. ASSUME NEW g \in Fetches, FetchAdd(g) \/ FetchWork(g) \/ FetchSend(g)
      PROVE  fetch[f].results = fetch[f].children
  <2>1. CASE g # f
    <3>1. fetch'[f] = fetch[f]
          BY <1>0, <1>4, <2>1 DEF FetchAdd, FetchWork, FetchSend, Fetching
    <3> QED BY <3>1 DEF Active
  <2>2. CASE g = f /\ FetchAdd(g)
    <3> DEFINE n == CHOOSE n \in fetch[f].todo : TRUE
    <3>1. fetch' = [fetch EXCEPT ![f].todo = @ \ {n}, ![f].running = @ \cup {n}]
          BY <2>2 DEF FetchAdd
    <3> HIDE DEF n
    <3>2. n \in fetch'[f].running
          BY <1>0, <3>1 DEF Fetching
    <3> QED BY <3>2 DEF NoFetch
  <2>3. CASE g = f /\ FetchWork(g)
    <3>1. PICK n \in fetch[f].running :
             fetch' = [fetch EXCEPT ![f].running = @ \ {n}, ![f].results = @ \cup {n}]
          BY <2>3 DEF FetchWork
    <3>2. n \in fetch'[f].results
          BY <1>0, <3>1 DEF Fetching
    <3> QED BY <3>2 DEF NoFetch
  <2>4. CASE g = f /\ FetchSend(g)
        BY <2>4 DEF FetchSend, FetchInv
  <2> QED BY <1>4, <2>1, <2>2, <2>3, <2>4
<1>5. CASE Change \/ ClientStep \/ ClearCacheState \/ UNCHANGED vars
      BY <1>1, <1>5 DEF Change, ClientStep, GetInfo, Async, Invalidate, ClearCache,
                        Receive, ClientVars, ClearCacheState, vars
<1>6. CASE \E k \in Callbacks : CbStart(k) \/ CbRead(k) \/ CbSend(k)
      BY <1>1, <1>6 DEF CbStart, CbRead, CbSend, CbVars
<1> QED BY <1>3, <1>4, <1>5, <1>6, NextSteps DEF ClientStep

\* GetChildEntries never sends the fs/entryInfo before all children are read.
THEOREM PushedWhole == Spec => PushComplete
<1>1. DirCacheAssumption
      BY DirCacheAssumption
<1>2. TypeInv /\ FetchInv /\ [Next]_vars
        => [\A f \in Fetches : Active(f) /\ fetch'[f] = NoFetch
               => fetch[f].results = fetch[f].children]_vars
      BY SendsWhole
<1> QED BY <1>1, <1>2, InitType, TypeStep, FetchInvInit, FetchInvStep, PTL
        DEF Spec, PushComplete
-----------------------------------------------------------------------------
(* Listings on their way.                                                  *)

\* A listing on its way was true once, and is true if nothing has changed.
Good(list) ==
    /\ list.ver <= dir.ver
    /\ list.ver = dir.ver => list.names = dir.names

GoodTasks ==
    /\ info.stage \in {"read", "watched", "fetched"} => Good(info.list)
    /\ prefetch.stage \in {"read", "told"} => Good(prefetch.list)
    /\ batch.stage = "read" => Good(batch.list)

GoodCb     == \A k \in Callbacks : cb[k].stage = "read" => Good(cb[k].list)
GoodStream == \A i \in DOMAIN stream : stream[i].list # None => Good(stream[i].list)

\* What the watch has stored is not in the future.
Stored == meta # None => meta <= dir.mtime

LEMMA GoodRead ==
    ASSUME DirCacheAssumption, Places
    PROVE  Good(ReadDir)
BY DirRead DEF Good, Places

\* A change makes every listing there is an old one.
LEMMA Outdated ==
    ASSUME Places, Change, NEW list \in Listing, Good(list)
    PROVE  list.ver <= dir'.ver /\ list.ver # dir'.ver
<1>1. dir.ver \in Int /\ dir'.ver = dir.ver + 1 /\ list.ver \in Int
      BY DEF Change, Places, Listing
<1> QED BY <1>1 DEF Good

\* Only the machine changes the directory.
LEMMA DirSteps == [Next]_vars => Change \/ UNCHANGED dir
<1> SUFFICES ASSUME [Next]_vars PROVE Change \/ UNCHANGED dir
    OBVIOUS
<1>1. CASE ClientStep \/ ClearCacheState \/ UNCHANGED vars
      BY <1>1 DEF ClientStep, GetInfo, Async, Invalidate, ClearCache, Receive,
                  ClientVars, ClearCacheState, vars
<1>2. CASE InfoStep \/ OpenStep \/ PrefetchStep \/ BatchStep
      BY <1>2 DEF InfoStep, OpenStep, PrefetchStep, BatchStep, InfoVars
<1>3. CASE \E k \in Callbacks : CbStart(k) \/ CbRead(k) \/ CbSend(k)
      BY <1>3 DEF CbStart, CbRead, CbSend, CbVars
<1>4. CASE \E f \in Fetches : FetchAdd(f) \/ FetchWork(f) \/ FetchSend(f)
      BY <1>4 DEF FetchAdd, FetchWork, FetchSend, FetchVars
<1> QED BY <1>1, <1>2, <1>3, <1>4, NextSteps DEF ClientStep

\* The tasks that carry a listing, at each step.
LEMMA TaskSteps ==
    ASSUME DirCacheAssumption, TypeInv, [Next]_vars
    PROVE  /\ \/ info'.stage \in {"read", "watched", "fetched"} /\ info'.list = info.list
                 /\ info.stage \in {"read", "watched", "fetched"}
              \/ info'.stage = "read" /\ info'.list = ReadDir /\ UNCHANGED dir
              \/ info'.stage \notin {"read", "watched", "fetched"}
           /\ \/ prefetch'.stage \in {"read", "told"} /\ prefetch'.list = prefetch.list
                 /\ prefetch.stage = "read"
              \/ prefetch' = prefetch
              \/ prefetch'.stage = "read" /\ prefetch'.list = ReadDir /\ UNCHANGED dir
              \/ prefetch'.stage \notin {"read", "told"}
           /\ \/ batch' = batch
              \/ batch'.stage = "read" /\ batch'.list = ReadDir /\ UNCHANGED dir
              \/ batch'.stage # "read"
<1>0. TaskType
      BY DEF TypeInv
<1>1. CASE UNCHANGED <<info, prefetch, batch>>
      BY <1>1
<1>2. CASE GetInfo \/ Async \/ Invalidate \/ ClearCache
      BY <1>0, <1>2 DEF GetInfo, Async, Invalidate, ClearCache, TaskType, Task
<1>3. CASE InfoStep
      BY <1>0, <1>3 DEF InfoStep, InfoVars, Info, TaskType, Task, NoTask
<1>4. CASE PrefetchStep
      BY <1>0, <1>4 DEF PrefetchStep, Prefetch, PrefetchFetch, TaskType, Task, NoTask
<1>5. CASE BatchStep
      BY <1>0, <1>5 DEF BatchStep, Batch, TaskType, Task, NoTask
<1>6. CASE Change \/ Receive \/ ClearCacheState \/ OpenStep \/ UNCHANGED vars
      BY <1>1, <1>6 DEF Change, Receive, ClearCacheState, OpenStep, InfoVars, vars
<1>7. CASE \E k \in Callbacks : CbStart(k) \/ CbRead(k) \/ CbSend(k)
      BY <1>1, <1>7 DEF CbStart, CbRead, CbSend, CbVars
<1>8. CASE \E f \in Fetches : FetchAdd(f) \/ FetchWork(f) \/ FetchSend(f)
      BY <1>1, <1>8 DEF FetchAdd, FetchWork, FetchSend, FetchVars
<1> QED BY <1>2, <1>3, <1>4, <1>5, <1>6, <1>7, <1>8, NextSteps

LEMMA GoodTasksStep ==
    ASSUME DirCacheAssumption, TypeInv, GoodTasks, [Next]_vars
    PROVE  GoodTasks'
<1>0. Places /\ Carried /\ Good(ReadDir)
      BY GoodRead DEF TypeInv
<1>1. CASE UNCHANGED dir
  <2>1. \A list : Good(list) => Good(list)'
        BY <1>1 DEF Good
  <2> QED BY <1>0, <1>1, <2>1, TaskSteps DEF GoodTasks, Good
<1>2. CASE Change
  <2>1. UNCHANGED <<info, prefetch, batch>>
        BY <1>2 DEF Change
  <2>2. \A list \in Listing : Good(list) => list.ver <= dir'.ver /\ list.ver # dir'.ver
        BY <1>0, <1>2, Outdated
  <2> QED BY <1>0, <2>1, <2>2 DEF GoodTasks, Good, Carried
<1> QED BY <1>1, <1>2, DirSteps

\* The callbacks, at each step.
LEMMA CbSteps ==
    ASSUME TypeInv, [Next]_vars
    PROVE  \/ UNCHANGED cb
           \/ \E k \in Callbacks : CbStart(k) \/ CbRead(k) \/ CbSend(k)
<1>1. CASE Change \/ ClientStep \/ ClearCacheState \/ UNCHANGED vars
      BY <1>1 DEF Change, ClientStep, GetInfo, Async, Invalidate, ClearCache,
                  Receive, ClientVars, ClearCacheState, vars
<1>2. CASE InfoStep \/ OpenStep \/ PrefetchStep \/ BatchStep
      BY <1>2 DEF InfoStep, OpenStep, PrefetchStep, BatchStep, InfoVars
<1>3. CASE \E f \in Fetches : FetchAdd(f) \/ FetchWork(f) \/ FetchSend(f)
      BY <1>3 DEF FetchAdd, FetchWork, FetchSend, FetchVars
<1> QED BY <1>1, <1>2, <1>3, NextSteps DEF ClientStep

LEMMA GoodCbStep ==
    ASSUME DirCacheAssumption, TypeInv, GoodCb, [Next]_vars
    PROVE  GoodCb'
<1>0. Places /\ Carried /\ CbType /\ Good(ReadDir)
      BY GoodRead DEF TypeInv
<1>1. CASE Change
  <2>1. UNCHANGED cb
        BY <1>1 DEF Change
  <2>2. \A list \in Listing : Good(list) => list.ver <= dir'.ver /\ list.ver # dir'.ver
        BY <1>0, <1>1, Outdated
  <2> QED BY <1>0, <2>1, <2>2 DEF GoodCb, Good, Carried
<1>2. CASE UNCHANGED dir /\ UNCHANGED cb
      BY <1>2 DEF GoodCb, Good
<1>3. ASSUME UNCHANGED dir, NEW k \in Callbacks, CbStart(k) \/ CbRead(k) \/ CbSend(k)
      PROVE  GoodCb'
  <2>1. \A j \in Callbacks : cb'[j].stage = "read" =>
           cb'[j].list = ReadDir \/ (cb[j].stage = "read" /\ cb'[j].list = cb[j].list)
        BY <1>0, <1>3 DEF CbStart, CbRead, CbSend, CbType, Task, NoTask
  <2>2. \A j \in Callbacks : cb'[j].stage = "read" => Good(cb'[j].list)
        BY <1>0, <2>1 DEF GoodCb
  <2> QED BY <1>3, <2>2 DEF GoodCb, Good
<1> QED BY <1>1, <1>2, <1>3, DirSteps, CbSteps

LEMMA GoodStreamStep ==
    ASSUME DirCacheAssumption, TypeInv, GoodTasks, GoodCb, GoodStream, [Next]_vars
    PROVE  GoodStream'
<1>0. Places /\ Carried /\ Streamed /\ Streamed'
      BY StreamStep DEF TypeInv
<1>1. CASE Change /\ UNCHANGED stream
  <2>1. \A list \in Listing : Good(list) => list.ver <= dir'.ver /\ list.ver # dir'.ver
        BY <1>0, <1>1, Outdated
  <2>2. \A i \in DOMAIN stream : stream[i] \in Message
        BY <1>0 DEF Streamed
  <2>3. \A m \in Message : m.list # None => m.list \in Listing
        BY DEF Message
  <2> QED BY <1>1, <2>1, <2>2, <2>3 DEF GoodStream, Good
<1>2. CASE UNCHANGED <<stream, dir>>
      BY <1>2 DEF GoodStream, Good
<1>3. ASSUME NEW type, NEW list, Sends(type, list)
      PROVE  GoodStream'
  <2>1. [type |-> type, list |-> list] \in Message
        BY <1>3, SentListing
  <2>2. list # None => Good(list)
        BY <1>3 DEF Sends, OnHand, GoodTasks, GoodCb
  <2>3. UNCHANGED dir /\ stream' = Append(stream, [type |-> type, list |-> list])
        BY <1>3 DEF Sends, Send
  <2>4. \A i \in DOMAIN stream' : stream'[i].list # None => Good(stream'[i].list)
        BY <1>0, <2>1, <2>2, <2>3, Appended DEF GoodStream, Streamed
  <2> QED BY <2>3, <2>4 DEF GoodStream, Good
<1>4. CASE ClearCacheState
  <2>1. [type |-> "cleared", list |-> None] \in Message
        BY DEF Message
  <2>2. UNCHANGED dir /\ stream' = Append(stream, [type |-> "cleared", list |-> None])
        BY <1>4 DEF ClearCacheState
  <2>4. \A i \in DOMAIN stream' : stream'[i].list # None => Good(stream'[i].list)
        BY <1>0, <2>1, <2>2, Appended DEF GoodStream, Streamed
  <2> QED BY <2>2, <2>4 DEF GoodStream, Good
<1>5. CASE Receive
  <2>1. UNCHANGED dir /\ stream' = Tail(stream) /\ stream # <<>>
        BY <1>5 DEF Receive
  <2>2. \A i \in DOMAIN stream' : stream'[i].list # None => Good(stream'[i].list)
        BY <1>0, <2>1, Taken DEF GoodStream, Streamed
  <2> QED BY <2>1, <2>2 DEF GoodStream, Good
<1> QED BY <1>1, <1>2, <1>3, <1>4, <1>5, StreamSteps, DirSteps DEF Change

LEMMA StoredStep ==
    ASSUME DirCacheAssumption, TypeInv, Stored, [Next]_vars
    PROVE  Stored'
<1>0. Places /\ MaxTime \in Nat
      BY DEF TypeInv, DirCacheAssumption
<1>1. CASE Change
      BY <1>0, <1>1 DEF Change, Places, Stored
<1>2. CASE UNCHANGED dir /\ (UNCHANGED meta \/ meta' \in {None, 0, dir.mtime})
      BY <1>0, <1>2 DEF Places, Stored
<1>3. CASE ClientStep
      BY <1>2, <1>3 DEF ClientStep, GetInfo, Async, Invalidate, ClearCache,
                        Receive, ClientVars
<1>4. CASE InfoStep \/ OpenStep \/ PrefetchStep \/ BatchStep
      BY <1>2, <1>4 DEF InfoStep, OpenStep, PrefetchStep, BatchStep, Info, OpenDir,
                        Prefetch, PrefetchFetch, Batch, WatchDir, InfoVars
<1>5. CASE ClearCacheState
      BY <1>2, <1>5 DEF ClearCacheState
<1>6. CASE \E k \in Callbacks : CbStart(k) \/ CbRead(k) \/ CbSend(k)
      BY <1>2, <1>6 DEF CbStart, CbRead, CbSend, CbVars
<1>7. CASE \E f \in Fetches : FetchAdd(f) \/ FetchWork(f) \/ FetchSend(f)
      BY <1>2, <1>7 DEF FetchAdd, FetchWork, FetchSend, FetchVars
<1>8. CASE UNCHANGED vars
      BY <1>2, <1>8 DEF vars
<1> QED BY <1>1, <1>3, <1>4, <1>5, <1>6, <1>7, <1>8, NextSteps DEF ClientStep
-----------------------------------------------------------------------------
(* Emacs waits for one answer at a time.                                   *)

Answers    == {"reply", "cleared"}
Unanswered == \A i \in DOMAIN stream : stream[i].type \notin Answers

AskInv ==
    /\ info.stage # "none" => asked = "info" /\ Unanswered
    /\ asked = "nothing" => Unanswered
    /\ asked = "clear" => \A i \in DOMAIN stream : stream[i].type # "reply"
    /\ \A i, j \in DOMAIN stream :
          stream[i].type \in Answers /\ stream[j].type \in Answers => i = j

\* The stream keeps its answers.
SameAnswers ==
    \/ UNCHANGED stream
    \/ \E type, list : /\ type \notin Answers /\ [type |-> type, list |-> list] \in Message
                       /\ stream' = Append(stream, [type |-> type, list |-> list])

LEMMA AskStep ==
    ASSUME TypeInv, AskInv, [Next]_vars
    PROVE  AskInv'
<1>0. Streamed
      BY DEF TypeInv
<1>1. CASE /\ SameAnswers /\ UNCHANGED asked
           /\ info'.stage # "none" => info.stage # "none"
  <2>1. \/ UNCHANGED stream
        \/ /\ DOMAIN stream' = 1..Len(stream) + 1 /\ DOMAIN stream = 1..Len(stream)
           /\ Len(stream) \in Nat
           /\ \A i \in 1..Len(stream) : stream'[i] = stream[i]
           /\ stream'[Len(stream) + 1].type \notin Answers
    <3>1. CASE UNCHANGED stream
          BY <3>1
    <3>2. ASSUME NEW m \in Message, m.type \notin Answers, stream' = Append(stream, m)
          PROVE  /\ DOMAIN stream' = 1..Len(stream) + 1 /\ DOMAIN stream = 1..Len(stream)
                 /\ Len(stream) \in Nat
                 /\ \A i \in 1..Len(stream) : stream'[i] = stream[i]
                 /\ stream'[Len(stream) + 1].type \notin Answers
          BY <1>0, <3>2, Appended DEF Streamed
    <3> QED BY <1>1, <3>1, <3>2 DEF SameAnswers
  <2>2. \A i \in DOMAIN stream' : stream'[i].type \in Answers
           => i \in DOMAIN stream /\ stream[i].type = stream'[i].type
        BY <2>1
  <2> QED BY <1>1, <2>2 DEF AskInv, Unanswered, Answers
<1>2. CASE GetInfo \/ ClearCache
  <2>1. UNCHANGED stream
        BY <1>2 DEF GetInfo, ClearCache, ClientVars
  <2> QED BY <1>2, <2>1 DEF GetInfo, ClearCache, AskInv, Unanswered, Answers
<1>3. CASE Receive
  <2>1. /\ DOMAIN stream = 1..Len(stream) /\ Len(stream) \in Nat /\ Len(stream) > 0
        /\ DOMAIN stream' = 1..Len(stream) - 1
        /\ \A i \in 1..Len(stream) - 1 : stream'[i] = stream[i + 1]
        /\ Head(stream) = stream[1]
        BY <1>0, <1>3, Taken DEF Receive, Streamed
  <2>2. UNCHANGED info
        BY <1>3 DEF Receive
  <2>3. \A i \in DOMAIN stream' : i + 1 \in DOMAIN stream /\ stream'[i] = stream[i + 1]
                                  /\ i + 1 # 1
        BY <2>1
  <2>4. CASE stream[1].type \in Answers
    <3>1. asked' = "nothing" /\ 1 \in DOMAIN stream
          BY <1>3, <2>1, <2>4 DEF Receive, Answers
    <3>2. \A i \in DOMAIN stream' : stream'[i].type \notin Answers
          BY <2>3, <2>4, <3>1 DEF AskInv
    <3>3. info'.stage = "none"
          BY <2>2, <2>4, <3>1 DEF AskInv, Unanswered
    <3> QED BY <3>1, <3>2, <3>3 DEF AskInv, Unanswered
  <2>5. CASE stream[1].type \notin Answers
    <3>1. asked' = asked
          BY <1>3, <2>1, <2>5 DEF Receive, Answers
    <3>2. \A i, j \in DOMAIN stream' :
             stream'[i].type \in Answers /\ stream'[j].type \in Answers => i = j
      <4> SUFFICES ASSUME NEW i \in DOMAIN stream', NEW j \in DOMAIN stream',
                          stream'[i].type \in Answers, stream'[j].type \in Answers
                   PROVE  i = j
          OBVIOUS
      <4>1. i + 1 = j + 1
            BY <2>3 DEF AskInv
      <4> QED BY <2>1, <4>1
    <3> QED BY <2>2, <2>3, <3>1, <3>2 DEF AskInv, Unanswered
  <2> QED BY <2>4, <2>5
<1>4. CASE ClearCacheState
  <2>1. Unanswered /\ asked = "clear" /\ UNCHANGED <<asked, info>>
        BY <1>4, <1>0 DEF ClearCacheState, AskInv, Unanswered, Answers
  <2>2. [type |-> "cleared", list |-> None] \in Message
        BY DEF Message
  <2>3. /\ DOMAIN stream' = 1..Len(stream) + 1 /\ DOMAIN stream = 1..Len(stream)
        /\ Len(stream) \in Nat
        /\ \A i \in 1..Len(stream) : stream'[i] = stream[i]
        /\ stream'[Len(stream) + 1].type = "cleared"
        BY <1>0, <1>4, <2>2, Appended DEF ClearCacheState, Streamed
  <2>4. \A i \in DOMAIN stream' : stream'[i].type \in Answers
           => i = Len(stream) + 1 /\ stream'[i].type = "cleared"
        BY <2>1, <2>3 DEF Unanswered
  <2> QED BY <2>1, <2>4 DEF AskInv, Answers, Unanswered
<1>5. ASSUME NEW list, Sends("reply", list)
      PROVE  AskInv'
  <2>1. Unanswered /\ asked = "info" /\ UNCHANGED asked /\ info'.stage = "none"
        BY <1>5 DEF Sends, AskInv
  <2>2. [type |-> "reply", list |-> list] \in Message
        BY <1>5, SentListing
  <2>3. /\ DOMAIN stream' = 1..Len(stream) + 1 /\ DOMAIN stream = 1..Len(stream)
        /\ Len(stream) \in Nat
        /\ \A i \in 1..Len(stream) : stream'[i] = stream[i]
        /\ stream'[Len(stream) + 1].type = "reply"
        BY <1>0, <1>5, <2>2, Appended DEF Sends, Send, Streamed
  <2>4. \A i \in DOMAIN stream' : stream'[i].type \in Answers => i = Len(stream) + 1
        BY <2>1, <2>3 DEF Unanswered
  <2> QED BY <2>1, <2>4 DEF AskInv
<1>6. ASSUME NEW type, NEW list, Sends(type, list), type # "reply"
      PROVE  SameAnswers
  <2>1. [type |-> type, list |-> list] \in Message
        BY <1>6, SentListing
  <2> QED BY <1>6, <2>1 DEF Sends, Send, SameAnswers, Answers
<1>7. CASE Change \/ Async \/ Invalidate \/ UNCHANGED vars
      BY <1>1, <1>7 DEF Change, Async, Invalidate, ClientVars, vars, SameAnswers
<1>8. CASE InfoStep
  <2>1. CASE UNCHANGED stream /\ info.stage # "none"
        BY <1>1, <1>8, <2>1 DEF SameAnswers, InfoStep, InfoVars
  <2>2. CASE info.stage = "fetched" /\ Send("reply", info.list) /\ info' = NoTask
    <3>1. Sends("reply", info.list)
          BY <1>8, <2>2 DEF InfoStep, InfoVars, Sends, OnHand, NoTask
    <3> QED BY <1>5, <3>1
  <2> QED BY <1>8, <2>1, <2>2 DEF InfoStep, Info
<1>9. CASE OpenStep
      BY <1>1, <1>9 DEF OpenStep, InfoVars, SameAnswers
<1>10. CASE PrefetchStep
  <2>1. CASE prefetch.stage = "read" /\ Send("ancestor", prefetch.list)
    <3>1. Sends("ancestor", prefetch.list)
          BY <1>10, <2>1 DEF PrefetchStep, Sends, OnHand
    <3> QED BY <1>1, <1>6, <1>10, <3>1 DEF PrefetchStep
  <2>2. CASE UNCHANGED stream
        BY <1>1, <1>10, <2>2 DEF PrefetchStep, SameAnswers
  <2> QED BY <1>10, <2>1, <2>2 DEF PrefetchStep, Prefetch
<1>11. CASE BatchStep
  <2>1. CASE batch.stage = "read" /\ Send("entries", batch.list)
    <3>1. Sends("entries", batch.list)
          BY <1>11, <2>1 DEF BatchStep, Sends, OnHand
    <3> QED BY <1>1, <1>6, <1>11, <3>1 DEF BatchStep
  <2>2. CASE UNCHANGED stream
        BY <1>1, <1>11, <2>2 DEF BatchStep, SameAnswers
  <2> QED BY <1>11, <2>1, <2>2 DEF BatchStep, Batch
<1>12. ASSUME NEW k \in Callbacks, CbStart(k) \/ CbRead(k) \/ CbSend(k)
       PROVE  AskInv'
  <2>1. CASE CbSend(k)
    <3>1. Sends("changed", cb[k].list)
          BY <2>1 DEF CbSend, CbVars, Sends, OnHand
    <3> QED BY <1>1, <1>6, <2>1, <3>1 DEF CbSend, CbVars
  <2> QED BY <1>1, <1>12, <2>1 DEF CbStart, CbRead, CbVars, SameAnswers
<1>13. ASSUME NEW f \in Fetches, FetchAdd(f) \/ FetchWork(f) \/ FetchSend(f)
       PROVE  AskInv'
  <2>1. CASE FetchSend(f)
    <3>1. Sends("entries", None)
          BY <2>1 DEF FetchSend, FetchVars, Sends
    <3> QED BY <1>1, <1>6, <2>1, <3>1 DEF FetchSend, FetchVars
  <2> QED BY <1>1, <1>13, <2>1 DEF FetchAdd, FetchWork, FetchVars, SameAnswers
<1> QED BY <1>2, <1>3, <1>4, <1>7, <1>8, <1>9, <1>10, <1>11, <1>12, <1>13, NextSteps
-----------------------------------------------------------------------------
(* Every change is owed, told, or has a listed excuse.                     *)

\* The client will be sent the present listing by somebody who has read it.
Current ==
    \/ info.stage \in {"read", "watched", "fetched"} /\ info.list.ver = dir.ver
    \/ prefetch.stage = "read" /\ prefetch.list.ver = dir.ver
    \/ batch.stage = "read" /\ batch.list.ver = dir.ver
    \/ \E k \in Callbacks : cb[k].stage = "read" /\ cb[k].list.ver = dir.ver

\* An owed change has somebody who will bring it, if anybody needs it.
OwedInv ==
    fate = "owed" =>
        \/ ~Held
        \/ Current
        \/ \E k \in Callbacks : cb[k].stage = "changed"
        \/ due /\ (meta = None \/ meta < dir.mtime)

\* Of a change that was told, the last listing on the way says so.
ToldInv ==
    fate = "told" =>
        \/ /\ cache \in {None, dir.names}
           /\ \A i \in DOMAIN stream : stream[i].list = None
        \/ \E i \in DOMAIN stream :
              /\ stream[i].list # None /\ stream[i].list.ver = dir.ver
              /\ \A j \in DOMAIN stream : j > i => stream[j].list = None

\* Held, said of the tasks one by one.
InHand ==
    \/ cache # None
    \/ \E i \in DOMAIN stream : stream[i].list # None
    \/ info.stage \in {"read", "watched", "fetched"}
    \/ prefetch.stage = "read" \/ batch.stage = "read"
    \/ \E k \in Callbacks : cb[k].stage = "read"

LEMMA HeldInHand == Held <=> InHand
BY DEF Held, InHand

\* Somebody will bring a change that is owed.
Coming ==
    \/ Current
    \/ \E k \in Callbacks : cb[k].stage = "changed"
    \/ due /\ (meta = None \/ meta < dir.mtime)

\* A step of somebody who has nothing of it to tell.
Bystander ==
    /\ UNCHANGED <<dir, due, cb>>
    /\ meta' \in {meta, 0} /\ (meta # None => meta' = meta)
    /\ info.stage \in {"read", "watched", "fetched"}
          => info'.stage \in {"read", "watched", "fetched"} /\ info'.list = info.list
    /\ prefetch.stage = "read" => UNCHANGED prefetch
    /\ batch.stage = "read" => UNCHANGED batch

LEMMA StillComing ==
    ASSUME Places, Bystander, Coming
    PROVE  Coming'
<1>1. CASE Current
      BY <1>1 DEF Bystander, Coming, Current
<1>2. CASE \E k \in Callbacks : cb[k].stage = "changed"
      BY <1>2 DEF Bystander, Coming
<1>3. CASE due /\ (meta = None \/ meta < dir.mtime)
  <2>1. 0 < dir.mtime
        BY DEF Places
  <2> QED BY <1>3, <2>1 DEF Bystander, Coming
<1> QED BY <1>1, <1>2, <1>3 DEF Coming

\* Nobody comes to hold a listing who has not just read it.
LEMMA OwedStep ==
    ASSUME DirCacheAssumption, TypeInv, AskInv, Stored, OwedInv, [Next]_vars
    PROVE  OwedInv'
<1> SUFFICES ASSUME fate' = "owed"
             PROVE  ~InHand' \/ Coming'
  <2>1. Held' <=> InHand'
        BY DEF Held, InHand
  <2> QED BY <2>1 DEF OwedInv, Coming
<1>0. /\ Places /\ TaskType /\ CbType /\ Streamed /\ Carried
      /\ ReadDir.ver = dir.ver
      BY DirRead DEF TypeInv
<1>1. fate = "owed" => ~InHand \/ Coming
      BY HeldInHand DEF OwedInv, Coming
<1>2. CASE Change
  <2>1. CASE meta # None /\ meta # dir'.mtime
    <3>1. due' /\ meta' = meta
          BY <1>2, <2>1 DEF Change
    <3>2. meta < dir'.mtime
          BY <1>0, <1>2, <2>1 DEF Change, Places, Stored
    <3> QED BY <3>1, <3>2 DEF Coming
  <2>2. CASE meta = None /\ ~Held
    <3>1. ~InHand
          BY <2>2, HeldInHand
    <3>2. InHand' <=> InHand
          BY <1>2 DEF Change, InHand
    <3> QED BY <3>1, <3>2
  <2> QED BY <1>2, <2>1, <2>2 DEF Change
<1>3. CASE ClearCacheState
  <2>1. fate = "owed" /\ ~InHand
        BY <1>3, HeldInHand DEF ClearCacheState
  <2>2. [type |-> "cleared", list |-> None] \in Message
        BY DEF Message
  <2>3. \A i \in DOMAIN stream' : stream'[i].list # None
           => i \in DOMAIN stream /\ stream[i].list # None
        BY <1>0, <1>3, <2>2, Appended DEF ClearCacheState, Streamed
  <2> QED BY <1>3, <2>1, <2>3 DEF ClearCacheState, InHand
<1>4. CASE Receive
  <2>1. fate = "owed"
        BY <1>4 DEF Receive
  <2>2. CASE ~InHand
    <3>1. 1 \in DOMAIN stream /\ Head(stream) = stream[1]
          BY <1>0, <1>4, Taken DEF Receive, Streamed
    <3>2. \A i \in DOMAIN stream' : stream'[i].list = None
          BY <1>0, <1>4, <2>2, Taken DEF Receive, Streamed, InHand
    <3>3. cache' = cache
          BY <1>4, <2>2, <3>1 DEF Receive, InHand
    <3> QED BY <1>4, <2>2, <3>2, <3>3 DEF Receive, InHand
  <2>3. CASE Coming
        BY <1>4, <2>3 DEF Receive, Coming, Current
  <2> QED BY <1>1, <2>1, <2>2, <2>3
<1>5. CASE GetInfo \/ Async \/ Invalidate \/ ClearCache \/ UNCHANGED vars
  <2>1. fate = "owed"
        BY <1>5 DEF GetInfo, Async, Invalidate, ClearCache, ClientVars, vars
  <2>2. InHand' => InHand
        BY <1>0, <1>5 DEF GetInfo, Async, Invalidate, ClearCache, ClientVars, vars,
                          InHand, TaskType, Task
  <2>3. GetInfo => info.stage = "none"
        BY DEF GetInfo, AskInv
  <2>4. Bystander
        BY <1>0, <1>5, <2>3 DEF GetInfo, Async, Invalidate, ClearCache, ClientVars, vars,
                          Bystander, TaskType, Task
  <2> QED BY <1>0, <1>1, <2>1, <2>2, <2>4, StillComing
<1>6. CASE InfoStep
  <2>1. CASE info.stage = "sent" /\ info' = [stage |-> "read", list |-> ReadDir]
        BY <1>0, <1>6, <2>1 DEF InfoStep, InfoVars, Coming, Current
  <2>2. CASE /\ info.stage \in {"read", "watched"} /\ UNCHANGED fate
             /\ info'.stage \in {"watched", "fetched"} /\ info'.list = info.list
             /\ meta' \in {meta, 0} /\ (meta # None => meta' = meta)
    <3>1. Bystander
          BY <1>6, <2>2 DEF InfoStep, InfoVars, Bystander
    <3>2. InHand
          BY <2>2 DEF InHand
    <3> QED BY <1>0, <1>1, <2>2, <3>1, <3>2, StillComing
  <2>3. CASE info.stage = "fetched" /\ Send("reply", info.list) /\ UNCHANGED meta
    <3>1. fate = "owed" /\ info.list # None /\ info.list.ver # dir.ver /\ InHand
          BY <1>0, <2>3 DEF Carried, Send, DirCacheAssumption, InHand
    <3> QED BY <1>1, <1>6, <2>3, <3>1 DEF InfoStep, InfoVars, Coming, Current
  <2> QED BY <1>0, <1>6, <2>1, <2>2, <2>3 DEF InfoStep, Info, WatchDir, TaskType, Task
<1>7. CASE OpenStep
  <2>1. Bystander
        BY <1>7 DEF OpenStep, OpenDir, WatchDir, InfoVars, Bystander
  <2>2. InHand' <=> InHand
        BY <1>7 DEF OpenStep, InfoVars, InHand
  <2> QED BY <1>0, <1>1, <1>7, <2>1, <2>2, StillComing DEF OpenStep
<1>8. CASE PrefetchStep
  <2>1. CASE prefetch.stage = "watched" /\ prefetch' = [stage |-> "read", list |-> ReadDir]
        BY <1>0, <1>8, <2>1 DEF PrefetchStep, Coming, Current
  <2>2. CASE /\ prefetch.stage # "read" /\ prefetch'.stage # "read"
             /\ UNCHANGED <<stream, fate>>
             /\ meta' \in {meta, 0} /\ (meta # None => meta' = meta)
    <3>1. Bystander
          BY <1>8, <2>2 DEF PrefetchStep, Bystander
    <3>2. InHand' <=> InHand
          BY <1>8, <2>2 DEF PrefetchStep, InHand
    <3> QED BY <1>0, <1>1, <2>2, <3>1, <3>2, StillComing
  <2>3. CASE prefetch.stage = "read" /\ Send("ancestor", prefetch.list) /\ UNCHANGED meta
    <3>1. fate = "owed" /\ prefetch.list # None /\ prefetch.list.ver # dir.ver /\ InHand
          BY <1>0, <2>3 DEF Carried, Send, DirCacheAssumption, InHand
    <3> QED BY <1>1, <1>8, <2>3, <3>1 DEF PrefetchStep, Coming, Current
  <2> QED BY <1>0, <1>8, <2>1, <2>2, <2>3
          DEF PrefetchStep, Prefetch, PrefetchFetch, WatchDir, TaskType, Task, NoTask
<1>9. CASE BatchStep
  <2>1. CASE batch.stage = "sent" /\ batch' = [stage |-> "read", list |-> ReadDir]
        BY <1>0, <1>9, <2>1 DEF BatchStep, Coming, Current
  <2>2. CASE batch.stage = "read" /\ Send("entries", batch.list)
    <3>1. fate = "owed" /\ batch.list # None /\ batch.list.ver # dir.ver /\ InHand
          BY <1>0, <2>2 DEF Carried, Send, DirCacheAssumption, InHand
    <3> QED BY <1>1, <1>9, <2>2, <3>1 DEF BatchStep, Coming, Current
  <2> QED BY <1>9, <2>1, <2>2 DEF BatchStep, Batch
<1>10. ASSUME NEW k \in Callbacks, CbStart(k)
       PROVE  ~InHand' \/ Coming'
  <2>1. CASE Suppressed(meta) /\ UNCHANGED <<meta, cb>>
    <3>1. ~(meta = None \/ meta < dir.mtime)
          BY <1>0, <2>1 DEF Suppressed, Places
    <3>2. InHand' <=> InHand
          BY <1>10, <2>1 DEF CbStart, CbVars, InHand
    <3> QED BY <1>1, <1>10, <2>1, <3>1, <3>2 DEF CbStart, CbVars, Coming, Current
  <2>2. CASE cb' = [cb EXCEPT ![k].stage = "changed"]
    <3>1. cb'[k].stage = "changed"
          BY <1>0, <2>2 DEF CbType, Task
    <3> QED BY <3>1 DEF Coming
  <2> QED BY <1>10, <2>1, <2>2 DEF CbStart
<1>11. ASSUME NEW k \in Callbacks, CbRead(k)
       PROVE  Coming'
  <2>1. cb'[k] = [stage |-> "read", list |-> ReadDir] /\ UNCHANGED dir
        BY <1>0, <1>11 DEF CbRead, CbVars, CbType
  <2> QED BY <1>0, <2>1 DEF Coming, Current
<1>12. ASSUME NEW k \in Callbacks, CbSend(k)
       PROVE  Coming'
  <2>1. fate = "owed" /\ cb[k].list # None /\ cb[k].list.ver # dir.ver /\ InHand
        BY <1>0, <1>12 DEF CbSend, Carried, Send, DirCacheAssumption, InHand
  <2>2. \A j \in Callbacks : j # k => cb'[j] = cb[j]
        BY <1>0, <1>12 DEF CbSend, CbType
  <2>3. cb[k].stage = "read"
        BY <1>12 DEF CbSend
  <2> QED BY <1>1, <1>12, <2>1, <2>2, <2>3 DEF CbSend, CbVars, Coming, Current
<1>13. ASSUME NEW f \in Fetches, FetchAdd(f) \/ FetchWork(f) \/ FetchSend(f)
       PROVE  ~InHand' \/ Coming'
  <2>1. Bystander
        BY <1>13 DEF FetchAdd, FetchWork, FetchSend, FetchVars, Bystander
  <2>2. fate = "owed"
        BY <1>13 DEF FetchAdd, FetchWork, FetchSend, Send
  <2>3. InHand' => InHand
    <3>1. CASE UNCHANGED stream
          BY <1>13, <3>1 DEF FetchAdd, FetchWork, FetchSend, FetchVars, InHand
    <3>2. CASE stream' = Append(stream, [type |-> "entries", list |-> None])
      <4>1. [type |-> "entries", list |-> None] \in Message
            BY DEF Message
      <4>2. \A i \in DOMAIN stream' : stream'[i].list # None
               => i \in DOMAIN stream /\ stream[i].list # None
            BY <1>0, <3>2, <4>1, Appended DEF Streamed
      <4> QED BY <1>13, <4>2 DEF FetchAdd, FetchWork, FetchSend, FetchVars, InHand
    <3> QED BY <1>13, <3>1, <3>2 DEF FetchAdd, FetchWork, FetchSend, Send
  <2> QED BY <1>0, <1>1, <2>1, <2>2, <2>3, StillComing
<1> QED BY <1>2, <1>3, <1>4, <1>5, <1>6, <1>7, <1>8, <1>9, <1>10, <1>11, <1>12, <1>13,
           NextSteps

\* What is told stays the last word until the directory changes.
LastWord ==
    \E i \in DOMAIN stream :
       /\ stream[i].list # None /\ stream[i].list.ver = dir.ver
       /\ \A j \in DOMAIN stream : j > i => stream[j].list = None

Arrived == /\ cache \in {None, dir.names}
           /\ \A i \in DOMAIN stream : stream[i].list = None

LEMMA CacheSteps ==
    ASSUME TypeInv, [Next]_vars
    PROVE  UNCHANGED cache \/ (cache' = None /\ UNCHANGED stream) \/ Receive
<1>1. CASE Change \/ ClientStep \/ ClearCacheState \/ UNCHANGED vars
      BY <1>1 DEF Change, ClientStep, GetInfo, Async, Invalidate, ClearCache,
                  ClientVars, ClearCacheState, vars
<1>2. CASE InfoStep \/ OpenStep \/ PrefetchStep \/ BatchStep
      BY <1>2 DEF InfoStep, OpenStep, PrefetchStep, BatchStep, InfoVars
<1>3. CASE \E k \in Callbacks : CbStart(k) \/ CbRead(k) \/ CbSend(k)
      BY <1>3 DEF CbStart, CbRead, CbSend, CbVars
<1>4. CASE \E f \in Fetches : FetchAdd(f) \/ FetchWork(f) \/ FetchSend(f)
      BY <1>4 DEF FetchAdd, FetchWork, FetchSend, FetchVars
<1> QED BY <1>1, <1>2, <1>3, <1>4, NextSteps DEF ClientStep

LEMMA ToldStep ==
    ASSUME DirCacheAssumption, TypeInv, GoodStream, ToldInv, [Next]_vars
    PROVE  ToldInv'
<1> SUFFICES ASSUME fate' = "told"
             PROVE  Arrived' \/ LastWord'
    BY DEF ToldInv, Arrived, LastWord
<1>0. Streamed
      BY DEF TypeInv
<1>1. fate = "told" => Arrived \/ LastWord
      BY DEF ToldInv, Arrived, LastWord
<1>2. CASE UNCHANGED <<stream, fate, dir>> /\ ~Receive
      BY <1>1, <1>2, CacheSteps DEF Arrived, LastWord
<1>3. ASSUME NEW m \in Message, stream' = Append(stream, m), m.list = None,
             fate = "told", UNCHANGED <<dir, cache>>
      PROVE  Arrived' \/ LastWord'
  <2>1. /\ DOMAIN stream' = 1..Len(stream) + 1 /\ DOMAIN stream = 1..Len(stream)
        /\ Len(stream) \in Nat
        /\ \A i \in 1..Len(stream) : stream'[i] = stream[i]
        /\ stream'[Len(stream) + 1].list = None
        BY <1>0, <1>3, Appended DEF Streamed
  <2>2. CASE Arrived
        BY <1>3, <2>1, <2>2 DEF Arrived
  <2>3. CASE LastWord
        BY <1>3, <2>1, <2>3 DEF LastWord
  <2> QED BY <1>1, <1>3, <2>2, <2>3
<1>4. ASSUME NEW type, NEW list, Sends(type, list)
      PROVE  Arrived' \/ LastWord'
  <2>1. [type |-> type, list |-> list] \in Message
        BY <1>4, SentListing
  <2>2. stream' = Append(stream, [type |-> type, list |-> list]) /\ UNCHANGED <<dir, cache>>
        BY <1>4 DEF Sends, Send
  <2>3. CASE list = None
        BY <1>3, <1>4, <2>1, <2>2, <2>3 DEF Sends, Send
  <2>4. CASE list # None
    <3>1. list.ver = dir.ver
          BY <1>4, <2>4 DEF Sends, Send
    <3>2. /\ DOMAIN stream' = 1..Len(stream) + 1 /\ Len(stream) \in Nat
          /\ stream'[Len(stream) + 1].list = list
          BY <1>0, <2>1, <2>2, Appended DEF Streamed
    <3> QED BY <2>2, <2>4, <3>1, <3>2 DEF LastWord
  <2> QED BY <2>3, <2>4
<1>5. CASE ClearCacheState
  <2>1. [type |-> "cleared", list |-> None] \in Message
        BY DEF Message
  <2>2. fate = "told"
        BY <1>5 DEF ClearCacheState
  <2> QED BY <1>3, <1>5, <2>1, <2>2 DEF ClearCacheState
<1>6. CASE Receive
  <2>1. /\ DOMAIN stream = 1..Len(stream) /\ Len(stream) \in Nat /\ Len(stream) > 0
        /\ DOMAIN stream' = 1..Len(stream) - 1
        /\ \A i \in 1..Len(stream) - 1 : stream'[i] = stream[i + 1]
        /\ Head(stream) = stream[1]
        BY <1>0, <1>6, Taken DEF Receive, Streamed
  <2>2. /\ fate = "told" /\ UNCHANGED dir
        /\ cache' = IF stream[1].list = None THEN cache ELSE stream[1].list.names
        BY <1>6, <2>1 DEF Receive
  <2>3. /\ 1 \in DOMAIN stream
        /\ \A j \in DOMAIN stream' : /\ j \in Int /\ j + 1 \in DOMAIN stream
                                     /\ stream'[j] = stream[j + 1]
        BY <2>1
  <2>4. CASE Arrived
    <3>1. stream[1].list = None
          BY <2>3, <2>4 DEF Arrived
    <3>2. \A j \in DOMAIN stream' : stream'[j].list = None
          BY <2>3, <2>4 DEF Arrived
    <3> QED BY <2>2, <2>4, <3>1, <3>2 DEF Arrived
  <2>5. CASE LastWord
    <3>1. PICK i \in DOMAIN stream :
             /\ stream[i].list # None /\ stream[i].list.ver = dir.ver
             /\ \A j \in DOMAIN stream : j > i => stream[j].list = None
          BY <2>5 DEF LastWord
    <3>2. CASE i = 1
      <4>1. cache' = dir'.names
            BY <2>2, <3>1, <3>2 DEF GoodStream, Good
      <4>2. \A j \in DOMAIN stream' : stream'[j].list = None
            BY <2>1, <3>1, <3>2
      <4> QED BY <4>1, <4>2 DEF Arrived
    <3>3. CASE i # 1
      <4>1. i - 1 \in DOMAIN stream' /\ stream'[i - 1] = stream[i]
            BY <2>1, <3>3
      <4>2. \A j \in DOMAIN stream' : j > i - 1 => stream'[j].list = None
        <5> SUFFICES ASSUME NEW j \in DOMAIN stream', j > i - 1
                     PROVE  stream[j + 1].list = None
            BY <2>3
        <5>1. i \in Int /\ j + 1 > i
              BY <2>1, <2>3
        <5> QED BY <2>3, <3>1, <5>1
      <4> QED BY <2>2, <3>1, <4>1, <4>2 DEF LastWord
    <3> QED BY <3>2, <3>3
  <2> QED BY <1>1, <2>2, <2>4, <2>5
<1>7. CASE Change
      BY <1>7 DEF Change
<1>8. CASE UNCHANGED <<stream, fate>> /\ ~Change /\ ~Receive
      BY <1>2, <1>8, DirSteps
<1> QED BY <1>4, <1>5, <1>6, <1>7, <1>8, StreamSteps

\* The invariant behind StaleListingCauses.
CacheInv == /\ TypeInv /\ GoodTasks /\ GoodCb /\ GoodStream /\ Stored /\ AskInv
            /\ OwedInv /\ ToldInv

LEMMA CacheInvInit == DirCacheAssumption /\ Init => CacheInv
<1> SUFFICES ASSUME DirCacheAssumption, Init PROVE CacheInv
    OBVIOUS
<1>1. TypeInv
      BY InitType
<1>2. GoodTasks /\ GoodCb /\ GoodStream /\ Stored /\ ToldInv
      BY DEF Init, NoTask, GoodTasks, GoodCb, GoodStream, Stored, ToldInv
<1>3. AskInv
      BY DEF Init, NoTask, AskInv, Unanswered
<1>4. ~InHand
      BY DEF Init, NoTask, InHand
<1>5. OwedInv
      BY <1>4, HeldInHand DEF OwedInv
<1> QED BY <1>1, <1>2, <1>3, <1>5 DEF CacheInv

LEMMA CacheInvStep == DirCacheAssumption /\ CacheInv /\ [Next]_vars => CacheInv'
<1> SUFFICES ASSUME DirCacheAssumption, CacheInv, [Next]_vars
             PROVE  CacheInv'
    OBVIOUS
<1>1. TypeInv'
      BY TypeStep DEF CacheInv
<1>2. GoodTasks' /\ GoodCb' /\ GoodStream'
      BY GoodTasksStep, GoodCbStep, GoodStreamStep DEF CacheInv
<1>3. Stored' /\ AskInv'
      BY StoredStep, AskStep DEF CacheInv
<1>4. OwedInv' /\ ToldInv'
      BY OwedStep, ToldStep DEF CacheInv
<1> QED BY <1>1, <1>2, <1>3, <1>4 DEF CacheInv

LEMMA CacheInvCauses == CacheInv => StaleListingCauses
<1> SUFFICES ASSUME CacheInv, Quiet, cache # None, cache # dir.names
             PROVE  fate \in {"unwatched", "sameSecond", "overtaken"}
    BY DEF StaleListingCauses
<1>1. /\ ~due /\ stream = <<>>
      /\ info.stage = "none" /\ prefetch.stage = "none" /\ batch.stage = "none"
      /\ \A k \in Callbacks : cb[k].stage = "none"
      BY DEF Quiet, NoTask
<1>2. fate # "told"
      BY <1>1 DEF CacheInv, ToldInv
<1>3. Held
      BY DEF Held
<1>4. fate # "owed"
      BY <1>1, <1>3 DEF CacheInv, OwedInv, Current
<1> QED BY <1>2, <1>4 DEF CacheInv, TypeInv, Told

\* When nothing is under way, a stale listing in the client's cache has one of
\* the three listed causes, for any number of changes, callbacks and calls.
THEOREM StaleListings == Spec => []StaleListingCauses
<1>1. DirCacheAssumption
      BY DirCacheAssumption
<1> QED BY <1>1, CacheInvInit, CacheInvStep, CacheInvCauses, PTL DEF Spec
=============================================================================
