------------------------------ MODULE TtsAudio ------------------------------
(***************************************************************************)
(* Where the audio of an answer comes from: the cache of synthesized       *)
(* files, and the response of the service that makes them. The two parts   *)
(* share no state.                                                         *)
(***************************************************************************)
EXTENDS Naturals, Sequences, FiniteSets, SequencesExt, FiniteSetsExt

-----------------------------------------------------------------------------
(***************************************************************************)
(* The disk cache of synthesized speech: an audio file and a metadata file *)
(* per key, read by get, written by put, evicted by the prune at the end   *)
(* of every put.  Each awaited file operation is a step, so operations     *)
(* interleave, and the gateway may stop between any two.  A row of the     *)
(* prune is read in one step (the code reads its metadata, then stats its  *)
(* audio); the age of an entry is its place in `order'.                    *)
(***************************************************************************)
CONSTANTS Keys, Procs,
          Sizes,      \* sizes of a synthesized file, in units
          MaxTotal,   \* maxTotalBytes
          MaxPuts,    \* bound: puts
          MaxCrash    \* bound: stops of the gateway

VARIABLES
  audio,   \* [Keys -> size of <key>.mp3, 0 when there is none]
  meta,    \* [Keys -> the `bytes' of <key>.json, 0 when there is none]
  order,   \* keys by lastAccessAt, the least recent first
  stale,   \* keys whose lastAccessAt is older than ttlMs
  proc,    \* [Procs -> the operation in progress]
  missed,  \* keys a get has answered null for, so that a put may follow
  mixed,   \* ghost: a put was cut short or ran beside a get
  puts, crashes

cacheVars == <<audio, meta, order, stale, proc, missed, mixed, puts, crashes>>

Idle == [op |-> "idle", key |-> "none", own |-> "none", pc |-> "none", bytes |-> 0,
         rm |-> {}, todo |-> {}, rows |-> {}, alone |-> TRUE]

CacheInit ==
  /\ audio = [k \in Keys |-> 0]
  /\ meta = [k \in Keys |-> 0]
  /\ order = <<>>
  /\ stale = {}
  /\ proc = [p \in Procs |-> Idle]
  /\ missed = {}
  /\ mixed = FALSE
  /\ puts = 0 /\ crashes = 0

Busy == {p \in Procs : proc[p].op # "idle"}
At(p, pc) == proc[p].op # "idle" /\ proc[p].pc = pc
Step(p, with) == proc' = [proc EXCEPT ![p] = with]

\* A new operation ends the solitude of the others.
Begin(p, o) ==
  /\ mixed' = (mixed \/ \E q \in Busy : ~(proc[q].op = "get" <=> o.op = "get"))
  /\ proc' = [q \in Procs |->
             IF q = p THEN [o EXCEPT !.alone = Busy = {}]
             ELSE [proc[q] EXCEPT !.alone = proc[q].alone /\ proc[q].op = "idle"]]

\* Metadata written now: its key becomes the most recent.
WriteMeta(k, bytes) ==
  /\ meta' = [meta EXCEPT ![k] = bytes]
  /\ order' = Append(Remove(order, k), k)
  /\ stale' = stale \ {k}

BeginGet(p, k) ==
  /\ proc[p].op = "idle"
  /\ Begin(p, [Idle EXCEPT !.op = "get", !.key = k, !.pc = "read"])
  /\ UNCHANGED <<audio, meta, order, stale, missed, puts, crashes>>

\* readFile of the metadata: what it says is kept over the next await.
GetRead(p) == LET k == proc[p].key IN
  /\ At(p, "read")
  /\ Step(p, IF meta[k] = 0
             THEN [proc[p] EXCEPT !.pc = "remove", !.rm = {"audio", "meta"}]
             ELSE [proc[p] EXCEPT !.pc = "stat", !.bytes = meta[k]])
  /\ UNCHANGED <<audio, meta, order, stale, missed, mixed, puts, crashes>>

\* stat of the audio, and the check of the age.
GetStat(p) == LET k == proc[p].key IN
  /\ At(p, "stat")
  /\ Step(p, IF audio[k] = 0 \/ k \in stale
             THEN [proc[p] EXCEPT !.pc = "remove", !.rm = {"audio", "meta"}]
             ELSE [proc[p] EXCEPT !.pc = "touch"])
  /\ UNCHANGED <<audio, meta, order, stale, missed, mixed, puts, crashes>>

GetTouch(p) ==
  /\ At(p, "touch")
  /\ WriteMeta(proc[p].key, proc[p].bytes)
  /\ Step(p, Idle)
  /\ UNCHANGED <<audio, missed, mixed, puts, crashes>>

\* removeCacheKey: the two removals run side by side.
RemoveFile(p, f) == LET k == proc[p].key IN
  /\ At(p, "remove") /\ f \in proc[p].rm
  /\ audio' = IF f = "audio" THEN [audio EXCEPT ![k] = 0] ELSE audio
  /\ meta' = IF f = "meta" THEN [meta EXCEPT ![k] = 0] ELSE meta
  /\ order' = IF f = "meta" THEN Remove(order, k) ELSE order
  /\ stale' = IF f = "meta" THEN stale \ {k} ELSE stale
  /\ Step(p, IF proc[p].rm # {f}
             THEN [proc[p] EXCEPT !.rm = @ \ {f}]
             ELSE IF proc[p].op = "get" THEN Idle
             ELSE [proc[p] EXCEPT !.pc = "rows", !.rm = {}])
  /\ missed' = IF proc[p].op = "get" /\ proc[p].rm = {f}
               THEN missed \cup {k} ELSE missed
  /\ UNCHANGED <<mixed, puts, crashes>>

\* The service puts a key once for a miss, never two at a time.
BeginPut(p, k, size) ==
  /\ puts < MaxPuts /\ proc[p].op = "idle"
  /\ k \in missed
  /\ \A q \in Busy : proc[q].op = "put" => proc[q].key # k
  /\ missed' = missed \ {k}
  /\ puts' = puts + 1
  /\ Begin(p, [Idle EXCEPT !.op = "put", !.key = k, !.own = k, !.pc = "audio",
                           !.bytes = size])
  /\ UNCHANGED <<audio, meta, order, stale, crashes>>

PutAudio(p) ==
  /\ At(p, "audio")
  /\ audio' = [audio EXCEPT ![proc[p].key] = proc[p].bytes]
  /\ Step(p, [proc[p] EXCEPT !.pc = "meta"])
  /\ UNCHANGED <<meta, order, stale, missed, mixed, puts, crashes>>

PutMeta(p) ==
  /\ At(p, "meta")
  /\ WriteMeta(proc[p].key, proc[p].bytes)
  /\ Step(p, [proc[p] EXCEPT !.pc = "list"])
  /\ UNCHANGED <<audio, missed, mixed, puts, crashes>>

\* prune: readdir, of which only the metadata files count.
PruneList(p) ==
  /\ At(p, "list")
  /\ Step(p, [proc[p] EXCEPT !.pc = "rows", !.op = "prune",
                             !.todo = {k \in Keys : meta[k] > 0}])
  /\ UNCHANGED <<audio, meta, order, stale, missed, mixed, puts, crashes>>

\* One row: dropped when it is broken or too old, else kept with its bytes
\* and its age.
Place(k) == CHOOSE i \in DOMAIN order : order[i] = k
Row(k) == [key |-> k, bytes |-> meta[k], age |-> Place(k)]
PruneRow(p, k) ==
  /\ At(p, "rows") /\ k \in proc[p].todo
  /\ Step(p, IF meta[k] = 0 \/ audio[k] = 0 \/ k \in stale
             THEN [proc[p] EXCEPT !.todo = @ \ {k}, !.pc = "remove",
                                  !.key = k, !.rm = {"audio", "meta"}]
             ELSE [proc[p] EXCEPT !.todo = @ \ {k}, !.rows = @ \cup {Row(k)}])
  /\ UNCHANGED <<audio, meta, order, stale, missed, mixed, puts, crashes>>

Total(rows) == MapThenSumSet(LAMBDA row : row.bytes, rows)
Newest(rows) == CHOOSE row \in rows : \A o \in rows : o.age <= row.age
Oldest(rows) == CHOOSE row \in rows : \A o \in rows : row.age <= o.age

EvictNewest(rows) == Newest(rows)
\* The rows are sorted by lastAccessAt: the least recent goes first.
Evict(rows) == Oldest(rows)

\* Over the limit: the next row is removed and its bytes are taken off.
PruneEvict(p) ==
  /\ At(p, "rows") /\ proc[p].todo = {}
  /\ IF Total(proc[p].rows) <= MaxTotal THEN Step(p, Idle)
     ELSE LET row == Evict(proc[p].rows) IN
          Step(p, [proc[p] EXCEPT !.pc = "remove", !.key = row.key,
                                  !.rm = {"audio", "meta"},
                                  !.rows = @ \ {row}])
  /\ UNCHANGED <<audio, meta, order, stale, missed, mixed, puts, crashes>>

\* Seven days pass without a hit: no operation takes that long.
Age(k) ==
  /\ Busy = {}
  /\ meta[k] > 0 /\ k \notin stale
  /\ stale' = stale \cup {k}
  /\ UNCHANGED <<audio, meta, order, proc, missed, mixed, puts, crashes>>

\* The gateway stops: the operations end where they are.
Crash ==
  /\ crashes < MaxCrash
  /\ crashes' = crashes + 1
  /\ mixed' = TRUE
  /\ proc' = [p \in Procs |-> Idle]
  /\ UNCHANGED <<audio, meta, order, stale, missed, puts>>

CacheNext ==
  \/ \E p \in Procs :
       \/ \E k \in Keys : \/ BeginGet(p, k) \/ PruneRow(p, k)
                          \/ \E s \in Sizes : BeginPut(p, k, s)
       \/ GetRead(p) \/ GetStat(p) \/ GetTouch(p)
       \/ \E f \in {"audio", "meta"} : RemoveFile(p, f)
       \/ PutAudio(p) \/ PutMeta(p) \/ PruneList(p) \/ PruneEvict(p)
  \/ \E k \in Keys : Age(k)
  \/ Crash

CacheSpec == CacheInit /\ [][CacheNext]_cacheVars
-----------------------------------------------------------------------------
CacheWhole(k) == audio[k] > 0 /\ meta[k] > 0
Wholes == {k \in Keys : CacheWhole(k)}

\* Puts that overlap, each with a prune that lists while the others write,
\* leave no more than the limit when all have ended.
PutsFit ==
  Busy = {} /\ ~mixed => MapThenSumSet(LAMBDA k : meta[k], Wholes) <= MaxTotal

\* A put nobody disturbs leaves its own entry whole: the prune at its end
\* evicts older entries instead.
StoredIsKept ==
  [][\A p \in Procs :
       proc[p].op = "prune" /\ proc'[p].op = "idle" /\ proc[p].alone
       /\ crashes' = crashes => CacheWhole(proc[p].own)]_cacheVars

\* Eviction stops at the limit: a put nobody disturbs does not leave the cache
\* with less than it had room for (the last entry evicted did not fit).
NeverEmptied ==
  [][\A p \in Procs :
       At(p, "rows") /\ proc[p].todo = {} /\ proc'[p].pc = "remove"
       /\ proc'[p].todo = {} /\ proc[p].alone
         => MapThenSumSet(LAMBDA k : meta[k], Wholes) > MaxTotal]_cacheVars
-----------------------------------------------------------------------------

-----------------------------------------------------------------------------
(***************************************************************************)
(* The reader of the Volcengine synthesis stream: whatever the network     *)
(* makes of the body, as SSE blocks or as JSON objects one after another,  *)
(* the audio put together must be that of the body as it was sent.  A body *)
(* is a sequence of tokens: in SSE mode lines ("data" followed by its      *)
(* payload) and line ends, in JSON mode braces, quotes, backslashes and    *)
(* the payload they enclose.  The body may also end too early or time out. *)
(***************************************************************************)
CONSTANTS SseBodies, JsonBodies  \* bodies the service can send, as tokens

Payloads == {"a1", "a2", "sentence", "finish", "error"}
Audio == {"a1", "a2"}

VARIABLES
  sse,     \* content-type is text/event-stream
  sent,    \* what the service has sent of its body
  body,    \* what it has still to send
  buffer,  \* streamBuffer
  chunks,  \* audioChunks
  finish,  \* finishCode is set
  result   \* "reading", "audio", or why synthesize throws

streamVars == <<sse, sent, body, buffer, chunks, finish, result>>

StreamInit ==
  /\ sse \in BOOLEAN
  /\ body \in IF sse THEN SseBodies ELSE JsonBodies
  /\ sent = <<>> /\ buffer = <<>> /\ chunks = <<>>
  /\ finish = FALSE
  /\ result = "reading"

Cut(s, n) == SubSeq(s, n + 1, Len(s))
Blank(s) == ToSet(s) \subseteq {"CR", "LF"}

\* --- SSE ----------------------------------------------------------------
\* Where a blank line begins, and how many tokens it takes.
IsBreak(s, i, len) ==
  /\ i + len - 1 <= Len(s)
  /\ SubSeq(s, i, i + len - 1) \in {<<"LF", "LF">>, <<"CR", "LF", "CR", "LF">>}
Breaks(s) == {<<i, len>> \in (1..Len(s)) \X {2, 4} : IsBreak(s, i, len)}

\* The payload of a block: what follows "data"; the lines of a block are joined,
\* and two payloads in one are no JSON.
DataOf(block) ==
  LET starts == {i \in 1..Len(block) : block[i] = "data"}
      i == CHOOSE j \in starts : TRUE
  IN IF starts = {} THEN <<>>
     ELSE IF Cardinality(starts) = 1 /\ i < Len(block)
     THEN <<block[i + 1]>> ELSE <<"broken">>

\* extractSseBlocks: complete blocks, the rest, and at the end of the stream
\* (flush) a last block without its blank line.
SseStep[s \in Seq(STRING)] ==
  IF Breaks(s) = {} THEN [items |-> <<>>, rest |-> s]
  ELSE LET at == CHOOSE b \in Breaks(s) : \A c \in Breaks(s) : b[1] <= c[1]
           more == SseStep[Cut(s, at[1] + at[2] - 1)]
       IN [items |-> DataOf(SubSeq(s, 1, at[1] - 1)) \o more.items,
           rest |-> more.rest]
ExtractSse(s, flush) ==
  LET found == SseStep[s]
      last == DataOf(found.rest)
  IN IF flush /\ ~Blank(found.rest) /\ last # <<>>
     THEN [items |-> found.items \o last, rest |-> <<>>]
     ELSE found

\* --- JSON objects -----------------------------------------------------------
\* One token of extractJsonObjects: nesting counts outside strings only, an
\* escaped quote does not end a string.
ScanToken(scan, t) ==
  CASE scan.start = 0 /\ t = "{" -> [scan EXCEPT !.start = scan.at, !.depth = 1]
    [] scan.start = 0 -> scan
    [] scan.string /\ scan.escaped -> [scan EXCEPT !.escaped = FALSE]
    [] scan.string /\ t = "\\" -> [scan EXCEPT !.escaped = TRUE]
    [] t = "\"" -> [scan EXCEPT !.string = ~@]
    [] ~scan.string /\ t = "{" -> [scan EXCEPT !.depth = @ + 1]
    [] ~scan.string /\ t = "}" -> [scan EXCEPT !.depth = @ - 1]
    [] OTHER -> scan

ExtractJson(s) ==
  LET scan[i \in 0..Len(s)] ==
        IF i = 0 THEN [at |-> 1, start |-> 0, depth |-> 0, string |-> FALSE,
                       escaped |-> FALSE, items |-> <<>>]
        ELSE LET next == [ScanToken(scan[i - 1], s[i]) EXCEPT !.at = i + 1]
             IN IF next.start > 0 /\ next.depth = 0
                THEN [next EXCEPT !.items = Append(@, SubSeq(s, next.start, i)),
                                  !.start = 0]
                ELSE next
      last == scan[Len(s)]
  IN [items |-> last.items,
      rest |-> IF last.start > 0 THEN SubSeq(s, last.start, Len(s)) ELSE <<>>]

\* JSON.parse of an object: its payload.
Parse(object) ==
  LET in == {i \in DOMAIN object : object[i] \in Payloads} IN
  IF in = {} \/ Last(object) # "}" THEN "broken" ELSE object[CHOOSE i \in in : TRUE]

\* --- applyStreamPayload -------------------------------------------------------
Applied(state, payload) ==
  CASE state.result # "reading" -> state
    [] payload = "broken" -> [state EXCEPT !.result = "failed"]
    [] payload = "error" -> [state EXCEPT !.result = "rejected"]
    [] payload \in Audio -> [state EXCEPT !.chunks = Append(@, payload)]
    [] payload = "finish" -> [state EXCEPT !.finish = TRUE]
    [] OTHER -> state
Apply(payloads) ==
  FoldLeft(Applied, [chunks |-> chunks, finish |-> finish, result |-> "reading"],
           payloads)

Items(text, flush) ==
  IF sse THEN ExtractSse(text, flush)
  ELSE LET found == ExtractJson(text) IN
       [items |-> [i \in DOMAIN found.items |-> Parse(found.items[i])],
        rest |-> found.rest]

\* A chunk of any length arrives: complete items are applied in order.
Read(n) ==
  /\ result = "reading" /\ n \in 1..Len(body)
  /\ sent' = sent \o SubSeq(body, 1, n)
  /\ body' = Cut(body, n)
  /\ LET found == Items(buffer \o SubSeq(body, 1, n), FALSE)
         after == Apply(found.items)
     IN /\ buffer' = found.rest
        /\ chunks' = after.chunks /\ finish' = after.finish
        /\ result' = after.result
  /\ UNCHANGED sse

\* The stream ends, complete or not: the rest is flushed, an unfinished item
\* is an error, and so is a stream without audio.
End ==
  /\ result = "reading"
  /\ LET found == IF Blank(buffer) THEN [items |-> <<>>, rest |-> <<>>]
                  ELSE Items(buffer, TRUE)
         after == Apply(found.items)
     IN /\ buffer' = found.rest
        /\ chunks' = after.chunks /\ finish' = after.finish
        /\ result' = IF after.result # "reading" THEN after.result
                     ELSE IF ~Blank(found.rest) \/ after.chunks = <<>>
                     THEN "failed" ELSE "audio"
  /\ body' = <<>>
  /\ UNCHANGED <<sse, sent>>

\* AbortSignal.timeout while the body is on its way.
TimesOut ==
  /\ result = "reading"
  /\ result' = "failed"
  /\ UNCHANGED <<sse, sent, body, buffer, chunks, finish>>

StreamNext == (\E n \in 1..Len(body) : Read(n)) \/ End \/ TimesOut
StreamSpec == StreamInit /\ [][StreamNext]_streamVars /\ WF_streamVars(TimesOut)
-----------------------------------------------------------------------------
\* The payloads of a body as it was sent, whatever its chunks were.
StreamWhole == SelectSeq(sent, LAMBDA t : t \in Payloads)
UpToError == LET bad == {i \in DOMAIN StreamWhole : StreamWhole[i] = "error"} IN
  IF bad = {} THEN StreamWhole
  ELSE SubSeq(StreamWhole, 1, (CHOOSE i \in bad : \A j \in bad : i <= j) - 1)

\* The audio collected is the audio sent, in order, nothing twice: complete
\* when the stream ended well, a prefix before.
AudioIsSplitFree ==
  LET all == SelectSeq(UpToError, LAMBDA t : t \in Audio) IN
  /\ IsPrefix(chunks, all)
  /\ result = "audio" => chunks = all

\* An error event that arrived whole is never lost among the audio: such a
\* stream is not stored as speech.
ErrorIsHeard == result = "audio" => "error" \notin ToSet(StreamWhole)
=============================================================================
