----------------------------- MODULE WebBuffers -----------------------------
(***************************************************************************)
(* The output of a session on its way to the user of the web client: the   *)
(* buffers of the session store, and the xterm screen that is written from *)
(* them. The two parts are modelled apart.                                 *)
(***************************************************************************)
EXTENDS Integers, Sequences, FiniteSets, SequencesExt, FiniteSetsExt

-----------------------------------------------------------------------------
(***************************************************************************)
(* The terminal buffers of the web client's session store and the snapshot *)
(* it keeps in sessionStorage (apps/web/src/stores/sessionStore.ts): one   *)
(* buffer per connection key, trimmed by entries, by bytes and by number   *)
(* of buffers; a debounced snapshot of the active one; the page reload     *)
(* that restores it and connects again.                                    *)
(*                                                                         *)
(* A chunk of output has a number and a size.  Time is the number of steps *)
(* that read the clock.  A reload lets the page save first; a crash of the *)
(* tab does not.                                                           *)
(***************************************************************************)
CONSTANTS
    Servers,      \* 1 .. n; 0 is no server
    MaxBuckets,   \* MAX_BUFFER_BUCKETS
    BuffersMaxEntries,   \* terminalBufferMaxEntries
    MaxBytes,     \* terminalBufferMaxBytes
    MinPersist,   \* 200: lines below which a snapshot is not cut further
    Quota,        \* what sessionStorage takes
    BuffersSizes,        \* sizes of chunks
    MaxClock      \* bound: steps

VARIABLES
    buckets,   \* buffersByKey
    active,    \* activeConnectionKey
    server,    \* currentServerId
    live,      \* the state is one of connecting .. reconnecting
    disk,      \* the snapshot in sessionStorage
    dirty,     \* snapshotPersistTimer is set
    clock,     \* Date.now()
    out        \* history: what was written to each key since it was cleared

buffersVars == <<buckets, active, server, live, disk, dirty, clock, out>>

DefaultKey == <<0, 0>>
Bucket(chunks, bytes, at) == [chunks |-> chunks, bytes |-> bytes, updatedAt |-> at]
Total(chunks) == FoldLeft(LAMBDA sum, c : sum + c.size, 0, chunks)
NoSnapshot == [key |-> DefaultKey, lines |-> <<>>, server |-> 0, reconnect |-> 0]

BuffersInit ==
           /\ buckets = DefaultKey :> Bucket(<<>>, 0, 0) /\ active = DefaultKey
           /\ server = 0 /\ live = FALSE /\ disk = NoSnapshot /\ dirty = FALSE /\ clock = 1
           /\ out = DefaultKey :> <<>>

-----------------------------------------------------------------------------

\* trimByEntries
TrimEntries(b) ==
    IF Len(b.chunks) <= BuffersMaxEntries THEN b
    ELSE LET cut == Len(b.chunks) - BuffersMaxEntries
         IN Bucket(SubSeq(b.chunks, cut + 1, Len(b.chunks)), b.bytes - Total(SubSeq(b.chunks, 1, cut)), b.updatedAt)

\* trimByBytes: as few as possible of the oldest go; the newest stays.
TrimBytes(b) ==
    IF b.chunks = <<>> THEN b ELSE
    LET cut == Min({k \in 0 .. Len(b.chunks) - 1 :
                      b.bytes - Total(SubSeq(b.chunks, 1, k)) <= MaxBytes \/ k = Len(b.chunks) - 1})
    IN Bucket(SubSeq(b.chunks, cut + 1, Len(b.chunks)), b.bytes - Total(SubSeq(b.chunks, 1, cut)), b.updatedAt)

Newer(bs, k, l) == bs[k].updatedAt > bs[l].updatedAt

\* trimBucketCount: the oldest go, the active one never.
TrimCount(bs, keep) ==
    LET kept == CHOOSE ks \in SUBSET DOMAIN bs :
            /\ keep \in ks /\ Cardinality(ks) = Min({MaxBuckets, Cardinality(DOMAIN bs)})
            /\ \A k \in ks \ {keep}, l \in DOMAIN bs \ ks : ~Newer(bs, l, k)
    IN [k \in kept |-> bs[k]]

\* findLatestConnectionKeyForServer, or the key of a new connection.
OwnKeys(bs, s) == {k \in DOMAIN bs : k[1] = s}
LatestKey(bs, s) == CHOOSE k \in OwnKeys(bs, s) : \A l \in OwnKeys(bs, s) : ~Newer(bs, l, k)

\* resolveConnectionKeyForConnect
KeyFor(bs, s, auto, previous) ==
    IF OwnKeys(bs, s) # {} /\ (auto \/ previous \in {s, 0}) THEN LatestKey(bs, s) ELSE <<s, clock>>

\* The part of connect() that is about buffers.
Open(bs, s, auto, previous) ==
    LET key == KeyFor(bs, s, auto, previous)
        old == IF key \in DOMAIN bs THEN bs[key] ELSE Bucket(<<>>, 0, 0)
        touched == [k \in DOMAIN bs \cup {key} |-> IF k = key THEN [old EXCEPT !.updatedAt = clock] ELSE bs[k]]
    IN [key |-> key, buckets |-> TrimCount(touched, key)]
Forget(keys, o) == [k \in keys |-> IF k \in DOMAIN o THEN o[k] ELSE <<>>]

\* persistSnapshotNow: the newest lines that fit, halving while more than
\* MinPersist are left; otherwise nothing is written.
Halved(lines) ==
    LET len[k \in 0 .. Len(lines)] == IF k = 0 THEN Len(lines) ELSE len[k - 1] - len[k - 1] \div 2
        tail(k) == SubSeq(lines, Len(lines) - len[k] + 1, Len(lines))
        tried == {k \in 0 .. Len(lines) : \A j \in 0 .. k - 1 : len[j] > MinPersist /\ Total(tail(j)) > Quota}
    IN {tail(k) : k \in {j \in tried : Total(tail(j)) <= Quota}}

\* buildSnapshot and the write.
Save ==
    LET fits == Halved(buckets[active].chunks)
    IN IF fits = {} THEN disk
       ELSE [key |-> active, lines |-> CHOOSE l \in fits : TRUE, server |-> server,
             reconnect |-> IF live THEN server ELSE 0]

-----------------------------------------------------------------------------
Tick == clock < MaxClock /\ clock' = clock + 1

\* connect(), by the user or by a retry for the current server.
BuffersConnect(s, auto) ==
    /\ Tick /\ (auto => s = server)
    /\ LET o == Open(buckets, s, auto, server)
       IN active' = o.key /\ buckets' = o.buckets /\ out' = Forget(DOMAIN o.buckets, out)
    /\ server' = s /\ live' = TRUE /\ dirty' = TRUE
    /\ UNCHANGED disk

\* appendTerminal
Output(size) ==
    /\ Tick /\ live
    /\ LET c == [id |-> clock, size |-> size]
           b == buckets[active]
           grown == Bucket(Append(b.chunks, c), b.bytes + size, clock)
       IN /\ buckets' = TrimCount([buckets EXCEPT ![active] = TrimBytes(TrimEntries(grown))], active)
          /\ out' = [k \in DOMAIN buckets' |-> IF k = active THEN Append(out[k], c) ELSE out[k]]
    /\ dirty' = TRUE
    /\ UNCHANGED <<active, server, live, disk>>

\* clearTerminal
Clear ==
    /\ Tick
    /\ buckets' = [buckets EXCEPT ![active] = Bucket(<<>>, 0, clock)]
    /\ out' = [out EXCEPT ![active] = <<>>] /\ dirty' = TRUE
    /\ UNCHANGED <<active, server, live, disk>>

\* The connection is lost, or the user ends it.
Ended(manual) ==
    /\ Tick /\ live /\ live' = FALSE /\ dirty' = TRUE
    /\ server' = IF manual THEN 0 ELSE server
    /\ UNCHANGED <<buckets, active, disk, out>>

\* The debounce timer, or the page is hidden.
Persist ==
    /\ dirty /\ dirty' = FALSE /\ disk' = Save
    /\ UNCHANGED <<buckets, active, server, live, clock, out>>

\* ensureBootstrapped after a restart: restoreSnapshot, then tryAutoReconnect,
\* which looks the server up and reuses the restored key.  It finds it only if
\* the store of servers is loaded: on /terminal and /connect the two stores are
\* started together and the servers still come from IndexedDB; on the settings
\* of a server they were loaded before.
Restart(d, found) ==
    LET restored == d.key :> Bucket(d.lines, Total(d.lines), clock)
        o == Open(restored, d.reconnect, TRUE, d.server)
        again == d.reconnect # 0 /\ found
    IN /\ IF again THEN active' = o.key /\ buckets' = o.buckets
          ELSE active' = d.key /\ buckets' = restored
       /\ server' = IF again THEN d.reconnect ELSE d.server
       /\ live' = again /\ dirty' = TRUE

\* The page is reloaded: beforeunload and pagehide write the snapshot.
Reload ==
    /\ Tick /\ disk' = Save /\ \E found \in BOOLEAN : Restart(Save, found)
    /\ out' = IF Halved(buckets[active].chunks) = {} THEN [k \in DOMAIN buckets' |-> buckets'[k].chunks]
              ELSE Forget(DOMAIN buckets', out)

\* The tab crashes: what was not written is lost.
Crash ==
    /\ Tick /\ UNCHANGED disk /\ \E found \in BOOLEAN : Restart(disk, found)
    /\ out' = [k \in DOMAIN buckets' |-> buckets'[k].chunks]

BuffersNext ==
           \/ \E s \in Servers, auto \in BOOLEAN : BuffersConnect(s, auto)
           \/ \E size \in BuffersSizes : Output(size)
           \/ \E manual \in BOOLEAN : Ended(manual)
           \/ Clear \/ Persist \/ Reload \/ Crash

BuffersSpec == BuffersInit /\ [][BuffersNext]_buffersVars

-----------------------------------------------------------------------------
\* The byte count follows the chunks through both trims and a restart.
BytesCounted == \A k \in DOMAIN buckets : buckets[k].bytes = Total(buckets[k].chunks)

\* A buffer is the newest output of its connection, without a gap, and never
\* empty while there was any.
BufferIsTail ==
    \A k \in DOMAIN buckets :
        /\ IsSuffix(buckets[k].chunks, out[k])
        /\ out[k] # <<>> => buckets[k].chunks # <<>>

\* Memory is bounded; only a single oversized chunk may exceed the bytes.
BuffersBounded ==
    /\ Cardinality(DOMAIN buckets) <= MaxBuckets
    /\ \A k \in DOMAIN buckets : Len(buckets[k].chunks) <= BuffersMaxEntries
            /\ (buckets[k].bytes > MaxBytes => Len(buckets[k].chunks) = 1)

\* Output goes to a buffer that exists, of the server that is connected.
ActiveIsServers == active \in DOMAIN buckets /\ (live => active[1] = server)

\* Switching servers starts a new buffer (resolveConnectionKeyForConnect).
SwitchIsolates ==
    [][\A s \in Servers : server \notin {0, s} /\ BuffersConnect(s, FALSE) => buckets'[active'].chunks = <<>>]_buffersVars

\* A reload keeps the newest output and the server if the snapshot could be
\* written, and connects nothing that was not connected; where it does not
\* connect again, the next connect to that server still finds the output.
ReloadResumes ==
    [][Reload /\ Halved(buckets[active].chunks) # {} =>
        /\ (live' => live) /\ server' = server
        /\ IsSuffix(buckets'[active'].chunks, buckets[active].chunks)
        /\ buckets[active].chunks # <<>> => buckets'[active'].chunks # <<>>
        /\ live => KeyFor(buckets, server, FALSE, server)' = active']_buffersVars

-----------------------------------------------------------------------------
(* What the terminal panel shows of the store's buffer, and the geometry it     *)
(* tells the shell (components/TerminalPanel.vue with resize, appendTerminal    *)
(* and clearTerminal of stores/sessionStore.ts). The buffer loses its head at a *)
(* limit, the panel writes what is new, and is mounted anew with every visit.   *)
CONSTANTS OutputMaxEntries, \* terminalBufferMaxEntries
          MaxChunks,  \* chunks of output in a run
          Breaks,     \* the chunks that end with a line break, by their number
          OutputSizes,      \* sizes of the page; 0 is what a new shell starts with
          Resumes     \* whether a reconnection may find its old shell

VARIABLES t, \* the buffer and what xterm was given of it
          g  \* the geometry of page and shell, and the connection

OutputInit ==
  /\ t = [lines |-> <<>>, made |-> 0, revised |-> FALSE, \* outputRevision is watched
          mounted |-> FALSE, last |-> 0, screen |-> <<>>,
          kept |-> 0] \* history: what of the screen was left when it was cleared
  /\ \E page \in OutputSizes :
       g = [page |-> page, sent |-> 0, pty |-> 0, connected |-> FALSE, shell |-> FALSE,
            timer |-> "none"] \* of the mount or of the watch on state

-----------------------------------------------------------------------------
(* replayBufferedLines                                                          *)
Replayed(s) == [s EXCEPT !.screen = @ \o s.lines, !.last = Len(s.lines)]

(* xterm's clear drops every row but the cursor's: what was written after the   *)
(* last line break. Writes that xterm still holds are taken as done.            *)
CursorRow(pieces) ==
  LET ends == {0} \cup {i \in DOMAIN pieces : pieces[i] \in Breaks}
  IN SubSeq(pieces, Max(ends) + 1, Len(pieces))
ClearedNothing(s) == s
Cleared(s) ==
  LET row == CursorRow(s.screen) IN [s EXCEPT !.screen = row, !.kept = Len(row)]

WrittenFromIndex(s) ==
  [s EXCEPT !.screen = @ \o SubSeq(s.lines, s.last + 1, Len(s.lines)), !.last = Len(s.lines)]

(* The watch on outputRevision: a buffer that shrank is replayed, one at its    *)
(* limit has one new entry, otherwise what is beyond lastIndex is new.          *)
Written(s) ==
  CASE Len(s.lines) < s.last -> Replayed(Cleared(s))
    [] Len(s.lines) = s.last /\ s.lines # <<>> -> [s EXCEPT !.screen = Append(@, Last(s.lines))]
    [] OTHER -> WrittenFromIndex(s)

(* handleResize; resize sends a size it has not sent on this connection.        *)
Resized(n) ==
  IF n.connected /\ n.sent # n.page THEN [n EXCEPT !.sent = n.page, !.pty = n.page] ELSE n

-----------------------------------------------------------------------------
(* appendTerminal: the entries that are beyond a limit, of number or of bytes,  *)
(* go, never the new one.                                                       *)
AppendTerminal ==
  \E keep \in 1 .. OutputMaxEntries :
    /\ g.connected /\ ~t.revised /\ t.made < MaxChunks
    /\ keep <= Len(t.lines) + 1
    /\ LET all == Append(t.lines, t.made + 1)
       IN t' = [t EXCEPT !.lines = SubSeq(all, Len(all) - keep + 1, Len(all)),
                         !.made = @ + 1, !.revised = t.mounted]
    /\ UNCHANGED g

(* clearTerminal                                                                *)
ClearTerminal ==
  /\ ~t.revised /\ t.lines # <<>>
  /\ t' = [t EXCEPT !.lines = <<>>, !.revised = t.mounted] /\ UNCHANGED g

Watched == t.revised /\ t' = [Written(t) EXCEPT !.revised = FALSE] /\ UNCHANGED g

(* onMounted: the terminal is new, and may be of another size than the last.    *)
Mount ==
  /\ ~t.mounted
  /\ t' = [Replayed(t) EXCEPT !.mounted = TRUE]
  /\ g' = [g EXCEPT !.timer = IF g.connected THEN "resize" ELSE "none"]

Unmount ==
  /\ t.mounted /\ ~t.revised
  /\ t' = [t EXCEPT !.mounted = FALSE, !.last = 0, !.screen = <<>>, !.kept = 0]
  /\ g' = [g EXCEPT !.timer = "none"]

(* The window or the container changes its size.                                *)
PageChanges ==
  \E size \in OutputSizes \ {g.page} :
    /\ g' = IF t.mounted THEN Resized([g EXCEPT !.page = size]) ELSE [g EXCEPT !.page = size]
    /\ UNCHANGED t

(* connect() and the watch on the state: nothing is sent to a shell found again.*)
OutputConnect ==
  \E resumed \in {FALSE, Resumes} :
    /\ ~g.connected /\ (resumed => g.shell)
    /\ g' = [g EXCEPT !.connected = TRUE, !.shell = TRUE, !.sent = 0,
                      !.pty = IF resumed THEN @ ELSE 0,
                      !.timer = IF t.mounted THEN IF resumed THEN "fit" ELSE "resize" ELSE "none"]
    /\ UNCHANGED t

Lost == g.connected /\ g.timer = "none" /\ g' = [g EXCEPT !.connected = FALSE] /\ UNCHANGED t

TimerFires ==
  /\ g.timer # "none"
  /\ g' = [IF g.timer = "resize" THEN Resized(g) ELSE g EXCEPT !.timer = "none"]
  /\ UNCHANGED t

OutputNext == AppendTerminal \/ ClearTerminal \/ Watched \/ Mount \/ Unmount
              \/ PageChanges \/ OutputConnect \/ Lost \/ TimerFires

OutputSpec == OutputInit /\ [][OutputNext]_<<t, g>>

-----------------------------------------------------------------------------
(* What xterm was given ends with what the buffer holds, at the limit too.      *)
ScreenIsBuffer == t.mounted /\ ~t.revised => IsSuffix(t.lines, t.screen)

(* No chunk is written twice to one screen; only what stood in the cursor's row *)
(* when a buffer that shrank was replayed may come again.                       *)
NothingTwice ==
  \A i, j \in DOMAIN t.screen : i < j /\ t.screen[i] = t.screen[j] => i <= t.kept

(* The shell has the size of the panel the user looks at.                       *)
ShellFits == t.mounted /\ g.connected /\ g.timer = "none" => g.pty = g.page
=============================================================================
