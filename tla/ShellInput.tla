----------------------------- MODULE ShellInput -----------------------------
(***************************************************************************)
(* What the gateway does with the ends of a shell's text: it keeps the     *)
(* script that prepares a shell off the screen, and it writes an assisted  *)
(* input into the shell once. The two parts share no state; the variables  *)
(* and actions of each follow below.                                       *)
(***************************************************************************)
EXTENDS Integers, Sequences, SequencesExt, FiniteSetsExt

-----------------------------------------------------------------------------
(***************************************************************************)
(* The silent initialisation of a shell (apps/gateway/src/ssh/             *)
(* sshSession.ts).  The gateway types a script of three commands into a    *)
(* fresh shell; the first prints the sentinel line BEGIN, the last the     *)
(* sentinel line DONE.  Output is withheld until DONE has been seen, or    *)
(* until three seconds have passed, and cleaned of what the script printed.*)
(*                                                                         *)
(* TCP delivers the shell's output in chunks of any size.  Text is a       *)
(* sequence of tokens: each sentinel is two of them, so that a chunk can   *)
(* end inside one, between it and its line end, and inside \r\n.           *)
(***************************************************************************)
CONSTANTS
    Transcripts   \* what shells print around the script: records as below

VARIABLES
    transcript,   \* the one this shell follows
    coming,       \* output the shell has still to deliver
    initState,    \* initState
    initBuffer,   \* initBuffer
    timer,        \* is initTimeoutHandle armed
    shown,        \* history: text given to onStdout
    fate          \* history: "none", "timeout", "no_script", "closed"

shellVars == <<transcript, coming, initState, initBuffer, timer, shown, fate>>

Begin == <<"BEGIN1", "BEGIN2">>
Done  == <<"DONE1", "DONE2">>
Newline == "n"
Return  == "r"
\* "stty -echo"; another command of the script; the quote after a sentinel
\* in the echo of a command.
Stty  == "stty"
Other == "setopt"
Quote == "quote"
Plain == "x"     \* anything else
Script == {Begin[1], Begin[2], Done[1], Done[2], Stty, Other, Quote}
Tokens == Script \cup {Newline, Return, Plain}

InitStates == {"waiting_begin", "waiting_done", "done"}
Fates == {"none", "timeout", "no_script", "closed"}

\* The output of a shell that runs the script.  banner: before the prompt;
\* prompt: printed before the first command; echo: the terminal's echo of
\* that command, if it echoes; noise: what the commands in between print;
\* echoDone: the echo of the last command; rest: the first prompt and
\* whatever follows; eol: the line end after a sentinel.
Echo == <<Stty>> \o Begin \o <<Quote, Return, Newline>>
EchoDone == <<Other>> \o Done \o <<Quote, Return, Newline>>
Output(t) == t.banner \o t.prompt \o (IF t.echo THEN Echo ELSE <<>>) \o Begin \o t.eol
                \o t.noise \o (IF t.echoDone THEN EchoDone ELSE <<>>) \o Done \o t.eol \o t.rest
\* What the user of the terminal should see of it: the prompt in front of an
\* echoed command belongs to the line that is removed.
Expected(t) == t.banner \o (IF t.echo THEN <<>> ELSE t.prompt) \o t.rest

\* Every variable has a value its code can hold: the filter and the output under way.
ShellTypeOK ==
    /\ transcript \in Transcripts
    /\ coming \in Seq(Tokens)
    /\ initState \in InitStates
    /\ initBuffer \in Seq(Tokens)
    /\ timer = (initState # "done" /\ fate # "closed")
    /\ shown \in Seq(Tokens)
    /\ fate \in Fates

\* The shell is open; either its script has been written or the first write
\* failed, which ends the initialisation.
ShellInit ==
         /\ transcript \in Transcripts
         /\ initBuffer = <<>> /\ shown = <<>>
         /\ \/ /\ initState = "waiting_begin" /\ timer = TRUE /\ fate = "none"
               /\ coming = Output(transcript)
            \/ /\ initState = "done" /\ timer = FALSE /\ fate = "no_script"
               /\ coming = transcript.banner \o transcript.prompt

-----------------------------------------------------------------------------
From(text, i) == SubSeq(text, i, Len(text))
StartsAt(text, pattern, i) ==
    i + Len(pattern) - 1 <= Len(text) /\ SubSeq(text, i, i + Len(pattern) - 1) = pattern

\* Length of the line end at i, 0 if there is none (yet).
LineEndAt(text, i) ==
    IF StartsAt(text, <<Newline>>, i) THEN 1
    ELSE IF StartsAt(text, <<Return, Newline>>, i) THEN 2 ELSE 0

Occurrences(text, sentinel) == {i \in DOMAIN text : StartsAt(text, sentinel, i)}

\* findSentinelLine: the places where the sentinel is followed by a line end.
\* (One at the very end of the text is undecided, and no match follows it.)
SentinelAt(text, sentinel) ==
    {i \in Occurrences(text, sentinel) : LineEndAt(text, i + Len(sentinel)) > 0}

AfterSentinel(text, sentinel, i) ==
    From(text, i + Len(sentinel) + LineEndAt(text, i + Len(sentinel)))

\* sanitizeInitLeakOutput: drops each line, with its line end, that shows a
\* piece of the script.  A line ends with \r\n, \n or \r.
LineEnds(text) ==
    {i \in DOMAIN text : \/ text[i] = Newline
                         \/ text[i] = Return /\ ~StartsAt(text, <<Newline>>, i + 1)}
LineOf(text, i) ==
    LET before == {j \in LineEnds(text) : j < i}
        after  == {j \in LineEnds(text) : j >= i}
    IN  SubSeq(text, IF before = {} THEN 1 ELSE Max(before) + 1,
                     IF after = {} THEN Len(text) ELSE Min(after))
Leaks(line) == \/ Occurrences(line, Begin) # {} \/ Occurrences(line, Done) # {}
               \/ \E i \in DOMAIN line : line[i] = Other
Sanitize(text) ==
    LET kept == SetToSortSeq({i \in DOMAIN text : ~Leaks(LineOf(text, i))}, <)
    IN  [k \in DOMAIN kept |-> text[kept[k]]]

\* What is kept of the text in front of BEGIN at i: up to the line in which
\* the first command is echoed.
Before(text, i) ==
    LET raw     == SubSeq(text, 1, i - 1)
        echoed  == {j \in DOMAIN raw : raw[j] = Stty}
        newline == {j \in DOMAIN raw : raw[j] = Newline /\ j <= Max(echoed)}
    IN  IF echoed = {} THEN raw
        ELSE IF newline = {} THEN <<>> ELSE SubSeq(raw, 1, Max(newline))

\* Mutant of Tail: room for the sentinel, but not for its line end.
TailOfSentinel(text) ==
    IF Len(text) > Len(Done) THEN From(text, Len(text) - Len(Done) + 1) ELSE text

\* The tail kept while DONE is awaited.
KeepTail == Len(Done) + 2
TailOf(text) == IF Len(text) > KeepTail THEN From(text, Len(text) - KeepTail + 1) ELSE text

\* One data event in state "waiting_done" with `text' in the buffer.
AwaitDone(text, before) ==
    LET done == SentinelAt(text, Done)
    IN  IF done = {}
        THEN /\ initBuffer' = TailOf(text) /\ initState' = "waiting_done"
             /\ shown' = shown \o before
             /\ UNCHANGED timer
        ELSE /\ initBuffer' = <<>> /\ initState' = "done"
             /\ shown' = shown \o before \o Sanitize(AfterSentinel(text, Done, Min(done)))
             /\ timer' = FALSE

\* A chunk of n tokens arrives.
Data(n) ==
    /\ fate # "closed" /\ n \in 1..Len(coming)
    /\ coming' = From(coming, n + 1)
    /\ LET chunk == SubSeq(coming, 1, n)
           text  == initBuffer \o chunk
           begin == SentinelAt(text, Begin)
       IN  \/ /\ initState = "done"
              /\ shown' = shown \o chunk
              /\ UNCHANGED <<initState, initBuffer, timer>>
           \/ /\ initState = "waiting_begin" /\ begin = {}
              /\ initBuffer' = text
              /\ UNCHANGED <<initState, timer, shown>>
           \/ /\ initState = "waiting_begin" /\ begin # {}
              /\ AwaitDone(AfterSentinel(text, Begin, Min(begin)),
                           Sanitize(Before(text, Min(begin))))
           \/ /\ initState = "waiting_done"
              /\ AwaitDone(text, <<>>)
    /\ UNCHANGED <<transcript, fate>>

\* Three seconds without DONE.
InitTimeout ==
    /\ timer
    /\ timer' = FALSE /\ initState' = "done" /\ initBuffer' = <<>> /\ fate' = "timeout"
    /\ shown' = shown \o Sanitize(initBuffer)
    /\ UNCHANGED <<transcript, coming>>

\* The channel closes, with or without all of its output delivered; withheld
\* text is not shown.
ChannelCloses ==
    /\ fate # "closed"
    /\ timer' = FALSE /\ fate' = "closed"
    /\ UNCHANGED <<transcript, coming, initState, initBuffer, shown>>

ShellNext == (\E n \in 1..Len(coming) : Data(n)) \/ InitTimeout \/ ChannelCloses
ShellSpec == ShellInit /\ [][ShellNext]_shellVars
ShellFairness == WF_shellVars(InitTimeout)

-----------------------------------------------------------------------------
\* When both sentinels have been found, the user sees exactly the shell's own
\* output, however it was cut into chunks: nothing of the script, nothing
\* missing, nothing twice; and they are found by the time all has arrived.
FilteredExactly ==
    fate = "none" =>
        /\ initState = "done" => shown \o coming = Expected(transcript)
        /\ coming = <<>> => initState = "done"

\* While the channel is open, a banner that has arrived is on the terminal or
\* in the buffer that the timeout will show: also when the script never ends.
BannerKept ==
    fate \in {"none", "timeout"} /\ Len(Output(transcript)) - Len(coming) >= Len(transcript.banner)
        => IsPrefix(transcript.banner, shown \o initBuffer)

\* The output of a shell is withheld for a limited time only.
OutputIsReleased == []<>(initState = "done" \/ fate = "closed")

-----------------------------------------------------------------------------
(***************************************************************************)
(* createAssistTxnDeduper (apps/gateway/src/ws/assistTxnDeduper.ts) and    *)
(* the stdin handler that consults it (server.ts): input of the assist     *)
(* path carries a transaction id, and the deduper of the connection drops  *)
(* a frame whose id it has seen.  Ids are forgotten after ttlMs, and the   *)
(* oldest when there are more than cacheLimit.  A client that reconnects   *)
(* meets a new deduper.                                                    *)
(***************************************************************************)
CONSTANTS
    Txns,        \* transaction ids
    TtlMs, CacheLimit,
    MaxClock,     \* bound: the clock
    MaxFrames,   \* bound: frames
    MaxConns     \* bound: connections, one after the other

ASSUME AssistAssumption == TtlMs \in Nat /\ CacheLimit \in Nat

VARIABLES
    clock,       \* Date.now()
    connNo,      \* connections so far
    seenAt,      \* seenAt of this connection's deduper: id, time, and the
                 \* number of the frame, for the Map's insertion order
    log          \* history: frames, whether they were written, when, and where

assistVars == <<clock, connNo, seenAt, log>>

AssistInit == clock = 0 /\ connNo = 1 /\ seenAt = {} /\ log = <<>>

-----------------------------------------------------------------------------
Entry(id) == [id |-> id, at |-> clock, nr |-> Len(log) + 1]
Oldest(entries) == CHOOSE e \in entries : \A x \in entries : e.nr <= x.nr

\* Mutant of RememberTxn: the new entry goes.
RememberTxnDroppingNewest(entries, id) ==
    IF Cardinality(entries) >= CacheLimit THEN entries ELSE entries \cup {Entry(id)}

Remembered == {e \in seenAt : ~(clock - e.at > TtlMs)}
RememberTxn(entries, id) ==
    LET grown == entries \cup {Entry(id)}
    IN  IF Cardinality(grown) > CacheLimit THEN grown \ {Oldest(grown)} ELSE grown

\* A stdin frame with meta.source = "assist" and a transaction id.
Frame(id) ==
    LET duplicate == \E e \in Remembered : e.id = id IN
    /\ Len(log) < MaxFrames
    /\ seenAt' = IF duplicate THEN Remembered ELSE RememberTxn(Remembered, id)
    /\ log' = Append(log, [id |-> id, written |-> ~duplicate, at |-> clock, conn |-> connNo])
    /\ UNCHANGED <<clock, connNo>>

ClockTicks == clock < MaxClock /\ clock' = clock + 1 /\ UNCHANGED <<connNo, seenAt, log>>

Reconnect ==
    /\ connNo < MaxConns
    /\ connNo' = connNo + 1 /\ seenAt' = {}
    /\ UNCHANGED <<clock, log>>

AssistNext == (\E id \in Txns : Frame(id)) \/ ClockTicks \/ Reconnect
AssistSpec == AssistInit /\ [][AssistNext]_assistVars

-----------------------------------------------------------------------------
\* The frames between two that were written.
WrittenBetween(i, j) == {k \in (i + 1)..(j - 1) : log[k].written}

\* Frame i is the last written one with its id before frame j, on the same
\* connection.
Repeats(i, j) ==
    /\ i < j /\ log[i].id = log[j].id /\ log[i].written /\ log[i].conn = log[j].conn
    /\ \A k \in WrittenBetween(i, j) : log[k].id # log[j].id

\* A transaction is written a second time on a connection only if it is older
\* than the time to live, or was crowded out by cacheLimit later ones.
WrittenOnce ==
    \A i, j \in DOMAIN log :
        Repeats(i, j) /\ log[j].written =>
            \/ log[j].at - log[i].at > TtlMs
            \/ Cardinality(WrittenBetween(i, j)) >= CacheLimit

\* And a frame is dropped only as the repetition of a recent one: no input is
\* lost to an id remembered for too long.
DroppedOnlyIfRecent ==
    \A j \in DOMAIN log : ~log[j].written =>
        \E i \in DOMAIN log : Repeats(i, j) /\ log[j].at - log[i].at <= TtlMs

\* The table never outgrows its limit, and holds an id once.
TableIsBounded ==
    Cardinality(seenAt) <= CacheLimit /\ \A e, x \in seenAt : e.id = x.id => e = x

\* Input of the assist path reaches the shell once however often it is sent,
\* and is not lost to an id that is remembered for too long
\* (assistTxnDeduper.ts; server.ts 831).
AssistedOnce == WrittenOnce /\ DroppedOnlyIfRecent /\ TableIsBounded
=============================================================================
