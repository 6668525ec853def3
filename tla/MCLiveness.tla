----------------------------- MODULE MCLiveness -----------------------------
(***************************************************************************)
(* What must come to an end, in every component where timers, sockets or   *)
(* promises could fail to: sessions and their connections, launches,       *)
(* rounds of speech and readings. One behaviour is of one component, under *)
(* the fairness its own module states; the others rest.                    *)
(***************************************************************************)
EXTENDS Integers, Sequences, TLC

CONSTANTS None, c1, c2, s1, s2, k1, k2, t1, j1, j2, h1, NoHost

VARIABLES
    part,  \* the component this behaviour is of
    \* GatewayTerminal
    wsState, detail, session, resumeEntry, heartbeat, inits, told, ssh, owner, request,
    entry, resumeSessions, out, pending, delivered,
    \* SshBridge
    viaJump, trusted, conn, forwarding, shell, promise, closeReported, reports,
    shownKeys,
    \* ShellInput
    transcript, coming, initState, initBuffer, timer, shown, fate,
    \* TtsService
    call, job, active, queue, failure, audio, meta, tickets, lastEnd, restarts,
    \* AsrProxy
    client, up, linked, startSent, stopSent, readySent, notified, reading, grace, sent,
    service, frames, answers,
    \* WebSession
    state, server, cur, listening, attempts, suppressed, timers, handle, resumable,
    calls, pc, srv, sock, beating, marked, ending, intent, crossed, rejected,
    \* WebCodex
    codexConn, fg, wire, provider, carry, guard, run, codexPending, codexShown, typed,
    untold, runs, losses,
    \* MiniTerminal
    pageW,
    \* MiniLaunch
    w,
    \* MiniSpeech
    voice, voiceCall, voiceSock, rec, held, dropped, late, habits, t, aud, asked,
    readingCall,
    \* MiniRender
    s, k, b, env,
    \* MiniSync
    on, savedAt, cloud, syncTimers, loose, switchFlight, switchNow, switchEdits,
    switchFails, dirty, oldTimers, pulled,
    \* MiniPlugins
    pluginK, pluginV, pluginT, bus,
    \* DirPicker
    page, draft, pickerTyped, stored, autosave, cache, prefetch, seq, visible, loading,
    error, selected, tree, tasks, hop, connected, pickerAttempts, pickerTimer, buffer,
    collecting, done, lines, outcome, names, socket, listing, pickerShell, hangs,
    listingTyped, early, pickerOut

\* What the shell prints around the script that prepares it.
Transcripts ==
    [banner : {<<"x", "n">>}, prompt : {<<>>, <<"x">>}, echo : {TRUE}, noise : {<<>>},
     rest : {<<"x">>}, eol : {<<"n">>}, echoDone : BOOLEAN]

Relay == INSTANCE GatewayTerminal WITH
    Conns <- {c1, c2}, Sessions <- {s1, s2}, Keys <- {k1}, Targets <- {t1},
    FrameSizes <- {1}, PendingMax <- 0, MaxInits <- 1, MaxOutput <- 0
Login == INSTANCE SshBridge
Script == INSTANCE ShellInput WITH
    Txns <- {}, TtlMs <- {}, CacheLimit <- {}, MaxClock <- {}, MaxFrames <- {},
    MaxConns <- {}, clock <- {}, connNo <- {}, seenAt <- {}, log <- {}
Synthesis == INSTANCE TtsService WITH
    Keys <- {k1, k2}, Callers <- {c1}, Slots <- 1, MaxRestart <- 0
Proxy == INSTANCE AsrProxy WITH
    MaxFrames <- 4, MaxAnswers <- 2
Web == INSTANCE WebSession WITH
    Servers <- {1}, MaxConnects <- 2, ReconnectLimit <- 1
Codex == INSTANCE WebCodex WITH
    MaxWire <- 3, MaxRuns <- 2, conn <- codexConn, pending <- codexPending,
    shown <- codexShown
Page == INSTANCE MiniTerminal WITH
    MaxClients <- 2, Retries <- 1, Limit <- 1, Prompt <- FALSE, w <- pageW
Launch == INSTANCE MiniLaunch WITH
    MaxOut <- 3, MaxChunk <- 1, Leaves <- FALSE, Quick <- FALSE
Voice == INSTANCE MiniSpeech WITH
    Calls <- {1, 2}, Habits <- {{}}, sock <- voiceSock, Playbacks <- {j1, j2},
    Insts <- {1, 2}, LastSeg <- 2, Slow <- FALSE
Render == INSTANCE MiniRender WITH
    MaxOut <- 2, Heads <- {1}, Geometries <- {40}, MaxLeaves <- 1, MaxClears <- 0
Switch == INSTANCE MiniSync WITH
    Phones <- {}, Memo <- TRUE, RowsMaxEdits <- {}, RowsMaxFails <- {}, MaxStarts <- {},
    MaxFlight <- {}, row <- {}, grave <- {}, due <- {}, rowsFlight <- {}, db <- {},
    rowsNow <- {}, rowsEdits <- {}, rowsFails <- {}, starts <- {}, unsent <- {},
    buried <- {}, MaxSaves <- 2, SwitchMaxEdits <- 1, SwitchMaxFails <- 1,
    timers <- syncTimers
Plugins == INSTANCE MiniPlugins WITH
    Ops <- {"a"}, Fuse <- 3, k <- pluginK, v <- pluginV, t <- pluginT
Picker == INSTANCE DirPicker WITH
    Hosts <- {h1}, Deep <- 1, Depth <- h1 :> 1, MaxEntries <- 1, MaxSeq <- 1,
    MaxPrefetch <- 1, EditsOpen <- FALSE, Looses <- {FALSE}, Paths <- {1},
    Listings <- {<<"src">>, <<"cderr">>}, Hidden <- {}, Readline <- TRUE,
    attempts <- pickerAttempts, timer <- pickerTimer, shell <- pickerShell,
    out <- pickerOut

relayVars == <<wsState, detail, session, resumeEntry, heartbeat, inits, told, ssh,
               owner, request, entry, resumeSessions, out, pending, delivered>>
loginVars == <<viaJump, trusted, conn, forwarding, shell, promise, closeReported,
               reports, shownKeys>>
scriptVars == <<transcript, coming, initState, initBuffer, timer, shown, fate>>
synthesisVars == <<call, job, active, queue, failure, audio, meta, tickets, lastEnd,
                   restarts>>
proxyVars == <<client, up, linked, startSent, stopSent, readySent, notified, reading,
               grace, sent, service, frames, answers>>
webVars == <<state, server, cur, listening, attempts, suppressed, timers, handle,
             resumable, calls, pc, srv, sock, beating, marked, ending, intent, crossed,
             rejected>>
codexVars == <<codexConn, fg, wire, provider, carry, guard, run, codexPending,
               codexShown, typed, untold, runs, losses>>
dictationVars == <<voice, voiceCall, voiceSock, rec, held, dropped, late, habits>>
readingVars == <<t, aud, asked, readingCall>>
renderVars == <<s, k, b, env>>
switchVars == <<on, savedAt, cloud, syncTimers, loose, switchFlight, switchNow,
                switchEdits, switchFails, dirty, oldTimers, pulled>>
pluginsVars == <<pluginK, pluginV, pluginT, bus>>
pickerVars == <<page, draft, pickerTyped, stored, autosave, cache, prefetch, seq,
                visible, loading, error, selected, tree, tasks>>
listingVars == <<hop, connected, pickerAttempts, pickerTimer, buffer, collecting, done,
                 lines, outcome, names, socket, listing, pickerShell, hangs,
                 listingTyped, early, pickerOut>>

\* One component runs, the others stay as they start.
Parts == {"relay", "login", "script", "synthesis", "proxy", "web", "codex", "page",
           "launch", "dictation", "reading", "render", "switch", "plugins", "picker",
           "listing", "prompt"}
all == <<part, relayVars, loginVars, scriptVars, synthesisVars, proxyVars, webVars,
         codexVars, pageW, w, dictationVars, readingVars, renderVars, switchVars,
         pluginsVars, pickerVars, listingVars>>

EndsInit ==
  /\ part \in Parts
  /\ Relay!Init
  /\ Login!LoginInit
  /\ part # "login" => viaJump /\ trusted = [h \in {"jump", "target"} |-> TRUE]
  /\ Script!ShellInit
  /\ part # "script" => transcript = (CHOOSE x \in Transcripts : TRUE) /\ initState = "done"
  /\ Synthesis!Init
  /\ Proxy!ProxyInit
  /\ part # "proxy" => service = "serving"
  /\ Web!Init
  /\ Codex!Init
  /\ Page!Init
  /\ Launch!Init
  /\ Voice!DictationInit
  /\ Voice!ReadingInit
  /\ Render!Init
  /\ Switch!SwitchInit
  /\ Plugins!Init
  /\ part # "plugins" => ~pluginK.pkg
  /\ Picker!PickerInit
  /\ Picker!ListingInit
  /\ part \notin {"listing", "prompt"} => hangs /\ listing = <<"src">>

EndsNext ==
  /\ UNCHANGED part
  /\ IF part = "relay" THEN Relay!Next ELSE UNCHANGED relayVars
  /\ IF part = "login" THEN Login!LoginNext ELSE UNCHANGED loginVars
  /\ IF part = "script" THEN Script!ShellNext ELSE UNCHANGED scriptVars
  /\ IF part = "synthesis" THEN Synthesis!Next ELSE UNCHANGED synthesisVars
  /\ IF part = "proxy" THEN Proxy!ProxyNext ELSE UNCHANGED proxyVars
  /\ IF part = "web" THEN Web!Next ELSE UNCHANGED webVars
  /\ IF part = "codex" THEN Codex!Next ELSE UNCHANGED codexVars
  /\ IF part = "page" THEN Page!Next ELSE UNCHANGED pageW
  /\ IF part = "launch" THEN Launch!Next ELSE UNCHANGED w
  /\ IF part = "dictation" THEN Voice!DictationNext ELSE UNCHANGED dictationVars
  /\ IF part = "reading" THEN Voice!ReadingNext ELSE UNCHANGED readingVars
  /\ IF part = "render" THEN Render!Next ELSE UNCHANGED renderVars
  /\ IF part = "switch" THEN Switch!SwitchNext ELSE UNCHANGED switchVars
  /\ IF part = "plugins" THEN Plugins!Next ELSE UNCHANGED pluginsVars
  /\ IF part = "picker" THEN Picker!PickerNext ELSE UNCHANGED pickerVars
  /\ IF part = "listing" THEN Picker!ListingNext
     ELSE IF part = "prompt" THEN Picker!ListingNext /\ ~Picker!Breaks /\ ~Picker!Expires
     ELSE UNCHANGED listingVars

\* The fairness of each component is that of its module.  Most have nothing to do
\* as they start; where a timer runs or a request is under way from the start, it
\* is asked for of the behaviours of that component.
PageFairness ==
  /\ WF_pageW(part = "page" /\ Page!LoadLaidOut) /\ WF_pageW(part = "page" /\ Page!ShowLaidOut)
  /\ WF_pageW(part = "page" /\ Page!ReconnectTimer) /\ WF_pageW(part = "page" /\ Page!WaitTimer)
  /\ \A c \in Page!Clients :
       /\ WF_pageW(/\ part = "page"
                   /\ Page!SocketOpens(c) \/ \E again \in BOOLEAN : Page!SocketFails(c, again))
       /\ WF_pageW(part = "page" /\ Page!RetryDelay(c))
       /\ WF_pageW(part = "page" /\ Page!StaleWakes(c))
       /\ WF_pageW(part = "page" /\ Page!Replaced(c))

SwitchFairness ==
  /\ \A q \in Switch!Queues : WF_switchVars(part = "switch" /\ Switch!Fire(q))
  /\ WF_switchVars(/\ part = "switch"
                   /\ \E r \in switchFlight : Switch!Send(r) \/ Switch!SwitchHandle(r) \/ Switch!SwitchReply(r))

PickerFairness ==
  /\ WF_pickerVars(part = "picker" /\ Picker!Resumes)
  /\ WF_pickerVars(part = "picker" /\ Picker!ReadingAheadEnds)
  /\ WF_pickerVars(part = "picker" /\ Picker!ReadingEnds)

\* A listing has its timeout; a prompt one has a remote that works.
ListingFairness ==
  /\ WF_listingVars(part = "listing" /\ Picker!Expires)
  /\ WF_listingVars(part = "prompt" /\ Picker!HostKey)
  /\ WF_listingVars(part = "prompt" /\ Picker!OnConnected)
  /\ WF_listingVars(part = "prompt" /\ Picker!Greets)
  /\ WF_listingVars(part = "prompt" /\ Picker!Runs)
  /\ WF_listingVars(part = "prompt" /\ \E n \in 1 .. Len(pickerOut) : Picker!Stdout(n))

Fairness ==
  /\ Relay!Fairness /\ Login!LoginFairness /\ Script!ShellFairness /\ Synthesis!Fairness
  /\ Proxy!ProxyFairness /\ Web!Fairness /\ Codex!Fairness /\ Launch!Fairness
  /\ Voice!DictationFairness /\ Voice!ReadingFairness /\ Render!Fairness /\ Plugins!Fairness
  /\ PageFairness /\ SwitchFairness /\ PickerFairness /\ ListingFairness

EndsSpec == EndsInit /\ [][EndsNext]_all /\ Fairness

-----------------------------------------------------------------------------
\* Sessions come to an end or come back, on both sides: the grace period, the
\* retries, the sockets of a connection that failed half way.
SessionsSettle ==
  /\ Relay!GraceEnds
  /\ Login!NothingLeftOpen /\ Login!EndIsReported
  /\ Web!ReconnectingEnds
  /\ []<>(part = "page" => ~Page!IsPending)

\* A launch ends, output is not withheld for good, and a page that waits for a
\* remote gets its answer or an error.
WaitingEnds ==
  /\ Script!OutputIsReleased /\ Codex!LaunchEnds /\ Launch!BusyEnds
  /\ Render!OutputShown /\ Switch!ResumeUploads /\ Plugins!OperationsEnd
  /\ Picker!PickerSettles
  /\ []<>(part = "listing" => Picker!Settled)
  /\ []<>(part = "prompt" => Picker!Answered)

\* Every synthesis, reading and recording round ends, and so do the sockets it
\* used.
SpeechEnds ==
  /\ Synthesis!JobEnds /\ Synthesis!CallEnds
  /\ Proxy!NoOrphanUpstream /\ Proxy!ServiceEndsClient /\ Proxy!StoppedRoundEnds
  /\ Voice!RoundEnds /\ Voice!PlaybackEnds
=============================================================================
