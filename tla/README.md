# RemoteConn: formal models

TLA+ models of the program in this repository, TLC configurations that check
them, and proofs checked by TLAPS. Paths are relative to `src/`; where a file
name stands alone, the section names its directory.

    tlc -workers 2 -config Gateway.cfg MCGateway     # a run
    tlapm Gateway_proofs.tla                         # the proofs of a module

`PROJECT.json` lists components, runs, for each checked property a mutation of
the code that it catches, the source lines a definition models, the findings, the
hazards and the theorems. A helper whose lines lie within those of the definition
that uses it, or are a handful, has no entry of its own; its comment names the
function it is.

1. The system · 2. How the models are built · 3. The runs · 4. Gateway ·
5. Web client · 6. Mini program · 7. Liveness and fairness · 8. Proofs ·
9. Only model-checked · 10. Not modelled

## 1. The system

RemoteConn gives a browser, a WeChat mini program and an iOS shell a terminal on
a remote host. A Node.js **gateway** terminates WebSockets and speaks SSH; it
also proxies speech recognition, synthesises speech and stores the data the mini
program syncs.

| Component | State | Hard behaviour | What makes it correct | Modules |
|---|---|---|---|---|
| **Terminal relay** (`apps/gateway/src/server.ts`) | per connection: session, resumeEntry, disconnectDetail, heartbeat; global: `resumeSessions`; per entry: ws, timer, pending frames | an await in the middle of init; closures that outlive their socket; timer against resume; two clients with one key | one holder per SSH session; no leaked session; output in order, bounded, to the holder | `GatewayTerminal`, `SessionLease` |
| **SSH session** (`ssh/sshSession.ts`) | two connections, shell channel, promise, closeReported; sentinel filter | several close paths; sentinels split over chunks; three-second fallback | end reported once; hosts verified before credentials; nothing of the init script shown, no output lost | `SshBridge`, `SshLife`, `ShellInput` |
| **Assist deduper** (`ws/assistTxnDeduper.ts`) | ids seen, in order, with times | repeated frames; table at its limit | a transaction is written once | `ShellInput` |
| **Frame capture** (`debug/`) | armed rules, one recorder per session | recorder and session pass between connections | a recording is of one session, a rule serves once | `GatewayCapture` |
| **Voice proxy** (`server.ts`, `/ws/asr`) | two sockets, startSent, stopSent, grace timer | final result against timer; failed handshake | one round, both sockets closed | `AsrProxy` |
| **Speech synthesis** (`tts/`) | semaphore, inflight and failure maps, two files per entry, stream reader | waiters timing out; shared jobs; stops between two writes; bodies cut anywhere | capacity neither exceeded nor lost; entries whole; audio as sent | `TtsService`, `TtsAudio` |
| **Sync** (`apps/gateway/src/sync/`, `apps/miniprogram/utils/syncService.js`, `storage.js`) | rows per user and per phone, upload queues, the switch | two phones, equal time stamps, tombstones, edits during a push | the newer row wins; nothing stays unsent | `MiniSync`, `MiniSettings` |
| **Web session and transport** (`apps/web/src/stores/sessionStore.ts`, `services/transport/`) | state, transport, timers, suppression; buffers and their snapshot; AI guard and lock | connect() waits while events of older transports go on; reload; output cut anywhere | one transport; retries when and only when wanted; buffers bounded, newest output kept | `WebSession`, `WebBuffers`, `WebCodex` |
| **Web trust and stores** (`stores/*.ts`, `services/`, their pages) | known hosts, servers, credentials, logs, memos, settings in memory and in IndexedDB | writes under way, a tab killed between two of them, pages left while they wait | memory and store agree; nothing lost or put back | `WebHostKeys`, `WebServers`, `WebStores` |
| **Web terminal view** (`components/TerminalPanel.vue`, `TerminalVoiceInput.vue`, `App.vue`) | gesture, hidden text area, IME snapshots, scroll loops, voice rounds, viewport | events of the system in any order, frames and timers of earlier gestures | text once, keyboard when wanted, newest round wins, view where the user left it | `WebTyping`, `WebScroll`, `WebLayout`, `WebVoice` |
| **Plugin runtimes** (`packages/plugin-runtime`, `apps/miniprogram/utils/pluginRuntime.js`) | records, slots, commands, listeners, fuse | operations wait for plugins; failure half way | what runs is what is recorded; a stopped plugin leaves nothing | `WebPlugins`, `MiniPlugins` |
| **Mini-program connection** (`utils/gateway.js`, `pages/terminal/index.js`) | client runs with sequence numbers, socket, page status, snapshot, AI lock | an abandoned run finishing late; page hidden at any moment | one socket; nothing reconnects that was ended | `MiniTerminal`, `MiniLaunch` |
| **Mini-program voice** (`pages/terminal/index.js`, `utils/asrGateway.js`, `ttsGateway.js`) | voice round, recorder, recogniser; playback job, audio instances | permission and connection awaited under a finger that lifts | microphone only while wanted; sound belongs to the job | `MiniSpeech`, `MiniLayout` |
| **Mini-program terminal** (`pages/terminal/*.js`) | parser carry, rows, cursor, buffers, render queue, scroll windows, caret, input field | chunks and slices cut anywhere; answers of the view late | every piece applied in order; the screen is what was sent; the line is what was typed | `MiniVt`, `MiniRender`, `MiniLayout`, `MiniInput` |
| **Mini-program pages** (`pages/connect`, `server-settings`, `settings`, `records`) | lists, forms with autosave, swipes and drags, directory picker and its cache | synchronisation changes the storage behind the page; readings end late | the page shows what is stored; no edit is put back | `MiniServers`, `MiniSettings`, `MiniRecords`, `DirPicker` |

How they interact. A client opens `/ws/terminal` and sends `init`; the relay
creates an SSH session (`SshBridge`, whose output passes the filter of `ShellInput`)
and gives it callbacks that write to the client's WebSocket. A client that
reconnects sends the same `clientSessionKey` and is given the session that was
parked for it. The web session store and the mini-program client drive this
protocol, and their reconnect logic reacts to the relay's `disconnect` and
`connected` frames. Both clients launch AI programs by typing into the shell and
reading tokens out of its output. Voice and synthesis have connections of their
own. Sync is plain HTTP and changes the storage under the mini program's pages.

The hazards, each at its line with the properties that cover it, are in
`PROJECT.json`.

## 2. How the models are built

**Atomicity.** All of the code runs in JavaScript event loops: a callback runs to
completion. An action is what one callback does up to its next await that other
events can overtake, with every call it makes; what is left after the await is an
action of its own, and what the code reads before and uses after the await is
kept in a variable of the waiting call. Each module's header says what is one step.

**Environment.** Users, networks, remote shells, browsers, WeChat and the operating
system are actions that may happen at any time or not at all, marked `external`
in `PROJECT.json` where they translate no code of the repository. The one thing
taken from their documentation is order where it is guaranteed: IndexedDB commits
the writes of a store in the order they were issued, a socket that was closed
opens no more, an SSH error is followed by its close.

**Data.** Text is a sequence of tokens as fine as the properties need (a sentinel
is two tokens, so that a chunk can end inside it), times are order or ticks, sizes
are units, ids are model values.

**Bounds.** Everything that grows has a bound in a guard, named `Max...` and
commented `bound:` in its module. A bound is large enough when every action fires
and every guard of the code is met on both sides; reasons that are not obvious are
given with the module. Symmetry is used in `Gateway.cfg`, `GatewayLease.cfg` and `Shell.cfg`
only, over connections and sessions, which no definition tells apart; none of these
runs checks liveness.

**Several components in one run.** Components that share no modelled state are put
into one MC module. `part` is chosen in the initial state; the component of that name
runs and the others rest, so a behaviour is one of a single component and the run is
the union of the components' state spaces. An MC module EXTENDS the components whose
properties are theorems, so that the formula TLC checks is the one that is proved;
their constants are in the `.cfg`, and TLC evaluates their assumptions. The others are
INSTANCEs with their constants in the `WITH`; a component with two parts (`Listed` and
`Moved`, say) is explored with two sets of bounds. Real
composition, where components do act on each other's state, is in the modules
themselves: `GatewayCapture` (relay and capture), `DirPicker` (form, picker, cache,
listing), `MiniSync` (phones, queues, database), `TtsService` (requests, jobs, files).

**Composite properties.** A property of such a run is the conjunction of the
properties its components state, each commented in its own module where it is
defined; section 3 lists them. `part # "x" => P` marks the parts in which `P` is not
claimed; why is said with the component.

**Deadlock** checking is off: in every one of these systems the user may be gone, and
then nothing is left to do. That something must go on is said by liveness properties.

**Options.** Where the code breaks a property in some circumstance, a constant (`Also`,
`Options`, `Hasty`, `Overlaps`, `Ends`, `Patient`, `Leaves`, `Habits`, `Slow`, `Toggles`, ...) holds that circumstance, and its
comment says what it stands for. Runs leave it out where the property is claimed. Where
the circumstance is an ordinary step it stays in the model, and the property states the
exception; a history variable (`late`, `missed`, `stutter`, `debris`) records it where
the state does not show it. The paragraphs "Where it does not hold" say what happens then.

## 3. The runs

Times are for two workers. A `violation` run checks a statement of the
repository that the code does not keep: release notes in `gateway_short_break`, comments
in `web_voice_button` (5.7).

| Run | Command | Distinct states | Properties | What it shows |
|---|---|---|---|---|
| `gateway` | `-config Gateway.cfg MCGateway` | 615 477, 1 min 40 s | `HoldersCoherent`, `NoneLeaks` | Two connections never drive one SSH session and none is leaked, over all interleavings of inits, closes, resumes, replacements and time-outs of three connections. |
| `gateway_lease` | `-config GatewayLease.cfg MCGateway` | 138 791, 40 s | `ImplementsLease`, `BufferIsRecentOutput`, `DeliveredInOrder` | The relay implements the lease of a session (SessionLease): it changes hands only through a parked entry and is not handed out again once given up; and output reaches whoever holds it in order, through a buffer of bounded size. |
| `gateway_short_break` (violation) | `-config ShortBreak.cfg MCGateway` | violated after 288, 1 s | `ShortBreakParks` | The release notes say that a short break of the WebSocket keeps the SSH session for a resume; a break while the SSH session is still connecting does not. |
| `shell` | `-config Shell.cfg MCShell` | 785 642, 2 min | `LoginIsSafe`, `ShellOutputIsShown`, `AssistedOnce`, `ImplementsLife`, `RecordingsAreApart` | Connections over a jump host, the script that prepares the shell, the assist path's transactions, and the recordings of sessions that are resumed and replaced. |
| `voice` | `-config Voice.cfg MCVoice` | 473 138, 1 min | `ServiceSeesOneRound`, `DictationIsHeld`, `DraftIsEntered`, `RoundsStayApart`, `ButtonStaysInReach` | Recording rounds from the button to the speech service in both clients, with a patient user and a hasty one, and the mini program's input field under typing, dictation and late answers. |
| `tts` | `-config Tts.cfg MCTts` | 1 871 028, 2 min | `SynthesisIsCounted`, `HeardIsMeant`, `AudioIsKeptWhole` | Synthesis jobs that wait, fail and are polled around a restart; the file cache under overlapping and crashing writers; the service's response in every cut; and the page that plays the segments. |
| `web_terminal` | `-config WebTerminal.cfg MCWebTerminal` | 372 997, 1 min 10 s | `ConnectionIsBounded`, `StoreKnowsConnection`, `LocalEndStopsRetries`, `OutputReachesScreen`, `HandWins`, `TypingArrives`, `LayoutFollowsKeyboard` | The terminal of the web client: calls of connect and disconnect that cross, with timers, losses and rejected keys; the Codex launch; output through a bounded buffer, reloads and remounts to the screen; and its view under fingers, soft keyboards and input methods: gestures, scrolling, composition events in every order, and the layout while the keyboard moves and the device is turned. |
| `web_voice_button` (violation) | `-config VoiceButton.cfg MCWebTerminal` | violated after 190, 3 s | `ButtonIsNotPushed` | The comments of the voice button say that a position the user chose is not clamped while the keyboard makes the terminal lower; the step that measures the text afterwards clamps it. |
| `web_stores` | `-config WebStores.cfg MCWebStores` | 1 131 663, 3 min 20 s | `ShownIsStored`, `PluginsAsRecorded`, `StoredStays`, `InputIsStored` | Servers, credentials, host keys, memos, logs, settings and plugins of the web client: edits that overlap writes, failed writes, reloads, and loads of plugins that fail late or overlap. |
| `mini_terminal` | `-config MiniTerminal.cfg MCMiniTerminal` | 1 002 615, 3 min 30 s | `PageIsConnected`, `OutputIsDrawn`, `PageIsLaidOut`, `RestIsKept` | The terminal page of the mini program: clients that retry while the page comes and goes, launches, output cut into chunks, slices and escape sequences, scrolling and the caret. |
| `mini_pages` | `-config MiniPages.cfg MCMiniPages` | 929 079, 3 min 30 s | `InputIsStored`, `PagesAreCurrent`, `PickerIsOfItsServer`, `RowsMoveForward` | The other pages of the mini program: records, servers, settings and plugins under edits, synchronisation, kills and restarts, two phones, and the remote directory picker. |
| `liveness` | `-config Liveness.cfg MCLiveness` | 146 911, 3 min 10 s | `SessionsSettle`, `WaitingEnds`, `SpeechEnds` | Grace periods, retries, launches, held-back output, synthesis, readings and recording rounds come to an end under the fairness of timers, sockets and promises. |

What the composite properties consist of:

| Property | Run | Consists of |
|---|---|---|
| `HoldersCoherent` | `gateway` | GatewayTerminal: `RegistryCoherent`, `ExclusiveHolder` |
| `NoneLeaks` | `gateway` | GatewayTerminal: `OneInit`, `DetachedIffTimer`, `OutputGoesToHolder`, `LiveIsHeldOrParked` |
| `LoginIsSafe` | `shell` | SshBridge: `ReportedOnce`, `VerifiedBeforeAuth` |
| `ShellOutputIsShown` | `shell` | ShellInput: `ShellTypeOK`, `FilteredExactly`, `BannerKept` |
| `AssistedOnce` | `shell` | ShellInput: `WrittenOnce`, `DroppedOnlyIfRecent`, `TableIsBounded` |
| `RecordingsAreApart` | `shell` | GatewayCapture: `CapTypeOK`, `RecordingIsTheSession`, `TypedWhereItGoes`, `OpenWhileAlive`, `RuleServesOnce` |
| `DictationIsHeld` | `voice` | MiniSpeech: `NoTextAfterCancel`, `RecordingIsHeld`, `MicIsWanted`, `TimerIsOfRound`, `RecordingHasClient` |
| `DraftIsEntered` | `voice` | MiniInput: `FieldShowsDraft`, `NoHiddenShift`, `DraftIsLine`, `ShiftKept`, `FocusTold` |
| `RoundsStayApart` | `voice` | WebVoice: `ActiveIsNewest`, `NoSocketForgotten`, `RoundsAddUp` |
| `ButtonStaysInReach` | `voice` | MiniLayout: `PanelTypeOK`, `FoldedFits`, `PanelFits`, `FoldsBack` |
| `SynthesisIsCounted` | `tts` | TtsService: `SlotsAreUsed`, `QueueIsWaiters`, `FailureIsOfLastJob` |
| `HeardIsMeant` | `tts` | MiniSpeech: `SoundHasJob`, `BusyHasJob`, `LoadIsGuarded` |
| `AudioIsKeptWhole` | `tts` | TtsAudio: `AudioIsSplitFree`, `ErrorIsHeard`, `PutsFit`, `StoredIsKept`, `NeverEmptied` |
| `ConnectionIsBounded` | `web_terminal` | WebSession: `AttemptsBounded`, `HeartbeatHasSocket`, `OneConnection` |
| `StoreKnowsConnection` | `web_terminal` | WebSession: `WindowAfterLoss`, `StateIsBacked` |
| `OutputReachesScreen` | `web_terminal` | WebBuffers: `BytesCounted`, `BufferIsTail`, `BuffersBounded`, `ActiveIsServers`, `ScreenIsBuffer`, `NothingTwice`, `ShellFits`, `SwitchIsolates`, `ReloadResumes`; WebCodex: `LockMatchesShell`, `NoiseIsHidden`, `ResumeOnlyIntoShell` |
| `HandWins` | `web_terminal` | WebScroll: `OneLoop`, `StaysAtBottom`, `FingerHolds`, `SelectionRests` |
| `TypingArrives` | `web_terminal` | WebTyping: `KeyboardComesUp`, `GivesUp`, `NoSurprise`, `SelectionSafe`, `KeyboardTypes`, `TypedOnce`, `RewritesOwn`, `SelectionKept` |
| `LayoutFollowsKeyboard` | `web_terminal` | WebLayout: `FloatTypeOK`, `FieldInSight`, `BarFollowsField`, `KeyboardSeen`, `InReach`, `PlaceRestored` |
| `ShownIsStored` | `web_stores` | WebServers: `ReloadKeepsOrder`, `StoredWasShown`, `PointersAreListed`; WebStores: `StoreMatches`, `PageExists`, `PageShowsStored`, `SettingsTypeOK`, `SavedIsStored` |
| `PluginsAsRecorded` | `web_stores` | WebPlugins: `FuseHolds`, `StoredIsKnown`, `RunningIsWhole`, `EnabledRuns`, `RunsAsRecorded`, `DisabledIsClean` |
| `StoredStays` | `web_stores` | WebHostKeys: `KnownIsStored`, `SentIsKnown` |
| `InputIsStored` | `web_stores` | WebServers: `SavedIsThere`, `SavedIsIntended`, `AsideIsStored`, `Remembered`; WebStores: `LastInputKept`, `EndIsLogged`, `EditsAreStored`, `LogsOnlyGrow` |
| `PageIsConnected` | `mini_terminal` | MiniTerminal: `EndedStaysDown`, `OneSocket`, `ReadyIsHeld` |
| `OutputIsDrawn` | `mini_terminal` | MiniRender: `PendingIsScheduled`, `OutputInOrder`, `ReplayIsRows`; MiniVt: `CutsDoNotShow`, `NothingIsLost`, `WideIntact`, `CursorOnScreen`; MiniLaunch: `GuardHasLaunch`, `ResumeIsForCodex`, `LockFollowsExit` |
| `PageIsLaidOut` | `mini_terminal` | MiniLayout: `NoBlankRows`, `CaretOnItsRow`, `CaretAboveKeyboard`, `PlaceRestored`, `CaretIsCursor` |
| `RestIsKept` | `mini_terminal` | MiniVt: `LeftKept`, `HistoryKept`, `RoundTrip`; MiniLayout: `OnlyPushedDown`, `BandMovesWithCaret` |
| `InputIsStored` | `mini_pages` | MiniRecords: `LastInputStored`, `RowsAreStored`; MiniSettings: `ShownIsStored`, `ListIsKept`, `ListWasShown` |
| `PagesAreCurrent` | `mini_pages` | MiniRecords: `OneRowOpen`, `OneRecordPerDraft`; MiniServers: `ChosenIsThere`, `OneRowOpen`, `PageIsCurrent`, `DragHasFinger`, `MovesOneRow`; MiniSettings: `SettingsTypeOK`, `DropsWhereDrawn`; MiniPlugins: `StoredIsKnown`, `ToldOfStatus`, `RunsAsRecorded`, `PageIsCurrent`, `EnabledRuns`, `RunsWhatIsThere`, `DisabledIsClean` |
| `PickerIsOfItsServer` | `mini_pages` | DirPicker: `CacheOfItsServer`, `ListingTypeOK`, `PickerTypeOK`, `TreeOfItsServer`, `OnePrefetchPerServer`, `TimerHoldsForm`, `ResultsBounded`, `NamesAreTheListing`, `TypedToAShell`, `Released`, `OverByItself` |
| `RowsMoveForward` | `mini_pages` | MiniSync: `UploadedWhenQuiet`, `MergeKeepsNewer`, `ClosedStaysOnPhone`, `DatabaseAdvances` |
| `SessionsSettle` | `liveness` | GatewayTerminal: `GraceEnds`; SshBridge: `NothingLeftOpen`, `EndIsReported`; WebSession: `ReconnectingEnds`; MiniTerminal: `IsPending` |
| `WaitingEnds` | `liveness` | ShellInput: `OutputIsReleased`; WebCodex: `LaunchEnds`; MiniLaunch: `BusyEnds`; MiniRender: `OutputShown`; MiniSync: `ResumeUploads`; MiniPlugins: `OperationsEnd`; DirPicker: `PickerSettles`, `Settled`, `Answered` |
| `SpeechEnds` | `liveness` | TtsService: `JobEnds`, `CallEnds`; AsrProxy: `NoOrphanUpstream`, `ServiceEndsClient`, `StoppedRoundEnds`; MiniSpeech: `RoundEnds`, `PlaybackEnds` |

## 4. Gateway

### 4.1 The relay: GatewayTerminal

| TLA+ | Code |
|---|---|
| `wsState[c]` | `ws.readyState`, with `none` (not yet connected) and `rejected` (closed before it got handlers) |
| `detail[c]` | `disconnectDetail`, as far as its readers tell values apart: recorded by a client's disconnect, by the server, a close code that allows a resume, another close code |
| `session[c]`, `resumeEntry[c]`, `heartbeat[c]` | the closure variables of the connection handler |
| `ssh[s]`, `owner[s]` | the state of an SSH session, and the connection whose closure its callbacks run in |
| `request[s]`, `entry[s]` | its `ResumeSessionEntry`, split into what never changes (key, target) and `ws`, `detachedTimer`, `closed` |
| `resumeSessions` | the map of that name |
| `pending[s]`, `out[s]` | `pendingFrames` and the number of output frames produced |
| `inits`, `told`, `delivered` | histories: init frames received, last control frame written, frames written |

Actions: `Accept` server.ts 482-515; `Reject` 516-583; `InitAgain` 664-674; `InitResume` 615-627; `InitConnect` 696-729; `ReceiveDisconnect` 647-662; `WsError` 920-936; `WsClose` 855-918; `SshReady` sshSession.ts 452-478; `SshReadyTooLate` 436-450; `SshEnd` 480-515; `SshOutput` server.ts 747-770; `ResumeTimeout` 877-886.

The only await inside the handler that other events can overtake is
`await createSshSession`; it splits init into `InitConnect` and `SshReady`
(`await checkConnectionRate` uses an in-memory limiter and resumes in the same
turn). `close()` of an SSH session reports synchronously: `ReportClose` is part of
the action that calls it, and runs in the *owner's* closure. `SshReadyTooLate` is the
continuation for a session whose channel closed first: ssh2 handles all packets of a
TCP segment in a row, and the channel's close event, queued for the next tick, runs
before the promise's continuation.

Left out, because they change none of this state: message contents, the log,
ping/pong and resize. `ip, host, port, username` are one `target`. Clients send
nothing after a disconnect frame; both implementations drop their socket at once.
`ws` answers a close frame by itself and emits `error` only after the socket has left
OPEN, so `PeerCloses` and the guard of `WsError` are the library's.

`MCGateway` explores three sets of bounds in one run: three connections, two sessions,
two targets and one init; two connections, three sessions and two inits; three
connections, one session and output. The longest chains in the code involve three
parties: a session's creator, a connection that resumed it, and a third that replaces
either under the same key; three sessions let a replaced session, its replacement and
a session still connecting coexist. More keys only run side by side, except when a
connection uses two of them, which needs two inits or two targets. For output, one
frame size fits the buffer twice, the other not at all: eviction of one frame, of all,
and of a frame too large by itself all happen, in up to two parks.

`SessionLease` is the abstract specification: a session is granted to a connection,
parked, resumed by another, and ends; nothing else changes its holder. A connection
holds the session its closure variable refers to, and a session is parked while its
entry's timer is armed. The refinement excludes that a session moves straight from one
connection to another or comes back after it was given up.

Some properties are stated for `MaxInits <= 1` only (`OneInit`). `session` is null until
the await is over, so the ALREADY_INITIALIZED guard lets a second init through that
arrives while the first is connecting; both sessions then end up in one closure and
the first is held by nobody. Neither client of the repository sends two inits, and the
relay does not rely on it for the other properties.

*Where it does not hold.* `ShortBreak.cfg` checks what release.md:243 says, that a short
break of the WebSocket leaves the SSH session waiting to be resumed. TLC refutes it: the
client connects and sends init with a key, the socket closes with 1001 or 1006 while SSH
is still connecting. The close handler sees `session` and `resumeEntry` null and parks
nothing; then a live session is registered whose `ws` is the closed socket. It has no
timer; a new init finds `ws !== null` and replaces the session instead of resuming it;
without one it stays for ever (`BornOrphan`). Besides: a disconnect sent for an untrusted host key during the
handshake finds no session to close, and the login completes; `SshReadyTooLate` announces
a closed session as connected; `onClose` clears `resumeEntry.ws` before it evaluates
`resumeEntry?.ws ?? ws`, so the end of a resumed session is told to the creator's closed
socket. No property claims otherwise.

### 4.2 Frame capture: GatewayCapture

Composes the relay with the rules of `terminalCaptureArm.ts` and the recorder of
`terminalFrameCapture.ts`. Every step of the relay happens together with what the same
handler does to rules and recordings: `InitConnect` takes a rule, `SshReady` and
`InitResume` hand the recorder on, `SshOutput` writes to the recorder of the creator's
closure, `ReportClose` closes it. `Arm` and `Tick` are the route and the clock. `MCShell`
explores two rules that compete, a rule that expires, and recordings with output apart:
each multiplies the states of the others. `RecordingsAreApart` is proved for one init
per client (`Gateway_proofs`).

Actions: `CapResume` server.ts 615-627; `CapConnect` 706-722; `Stdin` 825-838; `Ended` 771-772; `CapReady` 795-811; `CapOutput` 747-771; `Arm` terminalCaptureArm.ts 103-131.

### 4.3 The SSH session: SshBridge, SshLife, ShellInput

`SshBridge` is `createSshSession` (`ssh/sshSession.ts`): `conn[h]` is the state of the jump
and the target connection, `shell` that of the channel, `promise` what the function has
returned, `closeReported` the flag of that name. An action is one event of ssh2. Errors,
closes and `close()` come in every order and at every stage. `SshLife` is the life cycle
`GatewayTerminal` relies on (connecting, then live or rejected, then closed, once). One
session has no parameter but whether there is a jump host and whose keys match; all of
these are initial states, so nothing is bounded and `Shell.cfg` is exhaustive for it.

Actions: `VerifyHost` sshSession.ts 257-311; `OnError` 342-346; `ReportCloseOnce` 334-340; `JumpReady` 505-513; `TargetReady` 348-350; `ShellOpens` 460-476; `ShellFails` 352-355; `ShellClosed` 445-458; `EndBoth` 344-345.

`ShellInput` has two parts. The first is the filter between a fresh shell and the user
(`ShellInit...`): `Data(n)` is `onData` with the next `n` tokens, `InitTimeout` the three-second
fallback, `ChannelCloses` the end of the channel. What a shell prints around the script is one of
`Transcripts`: with and without banner, prompt, echo, noise and both line ends, and some that
never print a sentinel. The reference definition is `Expected(t)`, the transcript without
the script. The second part is standard input with the deduper of
`ws/assistTxnDeduper.ts`, its clock, its limit and its time to live. Frames repeat by the
environment; a reconnect meets an empty deduper. The table is compared with the history of
what was written, so both errors show: a transaction written twice, and one dropped for
too long. With a table of two, three ids make it forget by number, and a clock beyond
`TtlMs` makes it forget by time. `AssistedOnce` is proved for any ids, limit and time to
live.

Actions: `Data` sshSession.ts 374-427; `InitTimeout` 363-372; `ChannelCloses` 445-458; `Frame` server.ts 826-836; `Reconnect` 592-595.

*Where it does not hold.* After the fallback of three seconds every chunk goes out as it
is: a shell slower than that shows the rest of the script, which sshSession.ts:65 calls a
leak. `FilteredExactly` speaks of shells that were in time (`fate = "none"`); of the others
`BannerKept` says that no banner is lost.

### 4.4 Voice proxy: AsrProxy

One `/ws/asr` connection: `client` and `up` are the two sockets, `startSent`, `stopSent` and
`grace` the flags and the timer of the handler, `sent` the history of what the service was
given. The service may refuse, fail, be silent, or answer several results in one message;
the client may start again, stop twice, cancel, break off or go away at any moment. Five
frames are start, audio, stop and two more, enough to repeat each after each. The proxy
waits for the service's last answer without a timer while the client stays, so
`StoppedRoundEnds` is stated for services that are not silent.

Actions: `Start` server.ts 1221-1234; `Audio` 1239-1245; `Stop` 1249-1261; `Cancel` 1266-1270; `ClientFails` 1550-1553; `ClientCloses` 1530-1548; `CloseUpstream` 1008-1020; `UpOpens` 1137-1176; `UpRefuses` 1178-1182; `BodyRead` 1182-1206; `UpCloses` 1496-1528; `UpAnswers` 1380-1494.

### 4.5 Speech synthesis: TtsService, TtsAudio

`TtsService` (`tts/service.ts`, `routes.ts`) has the requests of the mini program split at
their awaits, `job[k]` the background job of a cache key, `active` and `queue` the semaphore,
`failure` the map of remembered failures, and the two files of a key. `Restart` forgets
memory and keeps files. Three keys and one slot: one job in the slot and two waiting, so
that a time-out in front of and behind another waiter happens.

Actions: `Request` routes.ts 65-170; `ReadMeta` cache.ts 58-62; `StatAudio` 63-68; `Touch` 70-90; `Drop` 54-56; `Missed` service.ts 272-305; `InlineWaitEnds` 256-270; `Synthesized` 207-217; `SynthesisFails` 228-241; `WriteAudio` cache.ts 113-113; `WriteMeta` 114-127; `QueueTimesOut` service.ts 98-104; `FailureExpires` 177-187; `Restart` 132-133.

`TtsAudio` has two parts. The cache (`tts/cache.ts`) has every file operation of get, put
and prune as a step, two processes at once, and a stop of the gateway between any two;
two keys whose largest files do not fit together make every eviction decision happen. The
stream is the reader of the provider's answer (`tts/providers/`): bodies are sequences of
tokens, delivered in chunks cut anywhere and ended anywhere (`AudioIsSplitFree`, `ErrorIsHeard`); the bodies of `MCTts` hold
several events in one block run, both kinds of line end, a last block without its blank
line, and JSON objects whose strings hold braces, escaped quotes and backslashes.

Actions: `PruneRow` cache.ts 135-164; `BeginPut` 97-111; `GetTouch` 78-90; `PutMeta` 114-127; `PruneList` 130-134; `PruneEvict` 164-172; `Read` volcengine.ts 329-357; `End` 362-392; `TimesOut` 398-483.

*Where it does not hold.* A poll that looked for a job before it was started may delete
the half-written file of that job (`cache.get` is awaited after the check); `missing` is
answered as "still being generated" after a failure was forgotten; audio whose metadata a
concurrent get removed is not counted by prune.

### 4.6 Sync: MiniSync

The first part follows one row through several phones and the gateway's database: edit,
debounce, upload, `upsert`, answer, merge (`pickLatestRecord`), download at a start.
Requests overtake each other and fail. The second is the switch that is itself a
synchronised setting, with the two upload queues of a phone, requests that wait for a
token, and the forced download of a switch-on. Rows do not depend on each other in the
code, so one is enough; two phones are needed for a conflict, a third would only repeat
one. `RowsMoveForward` is proved for any number of phones.

Actions: `DeleteRow` syncService.js 525-537; `Edit` storage.js 707-772; `Push` syncService.js 342-378; `Restart` 426-484; `RowsReply` storage.js 545-565; `Fails` syncAuth.js 55-102; `RowsHandle` routes.ts 176-213; `Save` storage.js 591-611; `EditRow` syncService.js 513-523; `OtherPhone` routes.ts 129-165; `Fire` syncService.js 380-420; `Send` syncAuth.js 156-168; `SwitchHandle` repository.ts 103-129; `SwitchReply` syncService.js 328-340; `Fail` syncAuth.js 104-154.

*Where it does not hold.* The gateway compares times only, so an open copy of another
phone reopens a memo that was closed; a merge clears the tombstone of every row it looks
at, also if the answer is older than the deletion; a save during the forced download of a
switch-on leaves before the merge.

## 5. Web client

Under `apps/web/src`.

### 5.1 Connection: WebSession

`stores/sessionStore.ts` over `services/transport/gatewayTransport.ts`. Calls of `connect()`
are numbered, each makes at most one transport of the same number: `pc[c]` is how far the
call is, `sock[c]` its socket, `listening` the transports whose events still reach the
store, `cur` the current one, `beating` those with a heartbeat. `intent`, `suppressed` and
`attempts` are the user's wish, `autoReconnectSuppressed` and the retry counter; `crossed`
records that a call was made while another waited, which the store does not prevent and
after which less is claimed. Two calls are enough for one to cross another, and for a
retry after a loss; two servers for a switch.

Actions: `UserConnect` TerminalView.vue 304-338; `UserDisconnect` sessionStore.ts 1210-1247; `CancelReconnect` 1396-1409; `WindowEnds` 352-366; `Connect` 984-1021; `Resolve` 1037-1064; `CredentialsFail` 1024-1034; `Opened` gatewayTransport.ts 87-137; `DialFails` 20-85; `Ready` sessionStore.ts 1068-1079; `KeyRejected` 1139-1152; `Lost` 1111-1124; `SshEnded` gatewayTransport.ts 180-228; `EndHandled` sessionStore.ts 1383-1394.

*Where it does not hold.* The connection a retry made is never retried itself:
`connect(server, true)` calls `disconnect('switch', false)`, which sets
`autoReconnectSuppressed`, and only an explicit connect resets it (about.ts:138 promises
reconnection). A rejected host key leaves the state at auth_pending, as the disconnect was
not the user's. The transition table of stateMachine.ts is consulted by nobody, and not
kept. After crossed calls the older call's listener is never dropped.

### 5.2 Buffers and screen: WebBuffers

One buffer per connection key, trimmed by entries, bytes and number of buffers, and the
debounced snapshot in sessionStorage from which a reload restores. A reload
lets the page save first, a crash of the tab does not. The session store then looks for the
server of the snapshot in the server store and reconnects if it is there: `TerminalView.vue`
and `ConnectView.vue` start both stores together, so `Restart` finds it or not. Limits of two buffers, three chunks,
four bytes and chunks of two sizes make each trim happen alone and together; the quota is
below a full buffer. The second part is what is written to xterm of a buffer that loses its
head, over mounts of the panel, and the geometry the shell is told. A clear of xterm keeps
the row of the cursor, and what was written before is taken as done.

Actions: `BuffersConnect` sessionStore.ts 1007-1019; `Output` 537-550; `Ended` 1238-1246; `Clear` 1361-1373; `Persist` 596-606; `Reload` 709-748; `Restart` 614-701; `AppendTerminal` 501-550; `ClearTerminal` 1361-1373; `Written` TerminalPanel.vue 1990-2014; `Mount` 1966-1987; `Unmount` 2194-2197; `PageChanges` 1336-1340; `OutputConnect` 2041-2054; `TimerFires` sessionStore.ts 1375-1381.

*Where it does not hold.* Once 200 chunks or fewer still exceed the quota, the snapshot is
not written and the older one stays. A reload whose servers are not read yet when the
session store looks for one (sessionStore.ts:677-680) does not reconnect, although the
comment at 707 says that it does; nothing tries again. After a clear the row of the cursor shows
twice if the kept entries hold it as well. A shell resumed after the page changed its size keeps
the old size until the next change.

### 5.3 Launching an AI: WebCodex

The launch script typed into the shell, the guard that hides its output and reads its
tokens, the exit marker with its carry, the foreground lock and the resume command after a
reconnect. The remote shell is external; its output is a sequence of items, cut anywhere.
Two launches and two losses: the second starts from whatever the first left behind.

Actions: `Deliver` sessionStore.ts 1082-1095; `RunCodex` 897-936; `RunResumes` 1296-1343; `BootstrapTimeout` 795-823; `ReleaseGuard` 825-831; `ConnectionLost` 1111-1121; `ForgetProvider` 179-191; `Reconnected` 943-982.

*Where it does not hold.* `runCodex` sets the provider after two awaits; an exit marker
that comes with READY is handled before, and the lock stays. `untold` records why the store
may not know what runs, and the properties are stated while there is no such reason.

### 5.4 Host keys: WebHostKeys

The policies, known hosts in memory and in IndexedDB, the keys sent along with a connection
and the comparison of what each hop reports (`stores/settingsStore.ts`,
`services/security/hostKey.ts`, `sessionStore.ts`). A server is reached directly and behind a
jump host; hosts change their keys; reloads lose writes under way. The gateway's side is
`SshBridge`.

Actions: `LoadSettings` settingsStore.ts 27-34; `LoadKnownHosts` 35-46; `WriteDone` db.ts 106-119; `Connect` sessionStore.ts 1184-1197; `Hop` settingsStore.ts 61-78; `ShellReady` sessionStore.ts 1139-1155.

### 5.5 Servers, credentials, memos, logs, settings: WebServers, WebStores

`WebServers`: `stores/serverStore.ts`, `views/ConnectView.vue`, `ServerSettingsView.vue`: the
list in memory, its order, the stored rows, the writes between them; removal in a loop,
copies, drags, saves; `shown` is the history of lists the user saw that may still be stored.
Three servers, because an order of two has only one change. Its second part is
`services/security/credentialVault.ts` and the settings page of a server: references,
encrypted rows, the key in sessionStorage and localStorage, the mask in place of a stored
secret, and the secret the user means each server to have; with saves that overlap
(the part `hurried`) a secret of the server is left, though not always the last one alone.

Actions: `Bootstrap` serverStore.ts 172-195; `Bootstrapped` 199-210; `Check` ConnectView.vue 273-286; `DragStart` 430-460; `DragMove` 462-500; `MarkConnected` serverStore.ts 443-448; `CheckAll` ConnectView.vue 288-294; `RemoveChecked` 260-271; `Deleted` serverStore.ts 273-276; `RemovedOne` 277-279; `ServersSave` ServerSettingsView.vue 842-865; `FormSaved` 866-892; `CopyStored` ConnectView.vue 370-380; `CopyDone` 382-383; `DragUp` 528-541; `DragCancel` 543-550; `Open` ServerSettingsView.vue 617-662; `Type` 518-533; `CredSave` 851-867; `Leave` 942-950; `LoadReads` 664-669; `LoadShows` 669-699; `PutRef` serverStore.ts 374-382; `DeleteRows` 383-383; `Encrypt` credentialVault.ts 68-84; `PutRow` serverStore.ts 388-397; `CopyReads` 432-441; `Copy` ConnectView.vue 357-368.

`WebStores`: memos (`stores/voiceRecordStore.ts`, `views/RecordsView.vue` and the voice panel
that adds one), session logs (`stores/logStore.ts` and the places of the session store that
write to it: the listener of a transport stays after the end it reported, so a socket that
closes after an error marks the log again, and a shell that is ready after an error frame
marks it connected), and the settings page (`views/SettingsView.vue`: draft, autosave timer, save
button, hidden page, leaving, writes that fail). Pages of one record, so that two memos make
two pages.

Actions: `Bootstrap` voiceRecordStore.ts 56-72; `Enter` RecordsView.vue 929-936; `Leave` 938-944; `Hidden` 865-868; `AutoSave` 849-858; `CloseEdit` 860-863; `CloseQuick` 876-879; `TurnPage` 126-135; `ApplyFilter` 885-906; `ApplyQuick` 908-920; `Input` 988-994; `Swipe` 681-720; `RemoveRecord` 734-744; `OpenQuick` 870-874; `OpenEdit` 794-803; `Add` voiceRecordStore.ts 85-104; `OpenPage` LogsView.vue 73-77; `PageRead` logStore.ts 17-33; `Connect` 39-50; `Opened` sessionStore.ts 1176-1201; `Connected` 1068-1079; `Refused` 1024-1034; `Disconnect` 1210-1247; `SendCommand` 1249-1279; `Lost` 1111-1173; `Fires` SettingsView.vue 707-713; `SaveNow` 744-746; `Hides` 723-731; `Opens` 554-561; `Bootstrapped` settingsStore.ts 27-44; `LeavesWaiting` SettingsView.vue 1033-1038; `WriteEnds` 686-705; `Edit` 716-720; `SetDefault` 896-907; `PickPreset` 573-595; `AddCategory` 909-925; `DropAt` 951-1002.

*Where it does not hold.* `deleteServer` computes the list before it awaits the deletion and
writes it over what was saved meanwhile, in the list and in the store alike, so that the two
agree on the older row. Of two saves of a secret that overlap both rows may stay, and the one
found first need not be the last saved; only `SavedIsThere` is claimed. A
key that is to be remembered reaches localStorage only with the next use of the vault;
`disconnect` marks no end in the log (`logsLeft`); what sockets report while the log page
reads is overwritten by what it read (`Reading`); settings edited before they were read are
overwritten by the reading. Several tabs share the storage, and none of them hears of another; one tab is
modelled.

### 5.6 Plugins: WebPlugins

`packages/plugin-runtime/src/core/pluginManager.ts` with the store and the storage adapter
that drive it. An operation runs until it awaits; the rest of it is a sequence of steps kept
with the operation. A record is shared by reference, a slot is what one load installed, and
`debris` is what loads that failed have left. One
plugin: plugins share nothing but the list they are in. In the part `plugins` one operation runs
at a time, any of them, and loads succeed, fail and time out before and after the plugin has
registered something; in the part `crossed` two operations overlap, one of any kind and the other an enable or a
disable, the plugin registers nothing, and one failure blows the fuse instead of three, so that both
sides of its guard are met early.

Actions: `Bootstrap` pluginStore.ts 61-88; `InstallPackage` 130-140; `Enable` pluginManager.ts 72-76; `Disable` 127-159; `Reload` 161-170; `RemovePlugin` 172-177; `ReadStore` 36-59; `Validated` 61-70; `GetPackage` pluginFsAdapter.ts 15-22; `Checked` pluginManager.ts 78-87; `Stopping` 127-138; `Stopped` 147-158; `OnLoad` 94-106; `OnLoadTimesOut` 279-292.

*Where it does not hold.* A load that fails or takes too long is cleaned of its style only
(pluginManager.ts:114-123): listeners it registered stay until a reload of the page, its
command until the next disable, and a plugin that is late registers after its load was given
up; `DisabledIsClean` excepts these (`Leftover`). Where operations overlap
less is claimed. Two enables that both saw nothing running leave the first one's style and
listeners with no slot that leads to them; a disable that waits for onunload removes from the
map whatever runs by then; a removal during a load leaves a plugin running without package
or record. errorCount is reset by a reload of the plugin only, not by a success, so the fuse counts failures
since then. A plugin that registers after it was unloaded, and operations before the list is
read, are not modelled.

### 5.7 The terminal view: WebTyping, WebScroll, WebLayout

`components/TerminalPanel.vue`, and `App.vue` for the viewport. `WebTyping` has two parts. Touch:
a gesture from touchstart to the click made from it, the text area that is read-only unless
the keyboard is wanted, the guard that undoes passing blurs, the native selection; blur
events come at once or late. IME: one text may reach the page as input events, as data of
xterm or as both, and dictation revises it; four kinds of phones, lines of four characters
(five in the part `pauses`), with any of them typed again, so that words repeat and stand
next to each other; every timer of the page may fire between any two events. A phone of events mixes letters,
composed words and dictation on a line, a phone of keys letters and words (the part
`mixed`); elsewhere a line is of letters or of words.

Actions: `Press` TerminalPanel.vue 1493-1530; `Move` 1531-1560; `LongPress` 488-503; `Release` 1561-1670; `Cancel` 1671-1685; `Click` 1804-1844; `Word` 1347-1361; `AsciiFires` 1011-1024; `AssistFires` 1144-1155; `DataAgain` 1898-1905; `Pause` 828-839.

`WebScroll`: the wheel and the flick, each with a frame loop, against typing, selection, a
second finger, output and unmounting. Positions are lines; a speed is lost by one line per
frame.

Actions: `WheelFrame` TerminalPanel.vue 656-673; `TouchFrame` 613-640; `RevealFrame` 369-385; `Wheel` 691-724; `TouchMove` 1727-1756; `TouchStart` 1697-1708; `TouchEnd` 1757-1773; `Deselect` 510-529; `Input` 761-777; `Unmount` 2156-2183.

`WebLayout`: `App.vue` following the visual viewport, guessing the keyboard from heights (in
units of 60 px), with a session for the focused field; events, animation frames and the
repeat timer are all late. Its second part is the place of the voice button and its panel,
in pixels, on the vertical axis, under a wrapper that the keyboard resizes. When the keyboard
has gone the button is back at its place (`PlaceRestored`); while it is up the comments promise
more than the code does (`web_voice_button`).

Actions: `FocusIn` App.vue 487-495; `FocusOut` 501-508; `ViewportSynced` 296-299; `Route` 574-576; `Changed` 528-530; `Resized` 226-272; `Look` 306-449; `LookAgain` 455-479; `WrapperComes` TerminalVoiceInput.vue 1373-1380; `Observe` 1271-1318; `SyncTick` 1401-1404; `PointerDown` 1140-1149; `HoldFires` 1163-1170; `PointerMove` 1176-1202; `PanelCloses` 1385-1396.

*Where it does not hold.* After a scroll with the keyboard up the text area stays read-only.
A second letter within 90 ms replaces one that was not sent, and data of other words cancels a
pending dictation (`fast`). A text area that begins with the same word twice loses the second:
a doubled first character is taken for a fault of the input method (TerminalPanel.vue:291-311), as is a
doubled start of two characters or more before something else (1037-1054), although the comment at 1035
means to keep words like 人人; `TypedOnce` excepts it (`stutter`). Where text comes both as
events and as data, a letter after a composed word is sent twice, and dictation on a line
with letters repeats what was typed. Deleting the last character of the text area (`last`), or deleting or
sending once the dictation's session has run out (`later`, with `pause`), leaves the snapshot behind.
A focused field removed with its dialog leaves the bottom bar hidden; a
turn to landscape looks like a keyboard.

The voice button. When the keyboard makes the wrapper lower, the observer puts the button that
the user has placed back to its place, as the comment at TerminalVoiceInput.vue:1299-1301
demands, and then calls `syncAutoInputHeight` (1315), which clamps it to the lower
wrapper (514): the button is pushed up as long as the keyboard is there. The comment at 1290 and
question-solved.md:599 say that it is not. `web_voice_button` finds the shortest such behaviour.

### 5.8 Voice: WebVoice

`components/TerminalVoiceInput.vue`: each await of a start (cleanup of the last round,
microphone, socket, audio context) is a place where the finger may lift, press again, or the
panel be cancelled. Two rounds overlap;
`RoundsStayApart` is proved for any number of them.

Actions: `PointerDown` TerminalVoiceInput.vue 1140-1174; `PointerMove` 1176-1202; `PointerUp` 1204-1250; `HoldFires` 1162-1170; `Send` 1076-1103; `Record` 1105-1128; `CancelPanel` 1130-1138; `Unmount` 1416-1451; `ForceEnd` 1331-1366; `StopEnds` 1212-1234; `CleanupEnds` 882-887; `MicGranted` 471-486; `SocketReady` 895-930; `ContextResumes` 930-966; `StartFails` 968-977; `Result` 739-747; `SocketCloses` 749-869.

*Where it does not hold.* A release during `audioContext.resume()` does not stop the
recording that then begins; a panel closed while the microphone is asked for keeps it; the
failure of a round that was given up resets the round in progress.

## 6. Mini program

Under `apps/miniprogram`. `index.js` is that of the page the module is about.

### 6.1 Connection: MiniTerminal

`pages/terminal/index.js` and its clients (`utils/gateway.js`). A client has a run of connect
attempts with a sequence number, a socket and a retry delay; the page suspends, resumes,
reconnects, and drops a client on every error, whose callbacks go on acting on the page.
Three clients: the page's, a dropped one, and a new one. `Prompt` leaves out silent gateways
and reported errors, with which `OneSocket` is not kept; the run for liveness has them.
`PageIsConnected` is proved for any number of clients. The safety properties of launches are
conjuncts of `OutputIsDrawn`.

Actions: `Hide` index.js 2801-2845; `SnapshotExpires` terminalSessionState.js 68-121; `ConnectionAction` index.js 6848-6862; `WaitTimer` 4597-4610; `SocketOpens` gateway.js 246-278; `StaleWakes` 352-389; `SocketFails` 305-348; `GatewaySends` 281-303.

*Where it does not hold.* A run superseded in its retry delay returns normally, so the
hidden page waits for an answer, fails and clears the snapshot it could have resumed from
(index.js:3217); `handleError` drops the client before it is disconnected, whose close then
starts a reconnect of a page in error; a page hidden before its first layout connects all
the same.

### 6.2 Launching an AI: MiniLaunch

A launch waits for the shell, types a command and, for Codex, holds the output back until a
token comes. The remote prints tokens that arrive one or two in a chunk; `Leaves` lets the
page be hidden and the connection be lost, `Quick` lets a launch come before earlier output.

Actions: `Tap` index.js 6779-6813; `Interrupt` 7072-7086; `Hide` 2819-2844; `Show` 2730-2770; `PollReady` 4649-4727; `PollGivesUp` 4649-4707; `GuardTimeout` 4754-4782; `GuardRelease` 4784-4792; `Lost` 4473-4517; `Failed` 4519-4533; `RemoteExits` aiLaunch.js 223-233; `Reached` index.js 4425-4464; `Deliver` 4350-4417.

*Where it does not hold.* A page that is hidden, or loses its connection, during a launch
never settles the launch's promise: every later launch is refused (index.js:2819). The
lock of a Copilot that died with its shell stays; after the guard's timeout a program that
started all the same is not locked.

### 6.3 Voice and speech: MiniSpeech

Dictation: the round of the page, each call of `startVoiceRound` suspended for the permission
and for the connection, the recogniser's client (`utils/asrGateway.js`) and the one recorder
of WeChat. Reading aloud: a round of output is captured until it is stable, synthesised by
segment (`utils/ttsGateway.js`) and played by an audio instance per segment; events of old
instances, timers and requests meet a newer state: two jobs of two segments and as many
instances as can be alive. `DictationIsHeld` is proved for any number of calls,
`HeardIsMeant` for any number of jobs, instances and segments while `Slow` is off.

Actions: `Press` index.js 7237-7250; `HoldTimer` 7251-7264; `PanelShown` 7266-7291; `VoiceRelease` 7307-7325; `LeaveDraft` 7581-7670; `VoiceHide` 2820-2842; `Permission` 6536-6580; `SockFails` asrGateway.js 71-182; `SockClosed` 163-180; `AsrResult` index.js 7513-7525; `AsrRoundEnd` 7527-7538; `RecStarted` 7465-7471; `RecStopped` 656-683; `RecError` 7490-7511; `StartRound` 1921-1942; `OutputAppended` 1944-1988; `StableTimer` 1990-2000; `ConfirmTimer` 2001-2036; `LoadTimer` 1523-1575; `Synthesised` ttsGateway.js 193-258; `SegmentFails` 164-186; `Plays` index.js 1709-1739; `Ended` 1739-1759; `Stopped` 1760-1785; `ReadingBreaks` 1786-1810; `Toggle` 1901-1919.

*Where it does not hold* (`Habits` names each circumstance of dictation, `Slow` that of reading): an abandoned client's close
tears down the client of the round that is held; a request to stop a recorder that is
starting is cleared; with the panel folded a release before the callback of `setData` stops
nothing; the failed request of an older job clears the queue of the job that plays.

### 6.4 From bytes to the screen: MiniVt, MiniRender, MiniLayout, MiniInput

`MiniVt` has three parts. The line: its columns with characters of two columns, whatever is
written, inserted, deleted and erased; four columns hold two wide characters, or one between
narrow ones, and a cursor inside, between and behind them. The screen: rows of the normal buffer with its
history, the alternate screen, regions, the cursor and its saved copy, over slices between
which the state is committed and trimmed. The stream: chunks of the gateway to the
terminal, halves of control sequences and of charset designators, synchronized updates
(mode 2026), and slices, cut anywhere.

Actions: `LineWrite` terminalBufferState.js 777-812; `EraseChars` 891-905; `EraseLine` 814-835; `MoveTo` 974-980; `SetMode` vtInputHandler.js 294-300; `Moves` 315-357; `Edits` 364-419; `Modes` 229-292; `EndSlice` terminalBufferSet.js 199-222; `Chunk` index.js 4556-4571; `Apply` 3566-3593.

`MiniRender`: the scheduler that merges output into one run at a time, the task that applies
it slice by slice, the layout, geometry changes, and the snapshot of a page that leaves.

Actions: `AppendOutput` index.js 4556-4571; `BatchTimer` terminalRenderScheduler.js 187-199; `BuildLayout` index.js 5571-5695; `LayoutDone` 3862-3967; `Hide` 3037-3105; `Show` 2779-2801; `Disconnect` 3411-3414; `Reconnect` 4260-4268.

`MiniLayout` has three parts. The window of rows handed to the view, the timers that replace
it, and the scrolling that keeps the caret above the keyboard; heights are rows, answers of
the view come late, one by one, and timers, output, events and the closing of the keyboard
overtake them. One bound is not a size: once something has overtaken an answer for the
keyboard (`late`), the finger rests until the next output. The caret that is frozen while slices are applied, and the
band in which a tap opens the keyboard. The voice button and the panel it unfolds into,
placed by one pair of offsets; `ButtonStaysInReach` is proved for any window that is wide and
high enough for both (`PanelAssumption`) while `Toggles` is off.

Actions: `OnOutputScroll` index.js 6909-6917; `OverlayTimer` 5839-5859; `SettleTimer` 5888-5907; `OnFocus` 6683-6710; `AppendOutput` 4556-4571; `MarkTerminalUserInput` 3401-3409; `StartRun` 3452-3525; `Passed` 3833-3859; `LayoutDone` 3889-3969; `SetStatus` 3260-3327; `CaretAnswer` 6252-6254; `CaretOnClearScreen` 6815-6846; `OnShow` 2730-2781; `PressFolded` 7294-7302; `PressActions` 7137-7146; `TouchInput` index.wxml 291-291; `DragBy` index.js 7186-7216; `SlideBy` 7148-7162; `LiftFinger` 7218-7231; `UnfoldTimer` 7266-7288; `Fold` 7581-7670; `Sync` 6448-6465; `Measured` 6467-6499.

`MiniInput`: the native field mirrored into the shell's line, the shift key and reports of
focus. Events of the field are late, and so is what the page sets in it.

Actions: `FocusShellInput` index.js 6266-6282; `OnPanelTap` 6893-6907; `OnShiftTap` 7013-7023; `OnTouchKeyTap` 7025-7102.

*Where it does not hold.* CSI K 0 and 1, with them the cursor's line of CSI J, cut the wide
character at their edge and leave half of it, until text is inserted or deleted on the line
(terminalBufferState.js:823-834); CSI X at the last column does the same (891-905).
Restoring a cursor whose row has scrolled out, and CSI S with the cursor in the first
row, put the cursor into the hidden history, and output continues there; CSI J 1 and 2
erase the history too, and J 2 drops the rows below the cursor, so that the row the cursor has on
the screen changes. A charset designator (ESC ( B) that a chunk or a slice cuts shows as text.
The properties name each of these cases as an exception. The settle timer that fires while a window is being
replaced is dropped (index.js:5910): rows outside that window are blank until the next scroll event or
output (`missed`). Output, or closing the keyboard, before the answers for the keyboard have come,
and scrolling while typing, leave caret, rows or the place to come back to wrong until the
next output (`late`). Clearing the screen while a task runs is undone by its next
slice; a pass that ends before an unfinished control sequence leaves the caret frozen;
a panel folded by onShow leaves the button where the panel would not fit.

### 6.5 Plugins: MiniPlugins

`utils/pluginRuntime.js`, `utils/sessionBus.js`, `pages/plugins/index.js` and what the terminal
page tells the bus. Storage is synchronous, so an operation waits only for onload, for which
the runtime has no timeout: it may never settle, and the other of the two operations goes on.
Loads fail before and after the plugin has registered something, and packages are imported
over a running plugin. The part `plugins` has one operation at a time, the part `crossed` two,
with the terminal page closed and a fuse of one failure, and claims less.

Actions: `OnShow` index.js 27-66; `ImportJson` pluginRuntime.js 373-386; `Enable` index.js 131-141; `Disable` 143-153; `Reload` pluginRuntime.js 476-487; `RemovePlugin` 489-497; `OnLoadRegisters` 168-197; `OnLoadDone` 432-443; `Ran` index.js 81-91; `Failed` pluginRuntime.js 444-454; `Emit` sessionBus.js 27-43; `Failure` index.js 4519-4533; `OnHide` sessionBus.js 45-50.

*Where it does not hold.* The catch of enable clears what is in the map of running plugins,
which this load is not yet (pluginRuntime.js:444-454): listeners and the command of a load that failed stay,
also after a disable, until the process ends. The first of two loads that overlap is replaced in the map
and leaves its own behind; `DisabledIsClean` excepts both (`Leftover`). If two loads
overlap, one fails and the other succeeds, the record is enabled with the failure counted, and
once the fuse has blown the next bootstrap refuses to start it (`RunsAsRecorded` excepts it).
A plugin removed while its onload waits runs afterwards, its record back and its package
gone; a plugin that registers something once its load is over is not modelled.

### 6.6 Pages and storage

`MiniSettings`: the settings page (`pages/settings`) with its form, autosave, categories, drag
and the cloud, over an upload queue that is one flag here and `MiniSync` in detail; and one
list of `utils/storage.js` under its current key, its backup and the keys of former versions:
the process ends between two writes, two releases rename the key. The module also has writes
that fail because the storage is full (`full`); no run turns them on, as the code reports nothing and a
list that was not written is lost with the process.

Actions: `Show` index.js 529-552; `TabTap` 568-574; `Flushes` 755-765; `Switch` 593-606; `Leave` 554-561; `Input` 576-591; `Pick` 608-662; `Select` 783-791; `SettingsAdd` 796-823; `LongPress` 921-929; `MakeDefault` 828-837; `RemoveSelected` 842-873; `Rectangles` 930-967; `FingerUp` 1034-1091; `DragMove` 1008-1032; `Downloaded` syncService.js 288-310; `Uploaded` 328-340; `Bootstrap` storage.js 395-406; `Changes` 699-705; `RemoveRow` 790-798.

`MiniRecords`: `pages/records`: a snapshot of the stored memos, a popup with autosave, marks,
categories, sliding rows, and the synchronisation behind the page.

Actions: `Turn` index.js 416-422; `SelectFilter` 405-414; `Delete` 566-573; `OpenQuick` 653-682; `OpenEdit` 716-735; `SyncDelete` syncService.js 199-212; `TouchStart` index.js 511-525; `Mark` 594-648; `SyncChange` syncService.js 251-286; `ApplyQuick` index.js 694-714; `Input` 821-828; `Settings` 47-51; `CloseQuick` 684-692; `OpenCreate` 430-447; `Persist` 770-813; `CloseEdit` 749-752; `Hide` 266-272; `Show` 249-264; `TouchMove` 527-552; `TouchEnd` 554-564; `ListTap` 503-509.

`MiniServers`: `pages/connect`: the list searched, chosen, removed, copied, swept open and
dragged over a storage that merges change.

Actions: `Query` index.js 321-329; `Answer` 364-378; `Adds` 465-492; `Toggle` 341-352; `TouchStart` 749-765; `AskRemove` 807-820; `Sweep` 767-793; `Move` 541-563; `Draws` 233-318; `MergeReply` syncService.js 342-359; `ToggleAll` index.js 354-362; `Hide` 190-196; `Show` 185-188; `TouchEnd` 795-805; `StartDrag` 494-511; `Rectangles` 512-538; `Drop` 565-600.

`DirPicker`: `pages/server-settings` and `utils/remoteDirectory.js`: the form with its autosave
and the directory picker with its tree, the readings under way, the cache of root
directories; and one reading over a short connection, its answer picked out between two
markers while the terminal echoes the command that contains them, cut anywhere. The picker
relies on a reading's end (`ReadingEnds`), which the second part has as `Settled`.

Actions: `EditHost` index.js 295-317; `EditPath` 496-518; `Select` 875-878; `Tap` 880-909; `Persists` 941-953; `Save` 969-994; `Leave` 997-1003; `Show` 473-489; `Unload` 491-494; `Load` 448-471; `Open` 781-826; `Cancel` 863-873; `Confirm` 911-934; `PrefetchEnds` 650-666; `Ages` 141-142; `Listed` 708-717; `NotListed` 754-779; `Root` 829-847; `Expand` 730-752; `Stdout` remoteDirectory.js 285-320; `HostKey` 282-284; `OnConnected` 270-280; `Breaks` 323-342; `Expires` 374-381; `Runs` 65-85.

*Where it does not hold.* Pages but the list of servers do not reread the storage after a
merge, so a mark on a memo or leaving the settings writes old text back with a new time
stamp; autosave normalises a field that is being typed; a download merges an older version
of the switch; a process that ends between key and backup leaves an older backup that a
later release prefers.

## 7. Liveness and fairness

`Liveness.cfg` explores every component that could wait for ever, one at a time
(`MCLiveness`), under the fairness its own module states. Fairness is weak, of one action or
of the disjunction that ends one wait, and given only where the code or the platform owes
the step:

- an armed `setTimeout` or `setInterval` fires (grace periods, retries, debounces, guards,
  the three-second fallback, autosave);
- the continuation of a promise that is settled runs;
- a socket that was closed reports it (`ws` destroys it after its close timeout), a dial
  opens or fails;
- a connecting SSH session becomes ready or fails (`readyTimeout`, `keepaliveInterval`,
  `keepaliveCountMax` of `buildSshConnectConfig`); callbacks of `forwardOut` and `shell` come,
  and what ran over a lost connection is lost too;
- queries to the view and requests are answered or fail.

No user, remote shell or peer is obliged to anything; no live session has to end. Two
properties need more and say so: `StoppedRoundEnds` a speech service that is not silent
(`service`), and `Answered` a remote that works (the part `prompt`; the part `listing` has the
same reading with any remote, and its time-out). `GraceEnds` leaves out the sessions that
`BornOrphan` describes, for which the code has no timer. Where a wait is under way in the
initial state (a page that loads, a reading), the fairness is asked of the behaviours of
that part; otherwise a resting component has nothing enabled and its fairness is empty.

Bounds are smaller than in the safety runs: two of what can compete, and one retry.

## 8. Proofs

TLAPS proves these for every value of the constants, from the named ASSUMEs of the modules
and, where the table says so, from an assumption stated in the theorem: one init per
client (`MaxInits <= 1`), no failing request of an older job (`~Slow`), no switching off of
the voice button with its panel open (`~Toggles`). The named ASSUMEs say that bounds and
limits are natural numbers (positive where zero would make the code meaningless), that
the value for "none" is none of the others, and what a window must have room for
(`PanelAssumption`).

| Theorem | Module | States the run property | What it establishes |
|---|---|---|---|
| `TypeCorrect` | `Gateway_proofs` | – | Every variable keeps its type for any number of connections, sessions and keys; rests on every started session having an owner and on the eviction of the buffer being well defined. |
| `RegistryStaysCoherent` | `Gateway_proofs` | – | What init finds under a key is an open entry of that key, for every value of the constants and any number of inits per connection. |
| `SessionHasOneHolder` | `Gateway_proofs` | – | No two connections ever drive the same SSH session, for every value of the constants and any number of inits per connection. |
| `HoldersStayCoherent` | `Gateway_proofs` | `HoldersCoherent` | Both of these together, the property the run checks: what an init frame resumes or opens is usable and its own. |
| `NothingLeaks` | `Gateway_proofs` | `NoneLeaks` | While no client has sent two inits, for any number of clients, sessions and keys: a live session is held or parked with its timer armed, its output goes to its holder, and no timer is left on a session in use or over. |
| `LeaseIsKept` | `Gateway_proofs` | `ImplementsLease` | The relay implements the lease of a session, step by step, for any number of clients that send one init: a session changes hands only through a parked entry and is not handed out again once it was given up. |
| `RegistrationsAreOwn` | `Gateway_proofs` | – | A registration ends only with its own session: no clean-up of another connection, time-out or close callback takes it away, for clients that send one init. |
| `BufferStaysRecent` | `Gateway_proofs` | `BufferIsRecentOutput` | For any frames and any limit: what is buffered for a parked session is its latest output without a gap, within the limit, and newer than all that was delivered. |
| `OutputStaysInOrder` | `Gateway_proofs` | `DeliveredInOrder` | For any frames and any limit: a session's output reaches its clients in the order it was produced, across any number of resumes. |
| `CaptureIsPassive` | `Gateway_proofs` | – | The composition of relay and capture implements the relay: arming rules and recording sessions adds no behaviour to GatewayTerminal, whose theorems therefore hold of it. |
| `RecordingsStayApart` | `Gateway_proofs` | `RecordingsAreApart` | For any clients that send one init, any sessions, keys, rules and lifetimes: a recording holds all its session printed and nothing else, is open as long as the session may print, gets what is typed into it, and no two sessions are recorded for one arming. |
| `Implementation` | `Shell_proofs` | `ImplementsLife` | Direct or through a jump host, whatever fails or closes first: the events of an SSH session implement the life cycle of SshLife, step by step. |
| `EndReportedOnce` | `Shell_proofs` | – | onClose is called at most once, however many parts of the session close. |
| `HostsAreVerified` | `Shell_proofs` | – | A credential is offered only to a host whose key was reported and accepted, and to a target behind a jump host only after the jump host was verified too. |
| `LoginStaysSafe` | `Shell_proofs` | `LoginIsSafe` | For every route and every order of failures: no credential before the host's key is accepted, one report of the end, and the types the steps rely on. |
| `AssistedInputOnce` | `Shell_proofs` | `AssistedOnce` | For any transaction ids, lifetimes and table size: the text of an assisted input goes to the shell at most once in the lifetime of its id, however its frames are repeated, while the table does not overflow. |
| `OneRoundOnly` | `Speech_proofs` | `ServiceSeesOneRound` | For any number of frames and answers: of one client connection the recognition service sees a start, audio, and at most one last packet with nothing after it. |
| `SlotsAreNeverLost` | `Speech_proofs` | – | For any keys, callers and number of slots: never more synthesis calls than slots, each slot taken has a job running, and no job waits beside a free one. |
| `WaitersAreQueued` | `Speech_proofs` | – | The semaphore's queue holds exactly the waiting jobs, each once, whatever times out while slots are handed over. |
| `FailuresAreCurrent` | `Speech_proofs` | – | A remembered failure is never told while a new job of the key runs, nor after one that stored its audio. |
| `CountsAreKept` | `Speech_proofs` | `SynthesisIsCounted` | The three invariants of the synthesis service together, for any keys, callers and number of slots. |
| `BudgetIsKept` | `WebSession` | – | For any servers, any number of connect() calls and any retry limit: the retry budget is kept over all orders of losses, timers and calls. |
| `HeartbeatsStop` | `WebSession` | – | A transport's heartbeat runs only while its socket is open. |
| `ConnectionIsSingle` | `WebSession` | – | While no connect() crosses one that waits, the store has one transport, with the only socket and listener, and it belongs to the current server. |
| `EndedStaysEnded` | `WebSession` | `LocalEndStopsRetries` | After the user, a switch or a rejected key ended the connection, no event of any transport schedules a retry until the user connects again. |
| `ConnectionStaysBounded` | `WebSession` | `ConnectionIsBounded` | Budget, heartbeat and single connection together, for any servers, any number of connect() calls and any retry limit. |
| `WindowNeedsLoss` | `WebSession` | – | While no connect() crosses one that waits: the resume window is open only after a loss without word from the SSH side, with the lost socket closed and the store disconnected or about to retry. |
| `StateHasBacking` | `WebSession` | – | While no connect() crosses one that waits, no state that counts as live outlasts the socket or the call it stands for: what a transport loses, the store learns. |
| `StoreStaysInformed` | `WebSession` | `StoreKnowsConnection` | Both together, the property the run checks, for any servers, any number of connect() calls and any retry limit. |
| `WebRoundsStayApart` | `Speech_proofs` | `RoundsStayApart` | For any number of rounds: words, microphone and socket of a dictation that was stopped, cancelled or left never reach the one after it, whatever answers of the browser arrive late. |
| `DictationStaysHeld` | `Speech_proofs` | `DictationIsHeld` | For any number of calls of startVoiceRound: with a user who waits for a round to end the mini program records under the finger only, gives the microphone back, lets no timer outlive its round and writes nothing of a round that was cancelled; with any user, what is recorded has a client to go to. |
| `ReadingStaysMeant` | `Speech_proofs` | `HeardIsMeant` | For any number of playback jobs, audio instances and segments: what is heard is the job of the page, which the page shows, whatever answers of the service and events of older instances come late (a request of an older job may be late, but does not fail after a newer one began: Slow). |
| `ButtonAlwaysInReach` | `Speech_proofs` | `ButtonStaysInReach` | For any window wide and high enough for the button and its panel, and any way a finger goes (Toggles off): the folded voice button and its panel stay where they are reachable, and a panel that was not moved folds back to its button. |
| `RowsOnlyMoveForward` | `MiniSync` | `RowsMoveForward` | For any number of phones, edits, failures and restarts: when all is quiet the gateway is not behind any phone, no merge puts an older row in the place of a newer one or reopens a memo, and the database advances. |
| `KnownStaysStored` | `WebHostKeys` | – | For any hosts, keys and policies: what the page knows of a host is what is stored, or the key of every write under way; and the keys the gateway was told to compare with are those. |
| `TrustIsKept` | `WebHostKeys` | `StoredStays` | For any hosts, keys, routes and policies: a host key that was stored is never replaced by another, neither by a key a host has come to nor by a write under way. |
| `LoopsAreSingle` | `WebScroll` | – | For every length of history and every speed, each scrolling loop is driven by at most the one frame its variable holds, and by none once the page is gone. |
| `TypingStaysVisible` | `WebScroll` | – | For every length of history and every speed, the view stays at the bottom after typing until a wheel or a finger moves again. |
| `GesturesWin` | `WebScroll` | – | For every length of history and every speed, no flick scrolls under a finger, and none while text is selected (SelectionRests). |
| `TheHandWins` | `WebScroll` | `HandWins` | For every length of history and every speed: fingers, selections and typing keep the view where they put it, and each loop has one frame. |
| `PageStaysConnected` | `MiniTerminal` | `PageIsConnected` | For any number of clients, timers and frames: an ended page stays down, and where dropped sockets close promptly there is one socket and the page is ready exactly while a client holds it. |

**The relay.** `TypeOK` is strengthened by `OwnerKnown` (a session that was started has an
owner), because callbacks look into the owner's closure. `DroppedInRange` shows that the
eviction loop is well defined: the least number of frames to drop exists
(`LeastElement`, from the well-foundedness of finite sets).
`ExclusiveHolder` alone is not inductive: a resume hands out what the registry offers, so one
needs that a registered entry with `ws = null` has no holder. `HolderInv` says that, while an
entry is registered, its `ws` field is the connection that holds its session
(`HolderIsAttached`) and the only connection whose close event may still detach it
(`LinkIsAttached`); that only sessions that became ready are held, and linked entries
exist. Most actions only give something up: `Shrinks` states what that means for entries and
registry, `CleanupShrinks` and `ReportCloseShrinks` show it for the helpers, and `ReleaseStep`
that such a step keeps `HolderInv`. Three actions do more and have lemmas of their own:
`RegisterStep` (after the await), `ResumeStep`, `ParkStep`.

**The lease.** `LeaseInv` extends `HolderInv` for `MaxInits <= 1`: a connection that has not sent
init has left no trace (`Untouched`), every session has its place (`Placed`: held, parked,
registered nowhere because it is over, or born an orphan), an owner owns one session
(`OneOwned`), and the links between a connection's closure, its entry and its session agree
(`OwnerLinks`, `LinkFollows`, `LinkIsHeld`). A step gives up, grants, resumes, parks, or
outputs; each kind has a lemma that shows the invariant kept and the step of `SessionLease`
it is (`ImplementsLease`). From the same invariant come `NoneLeaks`, that only the own
registration is ended, and the order of what was delivered. The bound on inits is needed:
see 4.1.

**The buffer.** `BufferInv` says that pending frames are the last ones produced, in order, and fit
the limit or are none; the step lemma compares the buffer after an eviction with the
output history.

**The capture.** Each step of the composition is a step of the relay or leaves its variables
alone (`ConnStepOfRelay`, `SshStepOfRelay`), so the theorems above hold while sessions are
recorded. `CaptureInv` extends `LeaseInv` and follows a recorder through the three places
that refer to it: the closure of the connection that started the session (`OwnerRecords`),
the entry (`EntryRecords`), and the closure of whoever resumed it (`HolderOwns`); a session
that was not started has no recording (`NothingBefore`). Output is written through the first
and input through the last, so the two must be the same recorder for `TypedWhereItGoes`; and
a close, which runs in the owner's closure, must close no other's (`CloseOutcome`,
`RecordingsKept`). The bound on inits is that of the lease. `RuleInv` is about the store: a rule that was
taken is gone from it, and ids are not given out twice, so no rule of the store is the
rule of a recording (`RuleServesOnce`); what `take()` answers with is a rule of the store
that fits and has not expired (`TakenFits`).

**The SSH session.** A step settles the promise for the first time, or reports, or does
neither (`StepKinds`); with `closeReported <=> reports = 1` each kind is a step or a stutter of
`SshLife`. `VInv` is the invariant behind `VerifiedBeforeAuth`: a connection at or past
authentication was verified, and through a jump host the target is not even dialled, nor
`forwardOut` under way, before the jump host was.

**The deduper.** The table has to be tied to what was written (`TableInv`): an entry is the
last written frame of its transaction, on this connection, and a written frame without
its entry is too old, was crowded out by as many as the table holds, or was repeated
later. The clean-up removes by age and then the oldest beyond the limit; `AssistInv` is
kept because what is removed is exactly what that statement lets go.

**Speech synthesis.** `IInv` ties four things together: the queue holds each waiting key once
(`QueueInv`), the counter is the number of running jobs and a waiter means that all slots
are taken (`SlotInv`), a remembered failure is that of the last job (`FailInv`), and a request
that is handled is about a key (`CallInv`). The steps that matter have lemmas: `Acquires`,
`HandsOver` (a slot goes from a job that ends to the oldest waiter without being freed),
`LeavesQueue` (a waiter times out).

**The voice proxy.** `OneRoundInv` adds to the property what the two flags say of the history:
something was sent if and only if `startSent`, and no last packet before `stopSent`.

**Web voice rounds.** `Sound` says what the variables of the component owe to the starts
still under way: the active round is the newest, a socket that lives is the active
round's or one that is being opened by its own start, and the text in the box is what it
was when the newest round began, or that round's. `VoiceInv` adds that starts are
of rounds that were begun. Each part of a handler `Leads` from one sound state to
another, and a handler is a chain of them (`LeadsOn`).

**The web session.** `IInv` adds where each call is and what its socket is (`Phases`), that
retries are suppressed unless the user wants a connection (`IntentInv`), and, while no call
crossed another, that one call is pending at a time, only the current transport is alive,
and none while a call waits for the credentials (`SingleInv`): connect() has torn the last
one down before. For `StoreKnowsConnection` two parts are added: the resume window is opened by
a loss and shut by everything that starts or ends a connection (`WindowInv`), and each state
that counts as live has the call or the socket behind it that it names (`BackedInv`). A step
of a transport that is not the current one would break both; `OpenIsCurrent` says that, while
no calls cross, there is none with a socket.

**Host keys.** `KnownInv` says that the page knows what is stored and all it is about to
store, so a write stores what `verifyHostKey` compared with; `LoadedInv` that nothing connects
before the settings are read. A host
without a write under way is known exactly as it is stored (`NothingElseInv`); together these
give `KnownIsStored`. `SentIsKnown` says that the gateway compares with the same keys.

**Scrolling.** A loop has exactly the frame its variable holds (`WheelHeld`, `TouchHeld`); a
second finger has taken the first one's speed away (`TwoFingersRest`); after typing no loop
runs and no finger has a speed left to let go (`TypedRests`), without which lifting the finger
would start a flick.

**The mini-program's terminal page.** A handler turns one record into the next through several
helpers, so the proof follows the composition: for each helper a lemma says what it keeps of
a page and its clients. A page and its clients are consistent (`Sound`); only the page's
client has a run at work or a socket (`OneWorks`); the page is ready only on that client, and
while its socket is open (`Held`); a page whose session was ended has no retry scheduled
(`Quiet`); a client in its retry delay has no socket. `Quiet` holds always. `OneWorks` and `Held` need `Prompt`: `handleError` forgets
the client before it is told to disconnect, so an error that is reported while the socket
is open leaves one behind (6.1).

**Rows.** `RowsMoveForward` needs to know where an edit is while the gateway lacks it
(`Delivered`): its phone has an upload due, or one on its way with a row as new, or is one
whose request failed. Answers are never newer than the database (`RepliesAreOld`), an
upload has at most one copy and one tombstone (`OnePerKind`), and only memos are closed
(`OnlyMemosClose`). `MergeTakes` says what a merge takes, for every pair of rows.

**Dictation.** A round is begun by a finger that waits for it (`FingerSound`); one call of
`startVoiceRound` is suspended at a time and none while the recorder is busy
(`CallsSound`); the flags of the page say what the recorder does (`MicSound`), and a
recorder that is not to run is about to be stopped (`MicFine`); the timer is of a round that
stops (`TimerSound`); a round that was given up has its socket and discards its results
(`DropSound`). These hold of users who wait for a round to end; that what is recorded has a
client to go to (`HasClient`) holds of every user. The handlers share their helpers, and
each helper has a lemma of its own.

**Reading aloud.** An instance that is neither free nor being stopped is the page's
(`OneInstance`); one plays only while the page plays a job (`PlaysOwn`); loading has its job
and its timer (`LoadsOwn`, `Guarded`), and a page that looks busy has a job (`Busy`). What makes
these inductive is that a job that waits for a segment plays none (`WaitsQuietly`):
the answer that starts the next segment finds silence. `~Slow` is what the code does not
ensure (6.3).

**The voice button.** `PanelInv` says that an unfolded panel lies within the margins
(`PanelIn`), that a folded button lies where its panel would fit (`ButtonIn`), and that a
panel that was not moved knows the place it was unfolded from (`FromIn`). The clamps of the
code are lemmas: a value that is in its bounds is not moved (`BetweenIn`), and folding and
unfolding each lead from one of the two regions to the other.

## 9. Only model-checked

- Liveness, everywhere it is stated, and what depends on ENABLED: outside the prover's
  reach.
- What folds and recursive definitions compute for every input: the filter of the init
  script (`ShellOutputIsShown`), the readers of the synthesis service's answers and the total
  size the cache keeps to (`AudioIsKeptWhole`), the buffers of the web client
  (`OutputReachesScreen`), text and cells (`TypingArrives`, `DraftIsEntered`, `OutputIsDrawn`), merged
  lists and listings. An induction over data would be needed; TLC compares them with a
  reference over the bounded inputs of the runs.
- Properties that join the parts of several modules (`ShownIsStored`, `InputIsStored`,
  `PagesAreCurrent`, `PickerIsOfItsServer`, `PageIsLaidOut`) or two instances of one module with
  different constants (`LayoutFollowsKeyboard`, `PluginsAsRecorded`): a theorem is about one
  component.
- The modules without theorems. Their properties are mostly about moments in which all is
  quiet, and an inductive invariant would have to describe every state in between.

## 10. Not modelled

- **Gateway**: reading the configuration, log output and the measuring tools; the counting of
  the rate limiter (a library's); resize and ping/pong, which change none of the modelled
  state; SQL, encryption, user tokens; tickets' signatures and rate limits of the synthesis;
  request signing and the one-shot exchange of the Tencent provider, and
  `volcenginePodcastProtocol.ts`, which nothing imports.
- **Web**: the native iOS transport (there is no implementation behind it), the latency
  average, resize deduplication and input normalisation of the session store, search, tags
  and export of logs, themes and markup.
- **Mini program**: latency samples and the performance log, text masks, attributes and
  colours of cells, replies to terminal queries, exact widths of characters, quoting of
  launch commands, the choice and cutting of text to be spoken, the diagnostics panel,
  themes and static pages.
- **iOS** (a stub), **prototype** (a mock-up), **scripts**, **themes and texts**.

These are sequential conversions with unit tests, calls of libraries, generated or static
content. `PROJECT.json` says for each component what of it is modelled.
