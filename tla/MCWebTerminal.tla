---------------------------- MODULE MCWebTerminal ----------------------------
(***************************************************************************)
(* The terminal of the web client. Its session: the connection with the    *)
(* retries, the Codex launch inside the shell, and output on the way       *)
(* through the buffers to the screen. And its view: scrolling, the         *)
(* keyboard of a touch device, the words that it composes, and the layout  *)
(* around the keyboard. A run explores each of them.                       *)
(***************************************************************************)
EXTENDS WebSession, WebScroll

CONSTANTS None, Terminal,
          Parts   \* the components a run explores

VARIABLES
    part,  \* the component this behaviour is of
    \* WebCodex
    conn, fg, wire, provider, carry, guard, run, pending, shown, codexTyped, untold, runs,
    losses,
    \* WebBuffers
    buckets, active, served, live, disk, dirty, clock, out, screen, geometry,
    \* WebTyping
    h, p, u, stutter,
    \* WebLayout
    field, present, focused, session, sessionActive, syncs, frame, lookAgain, kernel, tall,
    bar, keyboard, resized, baseline, open, sight, wrapper, height, observed, y, panel,
    inputHeight, text, queued, gesture, applied, moved, placed, wanted

Codex == INSTANCE WebCodex WITH
    MaxWire <- 4, MaxRuns <- 2, typed <- codexTyped
Buffers == INSTANCE WebBuffers WITH
    MaxBuckets <- 2, BuffersMaxEntries <- 3, MaxBytes <- 4, MinPersist <- 1, Quota <- 3,
    BuffersSizes <- {1, 5}, MaxClock <- 7, server <- served, OutputMaxEntries <- 3,
    MaxChunks <- 6, Breaks <- {2, 3}, OutputSizes <- {1, 2}, Resumes <- FALSE,
    t <- screen, g <- geometry
Typing == INSTANCE WebTyping WITH
    MaxBlurs <- 3, Gestures <- {"scroll", "drag", "select"}, MaxLen <- 4,
    Phones <- {"events", "keys", "both", "late"}, Options <- {"delete"}
Taps == INSTANCE WebTyping WITH
    MaxBlurs <- 3, Gestures <- {}, MaxLen <- 5, Phones <- {"events"},
    Options <- {"delete", "pause"}
Mixed == INSTANCE WebTyping WITH
    MaxBlurs <- 3, Gestures <- {}, MaxLen <- 4, Phones <- {"keys"}, Options <- {"mixed"}
Layout == INSTANCE WebLayout WITH
    Fields <- {"name", "host"}, Touch <- TRUE, Kernels <- BOOLEAN, Rotates <- FALSE,
    Silent <- FALSE, Full <- 600, Heights <- {600, 300}, WindowHeight <- 700,
    KeyboardMin <- 120, DragTargets <- {0, 250, 900}, TextHeights <- {120, 400},
    active <- field, retry <- lookAgain, shown <- panel
Turned == INSTANCE WebLayout WITH
    Fields <- {"name", "host"}, Touch <- TRUE, Kernels <- BOOLEAN, Rotates <- TRUE,
    Silent <- TRUE, Full <- 600, Heights <- {600, 300}, WindowHeight <- 700,
    KeyboardMin <- 120, DragTargets <- {0, 250, 900}, TextHeights <- {120, 400},
    active <- field, retry <- lookAgain, shown <- panel

codexVars == <<conn, fg, wire, provider, carry, guard, run, pending, shown, codexTyped,
               untold, runs, losses>>
buffersVars == <<buckets, active, served, live, disk, dirty, clock, out>>
outputVars == <<screen, geometry>>
wordsVars == <<p, u, stutter>>
viewportVars == <<field, present, focused, session, sessionActive, syncs, frame,
                  lookAgain, kernel, tall, bar, keyboard, resized, baseline, open, sight>>
floatVars == <<wrapper, height, observed, y, panel, inputHeight, text, queued, gesture,
               applied, moved, placed, wanted>>

\* One component runs, the others stay as they start.
all == <<part, vars, codexVars, buffersVars, outputVars, scrollVars, h, wordsVars,
         viewportVars, floatVars>>

TerminalInit ==
  /\ part \in Parts
  /\ Init
  /\ Codex!Init
  /\ Buffers!BuffersInit
  /\ Buffers!OutputInit
  /\ part # "output" => geometry.page = 1
  /\ ScrollInit
  /\ Typing!TouchInit
  /\ CASE part = "pauses" -> Taps!ImeInit
       [] part = "mixed" -> Mixed!ImeInit
       [] OTHER -> Typing!ImeInit
  /\ part \notin {"words", "pauses", "mixed"} => u.phone = "events"
  /\ Layout!ViewportInit
  /\ part \notin {"viewport", "turned"} => ~kernel /\ ~bar
  /\ Layout!FloatInit

SessionNext ==
  /\ IF part = "session" THEN Next ELSE UNCHANGED vars
  /\ IF part = "codex" THEN Codex!Next ELSE UNCHANGED codexVars
  /\ IF part = "buffers" THEN Buffers!BuffersNext ELSE UNCHANGED buffersVars
  /\ IF part = "output" THEN Buffers!OutputNext ELSE UNCHANGED outputVars

ViewNext ==
  /\ IF part = "scroll" THEN ScrollNext ELSE UNCHANGED scrollVars
  /\ IF part = "touches" THEN Typing!TouchNext
     ELSE IF part = "taps" THEN Taps!TouchNext
     ELSE UNCHANGED h
  /\ IF part = "words" THEN Typing!ImeNext
     ELSE IF part = "pauses" THEN Taps!ImeNext
     ELSE IF part = "mixed" THEN Mixed!ImeNext
     ELSE UNCHANGED wordsVars
  /\ IF part = "viewport" THEN Layout!ViewportNext
     ELSE IF part = "turned" THEN Turned!ViewportNext
     ELSE UNCHANGED viewportVars
  /\ IF part = "float" THEN Layout!FloatNext ELSE UNCHANGED floatVars

TerminalNext == UNCHANGED part /\ SessionNext /\ ViewNext

TerminalSpec == TerminalInit /\ [][TerminalNext]_all

-----------------------------------------------------------------------------
\* A buffer is the newest output of its connection, bounded and counted, and
\* the screen shows it, once and up to its end, in a shell of its size; another
\* server starts with an empty one, and a reload keeps the newest output, for
\* the next connection to that server as well.  The tokens of a Codex launch
\* are not shown, what they tell is what runs in the shell, and no command is
\* typed into a Codex that runs, however output is cut and connections break
\* (runCodex, finalizeCodexBootstrap).
OutputReachesScreen ==
  /\ [](/\ Buffers!BytesCounted /\ Buffers!BufferIsTail /\ Buffers!BuffersBounded
        /\ Buffers!ActiveIsServers
        /\ Buffers!ScreenIsBuffer /\ Buffers!NothingTwice /\ Buffers!ShellFits
        /\ Codex!LockMatchesShell /\ Codex!NoiseIsHidden /\ Codex!ResumeOnlyIntoShell)
  /\ Buffers!SwitchIsolates /\ Buffers!ReloadResumes

\* A tap near the cursor, and nothing else, brings a keyboard up that takes
\* what is typed, through the blurs of the system; and the shell has the words
\* once and in their last revision, repeated ones as well, on a phone of events
\* in any mixture with letters, on a phone of keys in any mixture without
\* dictation ("mixed"), elsewhere on lines of words or of letters; no gesture
\* drops the selection (TerminalPanel.vue, the touch keyboard and the IME bridge).
TypingArrives ==
  /\ [](/\ Typing!KeyboardComesUp /\ Typing!GivesUp /\ Typing!NoSurprise
        /\ Typing!SelectionSafe
        /\ part = "taps" => Typing!KeyboardTypes
        /\ Typing!TypedOnce /\ Typing!RewritesOwn)
  /\ Typing!SelectionKept

\* Once resizes, frames and microtasks are through, the page knows whether the
\* keyboard is up, its bar has made room, the field in focus is in sight and
\* the voice panel is within reach (App.vue, useMobileViewport, and
\* TerminalVoiceInput.vue).  A browser that tells nothing while the device is
\* turned ("turned") still shows the field.  When the keyboard has gone the
\* voice button is where the user put it, or at the bottom if nobody moved it.
LayoutFollowsKeyboard ==
  /\ [](/\ Layout!FloatTypeOK
        /\ Layout!FieldInSight
        /\ part # "turned" => Layout!BarFollowsField /\ Layout!KeyboardSeen
        /\ Layout!InReach)
  /\ Layout!PlaceRestored

\* TerminalVoiceInput.vue 1300-1301 and question-solved.md 599: while the
\* keyboard is up a button the user has placed is not clamped to the shrunken
\* wrapper; folded and let go of, it stands at lastUserPlacedButtonPosition.
ButtonIsNotPushed == Layout!NotPushed
=============================================================================
