--------------------------- MODULE MCMiniTerminal ---------------------------
(***************************************************************************)
(* The terminal page of the mini program: its clients, the launch of a     *)
(* coding agent, the way of output to the screen, the terminal emulation   *)
(* and the layout of the page. They share the page, not the state that is  *)
(* modelled, and one run explores each of them.                            *)
(***************************************************************************)
EXTENDS MiniTerminal

VARIABLES
    part,  \* the component this behaviour is of
    \* MiniLaunch
    launchW,
    \* MiniRender
    s, k, b, env,
    \* MiniVt
    line, col, insert, wrap, vt, whole, entry, sent, pending, sync, queue, screen,
    \* MiniLayout
    scroll, caret

Launch == INSTANCE MiniLaunch WITH
    MaxOut <- 3, MaxChunk <- 1, Leaves <- FALSE, Quick <- FALSE, w <- launchW
Quick == INSTANCE MiniLaunch WITH
    MaxOut <- 3, MaxChunk <- 2, Leaves <- TRUE, Quick <- TRUE, w <- launchW
Render == INSTANCE MiniRender WITH
    MaxOut <- 4, Heads <- {2}, Geometries <- {80}, MaxLeaves <- 2, MaxClears <- 0
Vt == INSTANCE MiniVt WITH
    Cols <- 4, Rows <- 2, MaxEntries <- 3, MaxRows <- 4, Tops <- {0, 1},
    Bottoms <- {0, 1}, Twin <- FALSE, Tokens <- {"x", "c", "h", "l", "d"},
    MaxTokens <- 4, Slices <- TRUE
Layout == INSTANCE MiniLayout WITH
    MaxRows <- 4, Visible <- 2, Budget <- 3, Plain <- 3, Edge <- 1, Margin <- 0,
    Heights <- {1}, MaxChains <- 2, MaxEvents <- 1, Places <- {0, 1, 2},
    MaxSlices <- 2, MaxAsks <- 1, Torn <- FALSE, Width <- {}, WindowHeight <- {},
    InsetLeft <- {}, InsetBottom <- {}, FallbackHeight <- {}, PanelHeights <- {},
    FallbackOffset <- {}, MaxOffsets <- {}, Ways <- {}, Toggles <- {}, left <- {},
    bottom <- {}, offset <- {}, panelShown <- {}, enabled <- {}, height <- {},
    maxOffset <- {}, touching <- {}, armed <- {}, drag <- {}, slide <- {}, measures <- {},
    syncs <- {}, panelFrom <- {}

renderVars == <<s, k, b, env>>
lineVars == <<line, col, insert, wrap>>
screenVars == <<vt, whole, entry>>
streamVars == <<sent, pending, sync, queue, screen>>

\* One component runs, the others stay as they start.
Parts == {"clients", "launch", "quick", "render", "line", "screen", "stream", "scroll",
           "caret"}
all == <<part, vars, launchW, renderVars, lineVars, screenVars, streamVars, scroll,
         caret>>

PageInit ==
  /\ part \in Parts
  /\ Init
  /\ Launch!Init
  /\ Render!Init
  /\ Vt!LineInit
  /\ Vt!ScreenInit
  /\ Vt!StreamInit
  /\ Layout!ScrollInit
  /\ Layout!CaretInit

PageNext ==
  /\ UNCHANGED part
  /\ IF part = "clients" THEN Next ELSE UNCHANGED vars
  /\ IF part = "launch" THEN Launch!Next
     ELSE IF part = "quick" THEN Quick!Next
     ELSE UNCHANGED launchW
  /\ IF part = "render" THEN Render!Next ELSE UNCHANGED renderVars
  /\ IF part = "line" THEN Vt!LineNext ELSE UNCHANGED lineVars
  /\ IF part = "screen" THEN Vt!ScreenNext ELSE UNCHANGED screenVars
  /\ IF part = "stream" THEN Vt!StreamNext ELSE UNCHANGED streamVars
  /\ IF part = "scroll" THEN Layout!ScrollNext ELSE UNCHANGED scroll
  /\ IF part = "caret" THEN Layout!CaretNext ELSE UNCHANGED caret

PageSpec == PageInit /\ [][PageNext]_all

-----------------------------------------------------------------------------
\* What was received is drawn once, in order and whole, however it is cut into
\* frames, runs and slices.  Edits repair the wide characters they cut, but for
\* CSI K and CSI X at their edge, and the cursor leaves the screen only to a
\* place saved before or because CSI S scrolls it out (terminalRenderScheduler.js,
\* terminalBufferState.js, vtInputHandler.js).  Output is held back, and a coding
\* agent resumed, only for a launch that asked for it, and with a user who stays
\* on the page what was printed also ends the lock of a launch (index.js, the
\* launch of an agent).
OutputIsDrawn ==
    /\ [](/\ part = "render" =>
               Render!PendingIsScheduled /\ Render!OutputInOrder /\ Render!ReplayIsRows
          /\ part = "stream" => Vt!CutsDoNotShow /\ Vt!NothingIsLost
          /\ Quick!GuardHasLaunch /\ Quick!ResumeIsForCodex
          /\ part = "launch" => Launch!LockFollowsExit)
    /\ [][/\ part = "line" => Vt!WideIntact
          /\ part = "screen" => Vt!CursorOnScreen]_all

\* Edits leave the rest alone: the cells to the left, the history, the screen
\* behind an alternate one, the place the user scrolled to and the caret's band.
RestIsKept ==
    [][/\ part = "line" => Vt!LeftKept
       /\ part = "screen" => Vt!HistoryKept /\ Vt!RoundTrip
       /\ part = "scroll" => Layout!OnlyPushedDown
       /\ part = "caret" => Layout!BandMovesWithCaret]_all

\* At rest, the view shows rows, and the caret is on its row, above the keyboard
\* and where the shell's cursor is.
PageIsLaidOut ==
    /\ part = "scroll" =>
         /\ Layout!NoBlankRows /\ Layout!CaretOnItsRow /\ Layout!CaretAboveKeyboard
         /\ Layout!PlaceRestored
    /\ part = "caret" => Layout!CaretIsCursor
=============================================================================
