------------------------------- MODULE MiniVt -------------------------------
(***************************************************************************)
(* The terminal emulator of the mini-program: a line of cells, the screen  *)
(* with its history, and the stream of control sequences cut into chunks   *)
(* and slices. The three parts are modelled apart.                         *)
(***************************************************************************)
EXTENDS Sequences, SequencesExt, Integers, FiniteSetsExt, Folds

-----------------------------------------------------------------------------
(* One line of the mini-program's terminal: cells written, inserted, deleted    *)
(* and erased under a cursor (writeChar, insertChars, deleteChars, eraseChars,  *)
(* clearLineByMode and the wide-cell repairs of                                 *)
(* pages/terminal/terminalBufferState.js).  A character of two columns is an    *)
(* owner cell and a continuation cell; every edit may cut one in half.          *)
(* A tab is four to one narrow writes; combining characters change no cell.     *)
CONSTANT Cols         \* columns of the buffer

Blank == "blank"
Narrow == "narrow"
Wide == "wide"
Cont == "continuation"

VARIABLES line,     \* the cells of the line, at most Cols
          col,      \* cursorCol, 0 to Cols: Cols is a wrap that waits
          insert,   \* insert mode
          wrap      \* wraparound mode

lineVars == <<line, col, insert, wrap>>

LineInit == line = <<>> /\ col = 0 /\ insert = FALSE /\ wrap = TRUE

-----------------------------------------------------------------------------
LineLeast(a, b) == IF a < b THEN a ELSE b

LineBlanks(n) == [i \in 1..n |-> Blank]

(* ensureLineLength *)
Padded(l, n) == IF Len(l) < n THEN l \o LineBlanks(LineLeast(n, Cols) - Len(l)) ELSE l

IsCont(l, i) == i \in 1..Len(l) /\ l[i] = Cont

(* clearOverwrittenWideCell: the cell at i is the second half of a character    *)
(* that starts at its left.                                                     *)
ClearOverwritten(l, i) ==
  IF i > 1 /\ IsCont(l, i) /\ l[i - 1] = Wide THEN [l EXCEPT ![i - 1] = Blank, ![i] = Blank] ELSE l

(* clearDanglingContinuationCells: continuations from i on lost their owner.    *)
ClearDangling(l, i) ==
  [j \in 1..Len(l) |-> IF j >= i /\ \A h \in i..j : l[h] = Cont THEN Blank ELSE l[j]]

SetCell(l, i, c) == IF i > Len(l) THEN Append(l, c) ELSE [l EXCEPT ![i] = c]

(* trimLineToBufferCols: cut to the width, drop continuations at the end, and   *)
(* blank an owner in the last column.                                           *)
LineTrimmed(l) ==
  IF Len(l) <= Cols THEN l
  ELSE LET keep == {i \in 1..Cols : l[i] # Cont}
           cut == SubSeq(l, 1, IF keep = {} THEN 0 ELSE CHOOSE i \in keep : \A j \in keep : j <= i)
       IN IF Len(cut) = Cols /\ cut[Cols] = Wide THEN [cut EXCEPT ![Cols] = Blank] ELSE cut

(* sanitizeLineWideCells, left to right: what it has blanked no longer owns.    *)
Sanitized(l) ==
  [i \in 1..Len(l) |->
     IF \/ l[i] = Cont /\ (i = 1 \/ l[i - 1] # Wide)
        \/ l[i] = Wide /\ ~IsCont(l, i + 1)
     THEN Blank ELSE l[i]]

InsertCells(l, c, n) ==
  LET p == Padded(l, c)
  IN Sanitized(LineTrimmed(SubSeq(p, 1, c) \o LineBlanks(n) \o SubSeq(p, c + 1, Len(p))))

DeleteCells(l, c, n) ==
  LET p == Padded(l, c + n)
  IN Sanitized(LineTrimmed(Padded(SubSeq(p, 1, c) \o SubSeq(p, c + n + 1, Len(p)), Cols)))

(* writeChar on the line itself, at a column where the character fits.          *)
Put(l, c, w) ==
  LET ready == ClearOverwritten(Padded(IF insert THEN InsertCells(l, c, w) ELSE l, c), c + 1)
      one == SetCell(ready, c + 1, IF w = 2 THEN Wide ELSE Narrow)
      all == IF w = 2 THEN SetCell(one, c + 2, Cont) ELSE one
  IN ClearDangling(all, c + w + 1)

-----------------------------------------------------------------------------
(* A character is written; past the last column it wraps to an empty line or,   *)
(* with wraparound off, overwrites the end of this one.                         *)
LineWrite(w) ==
  /\ w <= Cols
  /\ IF col + w <= Cols THEN line' = Put(line, col, w) /\ col' = col + w
     ELSE IF wrap THEN line' = Put(<<>>, 0, w) /\ col' = w
     ELSE line' = Put(line, Cols - w, w) /\ col' = Cols
  /\ UNCHANGED <<insert, wrap>>

InsertChars(n) == line' = InsertCells(line, col, n) /\ UNCHANGED <<col, insert, wrap>>

DeleteChars(n) == line' = DeleteCells(line, col, n) /\ UNCHANGED <<col, insert, wrap>>

(* CSI X erases at least one cell, the one past the end included.               *)
EraseChars(n) ==
  LET amount == IF col = Cols THEN 1 ELSE LineLeast(n, Cols - col)
      cells == col + 1..col + amount
      opened == ClearOverwritten(Padded(line, col + amount), col + 1)
      erased == [i \in 1..Len(opened) |-> IF i \in cells THEN Blank ELSE opened[i]]
  IN /\ line' = IF col = Cols THEN LineTrimmed(Append(Padded(line, Cols), Blank))
                ELSE LineTrimmed(ClearDangling(erased, col + amount + 1))
     /\ UNCHANGED <<col, insert, wrap>>

(* CSI K: 0 from the cursor, 1 up to it, 2 the whole line.  The first two blank *)
(* cells one by one, and repair nothing; CSI J blanks the cursor's line so too. *)
EraseLine(mode) ==
  /\ line' = CASE mode = 0 -> [i \in 1..Cols |-> IF i > col THEN Blank ELSE Padded(line, Cols)[i]]
               [] mode = 1 -> [i \in 1..Len(Padded(line, LineLeast(Cols, col + 1))) |->
                                 IF i <= col + 1 THEN Blank ELSE line[i]]
               [] mode = 2 -> LineBlanks(Cols)
  /\ UNCHANGED <<col, insert, wrap>>

(* Carriage return, backspace, CSI C, D and G.                                  *)
MoveTo(c) == col' = c /\ UNCHANGED <<line, insert, wrap>>

SetMode ==
  /\ insert' \in BOOLEAN /\ wrap' \in BOOLEAN
  /\ UNCHANGED <<line, col>>

LineNext ==
  \/ \E w \in 1..2 : LineWrite(w)
  \/ \E n \in 1..Cols : InsertChars(n) \/ DeleteChars(n) \/ EraseChars(n)
  \/ \E m \in 0..2 : EraseLine(m)
  \/ \E c \in 0..Cols : MoveTo(c)
  \/ SetMode

LineSpec == LineInit /\ [][LineNext]_lineVars

-----------------------------------------------------------------------------
(* Halves of wide characters: an owner without its continuation at its right, a *)
(* continuation without its owner at its left.                                  *)
HalvesOf(l) ==
  {i \in 1..Len(l) : \/ l[i] = Wide /\ ~IsCont(l, i + 1)
                     \/ l[i] = Cont /\ (i = 1 \/ l[i - 1] # Wide)}

(* Characters inserted and deleted leave no half on the line, whatever was cut  *)
(* there before.  Of the other edits only the erasures that stop at the cursor  *)
(* or at the end of the line cut a character, the one under their edge.         *)
WideIntact ==
  line' # line =>
    LET cut == HalvesOf(line') \ HalvesOf(line)
    IN /\ (\E n \in 1..Cols : InsertChars(n) \/ DeleteChars(n)) => HalvesOf(line') = {}
       /\ cut # {} => \/ EraseLine(0) /\ cut = {col}
                      \/ EraseLine(1) /\ cut = {col + 2}
                      \/ col = Cols /\ EraseChars(1) /\ cut = {Cols - 1}

(* An edit before the end of the line leaves the text at the left of the        *)
(* cursor alone, but for the one character the cursor stands inside of and for  *)
(* halves, which are blanked; only CSI K 1 is to erase it.                      *)
LeftKept ==
  line' # line /\ line' # <<>> /\ col' = col /\ col < Cols /\ line' # LineBlanks(Cols) /\ ~EraseLine(1)
    => \A i \in 1..(col - 1) :
         i <= Len(line) =>
           /\ i <= Len(line')
           /\ (line'[i] = line[i] \/ (i \in HalvesOf(line) /\ line'[i] = Blank))

-----------------------------------------------------------------------------
(* The rows of the mini-program's terminal: the normal buffer with its hidden   *)
(* history, the alternate screen, the scroll region, the cursor and its saved   *)
(* copy (pages/terminal/terminalBufferState.js and vtInputHandler.js).  Output  *)
(* is applied in slices: between two of them the state is committed, the oldest *)
(* rows are trimmed and the rest is loaded again.  Columns are a line's part;   *)
(* a row here is blank or holds text, and the rows of the alternate screen,     *)
(* which every entry blanks, are not told apart.                                *)
CONSTANTS Rows,        \* bufferRows
          MaxEntries,  \* rows kept at the end of a slice
          MaxRows,     \* bound: rows of the normal buffer
          Tops, Bottoms,  \* the scroll regions programs set
          Twin         \* the same output is also applied in one slice

VARIABLES vt,        \* the state the slices advance
          whole,    \* the same output in one slice
          entry     \* the cursor of the normal buffer when 1049 left it, or -1

screenVars == <<vt, whole, entry>>

(* modes.originMode is read from the state by absolute moves (live) and from    *)
(* the object the slice started with by relative ones (held).                   *)
Fresh ==
  [rows |-> <<"blank">>, alt |-> FALSE, cur |-> 0, saved |-> 0, top |-> 0, bot |-> Rows - 1,
   live |-> FALSE, held |-> FALSE, split |-> FALSE,
   normal |-> [cur |-> 0, saved |-> 0, top |-> 0, bot |-> Rows - 1]]

ScreenInit == vt = Fresh /\ whole = Fresh /\ entry = -1

-----------------------------------------------------------------------------
Most(a, b) == IF a > b THEN a ELSE b
ScreenLeast(a, b) == IF a < b THEN a ELSE b
ScreenBlanks(n) == [i \in 1..n |-> "blank"]

(* getViewportBaseRow and getScrollBounds, zero based. *)
BaseOf(rows) == Most(0, Len(rows) - Rows)
Base(x) == IF x.alt THEN 0 ELSE BaseOf(x.rows)
Top(x) == Base(x) + x.top
Bottom(x) == Base(x) + x.bot
ViewBottom(x) == Base(x) + Rows - 1

(* ensureLine; JS splices clamp the position to the length. *)
Ensured(x) ==
  IF x.alt \/ Len(x.rows) > x.cur THEN x
  ELSE [x EXCEPT !.rows = @ \o ScreenBlanks(x.cur + 1 - Len(@))]
InsertedAt(rows, i) == LET p == ScreenLeast(i, Len(rows)) IN SubSeq(rows, 1, p) \o <<"blank">> \o SubSeq(rows, p + 1, Len(rows))
RemovedAt(rows, i) == IF i < Len(rows) THEN SubSeq(rows, 1, i) \o SubSeq(rows, i + 2, Len(rows)) ELSE rows

At(x, row) == Ensured([x EXCEPT !.cur = row])

(* setCursorRowWithinActiveBuffer, ...WithinVisibleViewport, ...OriginRegion    *)
(* and resolveAbsoluteCursorRow.                                                *)
Below(x, row) == At(x, IF x.alt THEN ScreenLeast(Rows - 1, row) ELSE row)
ScreenVisible(x, row) == [x EXCEPT !.cur = IF x.alt THEN ScreenLeast(Rows - 1, Most(0, row)) ELSE Most(Base(x), row)]
InRegion(x, row) == At(x, Most(Top(x), ScreenLeast(row, Bottom(x))))
Absolute(x, row, inside) ==
  Base(x) + (IF inside THEN Most(x.top, ScreenLeast(row, x.bot)) ELSE ScreenLeast(row, Rows - 1))

-----------------------------------------------------------------------------
(* One row scrolls.  Out of the top of the normal screen it becomes history.    *)
ScrolledUp(x) ==
  IF x.alt THEN x
  ELSE IF x.top = 0 THEN [x EXCEPT !.rows = InsertedAt(@, Bottom(x) + 1)]
  ELSE [x EXCEPT !.rows = InsertedAt(RemovedAt(@, Top(x)), Bottom(x))]

ScrolledDown(x) ==
  IF x.alt THEN x ELSE [x EXCEPT !.rows = RemovedAt(InsertedAt(@, Top(x)), Bottom(x) + 1)]

Outside(x) == x.cur < Top(x) \/ x.cur > Bottom(x)

(* moveToNextLine, indexDown and nextLine: they differ in the column. *)
LineFeed(x) ==
  IF Outside(x) THEN At(x, ScreenLeast(ViewBottom(x), x.cur + 1))
  ELSE IF x.cur >= Bottom(x) THEN LET y == ScrolledUp(x) IN At(y, Bottom(y))
  ELSE At(x, x.cur + 1)

ReverseIndex(x) ==
  IF ~Outside(x) /\ x.cur <= Top(x) THEN At(ScrolledDown(x), Top(x))
  ELSE Ensured(ScreenVisible(x, x.cur - 1))

(* CSI A and F, CSI B and E, CSI H and d. *)
CursorUp(x, n) == IF x.held THEN InRegion(x, x.cur - n) ELSE ScreenVisible(x, x.cur - n)
CursorDown(x, n) == IF x.held THEN InRegion(x, x.cur + n) ELSE Below(x, x.cur + n)
CursorTo(x, row) == At(x, Absolute(x, (IF x.live THEN x.top ELSE 0) + row, x.live))

Written(x) == IF x.alt THEN x ELSE [Ensured(x) EXCEPT !.rows[x.cur + 1] = "text"]

(* CSI J: from the cursor, up to it, everything (history included). *)
EraseBelow(x) ==
  IF x.alt THEN x ELSE [x EXCEPT !.rows = [i \in 1..Len(@) |-> IF i > x.cur + 1 THEN "blank" ELSE @[i]]]
EraseAbove(x) ==
  IF x.alt THEN x ELSE [x EXCEPT !.rows = [i \in 1..Len(@) |-> IF i <= x.cur THEN "blank" ELSE @[i]]]
EraseAll(x) == IF x.alt THEN x ELSE [x EXCEPT !.rows = ScreenBlanks(Most(Rows, x.cur + 1))]

InsertLine(x) ==
  IF Outside(x) \/ x.alt THEN x ELSE [x EXCEPT !.rows = RemovedAt(InsertedAt(@, x.cur), Bottom(x) + 1)]
DeleteLine(x) ==
  IF Outside(x) \/ x.alt THEN x ELSE [x EXCEPT !.rows = InsertedAt(RemovedAt(@, x.cur), Bottom(x))]

(* setScrollRegion, which moves the cursor home. *)
SetRegion(x, r) ==
  LET y == [x EXCEPT !.top = r[1], !.bot = r[2]]
  IN [y EXCEPT !.cur = Absolute(y, IF x.held THEN y.top ELSE 0, x.held)]

SetOrigin(x, on) ==
  LET y == [x EXCEPT !.live = on, !.held = IF x.split THEN @ ELSE on]
  IN At(y, IF on THEN Top(y) ELSE Base(y))

(* softResetTerminal: the modes are a new object, the slice keeps the old one.  *)
SoftReset(x) == [x EXCEPT !.live = FALSE, !.split = TRUE, !.top = 0, !.bot = Rows - 1, !.saved = 0]

-----------------------------------------------------------------------------
SaveCursor(x) == [x EXCEPT !.saved = x.cur]
RestoreCursor(x) == At(x, IF x.alt THEN ScreenLeast(Rows - 1, x.saved) ELSE x.saved)

(* loadActiveBuffer: a bottom of zero counts as missing. *)
Loaded(x) == Ensured([x EXCEPT !.bot = IF @ = 0 THEN Rows - 1 ELSE @])

Screen(x) == [cur |-> x.cur, saved |-> x.saved, top |-> x.top, bot |-> x.bot]
OnScreen(x, b) == [x EXCEPT !.cur = b.cur, !.saved = b.saved, !.top = b.top, !.bot = b.bot]

(* switchActiveBuffer. *)
EnterAlt(x) ==
  LET kept == IF x.alt THEN x ELSE [x EXCEPT !.normal = Screen(x)]
  IN OnScreen([kept EXCEPT !.alt = TRUE], Fresh.normal)
LeaveAlt(x) ==
  IF x.alt THEN Loaded(OnScreen([x EXCEPT !.alt = FALSE, !.normal = Fresh.normal], x.normal))
  ELSE Loaded(x)

(* DECSET and DECRST 1049. *)
Enter1049SavesAfter(x) == SaveCursor(EnterAlt(x))
Enter1049(x) == EnterAlt(SaveCursor(x))
Leave1049(x) == RestoreCursor(LeaveAlt(x))

(* The end of applySanitizedTerminalOutput, and the start of the next one.      *)
ScreenTrimmed(x) ==
  LET gone == Most(0, Len(x.rows) - MaxEntries)
  IN IF x.alt THEN x ELSE [x EXCEPT !.rows = SubSeq(@, gone + 1, Len(@)), !.cur = Most(0, @ - gone)]
Clamped(x) == [x EXCEPT !.cur = ScreenLeast(@, IF x.alt THEN Rows - 1 ELSE Len(x.rows) - 1)]
NextSlice(x) == [Loaded(Clamped(ScreenTrimmed(x))) EXCEPT !.held = x.live, !.split = FALSE]

(* A new batch of output starts from a copy: normalizeScreenBuffer. *)
NextBatch(x) ==
  LET y == NextSlice(x)
  IN [y EXCEPT !.saved = ScreenLeast(@, IF y.alt THEN Rows - 1 ELSE Len(y.rows) - 1)]

-----------------------------------------------------------------------------
Do(Op(_)) ==
  /\ vt' = Op(vt)
  /\ whole' = IF Twin THEN Op(whole) ELSE whole
  /\ Len(vt'.rows) <= MaxRows /\ Len(whole'.rows) <= MaxRows
Stay == entry' = entry

Moves ==
  \/ Do(LineFeed) \/ Do(ReverseIndex) \/ Do(Written)
  \/ \E n \in 1..2 : Do(LAMBDA x : CursorUp(x, n)) \/ Do(LAMBDA x : CursorDown(x, n))
  \/ \E row \in 0..Rows - 1 : Do(LAMBDA x : CursorTo(x, row))

Edits ==
  \/ Do(ScrolledUp) \/ Do(ScrolledDown) \/ Do(InsertLine) \/ Do(DeleteLine) \/ Do(EraseBelow)
  \/ Do(EraseAbove) \/ Do(EraseAll)

Modes ==
  \/ \E r \in {q \in Tops \X Bottoms : q[1] <= q[2]} : Do(LAMBDA x : SetRegion(x, r))
  \/ \E on \in BOOLEAN : Do(LAMBDA x : SetOrigin(x, on))
  \/ Do(SoftReset)
  \/ Do(SaveCursor)
  \/ Do(RestoreCursor)

Leave(Op(_)) ==
  /\ Do(Op)
  /\ entry' = -1

EndSlice ==
  /\ \/ vt' = NextSlice(vt) \/ vt' = NextBatch(vt)
  /\ UNCHANGED <<whole, entry>>

ScreenNext ==
  \/ Moves /\ Stay
  \/ Edits /\ Stay
  \/ Modes /\ Stay
  \/ Do(EnterAlt) /\ entry' = IF vt.alt THEN entry ELSE -1
  \/ Do(Enter1049) /\ entry' = IF vt.alt THEN entry ELSE vt.cur
  \/ Leave(LeaveAlt)
  \/ Leave(Leave1049)
  \/ EndSlice

ScreenSpec == ScreenInit /\ [][ScreenNext]_screenVars

-----------------------------------------------------------------------------
InSight(x) == x.cur >= Base(x) /\ x.cur <= ViewBottom(x)

(* Two things take the cursor off the visible screen: a place that was saved,   *)
(* or left for the alternate screen, and has scrolled out since is gone back    *)
(* to, and the region scrolls up under a cursor in the first row of the screen. *)
(* Output then continues inside the hidden history; a program that addresses    *)
(* the cursor or moves it up brings it back.                                    *)
CursorOnScreen ==
  vt'.cur # vt.cur \/ vt'.rows # vt.rows \/ vt'.alt # vt.alt =>
    /\ InSight(vt) /\ ~InSight(vt') =>
         \/ /\ vt' \in {RestoreCursor(vt), LeaveAlt(vt), Leave1049(vt)}
            /\ vt'.cur \in {vt.saved, vt.normal.cur, vt.normal.saved}
         \/ vt' = ScrolledUp(vt) /\ vt.cur = Base(vt) /\ vt.top = 0
    /\ /\ vt'.cur # vt.cur
       /\ (vt' = CursorUp(vt, 1) \/ \E row \in 0..Rows - 1 : vt' = CursorTo(vt, row))
       => InSight(vt')

(* Rows that left the screen stay as they were until they are trimmed, as long  *)
(* as the cursor is on the screen and no display is erased up to the cursor or  *)
(* as a whole, which takes the history along.                                   *)
HistoryKept ==
  \/ vt'.rows = vt.rows
  \/ \A i \in 1..BaseOf(vt.rows) : i <= Len(vt'.rows) /\ vt'.rows[i] = vt.rows[i]
  \/ \E k \in 1..Len(vt.rows) : vt'.rows = SubSeq(vt.rows, k + 1, Len(vt.rows))
  \/ vt' \in {EraseAbove(vt), EraseAll(vt)}
  \/ ~InSight(vt)

(* A full-screen program entered and left with 1049 gives back the cursor it    *)
(* found, whatever it saved, reset or scrolled meanwhile.                       *)
RoundTrip == entry # -1 /\ vt.alt /\ ~vt'.alt => vt'.cur = entry

Final(x) == LET y == NextBatch(x) IN <<y.alt, y.rows, y.cur, y.top, y.bot, y.live>>

-----------------------------------------------------------------------------
(* From the chunks of the gateway to the terminal of the mini-program:          *)
(* consumeTerminalSyncUpdateFrames holds back half a control sequence and the   *)
(* text of a synchronized update (mode 2026), the page queues what is ready,    *)
(* and takeTerminalReplaySlice cuts it into slices that are normalized and      *)
(* applied one by one (vtParser.js and appendOutput of pages/terminal).         *)
(*   A token is text "x", a control sequence "c", the begin "h" or the end "l"  *)
(* of an update, or a charset designator "d" (ESC ( B).  All but text arrive in *)
(* two halves, <<t, 1>> and <<t, 2>>, between which a chunk may end.            *)
CONSTANTS Tokens,     \* the tokens programs write
          MaxTokens,  \* bound: tokens written
          Slices      \* a batch may be cut into several slices

VARIABLES sent,      \* tokens the program wrote
          pending,   \* halves on the way to the page
          sync,      \* the state of consumeTerminalSyncUpdateFrames
          queue,     \* halves ready for the terminal
          screen     \* what the terminal acted on, half by half

streamVars == <<sent, pending, sync, queue, screen>>

Halves(t) == IF t = "x" THEN << <<"x", 1>> >> ELSE << <<t, 1>>, <<t, 2>> >>

(* createTerminalSyncUpdateState; "current" is bufferedText between two chunks. *)
Start == [depth |-> 0, carry |-> <<>>, current |-> <<>>, ready |-> <<>>]

StreamInit == sent = <<>> /\ pending = <<>> /\ sync = Start /\ queue = <<>> /\ screen = <<>>

-----------------------------------------------------------------------------
FlushCurrent(f) == [f EXCEPT !.ready = @ \o f.current, !.current = <<>>]

Begin(f) == LET g == IF f.depth = 0 THEN FlushCurrent(f) ELSE f IN [g EXCEPT !.depth = @ + 1]
End(f) ==
  LET g == [f EXCEPT !.depth = IF @ > 0 THEN @ - 1 ELSE 0]
  IN IF f.depth = 1 THEN FlushCurrent(g) ELSE g

(* One half after the other.  ESC with one character is a sequence of its own   *)
(* here, so the two halves of a designator are not held together.               *)
Feed(f, u) ==
  CASE u[1] \in {"c", "h", "l"} /\ u[2] = 1 -> [f EXCEPT !.carry = <<u>>]
    [] u = <<"h", 2>> -> Begin([f EXCEPT !.carry = <<>>])
    [] u = <<"l", 2>> -> End([f EXCEPT !.carry = <<>>])
    [] u = <<"c", 2>> -> [f EXCEPT !.current = @ \o f.carry \o <<u>>, !.carry = <<>>]
    [] u[1] \in {"x", "d"} -> [f EXCEPT !.current = Append(@, u)]

(* The end of a chunk: outside of an update all is ready. *)
Consume(chunk, f) ==
  LET g == FoldLeft(Feed, f, chunk) IN IF g.depth > 0 THEN g ELSE FlushCurrent(g)

(* takeTerminalReplaySlice never ends between the halves of a control sequence. *)
SafeEndAnywhere(text, n) == n > 0

SafeEnd(text, n) == n > 0 /\ ~(text[n] = <<"c", 1>>)

(* normalizeTerminalReplayText drops the designators that are whole. *)
Normalized(slice) ==
  LET gone == {i \in 1..Len(slice) :
                 \/ slice[i] = <<"d", 1>> /\ i < Len(slice) /\ slice[i + 1] = <<"d", 2>>
                 \/ slice[i] = <<"d", 2>> /\ i > 1 /\ slice[i - 1] = <<"d", 1>>}
      kept == {i \in 1..Len(slice) : i \notin gone}
  IN FoldLeft(LAMBDA acc, i : IF i \in kept THEN Append(acc, slice[i]) ELSE acc, <<>>, [i \in 1..Len(slice) |-> i])

-----------------------------------------------------------------------------
StreamWrite(t) ==
  /\ Len(sent) < MaxTokens
  /\ sent' = Append(sent, t)
  /\ pending' = pending \o Halves(t)
  /\ UNCHANGED <<sync, queue, screen>>

(* appendOutput with a chunk cut anywhere. *)
Chunk(n) ==
  LET f == Consume(SubSeq(pending, 1, n), sync)
  IN /\ pending' = SubSeq(pending, n + 1, Len(pending))
     /\ sync' = [f EXCEPT !.ready = <<>>]
     /\ queue' = queue \o f.ready
     /\ UNCHANGED <<sent, screen>>

(* One slice is applied; what a slice cannot end in would be carried. *)
Apply(n) ==
  /\ SafeEnd(queue, n)
  /\ n = Len(queue) \/ Slices
  /\ screen' = screen \o Normalized(SubSeq(queue, 1, n))
  /\ queue' = SubSeq(queue, n + 1, Len(queue))
  /\ UNCHANGED <<sent, pending, sync>>

StreamNext ==
  \/ \E t \in Tokens : StreamWrite(t)
  \/ \E n \in 1..Len(pending) : Chunk(n)
  \/ \E n \in 1..Len(queue) : Apply(n)

StreamSpec == StreamInit /\ [][StreamNext]_streamVars

-----------------------------------------------------------------------------
(* What a stream of tokens shows, told without chunks: an update counts from    *)
(* its outermost begin to the end that closes it, and nothing of an open one.   *)
RECURSIVE DepthAfter(_, _)
DepthAfter(s, i) ==
  IF i = 0 THEN 0
  ELSE LET d == DepthAfter(s, i - 1)
       IN IF s[i] = "h" THEN d + 1 ELSE IF s[i] = "l" /\ d > 0 THEN d - 1 ELSE d

StreamVisible(s) ==
  LET closed == {i \in 1..Len(s) : \E j \in i..Len(s) : DepthAfter(s, j) = 0}
  IN FoldLeft(LAMBDA acc, i : IF i \in closed /\ s[i] \in {"x", "c"} THEN acc \o Halves(s[i]) ELSE acc,
              <<>>, [i \in 1..Len(s) |-> i])

(* Half a designator is taken for text.                                         *)
Drawn == SelectSeq(screen, LAMBDA u : u[1] # "d")

(* Wherever the chunks end and the slices are cut, the terminal acts on the     *)
(* visible tokens, whole and in order; a designator that shows was cut in two,  *)
(* and shows as its two halves side by side.                                    *)
CutsDoNotShow ==
  /\ IsPrefix(Drawn, StreamVisible(sent))
  /\ Drawn # <<>> => Last(Drawn) # <<"c", 1>>
  /\ \A i \in 1..Len(screen) :
       /\ screen[i] = <<"d", 1>> => i = Len(screen) \/ screen[i + 1] = <<"d", 2>>
       /\ screen[i] = <<"d", 2>> => i > 1 /\ screen[i - 1] = <<"d", 1>>

(* Once all has arrived and was applied, nothing visible is missing. *)
NothingIsLost == pending = <<>> /\ queue = <<>> => Drawn = StreamVisible(sent)

=============================================================================
