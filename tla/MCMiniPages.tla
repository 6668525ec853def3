---------------------------- MODULE MCMiniPages -----------------------------
(***************************************************************************)
(* The other pages of the mini program, what they store, and how its       *)
(* phones synchronise rows: plugins, records, servers, settings, the       *)
(* storage under them, the picker of a remote directory and the listing it *)
(* shows. One run explores each of them.                                   *)
(***************************************************************************)
EXTENDS MiniRecords, MiniSync, TLC

CONSTANTS a, b, r1, r2, r3, General, Work, t1, t2, s1, s2, s3, h1, h2, NoHost

VARIABLES
    part,  \* the component this behaviour is of
    \* MiniPlugins
    k, v, t, bus,
    \* MiniServers
    listStore, shown, servers, query, rows, selected, all, offset, drawn, swipe, finger,
    asked, drag, dialog, merges,
    \* MiniSettings
    form, visible, setupSelected, status, pending, setupTimer, setupFinger, setupAsked,
    setupDrag, locked, stored, setupCloud, pull, upload, now, setupAway, primary, backup,
    legacy, up, last, setupShown, ran, upgrades,
    \* DirPicker
    page, draft, pickerTyped, pickerStored, autosave, cache, prefetch, seq,
    pickerVisible, loading, error, pickerSelected, tree, tasks, hop, connected,
    attempts, pickerTimer, buffer, collecting, done, lines, outcome, names, socket,
    listing, shell, hangs, listingTyped, early, out

\* What the user does in a run about the swiped rows of a page.
Swipes == {"create", "edit", "swipe", "delete", "settings", "sync"}

Plugins == INSTANCE MiniPlugins WITH
    Ops <- {"a"}, Fuse <- 3
Crossed == INSTANCE MiniPlugins WITH
    Ops <- {"a", "b"}, Fuse <- 1
Swiped == INSTANCE MiniRecords WITH
    Ids <- {r1, r2}, Texts <- {t1}, Categories <- {General, Work}, Fallback <- General,
    PageSize <- 2, Used <- Swipes, SyncWhen <- {"away", "listed", "editing"}
List == INSTANCE MiniServers WITH
    Ids <- {s1, s2, s3}, Start <- <<s1, s2>>, Matching <- {s1}, MaxMerges <- 1,
    Uploads <- FALSE, Patient <- FALSE, store <- listStore
Waiting == INSTANCE MiniServers WITH
    Ids <- {s1, s2, s3}, Start <- <<s1, s2>>, Matching <- {s1}, MaxMerges <- 1,
    Uploads <- TRUE, Patient <- TRUE, store <- listStore
Setup == INSTANCE MiniSettings WITH
    Names <- {"other", "idea", "todo"}, Fallback <- "other", Usual <- "idea",
    Start <- <<"other", "idea", "todo">>, MaxCats <- 3, MaxSaves <- 2,
    Downloads <- FALSE, Patient <- TRUE, selected <- setupSelected, timer <- setupTimer,
    finger <- setupFinger, asked <- setupAsked, drag <- setupDrag, away <- setupAway,
    Rows <- {r1, r2, r3}, Starts <- {"new", "current", "former"}, Faults <- {},
    MaxUpgrades <- 2, shown <- setupShown, cloud <- setupCloud
Killed == INSTANCE MiniSettings WITH
    Names <- {"other", "idea", "todo"}, Fallback <- "other", Usual <- "idea",
    Start <- <<"other", "idea", "todo">>, MaxCats <- 3, MaxSaves <- 2,
    Downloads <- FALSE, Patient <- TRUE, selected <- setupSelected, timer <- setupTimer,
    finger <- setupFinger, asked <- setupAsked, drag <- setupDrag, away <- setupAway,
    Rows <- {r1, r2}, Starts <- {"new", "current", "former"}, Faults <- {"kill"},
    MaxUpgrades <- 2, shown <- setupShown, cloud <- setupCloud
Picker == INSTANCE DirPicker WITH
    Hosts <- {h1, h2}, Deep <- 1, Depth <- (h1 :> 1) @@ (h2 :> 0), MaxEntries <- 2,
    MaxSeq <- 2, MaxPrefetch <- 1, EditsOpen <- FALSE, Looses <- {FALSE}, Paths <- {0},
    stored <- pickerStored, visible <- pickerVisible, selected <- pickerSelected,
    Listings <- {<<>>, <<"src">>, <<"src", "doc">>, <<"odd", "src">>, <<"cderr">>},
    Hidden <- {"odd"}, Readline <- TRUE, timer <- pickerTimer
Again == INSTANCE DirPicker WITH
    Hosts <- {h1}, Deep <- 1, Depth <- h1 :> 1, MaxEntries <- 1, MaxSeq <- 2,
    MaxPrefetch <- 1, EditsOpen <- FALSE, Looses <- {FALSE}, Paths <- {1},
    stored <- pickerStored, visible <- pickerVisible, selected <- pickerSelected,
    Listings <- {<<>>, <<"src">>, <<"src", "doc">>, <<"odd", "src">>, <<"cderr">>},
    Hidden <- {"odd"}, Readline <- TRUE, timer <- pickerTimer
Full == INSTANCE DirPicker WITH
    Hosts <- {h1, h2}, Deep <- 0, Depth <- (h1 :> 0) @@ (h2 :> 0), MaxEntries <- 1,
    MaxSeq <- 1, MaxPrefetch <- 2, EditsOpen <- FALSE, Looses <- {FALSE}, Paths <- {0},
    stored <- pickerStored, visible <- pickerVisible, selected <- pickerSelected,
    Listings <- {<<>>, <<"src">>, <<"src", "doc">>, <<"odd", "src">>, <<"cderr">>},
    Hidden <- {"odd"}, Readline <- TRUE, timer <- pickerTimer

pluginsVars == <<k, v, t, bus>>
serversVars == <<listStore, shown, servers, query, rows, selected, all, offset, drawn,
                 swipe, finger, asked, drag, dialog, merges>>
settingsVars == <<form, visible, setupSelected, status, pending, setupTimer,
                  setupFinger, setupAsked, setupDrag, locked, stored, setupCloud, pull,
                  upload, now, setupAway>>
storageVars == <<primary, backup, legacy, up, last, setupShown, ran, upgrades>>
pickerVars == <<page, draft, pickerTyped, pickerStored, autosave, cache, prefetch, seq,
                pickerVisible, loading, error, pickerSelected, tree, tasks>>
listingVars == <<hop, connected, attempts, pickerTimer, buffer, collecting, done, lines,
                 outcome, names, socket, listing, shell, hangs, listingTyped, early, out>>

\* One component runs, the others stay as they start; where operations overlap the
\* terminal page stays closed.
Parts == {"records", "swiped", "plugins", "crossed", "rows", "servers", "patient",
           "settings", "storage", "killed", "picker", "again", "full", "listing"}
allVars == <<part, vars, pluginsVars, rowsVars, serversVars, settingsVars, storageVars,
             pickerVars, listingVars, switchVars>>

PagesInit ==
  /\ part \in Parts
  /\ IF part = "swiped" THEN Swiped!Init ELSE Init
  /\ part \notin {"records", "swiped"} => list.rows[1].text = t1 /\ list.rows[1].category = General /\ list.rows[1].id = r1
  /\ IF part = "crossed" THEN Crossed!Init ELSE Plugins!Init
  /\ part \notin {"plugins", "crossed"} => ~k.pkg
  /\ RowsInit /\ SwitchInit
  /\ IF part = "patient" THEN Waiting!Init ELSE List!Init
  /\ Setup!SettingsInit
  /\ Setup!StorageInit
  /\ part \notin {"storage", "killed"} => ~up /\ last = {} /\ primary = None /\ legacy = None
  /\ IF part = "again" THEN Again!PickerInit ELSE IF part = "full" THEN Full!PickerInit ELSE Picker!PickerInit
  /\ part \notin {"picker", "again", "full"} => draft.host = h1
  /\ Picker!ListingInit
  /\ part # "listing" => hangs /\ listing = <<>>

PagesNext ==
  /\ UNCHANGED part
  /\ IF part = "records" THEN Next
     ELSE IF part = "swiped" THEN Swiped!Next
     ELSE UNCHANGED vars
  /\ IF part = "plugins" THEN Plugins!Next
     ELSE IF part = "crossed" THEN Crossed!Next /\ ~t'.shown
     ELSE UNCHANGED pluginsVars
  /\ IF part = "rows" THEN RowsNext ELSE UNCHANGED rowsVars
  /\ UNCHANGED switchVars
  /\ IF part = "servers" THEN List!Next
     ELSE IF part = "patient" THEN Waiting!Next
     ELSE UNCHANGED serversVars
  /\ IF part = "settings" THEN Setup!SettingsNext ELSE UNCHANGED settingsVars
  /\ IF part = "storage" THEN Setup!StorageNext
     ELSE IF part = "killed" THEN Killed!StorageNext
     ELSE UNCHANGED storageVars
  /\ IF part = "picker" THEN Picker!PickerNext
     ELSE IF part = "again" THEN Again!PickerNext
     ELSE IF part = "full" THEN Full!PickerNext
     ELSE UNCHANGED pickerVars
  /\ IF part = "listing" THEN Picker!ListingNext ELSE UNCHANGED listingVars

PagesSpec == PagesInit /\ [][PagesNext]_allVars

-----------------------------------------------------------------------------
\* What the user entered is stored when the page is left, shown as it is stored,
\* listed again by the next process, and uploaded when all is quiet.  After a
\* kill between two writes ("killed") the list is one the user was shown, and a
\* swipe ("swiped") may write rows that the settings have taken away.
InputIsStored ==
    /\ part # "swiped" => LastInputStored /\ RowsAreStored
    /\ Setup!ShownIsStored
    /\ part # "killed" => Setup!ListIsKept
    /\ Setup!ListWasShown

\* The pages show what is there: one row is slid open, the chosen rows exist, a
\* drag has a finger, the settings list each category once and always the
\* fallback, and a plugin is shown and run as it is recorded, also where
\* operations overlap ("crossed"); nothing of a plugin the user stopped is left
\* but what a failed load registered.  And a step of a page makes one record of
\* a draft, and drops a row where it was drawn.
PagesAreCurrent ==
    /\ [](/\ part = "swiped" => OneRowOpen
          /\ List!ChosenIsThere /\ List!OneRowOpen
          /\ part = "servers" => List!PageIsCurrent
          /\ part = "patient" => List!DragHasFinger
          /\ Setup!SettingsTypeOK
          /\ Plugins!StoredIsKnown /\ Plugins!ToldOfStatus
          /\ IF part = "crossed" THEN Crossed!RunsAsRecorded /\ Crossed!PageIsCurrent
             ELSE /\ Plugins!RunsAsRecorded /\ Plugins!EnabledRuns /\ Plugins!RunsWhatIsThere
                  /\ Plugins!DisabledIsClean /\ Plugins!PageIsCurrent)
    /\ OneRecordPerDraft /\ Setup!DropsWhereDrawn
    /\ [][part = "servers" => List!MovesOneRow]_allVars

\* The picker of a remote directory shows the directories of the server in the
\* form, out of a cache of bounded size, and the listing is what the remote
\* printed, asked from a shell and let go of; an opening of the picker is ended
\* by its own reading.
PickerIsOfItsServer ==
    /\ [](/\ part # "again" => Picker!CacheOfItsServer
          /\ part = "listing" => Picker!ListingTypeOK
          /\ part = "picker" => Picker!PickerTypeOK /\ Picker!TreeOfItsServer /\ Picker!OnePrefetchPerServer /\ Picker!TimerHoldsForm
          /\ part = "full" => Full!ResultsBounded
          /\ Picker!NamesAreTheListing /\ Picker!TypedToAShell /\ Picker!Released)
    /\ Picker!OverByItself
=============================================================================
