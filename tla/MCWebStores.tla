---------------------------- MODULE MCWebStores -----------------------------
(***************************************************************************)
(* What the web client keeps in the browser: the host keys it trusts, its  *)
(* servers and their credentials, memos, session logs, settings, and       *)
(* plugins. Each has its own rows of IndexedDB or localStorage and shares  *)
(* nothing that is modelled with the others; one run explores each of      *)
(* them.                                                                   *)
(***************************************************************************)
EXTENDS WebHostKeys

CONSTANTS r1, r2, s1, s2, k1, k2, k3, l1, l2, l3, General, Work, Old, t1, t2

VARIABLES
    part,  \* the component this behaviour is of
    \* WebServers
    mem, listedLoaded, selected, checked, drag, remove, save, queue, listedDisk, shown,
    stored, refs, rows, sess, pers, listedPolicy, form, tasks, last, hurt,
    \* WebStores
    storesMem, recordsDisk, storesQueue, recordsLoaded, at, recordsPage, filter, edit,
    recordsTimer, quick, swiped, recordsWanted, logs, logsDisk, boot, read, current,
    used, settingsDisk, storesWrites, settings, settingsLoaded, settingsPage, draft,
    storesSelected, settingsTimer, saveStatus, left, stale, settingsWanted, failed,
    edits, fails,
    \* WebPlugins
    pkg, pluginsStored, objs, map, slots, run, cmd, debris, op, booted, choice

TwoRoutes == {<<"server">>, <<"jump", "server">>}

Listed == INSTANCE WebServers WITH
    Servers <- {1, 2, 3}, Used <- {"remove", "save", "drag"}, Overlaps <- {},
    MaxWrites <- 2, loaded <- listedLoaded, disk <- listedDisk, Refs <- {r1, r2},
    Secrets <- {s1, s2}, Keys <- {k1, k2, k3}, Policies <- {"remember", "forget"},
    Hasty <- {}, MaxTasks <- 2, policy <- listedPolicy
Hurried == INSTANCE WebServers WITH
    Servers <- {1, 2, 3}, Used <- {}, Overlaps <- {}, MaxWrites <- 2,
    loaded <- listedLoaded, disk <- listedDisk, Refs <- {r1}, Secrets <- {s1, s2},
    Keys <- {k1, k2, k3}, Policies <- {"remember", "forget"}, Hasty <- {"save"},
    MaxTasks <- 2, policy <- listedPolicy
Moved == INSTANCE WebServers WITH
    Servers <- {1, 2, 3}, Used <- {"drag", "mark", "save"},
    Overlaps <- {"drag", "mark", "save", "boot"}, MaxWrites <- 2,
    loaded <- listedLoaded, disk <- listedDisk, Refs <- {r1, r2}, Secrets <- {s1, s2},
    Keys <- {k1, k2, k3}, Policies <- {"remember", "forget"}, Hasty <- {},
    MaxTasks <- 2, policy <- listedPolicy
Stores == INSTANCE WebStores WITH
    Ids <- {r1, r2}, Texts <- {t1, t2}, Categories <- {General, Work, Old},
    Offered <- {General, Work}, RecordsFallback <- General, Default <- Work,
    PageSize <- 1, Hasty <- FALSE, RecordsMaxWrites <- 2, mem <- storesMem,
    queue <- storesQueue, Logs <- {l1, l2, l3},
    Ends <- {"lost", "told", "error", "refused"},
    Reading <- FALSE, MaxMarks <- 1, Names <- {"other", "idea", "todo"},
    SettingsFallback <- "other", Usual <- "idea", Start <- <<"other", "idea">>,
    MaxCats <- 3, MaxEdits <- 2, MaxFails <- 1, SettingsMaxWrites <- 2, Also <- {},
    writes <- storesWrites, selected <- storesSelected
Left == INSTANCE WebStores WITH
    Ids <- {r1, r2}, Texts <- {t1, t2}, Categories <- {General, Work, Old},
    Offered <- {General, Work}, RecordsFallback <- General, Default <- Work,
    PageSize <- 1, Hasty <- FALSE, RecordsMaxWrites <- 2, mem <- storesMem,
    queue <- storesQueue, Logs <- {l1, l2, l3},
    Ends <- {"lost", "told", "error", "refused", "manual", "switch", "killed"},
    Reading <- FALSE, MaxMarks <- 1, Names <- {"other", "idea", "todo"},
    SettingsFallback <- "other", Usual <- "idea", Start <- <<"other">>, MaxCats <- 2,
    MaxEdits <- 2, MaxFails <- 1, SettingsMaxWrites <- 2, Also <- {"early", "leave"},
    writes <- storesWrites, selected <- storesSelected
Everything == {"install", "enable", "disable", "reload", "remove"}
Plugins == INSTANCE WebPlugins WITH
    Ops <- {"a"}, Asked <- [p \in {"a"} |-> Everything], Fuse <- 3, MaxSlots <- 2, Registers <- BOOLEAN, stored <- pluginsStored
Crossed == INSTANCE WebPlugins WITH
    Ops <- {"a", "b"}, Asked <- [a |-> {"enable", "disable"}, b |-> Everything], Fuse <- 1, MaxSlots <- 2, Registers <- {FALSE}, stored <- pluginsStored

serversVars == <<mem, listedLoaded, selected, checked, drag, remove, save, queue,
                 listedDisk, shown>>
secretsVars == <<stored, refs, rows, sess, pers, listedPolicy, form, tasks, last, hurt>>
recordsVars == <<storesMem, recordsDisk, storesQueue, recordsLoaded, at, recordsPage,
                 filter, edit, recordsTimer, quick, swiped, recordsWanted>>
logsVars == <<logs, logsDisk, boot, read, current, used>>
settingsVars == <<settingsDisk, storesWrites, settings, settingsLoaded, settingsPage,
                  draft, storesSelected, settingsTimer, saveStatus, left, stale,
                  settingsWanted, failed, edits, fails>>
pluginsVars == <<pkg, pluginsStored, objs, map, slots, run, cmd, debris, op, booted,
                 choice>>

\* One component runs, the others stay as they start.
Parts == {"keys", "servers", "moved", "secrets", "hurried", "records", "logs", "logsLeft",
           "settings", "settingsLeft", "plugins", "crossed"}
all == <<part, vars, serversVars, secretsVars, recordsVars, logsVars, settingsVars,
         pluginsVars>>

StoresInit ==
  /\ part \in Parts
  /\ Init
  /\ part # "keys" => \A h \in Hosts : keyOf[h] = "old"
  /\ Listed!ServersInit
  /\ IF part = "hurried" THEN Hurried!CredInit ELSE Listed!CredInit
  /\ part \notin {"secrets", "hurried"} => listedPolicy = "forget"
  /\ Stores!RecordsInit
  /\ part # "records" => recordsDisk = Stores!Nothing
  /\ Stores!LogsInit
  /\ IF part = "settingsLeft" THEN Left!SettingsInit ELSE Stores!SettingsInit
  /\ part \notin {"settings", "settingsLeft"} => settingsDisk = Stores!DefaultSettings
  /\ IF part = "crossed" THEN Crossed!Init ELSE Plugins!Init
  /\ part \notin {"plugins", "crossed"} => pkg

StoresNext ==
  /\ UNCHANGED part
  /\ IF part = "keys" THEN Next ELSE UNCHANGED vars
  /\ IF part = "servers" THEN Listed!ServersNext
     ELSE IF part = "moved" THEN Moved!ServersNext
     ELSE UNCHANGED serversVars
  /\ IF part = "secrets" THEN Listed!CredNext
     ELSE IF part = "hurried" THEN Hurried!CredNext
     ELSE UNCHANGED secretsVars
  /\ IF part = "records" THEN Stores!RecordsNext ELSE UNCHANGED recordsVars
  /\ IF part = "logs" THEN Stores!LogsNext
     ELSE IF part = "logsLeft" THEN Left!LogsNext
     ELSE UNCHANGED logsVars
  /\ IF part = "settings" THEN Stores!SettingsNext
     ELSE IF part = "settingsLeft" THEN Left!SettingsNext
     ELSE UNCHANGED settingsVars
  /\ IF part = "plugins" THEN Plugins!Next
     ELSE IF part = "crossed" THEN Crossed!Next
     ELSE UNCHANGED pluginsVars

StoresSpec == StoresInit /\ [][StoresNext]_all

-----------------------------------------------------------------------------
\* Once nothing is in flight, what a page shows is what a reload would show:
\* the list of servers and its order, the memos, the logs, a settings page that
\* says "saved" (with each category once).  In between,
\* what is stored is something the user was shown.
ShownIsStored ==
  /\ Listed!ReloadKeepsOrder /\ Listed!StoredWasShown
  /\ part # "moved" => Listed!PointersAreListed
  /\ Stores!StoreMatches /\ Stores!PageExists
  /\ Stores!PageShowsStored
  /\ Stores!SettingsTypeOK /\ Stores!SavedIsStored

\* Once nothing waits, what the user entered last is what is stored, and what
\* is stored can be read again: the secret of a server, the text and category
\* of a memo, the settings, and of a log that its session has ended (a log
\* whose session ended while the page was away, "logsLeft", and a draft that
\* was left, "settingsLeft", are excepted).  A log once stored is never lost,
\* and one that ended changes only while its socket is there (Stores!LogsOnlyGrow).
InputIsStored ==
  /\ [](/\ IF part = "hurried" THEN Hurried!SavedIsThere ELSE Listed!SavedIsIntended
        /\ Listed!AsideIsStored /\ Listed!Remembered
        /\ Stores!LastInputKept
        /\ part = "logs" => Stores!EndIsLogged
        /\ part # "settingsLeft" => Stores!EditsAreStored)
  /\ Stores!LogsOnlyGrow

\* Once nothing is under way a plugin runs exactly when its record says so, also
\* after a restart, nothing of a plugin the user stopped is left in the page but
\* what a failed load registered, and one that failed three times is not loaded
\* again.  Where operations of one plugin overlap ("crossed"), what runs is still
\* whole, the fuse holds, and what is stored is what is known (pluginManager.ts).
PluginsAsRecorded ==
  IF part = "crossed"
  THEN Crossed!FuseHolds /\ Crossed!StoredIsKnown /\ Crossed!RunningIsWhole
  ELSE /\ Plugins!FuseHolds /\ Plugins!StoredIsKnown /\ Plugins!RunningIsWhole
       /\ Plugins!EnabledRuns /\ Plugins!RunsAsRecorded /\ Plugins!DisabledIsClean
=============================================================================
