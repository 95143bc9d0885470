---------------------------- MODULE ConfigStore ----------------------------
(***************************************************************************)
(* The configuration in RAM and the files it comes from: one for all games *)
(* and one per game that the user asked for.  bt_fb_task loads the file of *)
(* a game when the console tells its id.  The handlers of the web          *)
(* configuration, in the task of the Bluetooth controller, change the RAM, *)
(* store it, choose and delete files; they preempt bt_fb_task.  A call     *)
(* into the file system is a step, during which the caller holds its lock. *)
(* The power may go at any time.                                           *)
(*                                                                         *)
(* Definitions marked as mutants are wrong on purpose, to see that a       *)
(* property notices the mistake.                                           *)
(***************************************************************************)
EXTENDS ConfigFile

CONSTANT MaxAccidents    \* bound: calls of fopen that fail, and times the power goes

Threads == {"fb", "web"}             \* "fb" is also the start-up, before bt_fb_task exists
NO_GAME == "no game"                 \* the empty game id
NO_FILE == "no file"
GID_GET == "gid_get"                 \* the file of the game that is current then
DEFAULT_CFG == "default"
GAMEID_CFG == "game"

ASSUME StoreAssumption ==
    /\ MaxAccidents \in Nat
    /\ Files \cap {NO_GAME, NO_FILE, GID_GET} = {}

VARIABLES
    file,                \* the file system: what each file holds, or ABSENT
    config, config_src, gameid,
    ota_hdl,             \* an update of the firmware is going on
    up,                  \* the start-up has loaded the configuration
    pc, fname,           \* where each thread is in config.c, and with which file
    cont,                \* "upgrade": the store is the first of two; "again": the second is to come
    rm,                  \* the file the web handler removes in the end
    edits, accidents,    \* counted for the bounds
    \* For the properties:
    pending,             \* parts changed by prepared writes and not stored since
    crossed,             \* the web configuration came between a game id and the end of its load
    failed,              \* a file could not be opened
    cut, cutUpgrade,     \* the power went in the middle of a store, of an upgrade
    fresh                \* files whose settings were not there, deleted, or of version 0

disk == <<file, fresh>>
ram == <<config, config_src, gameid, ota_hdl, pending>>
threads == <<pc, fname, cont, rm>>
notes == <<crossed, cut, cutUpgrade>>
vars == <<disk, ram, up, threads, edits, accidents, notes, failed>>

\* A file as a release of the given version left it, with settings that are not the defaults.
Stored(f, v) ==
    [len |-> FileLen(v),
     cfg |-> [magic |-> v, layout |-> v, part |-> [p \in Parts |-> [of |-> f, edit |-> 1]]]]

\* The RAM at power on: config_init(DEFAULT_CFG) is about to load.
PoweredOn ==
    /\ config = NoConfig
    /\ config_src = DEFAULT_CFG
    /\ gameid = NO_GAME
    /\ ota_hdl = FALSE
    /\ pending = {}
    /\ up = FALSE
    /\ pc = [t \in Threads |-> IF t = "fb" THEN "load" ELSE "idle"]
    /\ fname = [t \in Threads |-> DefaultFile]
    /\ cont = [t \in Threads |-> "done"]
    /\ rm = NO_FILE

Init ==
    /\ \E was \in [Files -> Versions \cup {"none"}] :
        /\ file = [f \in Files |-> IF was[f] = "none" THEN ABSENT ELSE Stored(f, was[f])]
        /\ fresh = {f \in Files : was[f] \in {"none", "v0"}}
    /\ PoweredOn
    /\ edits = 1
    /\ accidents = 0
    /\ crossed = FALSE
    /\ failed = FALSE
    /\ cut = FALSE
    /\ cutUpgrade = FALSE

\* The handlers have the higher priority and the lock of the file system while they are in it.
FileSystemFree(t) == t = "web" \/ pc["web"] = "idle"

Goto(t, l) == pc' = [pc EXCEPT ![t] = l]
Stay(t, l) == Goto(t, l) /\ UNCHANGED fname

\* config_load_from_file or config_store_on_file returns; the name of the file is a local of its caller.
Return(t) ==
    /\ Goto(t, IF t = "web" /\ rm # NO_FILE THEN "remove" ELSE "idle")
    /\ fname' = [fname EXCEPT ![t] = DefaultFile]

MayFail == accidents < MaxAccidents /\ accidents' = accidents + 1 /\ failed' = TRUE
Works == UNCHANGED <<accidents, failed>>

-----------------------------------------------------------------------------
(* config_load_from_file                                                   *)

\* stat
Load(t) ==
    LET f == fname[t]
    IN /\ pc[t] = "load" /\ FileSystemFree(t)
       /\ IF file[f] = ABSENT
          THEN config' = Defaults(f) /\ Goto(t, "open")
          ELSE Goto(t, "read") /\ UNCHANGED config
       /\ UNCHANGED <<disk, config_src, gameid, ota_hdl, pending, up, fname, cont, rm,
                      edits, accidents, failed, notes>>

\* fopen and fread; a short read is no failure as long as the magic is good.
AfterReadTrusting(t, c) ==         \* mutant: a bad magic is not noticed
    CASE c.magic \in {"v2", "none"} -> config' = c /\ Return(t) /\ UNCHANGED cont
      [] c.magic = "v1" -> config' = c /\ Stay(t, "upgrade") /\ UNCHANGED cont
      [] OTHER -> /\ config' = V0Updated(c)
                  /\ Stay(t, "open")
                  /\ cont' = [cont EXCEPT ![t] = "upgrade"]

AfterRead(t, c) ==
    CASE c.magic = "v2" -> config' = c /\ Return(t) /\ UNCHANGED cont
      [] c.magic = "v1" -> config' = c /\ Stay(t, "upgrade") /\ UNCHANGED cont
      [] c.magic = "v0" -> /\ config' = V0Updated(c)
                           /\ Stay(t, "open")
                           /\ cont' = [cont EXCEPT ![t] = "upgrade"]
      [] OTHER -> config' = Defaults(fname[t]) /\ Stay(t, "open") /\ UNCHANGED cont

Read(t) ==
    LET f == fname[t]
    IN /\ pc[t] = "read" /\ FileSystemFree(t)
       /\ \/ file[f] # ABSENT /\ AfterRead(t, ReadInto(config, file[f])) /\ Works
          \/ file[f] = ABSENT /\ AfterRead(t, config) /\ Works
          \/ file[f] # ABSENT /\ AfterRead(t, config) /\ MayFail
       /\ UNCHANGED <<disk, config_src, gameid, ota_hdl, pending, up, rm,
                      edits, notes>>

\* config_v1_update, up to its store; also after config_v0_update has stored.
Upgrade(t) ==
    LET f == fname[t]
    IN /\ pc[t] = "upgrade" /\ FileSystemFree(t)
       /\ \/ file[f] # ABSENT /\ config' = V1Updated(f, file[f]) /\ Works
          \/ file[f] = ABSENT /\ config' = Defaults(f) /\ Works
          \/ file[f] # ABSENT /\ config' = Defaults(f) /\ MayFail
       /\ Goto(t, "open")
       /\ cont' = [cont EXCEPT ![t] = IF @ = "upgrade" THEN "again" ELSE @]
       /\ UNCHANGED <<disk, config_src, gameid, ota_hdl, pending, up, fname, rm,
                      edits, notes>>

-----------------------------------------------------------------------------
(* config_store_on_file                                                    *)

AfterStore(t) == IF cont[t] = "upgrade" THEN Stay(t, "upgrade") ELSE Return(t)

\* fopen for writing leaves nothing of what was there.
Open(t) ==
    /\ pc[t] = "open" /\ FileSystemFree(t)
    /\ \/ /\ file' = [file EXCEPT ![fname[t]] = Truncated]
          /\ Stay(t, "write")
          /\ Works
       \/ AfterStore(t) /\ MayFail /\ UNCHANGED file
    /\ cont' = [cont EXCEPT ![t] = IF @ = "again" THEN "done" ELSE @]
    /\ UNCHANGED <<fresh, ram, up, rm, edits, notes>>

\* fwrite in two halves, and fclose.  Of a file removed meanwhile nothing is left.
Put(f, content) == file' = IF file[f] = ABSENT THEN file ELSE [file EXCEPT ![f] = content]

Write(t) ==
    /\ pc[t] = "write" /\ FileSystemFree(t)
    /\ Put(fname[t], HalfWritten(config))
    /\ Goto(t, "flush")
    /\ UNCHANGED <<fresh, ram, up, fname, cont, rm, edits, accidents, failed, notes>>

Flush(t) ==
    LET f == fname[t]
    IN /\ pc[t] = "flush" /\ FileSystemFree(t)
       /\ Put(f, Written(IF file[f] = ABSENT THEN config
                         ELSE [file[f].cfg EXCEPT !.part[2] = config.part[2]]))
       /\ AfterStore(t)
       /\ UNCHANGED <<fresh, ram, up, cont, rm, edits, accidents, failed, notes>>

-----------------------------------------------------------------------------
(* The start-up and bt_fb_task                                             *)

\* main.c: Bluetooth is initialised once the configuration is loaded.
StartUp ==
    /\ ~up /\ pc["fb"] = "idle"
    /\ up' = TRUE
    /\ UNCHANGED <<disk, ram, threads, edits, accidents, failed, notes>>

\* FB_TYPE_GAME_ID or FB_TYPE_SYS_ID, with an id that is not the current one.
GameId(g) ==
    /\ up /\ pc["fb"] = "idle"
    /\ gameid # g
    /\ gameid' = g
    /\ Goto("fb", "init")
    /\ UNCHANGED <<disk, config, config_src, ota_hdl, pending, up, fname, cont, rm,
                   edits, accidents, failed, notes>>

\* config_init(GAMEID_CFG)
ConfigInitKeepingSource ==         \* mutant: the source of the game before stays
    /\ pc["fb"] = "init"
    /\ fname' = [fname EXCEPT !["fb"] = DefaultFile]
    /\ Goto("fb", "stat")
    /\ UNCHANGED <<disk, config, config_src, gameid, ota_hdl, pending, up, cont, rm,
                   edits, accidents, failed, notes>>

ConfigInit ==
    /\ pc["fb"] = "init"
    /\ config_src' = DEFAULT_CFG
    /\ fname' = [fname EXCEPT !["fb"] = DefaultFile]
    /\ Goto("fb", "stat")
    /\ UNCHANGED <<disk, config, gameid, ota_hdl, pending, up, cont, rm,
                   edits, accidents, failed, notes>>

ChooseFile ==
    /\ pc["fb"] = "stat" /\ FileSystemFree("fb")
    /\ IF file[gameid] # ABSENT
       THEN config_src' = GAMEID_CFG /\ fname' = [fname EXCEPT !["fb"] = gameid]
       ELSE UNCHANGED <<config_src, fname>>
    /\ Goto("fb", "load")
    /\ pending' = {}
    /\ UNCHANGED <<disk, config, gameid, ota_hdl, up, cont, rm,
                   edits, accidents, failed, notes>>

-----------------------------------------------------------------------------
(* The handlers of the web configuration                                   *)

WebMay == up /\ pc["web"] = "idle"
Cross == crossed' = (crossed \/ pc["fb"] # "idle") /\ UNCHANGED <<cut, cutUpgrade>>

\* config_update(dst), up to its store.

ConfigUpdate(dst) ==
    /\ IF dst = GAMEID_CFG /\ gameid # NO_GAME
       THEN config_src' = GAMEID_CFG /\ fname' = [fname EXCEPT !["web"] = gameid]
       ELSE config_src' = DEFAULT_CFG /\ fname' = [fname EXCEPT !["web"] = DefaultFile]
    /\ Goto("web", "open")
    /\ rm' = NO_FILE
    /\ pending' = {}
    /\ Cross
    /\ UNCHANGED cont

Edit(p) ==
    /\ edits < MaxEdits
    /\ edits' = edits + 1
    /\ config' = [config EXCEPT !.part[p] = IF @ = LOST THEN @ ELSE [@ EXCEPT !.edit = edits']]

\* BT_ATT_OP_WRITE_REQ of global, output or input settings.
WriteReq(p) ==
    /\ WebMay
    /\ Edit(p)
    /\ ConfigUpdate(config_src)
    /\ UNCHANGED <<disk, gameid, ota_hdl, up, accidents, failed>>

\* BT_ATT_OP_PREPARE_WRITE_REQ of input settings: the RAM is changed at once.
PrepareWriteReq(p) ==
    /\ WebMay
    /\ Edit(p)
    /\ pending' = pending \cup {p}
    /\ UNCHANGED <<disk, config_src, gameid, ota_hdl, up, threads, accidents, failed, notes>>

\* BT_ATT_OP_EXEC_WRITE_REQ with BT_ATT_FLAG_EXEC; a cancellation changes nothing, nor does an
\* execution while the firmware is updated.
ExecWriteReq ==
    /\ WebMay
    /\ ~ota_hdl
    /\ ConfigUpdate(config_src)
    /\ UNCHANGED <<disk, config, gameid, ota_hdl, up, edits, accidents, failed>>

\* CFG_CMD_SET_GAMEID_CFG.  What is in force becomes the settings of the game.
SetGameidCfg ==
    /\ WebMay
    /\ ConfigUpdate(GAMEID_CFG)
    /\ config' = IF gameid = NO_GAME THEN config
                 ELSE [config EXCEPT !.part = [p \in Parts |->
                          IF @[p] = LOST THEN LOST ELSE [@[p] EXCEPT !.of = gameid]]]
    /\ UNCHANGED <<disk, gameid, ota_hdl, up, edits, accidents, failed>>

\* config_init(DEFAULT_CFG)
WebDefault ==
    /\ config_src' = DEFAULT_CFG
    /\ fname' = [fname EXCEPT !["web"] = DefaultFile]
    /\ Goto("web", "load")
    /\ pending' = {}
    /\ Cross

\* CFG_CMD_SET_DEFAULT_CFG; which file goes is looked up when the other one is loaded.
SetDefaultCfg ==
    /\ WebMay
    /\ WebDefault
    /\ rm' = GID_GET
    /\ UNCHANGED <<disk, config, gameid, ota_hdl, up, cont, edits, accidents, failed>>

\* CFG_CMD_DEL_FILE
DelFileKeepingConfig(f) ==         \* mutant: the settings of the file stay in force
    /\ WebMay
    /\ Goto("web", "remove")
    /\ rm' = f
    /\ Cross
    /\ UNCHANGED <<disk, ram, fname, up, cont, edits, accidents, failed>>

DelFile(f) ==
    /\ WebMay
    /\ file[f] # ABSENT
    /\ IF f = gameid THEN WebDefault
       ELSE Goto("web", "remove") /\ Cross /\ UNCHANGED <<config_src, fname, pending>>
    /\ rm' = f
    /\ UNCHANGED <<disk, config, gameid, ota_hdl, up, cont, edits, accidents, failed>>

Remove ==
    LET f == IF rm = GID_GET THEN gameid ELSE rm
    IN /\ pc["web"] = "remove"
       /\ IF f = NO_GAME THEN UNCHANGED disk
          ELSE file' = [file EXCEPT ![f] = ABSENT] /\ fresh' = fresh \cup {f}
       /\ Goto("web", "idle")
       /\ rm' = NO_FILE
       /\ UNCHANGED <<ram, up, fname, cont, edits, accidents, failed, notes>>

\* CFG_CMD_OTA_START, CFG_CMD_OTA_ABORT, and CFG_CMD_OTA_END of an image that is good.
OtaStart ==
    /\ WebMay
    /\ ota_hdl' \in BOOLEAN
    /\ UNCHANGED <<disk, config, config_src, gameid, pending, up, threads,
                   edits, accidents, failed, notes>>

OtaOver ==
    /\ WebMay
    /\ ota_hdl
    /\ ota_hdl' = FALSE
    /\ UNCHANGED <<disk, config, config_src, gameid, pending, up, threads,
                   edits, accidents, failed, notes>>

-----------------------------------------------------------------------------
\* The power goes, or the adapter restarts.
PowerCut ==
    /\ accidents < MaxAccidents
    /\ accidents' = accidents + 1
    /\ cut' = (cut \/ \E t \in Threads : pc[t] \in {"write", "flush"})
    /\ cutUpgrade' = (cutUpgrade \/ \E t \in Threads : cont[t] # "done")
    /\ config' = NoConfig
    /\ config_src' = DEFAULT_CFG
    /\ gameid' = NO_GAME
    /\ ota_hdl' = FALSE
    /\ pending' = {}
    /\ up' = FALSE
    /\ pc' = [t \in Threads |-> IF t = "fb" THEN "load" ELSE "idle"]
    /\ fname' = [t \in Threads |-> DefaultFile]
    /\ cont' = [t \in Threads |-> "done"]
    /\ rm' = NO_FILE
    /\ UNCHANGED <<disk, edits, crossed, failed>>

Next ==
    \/ \E t \in Threads : Load(t) \/ Read(t) \/ Upgrade(t) \/ Open(t) \/ Write(t) \/ Flush(t)
    \/ StartUp
    \/ \E g \in Games : GameId(g)
    \/ ConfigInit
    \/ ChooseFile
    \/ \E p \in Parts : WriteReq(p) \/ PrepareWriteReq(p)
    \/ ExecWriteReq
    \/ SetGameidCfg
    \/ SetDefaultCfg
    \/ \E f \in Files : DelFile(f)
    \/ Remove
    \/ OtaStart
    \/ OtaOver
    \/ PowerCut

Spec == Init /\ [][Next]_vars

-----------------------------------------------------------------------------
(* Properties.                                                             *)

TypeOK ==
    /\ file \in [Files -> Contents]
    /\ fresh \subseteq Files
    /\ config \in Configs
    /\ config_src \in {DEFAULT_CFG, GAMEID_CFG}
    /\ gameid \in Games \cup {NO_GAME}
    /\ ota_hdl \in BOOLEAN
    /\ up \in BOOLEAN
    /\ pc \in [Threads -> {"idle", "init", "stat", "load", "read", "upgrade",
                           "open", "write", "flush", "remove"}]
    /\ fname \in [Threads -> Files]
    /\ cont \in [Threads -> {"done", "upgrade", "again"}]
    /\ rm \in Files \cup {NO_FILE, GID_GET}
    /\ edits \in 1 .. MaxEdits
    /\ accidents \in 0 .. MaxAccidents
    /\ pending \subseteq Parts
    /\ crossed \in BOOLEAN
    /\ failed \in BOOLEAN
    /\ cut \in BOOLEAN
    /\ cutUpgrade \in BOOLEAN

Spoiled == crossed \/ failed \/ cut \/ cutUpgrade
Quiet == up /\ \A t \in Threads : pc[t] = "idle"
InForce == IF config_src = GAMEID_CFG THEN gameid ELSE DefaultFile

(***************************************************************************)
(* The settings of one game never get into the file of another, or into    *)
(* the one for all, however games change, files are deleted and writes are *)
(* prepared: unless a store or a load of the web configuration comes       *)
(* between the id of a game and the end of its load (config_src, gameid    *)
(* and config then belong to different games), a file cannot be opened, or *)
(* the power goes in the middle of a store.                                *)
(***************************************************************************)
FilesKeepApart ==
    ~Spoiled =>
        \A f \in Files : file[f] # ABSENT =>
            \A p \in Parts : file[f].cfg.part[p] = LOST \/ file[f].cfg.part[p].of = f

(***************************************************************************)
(* What the web configuration says is in force (config_src and gameid) is  *)
(* the file the RAM was loaded from or stored to, and the two are equal,   *)
(* but for writes that are prepared and not executed.                      *)
(***************************************************************************)
SourceIsTrue ==
    Quiet /\ ~Spoiled =>
        /\ config_src = GAMEID_CFG => file[gameid] # ABSENT
        /\ file[InForce] # ABSENT =>
            \A p \in Parts \ pending : config.part[p] = file[InForce].cfg.part[p]

(***************************************************************************)
(* Whatever file the start-up or a game finds, and wherever the power went *)
(* before, the wired task gets the magic it waits for (main.c:47), and the *)
(* bytes behind it have the current layout: unless the power went amid an  *)
(* upgrade or a file could not be opened.  The first store of the upgrade  *)
(* from version 0 writes the new magic over the old layout, where it stays *)
(* if the second is not made.                                              *)
(***************************************************************************)
SettingsUsable ==
    Quiet => config.magic = "v2" /\ (config.layout = "v2" \/ cutUpgrade \/ failed)

(***************************************************************************)
(* The settings for all games are lost only if there were none, or the     *)
(* user deleted the file, or they were of version 0: config_v0_update      *)
(* shortens the file to the size of the new one, so that config_v1_update  *)
(* finds no room for twelve of its longer records, and resets them all.    *)
(***************************************************************************)
SettingsSurvive ==
    ~Spoiled /\ Quiet /\ DefaultFile \notin fresh /\ file[DefaultFile] # ABSENT =>
        \A p \in Parts : file[DefaultFile].cfg.part[p] # LOST
                         /\ file[DefaultFile].cfg.part[p].edit > 0

=============================================================================
