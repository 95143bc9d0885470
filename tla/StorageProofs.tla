--------------------------- MODULE StorageProofs ---------------------------
(***************************************************************************)
(* Proofs about what the flash keeps: ConfigStore, the files of the        *)
(* configuration and of its games, and MemoryCard.                         *)
(*                                                                         *)
(* ConfigStore first, for any set of games, any number of edits and of     *)
(* power cuts and of failing stores.  An action that handles a file is a   *)
(* case of a record update inside nested functions, so each action has an  *)
(* effect lemma that says of the variables, one by one, what the step does *)
(* to them; the lemmas that a part of the invariant is kept (...Kept) use  *)
(* the effects only.  The parts, defined before them, make StoreInv.       *)
(***************************************************************************)
EXTENDS ConfigStore, MemoryCard, FiniteSetTheorems, TLAPS

-----------------------------------------------------------------------------
(* The constants, the lengths and the helpers of ConfigFile.               *)

LEMMA StoreConstants ==
    /\ DefaultFile \in Files /\ DefaultFile \notin Games /\ Games \subseteq Files
    /\ NO_GAME \notin Files /\ NO_FILE \notin Files /\ GID_GET \notin Files
    /\ MaxEdits \in Nat /\ MaxEdits > 0 /\ MaxAccidents \in Nat
BY ConfigAssumption, StoreAssumption DEF ConfigAssumption, StoreAssumption, Files

LEMMA Lengths ==
    /\ Versions = {"v0", "v1", "v2"}
    /\ FileLen("v0") = 24546 /\ FileLen("v1") = 24547 /\ FileLen("v2") = 12356
    /\ HalfLen = 6194
<1>1. HeadLen.v0 = 30 /\ HeadLen.v1 = 31 /\ HeadLen.v2 = 32
  BY DEF HeadLen
<1>2. RecordLen.v0 = 2043 /\ RecordLen.v1 = 2043 /\ RecordLen.v2 = 1027
  BY DEF RecordLen
<1>3. HeadLen["v0"] = 30 /\ HeadLen["v1"] = 31 /\ HeadLen["v2"] = 32
  BY <1>1
<1>4. RecordLen["v0"] = 2043 /\ RecordLen["v1"] = 2043 /\ RecordLen["v2"] = 1027
  BY <1>2
<1> QED
  BY <1>1, <1>2, <1>3, <1>4 DEF FileLen, HalfLen, WIRED_MAX_DEV, Versions, HeadLen

\* They tell the versions, and a store that was cut, apart.
LEMMA LengthsDiffer ==
    /\ FileLen("v0") # FileLen("v1") /\ FileLen("v0") # FileLen("v2") /\ FileLen("v1") # FileLen("v2")
    /\ HalfLen # FileLen("v0") /\ HalfLen # FileLen("v1") /\ HalfLen # FileLen("v2")
    /\ HalfLen # 0 /\ FileLen("v0") # 0 /\ FileLen("v1") # 0 /\ FileLen("v2") # 0
    /\ HalfLen # -1 /\ FileLen("v0") # -1 /\ FileLen("v1") # -1 /\ FileLen("v2") # -1
BY Lengths

LEMMA ConfigFields ==
    ASSUME NEW c \in Configs
    PROVE  /\ c.magic \in {"v0", "v1", "v2", "none"} /\ c.layout \in {"v0", "v1", "v2"}
           /\ c.part \in [Parts -> Settings \cup {LOST}]
           /\ c.part[1] \in Settings \cup {LOST} /\ c.part[2] \in Settings \cup {LOST}
BY Lengths DEF Configs, Parts

\* The contents a file may have, and the settings RAM may.
LEMMA Blanks ==
    /\ NoConfig \in Configs /\ NoConfig.magic = "none" /\ NoConfig.layout = "v2"
    /\ \A p \in Parts : NoConfig.part[p] = LOST
    /\ ABSENT \in Contents /\ ABSENT.len = -1 /\ ABSENT.cfg = NoConfig
    /\ Truncated \in Contents /\ Truncated.len = 0 /\ Truncated.cfg = NoConfig
    /\ ABSENT # Truncated
<1>1. NoConfig \in Configs /\ NoConfig.magic = "none" /\ NoConfig.layout = "v2"
      /\ \A p \in Parts : NoConfig.part[p] = LOST
  BY Lengths DEF NoConfig, Configs
<1> QED
  BY <1>1 DEF ABSENT, Truncated, Contents

LEMMA DefaultsFact ==
    ASSUME NEW f \in Files
    PROVE  /\ Defaults(f) \in Configs /\ Defaults(f).magic = "v2" /\ Defaults(f).layout = "v2"
           /\ \A p \in Parts : Defaults(f).part[p].of = f
BY Lengths, StoreConstants DEF Defaults, Configs, Settings

LEMMA WrittenFact ==
    ASSUME NEW c \in Configs
    PROVE  /\ Written(c) \in Contents /\ Written(c).len = FileLen("v2") /\ Written(c).cfg = c
           /\ HalfWritten(c) \in Contents /\ HalfWritten(c).len = HalfLen
           /\ HalfWritten(c).cfg.magic = c.magic /\ HalfWritten(c).cfg.layout = c.layout
           /\ HalfWritten(c).cfg.part[1] = c.part[1] /\ HalfWritten(c).cfg.part[2] = LOST
<1>1. [c EXCEPT !.part[2] = LOST] \in Configs
  BY DEF Configs, Parts
<1>2. /\ [c EXCEPT !.part[2] = LOST].magic = c.magic /\ [c EXCEPT !.part[2] = LOST].layout = c.layout
      /\ [c EXCEPT !.part[2] = LOST].part[1] = c.part[1] /\ [c EXCEPT !.part[2] = LOST].part[2] = LOST
  BY DEF Configs, Parts
<1>3. Written(c) = [len |-> 12356, cfg |-> c]
  BY Lengths DEF Written
<1>4. HalfWritten(c) = [len |-> 6194, cfg |-> [c EXCEPT !.part[2] = LOST]]
  <2>1. HalfLen = 6194
    BY Lengths
  <2> QED
    BY <2>1 DEF HalfWritten
<1>5. Written(c) \in Contents /\ Written(c).len = 12356 /\ Written(c).cfg = c
  BY <1>3 DEF Contents
<1>6. HalfWritten(c) \in Contents /\ HalfWritten(c).len = 6194
      /\ HalfWritten(c).cfg = [c EXCEPT !.part[2] = LOST]
  BY <1>1, <1>4 DEF Contents
<1> QED
  BY <1>2, <1>5, <1>6, Lengths

\* The second half of a store.
LEMMA FlushedFact ==
    ASSUME NEW c \in Configs, NEW d \in Configs
    PROVE  LET e == [c EXCEPT !.part[2] = d.part[2]]
           IN /\ e \in Configs /\ e.magic = c.magic /\ e.layout = c.layout
              /\ e.part[1] = c.part[1] /\ e.part[2] = d.part[2]
BY DEF Configs, Parts

LEMMA ReadFact ==
    ASSUME NEW c \in Configs, NEW g \in Contents
    PROVE  /\ ReadInto(c, g) \in Configs
           /\ g.len = 0 => ReadInto(c, g) = c
           /\ g.len # 0 => ReadInto(c, g).magic = g.cfg.magic /\ ReadInto(c, g).layout = g.cfg.layout
           /\ g.len \notin {0, HalfLen, FileLen("v2")}
                 => ReadInto(c, g).part[1] = g.cfg.part[1] /\ ReadInto(c, g).part[2] = LOST
           /\ g.len = FileLen("v2") => ReadInto(c, g) = g.cfg
<1>1. g.cfg \in Configs /\ g.len \in Int
  BY DEF Contents
<1>2. LET e == [g.cfg EXCEPT !.part[2] = c.part[2]]
      IN e \in Configs /\ e.magic = g.cfg.magic /\ e.layout = g.cfg.layout
  BY <1>1, FlushedFact
<1>3. LET e == [g.cfg EXCEPT !.part[2] = LOST]
      IN e \in Configs /\ e.magic = g.cfg.magic /\ e.layout = g.cfg.layout
         /\ e.part[1] = g.cfg.part[1] /\ e.part[2] = LOST
  BY <1>1 DEF Configs, Parts
<1>4. CASE g.len = 0
  BY <1>4, Lengths DEF ReadInto
<1>5. CASE g.len = 6194
  BY <1>2, <1>5, Lengths DEF ReadInto
<1>6. CASE g.len = 12356
  BY <1>1, <1>6, Lengths DEF ReadInto
<1>7. CASE g.len \notin {0, 6194, 12356}
  BY <1>3, <1>7, Lengths DEF ReadInto
<1> QED
  BY <1>4, <1>5, <1>6, <1>7, Lengths

LEMMA V0Fact ==
    ASSUME NEW c \in Configs
    PROVE  /\ V0Updated(c) \in Configs /\ V0Updated(c).magic = "v2" /\ V0Updated(c).layout = "v1"
           /\ V0Updated(c).part = c.part
<1> DEFINE d == [c EXCEPT !.magic = "v2"]
           e == [d EXCEPT !.layout = "v1"]
<1>1. d \in Configs /\ d.magic = "v2" /\ d.part = c.part
  BY Lengths DEF Configs
<1> HIDE DEF d
<1>2. e \in Configs /\ e.magic = "v2" /\ e.layout = "v1" /\ e.part = c.part
  BY <1>1, Lengths DEF Configs
<1>3. V0Updated(c) = e
  BY DEF V0Updated, Configs, d
<1> QED
  BY <1>2, <1>3

\* config_v1_update finds twelve records only in a file of an older release.
LEMMA RecordsFact ==
    ASSUME NEW g \in Contents
    PROVE  (RecordsFound(g) = WIRED_MAX_DEV) <=> g.len >= 23531
<1> DEFINE S == {i \in 0 .. 11 : 31 + i * 2043 + 1027 <= g.len}
<1>1. g.len \in Int
  BY DEF Contents
<1>2. RecordsFound(g) = Cardinality(S)
  <2>1. HeadLen.v1 = 31 /\ RecordLen.v1 = 2043 /\ RecordLen.v2 = 1027 /\ WIRED_MAX_DEV = 12
    BY DEF HeadLen, RecordLen, WIRED_MAX_DEV
  <2> QED
    BY <2>1 DEF RecordsFound
<1>3. IsFiniteSet(0 .. 11) /\ Cardinality(0 .. 11) = 12
  <2>1. IsFiniteSet(0 .. 11) /\ Cardinality(0 .. 11) = IF 0 > 11 THEN 0 ELSE 11 - 0 + 1
    <3>1. 0 \in Int /\ 11 \in Int
      OBVIOUS
    <3> QED
      BY <3>1, FS_Interval, Zenon
  <2> QED
    BY <2>1
<1>4. CASE g.len >= 23531
  <2>1. S = 0 .. 11
    BY <1>1, <1>4
  <2> QED
    BY <1>2, <1>3, <1>4, <2>1 DEF WIRED_MAX_DEV
<1>5. CASE ~(g.len >= 23531)
  <2>1. S \in SUBSET (0 .. 11) /\ 11 \notin S
    BY <1>1, <1>5
  <2>2. Cardinality(S) # 12
    BY <1>3, <2>1, FS_Subset
  <2> QED
    BY <1>2, <1>5, <2>2 DEF WIRED_MAX_DEV
<1> QED
  BY <1>4, <1>5

LEMMA V1Fact ==
    ASSUME NEW f \in Files, NEW g \in Contents
    PROVE  /\ V1Updated(f, g) \in Configs /\ V1Updated(f, g).magic = "v2"
           /\ g.len \in {0, HalfLen, FileLen("v2")} => V1Updated(f, g) = Defaults(f)
           /\ g.len \in {FileLen("v0"), FileLen("v1")} =>
                /\ V1Updated(f, g).part = g.cfg.part
                /\ V1Updated(f, g).layout = IF g.cfg.layout = "v1" THEN "v2" ELSE "v0"
<1>1. g.len \in Int /\ g.cfg \in Configs
  BY DEF Contents
<1>2. CASE g.len >= 23531
  <2>1. /\ V1Updated(f, g) \in Configs /\ V1Updated(f, g).magic = "v2"
        /\ V1Updated(f, g).part = g.cfg.part
        /\ V1Updated(f, g).layout = IF g.cfg.layout = "v1" THEN "v2" ELSE "v0"
    BY <1>1, <1>2, RecordsFact, ConfigFields, Lengths DEF V1Updated, Configs
  <2> QED
    BY <1>2, <2>1, Lengths
<1>3. CASE g.len < 23531
  BY <1>1, <1>3, RecordsFact, DefaultsFact, Lengths DEF V1Updated
<1> QED
  BY <1>1, <1>2, <1>3

\* A write of the web configuration changes the settings of one part, if they are there.
LEMMA EditFact ==
    ASSUME NEW c \in Configs, NEW q \in Parts, NEW n \in 1 .. MaxEdits
    PROVE  LET d == [c EXCEPT !.part[q] = IF @ = LOST THEN @ ELSE [@ EXCEPT !.edit = n]]
           IN /\ d \in Configs /\ d.magic = c.magic /\ d.layout = c.layout
              /\ \A p \in Parts : p # q => d.part[p] = c.part[p]
              /\ c.part[q] = LOST => d.part[q] = LOST
              /\ c.part[q] # LOST => d.part[q] # LOST /\ d.part[q].of = c.part[q].of /\ d.part[q].edit = n
<1> DEFINE old == c.part[q]
           new == IF old = LOST THEN old ELSE [old EXCEPT !.edit = n]
           d == [c EXCEPT !.part[q] = new]
<1>1. old \in Settings \cup {LOST}
  BY DEF Configs
<1>2. new \in Settings \cup {LOST}
  BY <1>1, StoreConstants DEF Settings
<1>3. old # LOST => new # LOST /\ new.of = old.of /\ new.edit = n
  BY <1>1, StoreConstants DEF Settings, LOST
<1>4. d \in Configs /\ d.magic = c.magic /\ d.layout = c.layout /\ d.part = [c.part EXCEPT ![q] = new]
  BY <1>2 DEF Configs
<1>5. d.part[q] = new /\ \A p \in Parts : p # q => d.part[p] = c.part[p]
  BY <1>4 DEF Configs
<1> QED
  BY <1>3, <1>4, <1>5

\* The settings in force become those of a game.
LEMMA GiveFact ==
    ASSUME NEW c \in Configs, NEW g \in Games
    PROVE  LET d == [c EXCEPT !.part = [p \in Parts |-> IF @[p] = LOST THEN LOST ELSE [@[p] EXCEPT !.of = g]]]
           IN /\ d \in Configs /\ d.magic = c.magic /\ d.layout = c.layout
              /\ \A p \in Parts : d.part[p] = LOST \/ d.part[p].of = g
<1> DEFINE part == [p \in Parts |-> IF c.part[p] = LOST THEN LOST ELSE [c.part[p] EXCEPT !.of = g]]
           d == [c EXCEPT !.part = part]
<1>1. ASSUME NEW p \in Parts
      PROVE  part[p] \in Settings \cup {LOST} /\ (part[p] = LOST \/ part[p].of = g)
  <2>1. c.part[p] \in Settings \cup {LOST}
    BY DEF Configs
  <2> QED
    BY <2>1, StoreConstants DEF Settings
<1>2. part \in [Parts -> Settings \cup {LOST}]
  BY <1>1
<1>3. d \in Configs /\ d.magic = c.magic /\ d.layout = c.layout /\ d.part = part
  BY <1>2 DEF Configs
<1> QED
  BY <1>1, <1>3

-----------------------------------------------------------------------------
(* What holds of the control, whatever happens.                            *)

Storing == {"open", "write", "flush"}
Loading == {"load", "read"}

\* A file that an older release left.
Long(f) == file[f].len \in {FileLen("v0"), FileLen("v1")}

\* A file is gone, truncated, written by this release in part or in full, or left by an older one.
Shape(x) ==
    \/ x \in {ABSENT, Truncated}
    \/ /\ x.len \in {HalfLen, FileLen("v2")}
       /\ x.cfg.magic # "v0"
       /\ x.cfg.magic = "v1" => x.cfg.layout = "v1"
    \/ x.len = FileLen("v0") /\ x.cfg.magic = "v0" /\ x.cfg.layout = "v0"
    \/ x.len = FileLen("v1") /\ x.cfg.magic = "v1" /\ x.cfg.layout = "v1"

Shapes == \A f \in Files : Shape(file[f])

\* Where the threads are.
Control ==
    /\ pc["fb"] # "remove" /\ pc["web"] \notin {"init", "stat"}
    /\ ~up => pc["web"] = "idle" /\ pc["fb"] \notin {"init", "stat"} /\ fname["fb"] = DefaultFile
    /\ config_src = GAMEID_CFG => gameid # NO_GAME
    /\ pc["fb"] \in {"init", "stat"} => gameid # NO_GAME
    /\ pc["web"] = "idle" => rm = NO_FILE
    /\ pc["web"] = "remove" => rm # NO_FILE
    /\ \A t \in Threads :
        /\ cont[t] = "again" => pc[t] = "open"
        /\ cont[t] = "upgrade" => pc[t] \in Storing \cup {"upgrade"}
        /\ pc[t] \in {"idle", "init", "stat", "remove"} => fname[t] = DefaultFile

\* With which file they are.
Names ==
    /\ fname["fb"] \in {DefaultFile, gameid}
    /\ pc["web"] \in Loading \cup {"upgrade"} \/ cont["web"] = "upgrade" => fname["web"] = DefaultFile
    /\ pc["web"] \notin {"idle", "remove"} /\ pc["fb"] \notin {"init", "stat"} => fname["web"] = InForce

\* What they found, and what is left of it.
NewInHand == \A t \in Threads : pc[t] \in {"write", "flush"} => ~Long(fname[t])
WebFound == pc["web"] = "read" => file[fname["web"]] # ABSENT
GameFound ==
    pc["fb"] \in Loading /\ fname["fb"] # DefaultFile /\ config_src = DEFAULT_CFG =>
        file[fname["fb"]] = ABSENT \/ rm \in {GID_GET, fname["fb"]}
NotFresh == \A f \in Files : f \in fresh \/ (file[f] # ABSENT /\ file[f].len # FileLen("v0"))

Found == NewInHand /\ WebFound /\ GameFound /\ NotFresh

Magic ==
    /\ config.magic # "v0"
    /\ config.magic = "v1" =>
            config.layout = "v1" /\ (pc["fb"] = "upgrade" \/ pc["web"] = "upgrade")
    /\ pc["web"] # "upgrade" /\ pc["fb"] \notin Loading \cup {"upgrade"} => config.magic = "v2"
    /\ ~up /\ pc["fb"] \in Loading => config.magic = "none"

Excused == failed \/ cutUpgrade

\* Only bt_fb_task, between the two stores of an upgrade, holds an older layout.
OldInHand ==
    config.layout # "v2" =>
        /\ cont["fb"] = "upgrade" \/ (pc["fb"] = "upgrade" /\ config.magic = "v1")
        /\ up => fname["fb"] = gameid /\ (config_src = GAMEID_CFG \/ pc["web"] \in Loading)
        /\ pc["web"] \in Storing => fname["web"] = fname["fb"]
WebIsNew == pc["web"] # "upgrade" /\ cont["web"] = "done"
OldFiles ==
    \A f \in Files : ~Long(f) =>
        /\ file[f].cfg.layout # "v2" =>
                \/ file[f].cfg.magic = "v1" /\ f # DefaultFile
                \/ fname["fb"] = f /\ cont["fb"] # "done"
        /\ file[f].cfg.magic = "v1" => f # DefaultFile
UpgradesV1 == \A t \in Threads : pc[t] = "upgrade" => file[fname[t]].len # FileLen("v0")
DefaultIsNew ==
    up \/ pc["fb"] = "idle" =>
        /\ ~Long(DefaultFile)
        /\ file[DefaultFile].len = 0 => \E t \in Threads : fname[t] = DefaultFile /\ pc[t] = "write"
GameUpgraded == up /\ (cont["fb"] # "done" \/ pc["fb"] = "upgrade") => fname["fb"] # DefaultFile

LayoutsNow == OldInHand /\ WebIsNew /\ OldFiles /\ UpgradesV1 /\ DefaultIsNew /\ GameUpgraded
Layouts == ~Excused => LayoutsNow

\* Without a crossing the two threads take turns, and what is loaded or stored is what is in force.
Alone == pc["web"] # "idle" => pc["fb"] \in {"idle", "init", "stat"}
LoadsInForce ==
    /\ pc["fb"] \notin {"idle", "init", "stat"} => fname["fb"] = InForce
    /\ pc["fb"] = "stat" => config_src = DEFAULT_CFG
Opened == \A t \in Threads : pc[t] \in {"read", "write", "flush"} => file[fname[t]] # ABSENT
KeepsCurrent == pc["fb"] = "idle" /\ config_src = GAMEID_CFG => rm \notin {gameid, GID_GET}

OneAtATime == ~crossed => Alone /\ LoadsInForce /\ Opened /\ KeepsCurrent

SettingsOf(c, f) == \A p \in Parts : c.part[p] = LOST \/ c.part[p].of = f
Same(p) == p \in pending \/ config.part[p] = file[InForce].cfg.part[p]

\* What a file or RAM has is of the game it is for, and a file that is not complete is being written.
FilesApart == \A f \in Files : SettingsOf(file[f].cfg, f)
HalfIsHeld ==
    \A f \in Files : file[f].len \in {0, HalfLen} =>
        \E t \in Threads : fname[t] = f /\ pc[t] \in {"write", "flush"}
NewMagic == \A f \in Files : file[f].len \in {HalfLen, FileLen("v2")} => file[f].cfg.magic = "v2"
RamInForce == pc["fb"] = "idle" /\ pc["web"] \notin Loading => SettingsOf(config, InForce)
RamInHand == \A t \in Threads : pc[t] \in Storing \cup {"upgrade"} => SettingsOf(config, fname[t])
HalfAgrees ==
    \A t \in Threads : pc[t] = "flush" =>
        /\ file[fname[t]].len = HalfLen
        /\ 1 \in pending \/ config.part[1] = file[fname[t]].cfg.part[1]
SourceHolds ==
    pc["fb"] = "idle" /\ pc["web"] \notin Storing \cup Loading =>
        /\ config_src = GAMEID_CFG => file[gameid] # ABSENT
        /\ file[InForce] # ABSENT => \A p \in Parts : Same(p)

ApartNow ==
    FilesApart /\ HalfIsHeld /\ NewMagic /\ RamInForce /\ RamInHand /\ HalfAgrees /\ SourceHolds
Apart == ~Spoiled => ApartNow

\* The settings for all games, where there are some.
Kept(s) == s # LOST /\ s.edit > 0
KeptIn(c) == \A p \in Parts : Kept(c.part[p])
FileKept == file[DefaultFile].len \notin {0, HalfLen} => KeptIn(file[DefaultFile].cfg)
RamKept == pc["fb"] = "idle" /\ pc["web"] \notin Loading /\ InForce = DefaultFile => KeptIn(config)
HandKept ==
    \A t \in Threads : fname[t] = DefaultFile =>
        /\ pc[t] \in Storing => KeptIn(config)
        /\ pc[t] = "flush" => Kept(file[DefaultFile].cfg.part[1])
        /\ pc[t] = "upgrade" => file[DefaultFile].len = FileLen("v1")
        /\ cont[t] # "upgrade"

SurviveNow == FileKept /\ RamKept /\ HandKept
Survive == ~Spoiled /\ DefaultFile \notin fresh => SurviveNow

StoreInv == TypeOK /\ Shapes /\ Control /\ Names /\ Found /\ Magic /\ Layouts /\ OneAtATime /\ Apart /\ Survive

-----------------------------------------------------------------------------
(* Types.                                                                  *)

LEMMA StoreInitType == Init => TypeOK
<1> SUFFICES ASSUME Init PROVE TypeOK
  OBVIOUS
<1>1. file \in [Files -> Contents]
  <2>1. ASSUME NEW f \in Files, NEW v \in Versions PROVE Stored(f, v) \in Contents
    <3>1. 1 \in 0 .. MaxEdits
      BY StoreConstants
    <3>2. [of |-> f, edit |-> 1] \in Settings
      BY <3>1 DEF Settings
    <3>3. [magic |-> v, layout |-> v, part |-> [p \in Parts |-> [of |-> f, edit |-> 1]]] \in Configs
      BY <3>2 DEF Configs
    <3>4. FileLen(v) \in Int
      BY Lengths
    <3> QED
      BY <3>3, <3>4 DEF Stored, Contents
  <2>2. PICK was \in [Files -> Versions \cup {"none"}] :
            file = [f \in Files |-> IF was[f] = "none" THEN ABSENT ELSE Stored(f, was[f])]
    BY DEF Init
  <2> QED
    BY <2>1, <2>2, Blanks
<1>2. fresh \subseteq Files
  BY DEF Init
<1>3. config \in Configs /\ fname \in [Threads -> Files]
  BY Blanks, StoreConstants DEF Init, PoweredOn
<1>4. edits \in 1 .. MaxEdits /\ accidents \in 0 .. MaxAccidents
  BY StoreConstants DEF Init
<1>5. crossed \in BOOLEAN /\ failed \in BOOLEAN /\ cut \in BOOLEAN /\ cutUpgrade \in BOOLEAN
  BY Zenon DEF Init
<1> QED
  BY <1>1, <1>2, <1>3, <1>4, <1>5 DEF Init, PoweredOn, TypeOK

\* What a thread reads, and what it does about it.
LEMMA ReadStep ==
    ASSUME TypeOK, NEW t \in Threads, Read(t)
    PROVE  \E c \in Configs :
              /\ \/ file[fname[t]] # ABSENT /\ c = ReadInto(config, file[fname[t]]) /\ Works
                 \/ file[fname[t]] = ABSENT /\ c = config /\ Works
                 \/ c = config /\ MayFail
              /\ AfterRead(t, c)
<1>1. file[fname[t]] \in Contents /\ config \in Configs
  BY DEF TypeOK
<1>2. ReadInto(config, file[fname[t]]) \in Configs
  BY <1>1, ReadFact
<1> QED
  BY <1>1, <1>2, Zenon DEF Read

LEMMA OutcomeType ==
    ASSUME TypeOK, Works \/ MayFail
    PROVE  accidents' \in 0 .. MaxAccidents /\ failed' \in BOOLEAN
<1>1. accidents' \in 0 .. MaxAccidents
  BY StoreConstants DEF Works, MayFail, TypeOK
<1>2. failed' \in BOOLEAN
  BY Zenon DEF Works, MayFail, TypeOK
<1> QED
  BY <1>1, <1>2

LEMMA EditType ==
    ASSUME TypeOK, NEW q \in Parts, Edit(q)
    PROVE  edits' \in 1 .. MaxEdits /\ config' \in Configs
<1>1. edits' \in 1 .. MaxEdits
  BY StoreConstants DEF Edit, TypeOK
<1>2. config' = [config EXCEPT !.part[q] = IF @ = LOST THEN @ ELSE [@ EXCEPT !.edit = edits']]
  BY DEF Edit
<1> QED
  BY <1>1, <1>2, EditFact DEF TypeOK

LEMMA StoreStepType == TypeOK /\ Control /\ [Next]_vars => TypeOK'
<1> SUFFICES ASSUME TypeOK, Control, [Next]_vars PROVE TypeOK'
  OBVIOUS
<1> USE DEF disk, ram, threads, notes
<1>0. \A f \in Files : file[f] \in Contents /\ file[f].cfg \in Configs
  BY DEF TypeOK, Contents
<1>w. WebMay => NO_FILE \in Files \cup {NO_FILE, GID_GET}
  OBVIOUS
<1>1. ASSUME NEW t \in Threads, Load(t) PROVE TypeOK'
  <2>1. fname[t] \in Files /\ Defaults(fname[t]) \in Configs
    BY DefaultsFact DEF TypeOK
  <2>2. config' \in Configs
    BY <1>1, <2>1 DEF Load, TypeOK
  <2> QED
    BY <1>1, <2>2 DEF Load, Goto, TypeOK
<1>2. ASSUME NEW t \in Threads, Read(t) PROVE TypeOK'
  <2>1. PICK c \in Configs : (Works \/ MayFail) /\ AfterRead(t, c)
    BY <1>2, ReadStep
  <2>2. fname[t] \in Files
    BY DEF TypeOK
  <2>3. /\ config' \in Configs
        /\ pc' \in [Threads -> {"idle", "init", "stat", "load", "read", "upgrade",
                                "open", "write", "flush", "remove"}]
        /\ fname' \in [Threads -> Files] /\ cont' \in [Threads -> {"done", "upgrade", "again"}]
    <3>1. Defaults(fname[t]) \in Configs /\ V0Updated(c) \in Configs
      BY <2>2, DefaultsFact, V0Fact
    <3> QED
      BY <2>1, <3>1, StoreConstants DEF AfterRead, Return, Stay, Goto, TypeOK
  <2>4. accidents' \in 0 .. MaxAccidents /\ failed' \in BOOLEAN
    BY <2>1, OutcomeType
  <2> QED
    BY <1>2, <2>3, <2>4 DEF Read, TypeOK
<1>3. ASSUME NEW t \in Threads, Upgrade(t) PROVE TypeOK'
  <2>1. fname[t] \in Files /\ file[fname[t]] \in Contents
    BY <1>0 DEF TypeOK
  <2>2. config' \in Configs
    BY <1>3, <2>1, DefaultsFact, V1Fact DEF Upgrade
  <2>3. accidents' \in 0 .. MaxAccidents /\ failed' \in BOOLEAN
    BY <1>3, OutcomeType DEF Upgrade
  <2> QED
    BY <1>3, <2>2, <2>3 DEF Upgrade, Goto, TypeOK
<1>4. ASSUME NEW t \in Threads, Open(t) PROVE TypeOK'
  <2>1. file' \in [Files -> Contents]
    BY <1>4, Blanks DEF Open, TypeOK
  <2>2. accidents' \in 0 .. MaxAccidents /\ failed' \in BOOLEAN
    BY <1>4, OutcomeType DEF Open
  <2>3. /\ pc' \in [Threads -> {"idle", "init", "stat", "load", "read", "upgrade",
                                "open", "write", "flush", "remove"}]
        /\ fname' \in [Threads -> Files] /\ cont' \in [Threads -> {"done", "upgrade", "again"}]
    BY <1>4, StoreConstants DEF Open, AfterStore, Return, Stay, Goto, TypeOK
  <2> QED
    BY <1>4, <2>1, <2>2, <2>3 DEF Open, TypeOK
<1>5. ASSUME NEW t \in Threads, Write(t) PROVE TypeOK'
  <2>1. file' \in [Files -> Contents]
    BY <1>5, WrittenFact DEF Write, Put, TypeOK
  <2> QED
    BY <1>5, <2>1 DEF Write, Goto, TypeOK
<1>6. ASSUME NEW t \in Threads, Flush(t) PROVE TypeOK'
  <2>1. file' \in [Files -> Contents]
    <3> DEFINE f == fname[t]
               c == IF file[f] = ABSENT THEN config ELSE [file[f].cfg EXCEPT !.part[2] = config.part[2]]
    <3>1. c \in Configs
      BY <1>0, FlushedFact DEF TypeOK
    <3>2. Written(c) \in Contents
      BY <3>1, WrittenFact
    <3> QED
      BY <1>6, <3>2, Zenon DEF Flush, Put, TypeOK
  <2>2. pc' \in [Threads -> {"idle", "init", "stat", "load", "read", "upgrade",
                            "open", "write", "flush", "remove"}]
        /\ fname' \in [Threads -> Files]
    BY <1>6, StoreConstants DEF Flush, AfterStore, Return, Stay, Goto, TypeOK
  <2> QED
    BY <1>6, <2>1, <2>2 DEF Flush, TypeOK
<1>7. CASE StartUp
  BY <1>7 DEF StartUp, TypeOK
<1>8. ASSUME NEW g \in Games, GameId(g) PROVE TypeOK'
  BY <1>8 DEF GameId, Goto, TypeOK
<1>9. CASE ConfigInit
  BY <1>9, StoreConstants DEF ConfigInit, Goto, TypeOK
<1>10. CASE ChooseFile
  <2>1. fname' \in [Threads -> Files] /\ config_src' \in {DEFAULT_CFG, GAMEID_CFG}
    <3>1. gameid \in Files
      BY <1>10, StoreConstants DEF ChooseFile, Control, TypeOK
    <3> QED
      BY <1>10, <3>1 DEF ChooseFile, TypeOK
  <2> QED
    BY <1>10, <2>1 DEF ChooseFile, Goto, TypeOK
<1>11. ASSUME NEW q \in Parts, WriteReq(q) PROVE TypeOK'
  <2>1. config' \in Configs /\ edits' \in 1 .. MaxEdits
    BY <1>11, EditType DEF WriteReq
  <2> QED
    BY <1>11, <2>1, StoreConstants DEF WriteReq, ConfigUpdate, Cross, Goto, TypeOK
<1>12. ASSUME NEW q \in Parts, PrepareWriteReq(q) PROVE TypeOK'
  <2>1. config' \in Configs /\ edits' \in 1 .. MaxEdits
    BY <1>12, EditType DEF PrepareWriteReq
  <2> QED
    BY <1>12, <2>1 DEF PrepareWriteReq, TypeOK
<1>13. CASE ExecWriteReq
  BY <1>13, StoreConstants DEF ExecWriteReq, ConfigUpdate, Cross, Goto, TypeOK
<1>14. CASE SetGameidCfg
  <2>1. config' \in Configs
    BY <1>14, GiveFact DEF SetGameidCfg, TypeOK
  <2> QED
    BY <1>14, <2>1, StoreConstants DEF SetGameidCfg, ConfigUpdate, Cross, Goto, TypeOK
<1>15. CASE SetDefaultCfg
  BY <1>15, StoreConstants DEF SetDefaultCfg, WebDefault, Cross, Goto, TypeOK
<1>16. ASSUME NEW f \in Files, DelFile(f) PROVE TypeOK'
  <2>1. CASE f = gameid
    BY <1>16, <2>1, StoreConstants DEF DelFile, WebDefault, Cross, Goto, TypeOK
  <2>2. CASE f # gameid
    BY <1>16, <2>2, StoreConstants DEF DelFile, Cross, Goto, TypeOK
  <2> QED
    BY <2>1, <2>2
<1>17. CASE Remove
  <2>1. file' \in [Files -> Contents]
    BY <1>17, Blanks DEF Remove, TypeOK
  <2>2. fresh' \subseteq Files
    BY <1>17, StoreConstants DEF Remove, Control, TypeOK
  <2> QED
    BY <1>17, <2>1, <2>2 DEF Remove, Goto, TypeOK
<1>18. CASE OtaStart \/ OtaOver
  BY <1>18 DEF OtaStart, OtaOver, TypeOK
<1>19. CASE PowerCut
  <2>1. config' \in Configs /\ fname' \in [Threads -> Files] /\ accidents' \in 0 .. MaxAccidents
    BY <1>19, Blanks, StoreConstants DEF PowerCut, TypeOK
  <2> QED
    BY <1>19, <2>1 DEF PowerCut, TypeOK
<1>20. CASE UNCHANGED vars
  BY <1>20 DEF vars, TypeOK
<1> QED
  BY <1>1, <1>2, <1>3, <1>4, <1>5, <1>6, <1>7, <1>8, <1>9, <1>10, <1>11, <1>12, <1>13, <1>14,
     <1>15, <1>16, <1>17, <1>18, <1>19, <1>20 DEF Next

-----------------------------------------------------------------------------
(* What each step changes, thread by thread.                               *)

LEMMA ThreadsAre == Threads = {"fb", "web"}
BY DEF Threads

LEMMA NamesDiffer ==
    /\ DEFAULT_CFG # GAMEID_CFG /\ NO_FILE # NO_GAME /\ NO_FILE # GID_GET /\ NO_GAME # GID_GET
    /\ \A g \in Games : g # NO_GAME /\ g # NO_FILE /\ g # GID_GET /\ g # DefaultFile
    /\ \A f \in Files : f # NO_GAME /\ f # NO_FILE /\ f # GID_GET
BY StoreConstants DEF DEFAULT_CFG, GAMEID_CFG, NO_FILE, NO_GAME, GID_GET

LEMMA LoadEffect ==
    ASSUME TypeOK, NEW t \in Threads, Load(t)
    PROVE  /\ pc[t] = "load" /\ (t = "web" \/ pc["web"] = "idle")
           /\ \/ file[fname[t]] = ABSENT /\ config' = Defaults(fname[t]) /\ pc'[t] = "open"
              \/ file[fname[t]] # ABSENT /\ config' = config /\ pc'[t] = "read"
           /\ \A u \in Threads : u # t => pc'[u] = pc[u]
           /\ UNCHANGED <<file, fresh, config_src, gameid, pending, up, fname, cont, rm,
                          edits, crossed, failed, cut, cutUpgrade>>
BY DEF Load, FileSystemFree, Goto, disk, notes, TypeOK

\* What a thread has in RAM after fopen and fread, and what it does about it.
Brought(t, c) ==
    \/ file[fname[t]] # ABSENT /\ c = ReadInto(config, file[fname[t]]) /\ failed' = failed
    \/ file[fname[t]] = ABSENT /\ c = config /\ failed' = failed
    \/ c = config /\ failed' = TRUE

Judged(t, c) ==
    \/ /\ c.magic = "v2" /\ config' = c
       /\ pc'[t] = IF t = "web" /\ rm # NO_FILE THEN "remove" ELSE "idle"
       /\ fname'[t] = DefaultFile /\ cont'[t] = cont[t]
    \/ /\ c.magic = "v1" /\ config' = c
       /\ pc'[t] = "upgrade" /\ fname'[t] = fname[t] /\ cont'[t] = cont[t]
    \/ /\ c.magic = "v0" /\ config' = V0Updated(c)
       /\ pc'[t] = "open" /\ fname'[t] = fname[t] /\ cont'[t] = "upgrade"
    \/ /\ c.magic = "none" /\ config' = Defaults(fname[t])
       /\ pc'[t] = "open" /\ fname'[t] = fname[t] /\ cont'[t] = cont[t]

LEMMA ReadEffect ==
    ASSUME TypeOK, NEW t \in Threads, Read(t)
    PROVE  \E c \in Configs :
           /\ pc[t] = "read" /\ (t = "web" \/ pc["web"] = "idle")
           /\ Brought(t, c)
           /\ Judged(t, c)
           /\ \A u \in Threads : u # t => pc'[u] = pc[u] /\ fname'[u] = fname[u] /\ cont'[u] = cont[u]
           /\ UNCHANGED <<file, fresh, config_src, gameid, pending, up, rm, edits, crossed, cut, cutUpgrade>>
<1>1. PICK c \in Configs :
        /\ \/ file[fname[t]] # ABSENT /\ c = ReadInto(config, file[fname[t]]) /\ Works
           \/ file[fname[t]] = ABSENT /\ c = config /\ Works
           \/ c = config /\ MayFail
        /\ AfterRead(t, c)
  BY ReadStep
<1>2. /\ pc[t] = "read" /\ (t = "web" \/ pc["web"] = "idle")
      /\ UNCHANGED <<file, fresh, config_src, gameid, pending, up, rm, edits, crossed, cut, cutUpgrade>>
  BY DEF Read, FileSystemFree, disk, notes
<1>3. Brought(t, c)
  BY <1>1, Zenon DEF Works, MayFail, Brought
<1>4. c.magic \in {"v0", "v1", "v2", "none"}
  BY ConfigFields
<1>5. /\ Judged(t, c)
      /\ \A u \in Threads : u # t => pc'[u] = pc[u] /\ fname'[u] = fname[u] /\ cont'[u] = cont[u]
  BY <1>1, <1>4 DEF AfterRead, Return, Stay, Goto, Judged, TypeOK
<1> QED
  BY <1>2, <1>3, <1>5

LEMMA ReadMoves ==
    ASSUME TypeOK, NEW t \in Threads, Read(t)
    PROVE  /\ pc[t] = "read" /\ (t = "web" \/ pc["web"] = "idle")
           /\ \/ pc'[t] = "remove" /\ t = "web" /\ rm # NO_FILE /\ fname'[t] = DefaultFile /\ cont'[t] = cont[t]
              \/ pc'[t] = "idle" /\ (t # "web" \/ rm = NO_FILE) /\ fname'[t] = DefaultFile /\ cont'[t] = cont[t]
              \/ pc'[t] \in {"upgrade", "open"} /\ fname'[t] = fname[t] /\ cont'[t] = cont[t]
              \/ pc'[t] = "open" /\ fname'[t] = fname[t] /\ cont'[t] = "upgrade"
           /\ \A u \in Threads : u # t => pc'[u] = pc[u] /\ fname'[u] = fname[u] /\ cont'[u] = cont[u]
           /\ UNCHANGED <<file, fresh, config_src, gameid, pending, up, rm, edits, crossed, cut, cutUpgrade>>
BY ReadEffect DEF Judged

LEMMA UpgradeEffect ==
    ASSUME TypeOK, NEW t \in Threads, Upgrade(t)
    PROVE  /\ pc[t] = "upgrade" /\ (t = "web" \/ pc["web"] = "idle")
           /\ \/ file[fname[t]] # ABSENT /\ config' = V1Updated(fname[t], file[fname[t]]) /\ failed' = failed
              \/ file[fname[t]] = ABSENT /\ config' = Defaults(fname[t]) /\ failed' = failed
              \/ config' = Defaults(fname[t]) /\ failed' = TRUE
           /\ pc'[t] = "open"
           /\ cont'[t] = IF cont[t] = "upgrade" THEN "again" ELSE cont[t]
           /\ \A u \in Threads : u # t => pc'[u] = pc[u] /\ cont'[u] = cont[u]
           /\ UNCHANGED <<file, fresh, config_src, gameid, pending, up, fname, rm, edits, crossed, cut,
                          cutUpgrade>>
<1>1. \/ file[fname[t]] # ABSENT /\ config' = V1Updated(fname[t], file[fname[t]]) /\ failed' = failed
      \/ file[fname[t]] = ABSENT /\ config' = Defaults(fname[t]) /\ failed' = failed
      \/ config' = Defaults(fname[t]) /\ failed' = TRUE
  BY Zenon DEF Upgrade, Works, MayFail
<1>2. /\ pc[t] = "upgrade" /\ (t = "web" \/ pc["web"] = "idle")
      /\ pc'[t] = "open"
      /\ cont'[t] = IF cont[t] = "upgrade" THEN "again" ELSE cont[t]
      /\ \A u \in Threads : u # t => pc'[u] = pc[u] /\ cont'[u] = cont[u]
      /\ UNCHANGED <<file, fresh, config_src, gameid, pending, up, fname, rm, edits, crossed, cut, cutUpgrade>>
  BY DEF Upgrade, FileSystemFree, Goto, disk, notes, TypeOK
<1> QED
  BY <1>1, <1>2

\* config_load_from_file or config_store_on_file is over, but for an upgrade.
Over(t) ==
    \/ cont[t] = "upgrade" /\ pc'[t] = "upgrade" /\ fname'[t] = fname[t]
    \/ cont[t] # "upgrade" /\ t = "web" /\ rm # NO_FILE /\ pc'[t] = "remove" /\ fname'[t] = DefaultFile
    \/ cont[t] # "upgrade" /\ (t # "web" \/ rm = NO_FILE) /\ pc'[t] = "idle" /\ fname'[t] = DefaultFile

LEMMA OpenEffect ==
    ASSUME TypeOK, NEW t \in Threads, Open(t)
    PROVE  /\ pc[t] = "open" /\ (t = "web" \/ pc["web"] = "idle")
           /\ \/ /\ file'[fname[t]] = Truncated /\ \A f \in Files : f # fname[t] => file'[f] = file[f]
                 /\ pc'[t] = "write" /\ fname'[t] = fname[t] /\ failed' = failed
              \/ file' = file /\ Over(t) /\ failed' = TRUE
           /\ cont'[t] = IF cont[t] = "again" THEN "done" ELSE cont[t]
           /\ \A u \in Threads : u # t => pc'[u] = pc[u] /\ fname'[u] = fname[u] /\ cont'[u] = cont[u]
           /\ UNCHANGED <<fresh, config, config_src, gameid, pending, up, rm, edits, crossed, cut, cutUpgrade>>
<1>1. /\ pc[t] = "open" /\ (t = "web" \/ pc["web"] = "idle")
      /\ cont'[t] = IF cont[t] = "again" THEN "done" ELSE cont[t]
      /\ \A u \in Threads : u # t => pc'[u] = pc[u] /\ fname'[u] = fname[u] /\ cont'[u] = cont[u]
      /\ UNCHANGED <<fresh, config, config_src, gameid, pending, up, rm, edits, crossed, cut, cutUpgrade>>
  BY DEF Open, AfterStore, Return, Stay, Goto, FileSystemFree, ram, notes, TypeOK
<1>2. CASE AfterStore(t) /\ MayFail /\ UNCHANGED file
  <2>1. Over(t)
    BY <1>2 DEF AfterStore, Return, Stay, Goto, Over, TypeOK
  <2>2. failed' = TRUE
    BY <1>2, Zenon DEF MayFail
  <2> QED
    BY <1>1, <1>2, <2>1, <2>2
<1>3. CASE file' = [file EXCEPT ![fname[t]] = Truncated] /\ Stay(t, "write") /\ Works
  <2>1. /\ file'[fname[t]] = Truncated /\ \A f \in Files : f # fname[t] => file'[f] = file[f]
        /\ pc'[t] = "write" /\ fname'[t] = fname[t]
    BY <1>3 DEF Stay, Goto, TypeOK
  <2>2. failed' = failed
    BY <1>3, Zenon DEF Works
  <2> QED
    BY <1>1, <2>1, <2>2
<1> QED
  BY <1>2, <1>3 DEF Open

LEMMA OpenMoves ==
    ASSUME TypeOK, NEW t \in Threads, Open(t)
    PROVE  /\ pc[t] = "open" /\ (t = "web" \/ pc["web"] = "idle")
           /\ \/ /\ pc'[t] = "write" /\ fname'[t] = fname[t]
                 /\ cont'[t] = cont[t] \/ (cont[t] = "again" /\ cont'[t] = "done")
              \/ pc'[t] = "upgrade" /\ fname'[t] = fname[t] /\ cont[t] = "upgrade" /\ cont'[t] = cont[t]
              \/ pc'[t] \in {"idle", "remove"} /\ fname'[t] = DefaultFile /\ cont'[t] = "done"
           /\ cont'[t] # "again"
           /\ ~failed' => pc'[t] = "write"
           /\ pc'[t] = "idle" /\ t = "web" => rm = NO_FILE
           /\ pc'[t] = "remove" => t = "web" /\ rm # NO_FILE
           /\ \A u \in Threads : u # t => pc'[u] = pc[u] /\ fname'[u] = fname[u] /\ cont'[u] = cont[u]
           /\ UNCHANGED <<fresh, config, config_src, gameid, pending, up, rm, edits, crossed, cut, cutUpgrade>>
<1>1. cont[t] \in {"done", "upgrade", "again"}
  BY DEF TypeOK
<1> QED
  BY <1>1, OpenEffect DEF Over

LEMMA WriteEffect ==
    ASSUME TypeOK, NEW t \in Threads, Write(t)
    PROVE  /\ pc[t] = "write" /\ (t = "web" \/ pc["web"] = "idle")
           /\ file'[fname[t]] = IF file[fname[t]] = ABSENT THEN ABSENT ELSE HalfWritten(config)
           /\ \A f \in Files : f # fname[t] => file'[f] = file[f]
           /\ pc'[t] = "flush"
           /\ \A u \in Threads : u # t => pc'[u] = pc[u]
           /\ UNCHANGED <<fresh, config, config_src, gameid, pending, up, fname, cont, rm,
                          edits, crossed, failed, cut, cutUpgrade>>
BY DEF Write, Put, Goto, FileSystemFree, ram, notes, TypeOK

LEMMA FlushEffect ==
    ASSUME TypeOK, NEW t \in Threads, Flush(t)
    PROVE  /\ pc[t] = "flush" /\ (t = "web" \/ pc["web"] = "idle")
           /\ file[fname[t]] = ABSENT => file'[fname[t]] = ABSENT
           /\ file[fname[t]] # ABSENT =>
                /\ file'[fname[t]].len = FileLen("v2")
                /\ file'[fname[t]].cfg.magic = file[fname[t]].cfg.magic
                /\ file'[fname[t]].cfg.layout = file[fname[t]].cfg.layout
                /\ file'[fname[t]].cfg.part[1] = file[fname[t]].cfg.part[1]
                /\ file'[fname[t]].cfg.part[2] = config.part[2]
           /\ \A f \in Files : f # fname[t] => file'[f] = file[f]
           /\ Over(t)
           /\ \A u \in Threads : u # t => pc'[u] = pc[u] /\ fname'[u] = fname[u]
           /\ UNCHANGED <<fresh, config, config_src, gameid, pending, up, cont, rm,
                          edits, crossed, failed, cut, cutUpgrade>>
<1> DEFINE f == fname[t]
           e == [file[f].cfg EXCEPT !.part[2] = config.part[2]]
<1>1. f \in Files /\ file[f] \in Contents /\ file[f].cfg \in Configs /\ config \in Configs
  BY DEF TypeOK, Contents
<1>2. e \in Configs /\ e.magic = file[f].cfg.magic /\ e.layout = file[f].cfg.layout
      /\ e.part[1] = file[f].cfg.part[1] /\ e.part[2] = config.part[2]
  BY <1>1, FlushedFact
<1>3. Written(e).len = FileLen("v2") /\ Written(e).cfg = e
  BY <1>2, WrittenFact
<1>4. file' = IF file[f] = ABSENT THEN file ELSE [file EXCEPT ![f] = Written(e)]
  BY Zenon DEF Flush, Put
<1> HIDE DEF e
<1>5. /\ file[f] = ABSENT => file'[f] = ABSENT
      /\ file[f] # ABSENT => file'[f] = Written(e)
      /\ \A g \in Files : g # f => file'[g] = file[g]
  BY <1>1, <1>4 DEF TypeOK
<1>6. /\ pc[t] = "flush" /\ (t = "web" \/ pc["web"] = "idle")
      /\ Over(t)
      /\ \A u \in Threads : u # t => pc'[u] = pc[u] /\ fname'[u] = fname[u]
      /\ UNCHANGED <<fresh, config, config_src, gameid, pending, up, cont, rm,
                     edits, crossed, failed, cut, cutUpgrade>>
  BY DEF Flush, AfterStore, Return, Stay, Goto, Over, FileSystemFree, ram, notes, TypeOK
<1> QED
  BY <1>2, <1>3, <1>5, <1>6

LEMMA FlushMoves ==
    ASSUME TypeOK, NEW t \in Threads, Flush(t)
    PROVE  /\ pc[t] = "flush" /\ (t = "web" \/ pc["web"] = "idle")
           /\ \/ pc'[t] = "upgrade" /\ fname'[t] = fname[t] /\ cont[t] = "upgrade"
              \/ pc'[t] \in {"idle", "remove"} /\ fname'[t] = DefaultFile /\ cont[t] # "upgrade"
           /\ pc'[t] = "idle" /\ t = "web" => rm = NO_FILE
           /\ pc'[t] = "remove" => t = "web" /\ rm # NO_FILE
           /\ \A u \in Threads : u # t => pc'[u] = pc[u] /\ fname'[u] = fname[u]
           /\ UNCHANGED <<fresh, config, config_src, gameid, pending, up, cont, rm, edits,
                          crossed, failed, cut, cutUpgrade>>
BY FlushEffect DEF Over

\* What a store does to the files.
LEMMA StoredFiles ==
    ASSUME TypeOK, NEW t \in Threads, Open(t) \/ Write(t) \/ Flush(t)
    PROVE  /\ \A f \in Files :
                \/ file'[f] = file[f]
                \/ /\ f = fname[t] /\ file'[f] # ABSENT /\ file'[f].len \in {0, HalfLen, FileLen("v2")}
                   /\ pc[t] # "open" => file[f] # ABSENT
           /\ pc[t] = "open" /\ pc'[t] = "write" => file'[fname[t]] = Truncated
           /\ fresh' = fresh
<1>1. fname[t] \in Files /\ config \in Configs
  BY DEF TypeOK
<1>2. CASE Open(t)
  <2>1. pc[t] = "open" /\ pc'[t] = "write" => file'[fname[t]] = Truncated
    BY <1>2, OpenEffect DEF Over
  <2> QED
    BY <1>1, <1>2, <2>1, OpenEffect, Blanks
<1>3. CASE Write(t)
  <2>1. HalfWritten(config) # ABSENT /\ HalfWritten(config).len = HalfLen
    BY <1>1, WrittenFact, Blanks, LengthsDiffer
  <2> QED
    BY <1>1, <1>3, <2>1, WriteEffect
<1>4. CASE Flush(t)
  <2>1. pc[t] = "flush" /\ fresh' = fresh /\ \A f \in Files : f # fname[t] => file'[f] = file[f]
    BY <1>4, FlushEffect
  <2>2. CASE file[fname[t]] = ABSENT
    BY <1>1, <1>4, <2>1, <2>2, FlushEffect
  <2>3. CASE file[fname[t]] # ABSENT
    <3>1. file'[fname[t]].len = FileLen("v2")
      BY <1>4, <2>3, FlushEffect
    <3>2. file'[fname[t]] # ABSENT
      BY <3>1, Blanks, LengthsDiffer
    <3> QED
      BY <1>1, <2>1, <2>3, <3>1, <3>2
  <2> QED
    BY <2>2, <2>3
<1> QED
  BY <1>2, <1>3, <1>4

\* What a store leaves of the head of a file.
LEMMA StoredHeads ==
    ASSUME TypeOK, NEW t \in Threads, Open(t) \/ Write(t) \/ Flush(t)
    PROVE  \A f \in Files :
              \/ file'[f] = file[f] /\ (f = fname[t] => file[f] = ABSENT \/ failed')
              \/ /\ f = fname[t] /\ pc[t] = "open" /\ file'[f] = Truncated
                 /\ file'[f].len = 0 /\ file'[f].cfg.layout = "v2" /\ file'[f].cfg.magic = "none"
              \/ /\ f = fname[t] /\ pc[t] = "write" /\ file'[f].len = HalfLen
                 /\ file'[f].cfg.layout = config.layout /\ file'[f].cfg.magic = config.magic
              \/ /\ f = fname[t] /\ pc[t] = "flush" /\ file'[f].len = FileLen("v2")
                 /\ file'[f].cfg.layout = file[f].cfg.layout /\ file'[f].cfg.magic = file[f].cfg.magic
<1>1. fname[t] \in Files /\ config \in Configs
  BY DEF TypeOK
<1>2. CASE Open(t)
  <2>1. CASE file' = file /\ failed' = TRUE
    <3>1. failed'
      BY <2>1, Zenon
    <3> QED
      BY <2>1, <3>1
  <2>2. CASE file'[fname[t]] = Truncated /\ \A f \in Files : f # fname[t] => file'[f] = file[f]
    <3>1. pc[t] = "open"
      BY <1>2, OpenEffect
    <3> QED
      BY <1>1, <2>2, <3>1, Blanks
  <2> QED
    BY <1>2, <2>1, <2>2, OpenEffect
<1>3. CASE Write(t)
  BY <1>1, <1>3, WrittenFact, WriteEffect
<1>4. CASE Flush(t)
  BY <1>1, <1>4, FlushEffect
<1> QED
  BY <1>2, <1>3, <1>4

\* What a store leaves of the settings in a file.
LEMMA StoredSettings ==
    ASSUME TypeOK, NEW t \in Threads, Open(t) \/ Write(t) \/ Flush(t)
    PROVE  \A f \in Files :
              \/ file'[f] = file[f] /\ (f = fname[t] => file[f] = ABSENT \/ failed')
              \/ /\ f = fname[t] /\ pc[t] = "open"
                 /\ file'[f].len = 0 /\ \A p \in Parts : file'[f].cfg.part[p] = LOST
              \/ /\ f = fname[t] /\ pc[t] = "write"
                 /\ file'[f].len = HalfLen
                 /\ file'[f].cfg.part[1] = config.part[1] /\ file'[f].cfg.part[2] = LOST
              \/ /\ f = fname[t] /\ pc[t] = "flush"
                 /\ file'[f].len = FileLen("v2")
                 /\ file'[f].cfg.part[1] = file[f].cfg.part[1]
                 /\ file'[f].cfg.part[2] = config.part[2]
<1>1. fname[t] \in Files /\ config \in Configs
  BY DEF TypeOK
<1>2. CASE Open(t)
  <2>1. CASE file' = file /\ failed' = TRUE
    <3>1. failed'
      BY <2>1, Zenon
    <3> QED
      BY <2>1, <3>1
  <2>2. CASE file'[fname[t]] = Truncated /\ \A f \in Files : f # fname[t] => file'[f] = file[f]
    <3>1. pc[t] = "open"
      BY <1>2, OpenEffect
    <3> QED
      BY <1>1, <2>2, <3>1, Blanks
  <2> QED
    BY <1>2, <2>1, <2>2, OpenEffect
<1>3. CASE Write(t)
  BY <1>1, <1>3, WrittenFact, WriteEffect
<1>4. CASE Flush(t)
  BY <1>1, <1>4, FlushEffect
<1> QED
  BY <1>2, <1>3, <1>4

LEMMA GameIdEffect ==
    ASSUME TypeOK, NEW g \in Games, GameId(g)
    PROVE  /\ up /\ pc["fb"] = "idle" /\ pc'["fb"] = "init" /\ pc'["web"] = pc["web"]
           /\ gameid' = g /\ gameid # g
           /\ UNCHANGED <<file, fresh, config, config_src, pending, up, fname, cont, rm,
                          edits, crossed, failed, cut, cutUpgrade>>
BY DEF GameId, Goto, disk, notes, TypeOK, Threads

LEMMA ConfigInitEffect ==
    ASSUME TypeOK, ConfigInit
    PROVE  /\ pc["fb"] = "init" /\ pc'["fb"] = "stat" /\ pc'["web"] = pc["web"]
           /\ fname'["fb"] = DefaultFile /\ fname'["web"] = fname["web"]
           /\ config_src' = DEFAULT_CFG
           /\ UNCHANGED <<file, fresh, config, gameid, pending, up, cont, rm,
                          edits, crossed, failed, cut, cutUpgrade>>
BY DEF ConfigInit, Goto, disk, notes, TypeOK, Threads

LEMMA ChooseEffect ==
    ASSUME TypeOK, ChooseFile
    PROVE  /\ pc["fb"] = "stat" /\ pc'["fb"] = "load" /\ pc["web"] = "idle" /\ pc'["web"] = "idle"
           /\ \/ file[gameid] # ABSENT /\ config_src' = GAMEID_CFG /\ fname'["fb"] = gameid
              \/ file[gameid] = ABSENT /\ config_src' = config_src /\ fname'["fb"] = fname["fb"]
           /\ fname'["web"] = fname["web"]
           /\ pending' = {}
           /\ UNCHANGED <<file, fresh, config, gameid, up, cont, rm,
                          edits, crossed, failed, cut, cutUpgrade>>
BY DEF ChooseFile, FileSystemFree, Goto, disk, notes, TypeOK, Threads

\* The three handlers that store what is in RAM.
LEMMA UpdateEffect ==
    ASSUME TypeOK, (\E q \in Parts : WriteReq(q)) \/ ExecWriteReq \/ SetGameidCfg
    PROVE  /\ up /\ pc["web"] = "idle" /\ pc'["web"] = "open" /\ pc'["fb"] = pc["fb"]
           /\ \/ gameid # NO_GAME /\ config_src' = GAMEID_CFG /\ fname'["web"] = gameid
              \/ config_src' = DEFAULT_CFG /\ fname'["web"] = DefaultFile
           /\ config_src = GAMEID_CFG /\ gameid # NO_GAME => config_src' = GAMEID_CFG
           /\ fname'["fb"] = fname["fb"]
           /\ rm' = NO_FILE /\ pending' = {}
           /\ crossed' = (crossed \/ pc["fb"] # "idle")
           /\ config' \in Configs /\ config'.magic = config.magic /\ config'.layout = config.layout
           /\ UNCHANGED <<file, fresh, gameid, up, cont, failed, cut, cutUpgrade>>
<1>1. CASE \E q \in Parts : WriteReq(q)
  <2>1. PICK q \in Parts : WriteReq(q)
    BY <1>1
  <2>2. config' = [config EXCEPT !.part[q] = IF @ = LOST THEN @ ELSE [@ EXCEPT !.edit = edits']]
        /\ edits' \in 1 .. MaxEdits
    BY <2>1, EditType DEF WriteReq, Edit
  <2>3. config' \in Configs /\ config'.magic = config.magic /\ config'.layout = config.layout
    BY <2>2, EditFact DEF TypeOK
  <2> QED
    BY <2>1, <2>3, Zenon, ThreadsAre DEF WriteReq, WebMay, ConfigUpdate, Cross, Goto, disk, TypeOK
<1>2. CASE ExecWriteReq
  BY <1>2, ThreadsAre DEF ExecWriteReq, WebMay, ConfigUpdate, Cross, Goto, disk, TypeOK
<1>3. CASE SetGameidCfg
  <2>1. config' \in Configs /\ config'.magic = config.magic /\ config'.layout = config.layout
    BY <1>3, GiveFact DEF SetGameidCfg, TypeOK
  <2> QED
    BY <1>3, <2>1, ThreadsAre DEF SetGameidCfg, WebMay, ConfigUpdate, Cross, Goto, disk, TypeOK
<1> QED
  BY <1>1, <1>2, <1>3

\* What they store.
LEMMA UpdateSettings ==
    ASSUME TypeOK, (\E q \in Parts : WriteReq(q)) \/ ExecWriteReq \/ SetGameidCfg
    PROVE  \/ /\ \A p \in Parts :
                   /\ config.part[p] = LOST => config'.part[p] = LOST
                   /\ config.part[p] # LOST => config'.part[p] # LOST
                                              /\ config'.part[p].of = config.part[p].of
                                              /\ (config'.part[p].edit > 0 \/ config'.part[p] = config.part[p])
              /\ fname'["web"] = InForce \/ (gameid = NO_GAME /\ fname'["web"] = DefaultFile)
           \/ /\ fname'["web"] = gameid /\ gameid # NO_GAME
              /\ \A p \in Parts : config'.part[p] = LOST \/ config'.part[p].of = gameid
<1>1. CASE \E q \in Parts : WriteReq(q)
  <2>1. PICK q \in Parts : WriteReq(q)
    BY <1>1
  <2>2. config' = [config EXCEPT !.part[q] = IF @ = LOST THEN @ ELSE [@ EXCEPT !.edit = edits']]
        /\ edits' \in 1 .. MaxEdits
    BY <2>1, EditType DEF WriteReq, Edit
  <2>3. /\ \A p \in Parts : p # q => config'.part[p] = config.part[p]
        /\ config.part[q] = LOST => config'.part[q] = LOST
        /\ config.part[q] # LOST => config'.part[q] # LOST
                                   /\ config'.part[q].of = config.part[q].of
                                   /\ config'.part[q].edit = edits'
    BY <2>2, EditFact DEF TypeOK
  <2>4. fname'["web"] = InForce \/ (gameid = NO_GAME /\ fname'["web"] = DefaultFile)
    BY <2>1, ThreadsAre DEF WriteReq, ConfigUpdate, InForce, TypeOK
  <2> QED
    BY <2>2, <2>3, <2>4
<1>2. CASE ExecWriteReq
  BY <1>2, ThreadsAre DEF ExecWriteReq, ConfigUpdate, InForce, TypeOK
<1>3. CASE SetGameidCfg
  <2>1. CASE gameid = NO_GAME
    BY <1>3, <2>1, ThreadsAre DEF SetGameidCfg, ConfigUpdate, TypeOK
  <2>2. CASE gameid # NO_GAME
    <3>1. gameid \in Games
      BY <2>2 DEF TypeOK
    <3>2. \A p \in Parts : config'.part[p] = LOST \/ config'.part[p].of = gameid
      BY <1>3, <2>2, <3>1, GiveFact DEF SetGameidCfg, TypeOK
    <3> QED
      BY <1>3, <2>2, <3>2, ThreadsAre DEF SetGameidCfg, ConfigUpdate, TypeOK
  <2> QED
    BY <2>1, <2>2
<1> QED
  BY <1>1, <1>2, <1>3

LEMMA PrepareEffect ==
    ASSUME TypeOK, NEW q \in Parts, PrepareWriteReq(q)
    PROVE  /\ up /\ pc["web"] = "idle"
           /\ config' \in Configs /\ config'.magic = config.magic /\ config'.layout = config.layout
           /\ \A p \in Parts : p # q => config'.part[p] = config.part[p]
           /\ config.part[q] = LOST => config'.part[q] = LOST
           /\ config.part[q] # LOST => config'.part[q] # LOST
                                       /\ config'.part[q].of = config.part[q].of
                                       /\ config'.part[q].edit > 0
           /\ pending' = pending \cup {q}
           /\ UNCHANGED <<file, fresh, config_src, gameid, up, pc, fname, cont, rm,
                          crossed, failed, cut, cutUpgrade>>
<1>1. config' = [config EXCEPT !.part[q] = IF @ = LOST THEN @ ELSE [@ EXCEPT !.edit = edits']]
      /\ edits' \in 1 .. MaxEdits
  BY EditType DEF PrepareWriteReq, Edit
<1>2. /\ config' \in Configs /\ config'.magic = config.magic /\ config'.layout = config.layout
      /\ \A p \in Parts : p # q => config'.part[p] = config.part[p]
      /\ config.part[q] = LOST => config'.part[q] = LOST
      /\ config.part[q] # LOST => config'.part[q] # LOST /\ config'.part[q].of = config.part[q].of
                                  /\ config'.part[q].edit = edits'
  BY <1>1, EditFact DEF TypeOK
<1> QED
  BY <1>1, <1>2 DEF PrepareWriteReq, WebMay, disk, threads, notes

\* The two handlers that load the default settings.
LEMMA WebDefaultEffect ==
    ASSUME TypeOK, SetDefaultCfg \/ DelFile(gameid)
    PROVE  /\ up /\ pc["web"] = "idle" /\ pc'["web"] = "load" /\ pc'["fb"] = pc["fb"]
           /\ config_src' = DEFAULT_CFG
           /\ fname'["web"] = DefaultFile /\ fname'["fb"] = fname["fb"]
           /\ rm' \in {GID_GET, gameid}
           /\ pending' = {}
           /\ crossed' = (crossed \/ pc["fb"] # "idle")
           /\ UNCHANGED <<file, fresh, config, gameid, up, cont, edits, failed, cut, cutUpgrade>>
<1>1. CASE SetDefaultCfg
  BY <1>1, ThreadsAre DEF SetDefaultCfg, WebMay, WebDefault, Cross, Goto, disk, TypeOK
<1>2. CASE DelFile(gameid)
  BY <1>2, ThreadsAre DEF DelFile, WebMay, WebDefault, Cross, Goto, disk, TypeOK
<1> QED
  BY <1>1, <1>2

LEMMA DelOtherEffect ==
    ASSUME TypeOK, NEW f \in Files, DelFile(f), f # gameid
    PROVE  /\ up /\ pc["web"] = "idle" /\ pc'["web"] = "remove" /\ pc'["fb"] = pc["fb"]
           /\ rm' = f
           /\ crossed' = (crossed \/ pc["fb"] # "idle")
           /\ UNCHANGED <<file, fresh, config, config_src, pending, gameid, up, fname, cont, edits,
                          failed, cut, cutUpgrade>>
BY ThreadsAre DEF DelFile, WebMay, Cross, Goto, disk, TypeOK

LEMMA RemoveEffect ==
    ASSUME TypeOK, Control, Remove
    PROVE  /\ pc["web"] = "remove" /\ pc'["web"] = "idle" /\ pc'["fb"] = pc["fb"]
           /\ rm' = NO_FILE
           /\ LET f == IF rm = GID_GET THEN gameid ELSE rm
              IN \/ f \notin Files /\ UNCHANGED <<file, fresh>>
                 \/ /\ f \in Files /\ file'[f] = ABSENT /\ fresh' = fresh \cup {f}
                    /\ \A g \in Files : g # f => file'[g] = file[g]
           /\ UNCHANGED <<config, config_src, pending, gameid, up, fname, cont, edits,
                          crossed, failed, cut, cutUpgrade>>
<1> DEFINE f == IF rm = GID_GET THEN gameid ELSE rm
<1>1. f \in Files \/ f = NO_GAME
  BY StoreConstants DEF Remove, Control, TypeOK
<1>2. f = NO_GAME => f \notin Files
  BY StoreConstants
<1>3. CASE f = NO_GAME
  BY <1>2, <1>3, ThreadsAre DEF Remove, Goto, ram, notes, disk, TypeOK
<1>4. CASE f # NO_GAME
  <2>1. file' = [file EXCEPT ![f] = ABSENT] /\ fresh' = fresh \cup {f}
    BY <1>4 DEF Remove
  <2>2. file'[f] = ABSENT /\ \A g \in Files : g # f => file'[g] = file[g]
    BY <1>1, <1>4, <2>1 DEF TypeOK
  <2> QED
    BY <1>1, <1>4, <2>1, <2>2, ThreadsAre DEF Remove, Goto, ram, notes, TypeOK
<1> QED
  BY <1>3, <1>4

\* Steps that change nothing but ota_hdl, and the start of Bluetooth.
LEMMA QuietEffect ==
    ASSUME StartUp \/ OtaStart \/ OtaOver \/ UNCHANGED vars
    PROVE  /\ up' = up \/ (up' = TRUE /\ ~up /\ pc["fb"] = "idle")
           /\ UNCHANGED <<file, fresh, config, config_src, pending, gameid, pc, fname, cont, rm, edits,
                          crossed, failed, cut, cutUpgrade>>
BY DEF StartUp, OtaStart, OtaOver, vars, disk, ram, threads, notes

LEMMA PowerCutEffect ==
    ASSUME TypeOK, PowerCut
    PROVE  /\ config' = NoConfig /\ config_src' = DEFAULT_CFG /\ gameid' = NO_GAME /\ up' = FALSE
           /\ pc'["fb"] = "load" /\ pc'["web"] = "idle"
           /\ \A t \in Threads : fname'[t] = DefaultFile /\ cont'[t] = "done"
           /\ rm' = NO_FILE /\ pending' = {}
           /\ cut \/ (\E t \in Threads : pc[t] \in {"write", "flush"}) => cut'
           /\ cutUpgrade \/ (\E t \in Threads : cont[t] # "done") => cutUpgrade'
           /\ UNCHANGED <<file, fresh, edits, crossed, failed>>
BY DEF PowerCut, disk, TypeOK, Threads

\* The steps, as they are told apart above.
LEMMA StepKinds ==
    ASSUME [Next]_vars
    PROVE  \/ \E t \in Threads : Load(t) \/ Read(t) \/ Upgrade(t) \/ Open(t) \/ Write(t) \/ Flush(t)
           \/ \E g \in Games : GameId(g)
           \/ ConfigInit
           \/ ChooseFile
           \/ (\E q \in Parts : WriteReq(q)) \/ ExecWriteReq \/ SetGameidCfg
           \/ \E q \in Parts : PrepareWriteReq(q)
           \/ SetDefaultCfg \/ DelFile(gameid)
           \/ \E f \in Files : DelFile(f) /\ f # gameid
           \/ Remove
           \/ StartUp \/ OtaStart \/ OtaOver \/ UNCHANGED vars
           \/ PowerCut
BY Zenon DEF Next

\* The contents that a store leaves.
LEMMA ShapeFact ==
    /\ Shape(ABSENT) /\ Shape(Truncated)
    /\ \A x : x.len \in {HalfLen, FileLen("v2")} /\ x.cfg.magic # "v0"
              /\ (x.cfg.magic = "v1" => x.cfg.layout = "v1") => Shape(x)
    /\ \A x : Shape(x) /\ x.len \notin {FileLen("v0"), FileLen("v1")} =>
              x.cfg.magic # "v0" /\ (x.cfg.magic = "v1" => x.cfg.layout = "v1")
    /\ \A x : Shape(x) /\ x # ABSENT =>
              \/ x.len = 0 /\ x.cfg.magic = "none"
              \/ x.len \in {HalfLen, FileLen("v2")} /\ x.cfg.magic # "v0"
              \/ x.len = FileLen("v0") /\ x.cfg.magic = "v0" /\ x.cfg.layout = "v0"
              \/ x.len = FileLen("v1") /\ x.cfg.magic = "v1" /\ x.cfg.layout = "v1"
BY Blanks, LengthsDiffer DEF Shape

\* What has gone wrong is not forgotten.
LEMMA NotForgotten ==
    ASSUME TypeOK, [Next]_vars
    PROVE  /\ failed => failed'
           /\ cutUpgrade => cutUpgrade'
           /\ cut => cut'
           /\ crossed => crossed'
<1> DEFINE P == (failed => failed') /\ (cutUpgrade => cutUpgrade') /\ (cut => cut') /\ (crossed => crossed')
<1> DEFINE Same4 == failed' = failed /\ cutUpgrade' = cutUpgrade /\ cut' = cut /\ crossed' = crossed
<1>0. Same4 => P
  <2>1. failed' = failed => (failed => failed')
    BY Zenon
  <2>2. cutUpgrade' = cutUpgrade => (cutUpgrade => cutUpgrade')
    BY Zenon
  <2>3. cut' = cut => (cut => cut')
    BY Zenon
  <2>4. crossed' = crossed => (crossed => crossed')
    BY Zenon
  <2> QED
    BY <2>1, <2>2, <2>3, <2>4
<1>1. ASSUME NEW t \in Threads, Load(t) \/ Write(t) \/ Flush(t) PROVE P
  <2>1. Same4
    BY <1>1 DEF Load, Write, Flush, notes
  <2> QED
    BY <1>0, <2>1
<1>2. ASSUME NEW t \in Threads, Read(t) \/ Upgrade(t) \/ Open(t) PROVE P
  <2>1. crossed' = crossed /\ cut' = cut /\ cutUpgrade' = cutUpgrade
    BY <1>2, Zenon DEF Read, Upgrade, Open, notes
  <2>2. failed' = failed \/ failed' = TRUE
    BY <1>2, Zenon DEF Read, Upgrade, Open, Works, MayFail
  <2>3. failed => failed'
    BY <2>2, Zenon
  <2>4. (crossed => crossed') /\ (cut => cut') /\ (cutUpgrade => cutUpgrade')
    BY <2>1, Zenon
  <2> QED
    BY <2>3, <2>4
<1>3. ASSUME NEW g \in Games, GameId(g) PROVE P
  BY <1>3, Zenon DEF GameId, notes
<1>4. CASE ConfigInit \/ ChooseFile
  <2>1. Same4
    BY <1>4 DEF ConfigInit, ChooseFile, notes
  <2> QED
    BY <1>0, <2>1
<1>5. CASE (\E q \in Parts : WriteReq(q)) \/ ExecWriteReq \/ SetGameidCfg
  <2>1. /\ failed' = failed /\ cut' = cut /\ cutUpgrade' = cutUpgrade
        /\ crossed' = (crossed \/ pc["fb"] # "idle")
    BY <1>5 DEF WriteReq, ExecWriteReq, SetGameidCfg, ConfigUpdate, Cross
  <2> QED
    BY <2>1, Zenon
<1>6. ASSUME NEW q \in Parts, PrepareWriteReq(q) PROVE P
  BY <1>6, Zenon DEF PrepareWriteReq, notes
<1>7. CASE SetDefaultCfg
  BY <1>7, Zenon DEF SetDefaultCfg, WebDefault, Cross
<1>8. ASSUME NEW f \in Files, DelFile(f) PROVE P
  BY <1>8, Zenon DEF DelFile, WebDefault, Cross
<1>9. CASE Remove
  BY <1>9, Zenon DEF Remove, notes
<1>10. CASE StartUp \/ OtaStart \/ OtaOver
  <2>1. Same4
    BY <1>10 DEF StartUp, OtaStart, OtaOver, notes
  <2> QED
    BY <1>0, <2>1
<1>11. CASE PowerCut
  BY <1>11, Zenon DEF PowerCut
<1>12. CASE UNCHANGED vars
  BY <1>12, Zenon DEF vars, notes
<1> QED
  BY <1>1, <1>2, <1>3, <1>4, <1>5, <1>6, <1>7, <1>8, <1>9, <1>10, <1>11, <1>12, Zenon DEF Next

LEMMA FreshGrows ==
    ASSUME TypeOK, Control, [Next]_vars
    PROVE  fresh \subseteq fresh'
<1>1. ASSUME NEW t \in Threads, Load(t) \/ Read(t) \/ Upgrade(t) \/ Open(t) \/ Write(t) \/ Flush(t)
      PROVE  fresh' = fresh
  BY <1>1, Zenon DEF Load, Read, Upgrade, Open, Write, Flush, disk
<1>2. ASSUME NEW g \in Games, GameId(g) PROVE fresh' = fresh
  BY <1>2, GameIdEffect
<1>3. CASE ConfigInit \/ ChooseFile
  BY <1>3, ConfigInitEffect, ChooseEffect
<1>4. CASE (\E q \in Parts : WriteReq(q)) \/ ExecWriteReq \/ SetGameidCfg
  BY <1>4, UpdateEffect
<1>5. ASSUME NEW q \in Parts, PrepareWriteReq(q) PROVE fresh' = fresh
  BY <1>5, PrepareEffect
<1>6. CASE SetDefaultCfg \/ DelFile(gameid)
  BY <1>6, WebDefaultEffect
<1>7. ASSUME NEW f \in Files, DelFile(f), f # gameid PROVE fresh' = fresh
  BY <1>7, DelOtherEffect
<1>8. CASE Remove
  BY <1>8, RemoveEffect
<1>9. CASE StartUp \/ OtaStart \/ OtaOver \/ UNCHANGED vars
  BY <1>9, QuietEffect
<1>10. CASE PowerCut
  BY <1>10, PowerCutEffect
<1> QED
  BY <1>1, <1>2, <1>3, <1>4, <1>5, <1>6, <1>7, <1>8, <1>9, <1>10, StepKinds

-----------------------------------------------------------------------------
(* Each part of the invariant, step by step.                               *)

LEMMA ControlKept == StoreInv /\ [Next]_vars => Control'
<1> SUFFICES ASSUME StoreInv, [Next]_vars PROVE Control'
  OBVIOUS
<1>0. TypeOK /\ Control
  BY DEF StoreInv
<1>1. CASE Load("fb")
  BY <1>0, <1>1, LoadEffect, ThreadsAre, NamesDiffer DEF Control, Storing, Over, Loading
<1>2. CASE Load("web")
  BY <1>0, <1>2, LoadEffect, ThreadsAre, NamesDiffer DEF Control, Storing, Over, Loading
<1>3. CASE Read("fb")
  BY <1>0, <1>3, ReadMoves, ThreadsAre, NamesDiffer DEF Control, Storing, Over, Loading
<1>4. CASE Read("web")
  BY <1>0, <1>4, ReadMoves, ThreadsAre, NamesDiffer DEF Control, Storing, Over, Loading
<1>5. CASE Upgrade("fb")
  BY <1>0, <1>5, UpgradeEffect, ThreadsAre, NamesDiffer DEF Control, Storing, Over, Loading
<1>6. CASE Upgrade("web")
  BY <1>0, <1>6, UpgradeEffect, ThreadsAre, NamesDiffer DEF Control, Storing, Over, Loading
<1>7. CASE Open("fb")
  BY <1>0, <1>7, OpenMoves, ThreadsAre, NamesDiffer DEF Control, Storing, Over, Loading
<1>8. CASE Open("web")
  BY <1>0, <1>8, OpenMoves, ThreadsAre, NamesDiffer DEF Control, Storing, Over, Loading
<1>9. CASE Write("fb")
  BY <1>0, <1>9, WriteEffect, ThreadsAre, NamesDiffer DEF Control, Storing, Over, Loading
<1>10. CASE Write("web")
  BY <1>0, <1>10, WriteEffect, ThreadsAre, NamesDiffer DEF Control, Storing, Over, Loading
<1>11. CASE Flush("fb")
  BY <1>0, <1>11, FlushMoves, ThreadsAre, NamesDiffer DEF Control, Storing, Over, Loading
<1>12. CASE Flush("web")
  BY <1>0, <1>12, FlushMoves, ThreadsAre, NamesDiffer DEF Control, Storing, Over, Loading
<1>13. ASSUME NEW g \in Games, GameId(g) PROVE Control'
  BY <1>0, <1>13, GameIdEffect, ThreadsAre, NamesDiffer DEF Control, Storing, Over, Loading
<1>14. CASE ConfigInit
  BY <1>0, <1>14, ConfigInitEffect, ThreadsAre, NamesDiffer DEF Control, Storing, Over, Loading
<1>15. CASE ChooseFile
  BY <1>0, <1>15, ChooseEffect, ThreadsAre, NamesDiffer DEF Control, Storing, Over, Loading
<1>16. CASE (\E q \in Parts : WriteReq(q)) \/ ExecWriteReq \/ SetGameidCfg
  BY <1>0, <1>16, UpdateEffect, ThreadsAre, NamesDiffer DEF Control, Storing, Over, Loading
<1>17. ASSUME NEW q \in Parts, PrepareWriteReq(q) PROVE Control'
  BY <1>0, <1>17, PrepareEffect, ThreadsAre, NamesDiffer DEF Control, Storing, Over, Loading
<1>18. CASE SetDefaultCfg \/ DelFile(gameid)
  BY <1>0, <1>18, WebDefaultEffect, ThreadsAre, NamesDiffer DEF Control, Storing, Over, Loading
<1>19. ASSUME NEW f \in Files, DelFile(f), f # gameid PROVE Control'
  BY <1>0, <1>19, DelOtherEffect, ThreadsAre, NamesDiffer DEF Control, Storing, Over, Loading
<1>20. CASE Remove
  BY <1>0, <1>20, RemoveEffect, ThreadsAre, NamesDiffer DEF Control, Storing, Over, Loading
<1>21. CASE StartUp \/ OtaStart \/ OtaOver \/ UNCHANGED vars
  BY <1>0, <1>21, QuietEffect, ThreadsAre, NamesDiffer DEF Control, Storing, Over, Loading
<1>22. CASE PowerCut
  BY <1>0, <1>22, PowerCutEffect, ThreadsAre, NamesDiffer DEF Control, Storing, Over, Loading
<1> QED
  BY <1>1, <1>2, <1>3, <1>4, <1>5, <1>6, <1>7, <1>8, <1>9, <1>10, <1>11, <1>12, <1>13, <1>14, <1>15, <1>16,
     <1>17, <1>18, <1>19, <1>20, <1>21, <1>22, StepKinds, ThreadsAre, Zenon

LEMMA NamesKept == StoreInv /\ [Next]_vars => Names'
<1> SUFFICES ASSUME StoreInv, [Next]_vars PROVE Names'
  OBVIOUS
<1>0. TypeOK /\ Control /\ Names
  BY DEF StoreInv
<1>1. CASE Load("fb")
  BY <1>0, <1>1, LoadEffect, ThreadsAre, NamesDiffer DEF Names, Control, InForce, Storing, Loading, Over
<1>2. CASE Load("web")
  BY <1>0, <1>2, LoadEffect, ThreadsAre, NamesDiffer DEF Names, Control, InForce, Storing, Loading, Over
<1>3. CASE Read("fb")
  BY <1>0, <1>3, ReadMoves, ThreadsAre, NamesDiffer DEF Names, Control, InForce, Storing, Loading, Over
<1>4. CASE Read("web")
  BY <1>0, <1>4, ReadMoves, ThreadsAre, NamesDiffer DEF Names, Control, InForce, Storing, Loading, Over
<1>5. CASE Upgrade("fb")
  BY <1>0, <1>5, UpgradeEffect, ThreadsAre, NamesDiffer DEF Names, Control, InForce, Storing, Loading, Over
<1>6. CASE Upgrade("web")
  BY <1>0, <1>6, UpgradeEffect, ThreadsAre, NamesDiffer DEF Names, Control, InForce, Storing, Loading, Over
<1>7. CASE Open("fb")
  BY <1>0, <1>7, OpenMoves, ThreadsAre, NamesDiffer DEF Names, Control, InForce, Storing, Loading, Over
<1>8. CASE Open("web")
  BY <1>0, <1>8, OpenMoves, ThreadsAre, NamesDiffer DEF Names, Control, InForce, Storing, Loading, Over
<1>9. CASE Write("fb")
  BY <1>0, <1>9, WriteEffect, ThreadsAre, NamesDiffer DEF Names, Control, InForce, Storing, Loading, Over
<1>10. CASE Write("web")
  BY <1>0, <1>10, WriteEffect, ThreadsAre, NamesDiffer DEF Names, Control, InForce, Storing, Loading, Over
<1>11. CASE Flush("fb")
  BY <1>0, <1>11, FlushMoves, ThreadsAre, NamesDiffer DEF Names, Control, InForce, Storing, Loading, Over
<1>12. CASE Flush("web")
  BY <1>0, <1>12, FlushMoves, ThreadsAre, NamesDiffer DEF Names, Control, InForce, Storing, Loading, Over
<1>13. ASSUME NEW g \in Games, GameId(g) PROVE Names'
  BY <1>0, <1>13, GameIdEffect, ThreadsAre, NamesDiffer DEF Names, Control, InForce, Storing, Loading, Over
<1>14. CASE ConfigInit
  BY <1>0, <1>14, ConfigInitEffect, ThreadsAre, NamesDiffer
  DEF Names, Control, InForce, Storing, Loading, Over
<1>15. CASE ChooseFile
  BY <1>0, <1>15, ChooseEffect, ThreadsAre, NamesDiffer DEF Names, Control, InForce, Storing, Loading, Over
<1>16. CASE (\E q \in Parts : WriteReq(q)) \/ ExecWriteReq \/ SetGameidCfg
  BY <1>0, <1>16, UpdateEffect, ThreadsAre, NamesDiffer DEF Names, Control, InForce, Storing, Loading, Over
<1>17. ASSUME NEW q \in Parts, PrepareWriteReq(q) PROVE Names'
  BY <1>0, <1>17, PrepareEffect, ThreadsAre, NamesDiffer DEF Names, Control, InForce, Storing, Loading, Over
<1>18. CASE SetDefaultCfg \/ DelFile(gameid)
  BY <1>0, <1>18, WebDefaultEffect, ThreadsAre, NamesDiffer
  DEF Names, Control, InForce, Storing, Loading, Over
<1>19. ASSUME NEW f \in Files, DelFile(f), f # gameid PROVE Names'
  BY <1>0, <1>19, DelOtherEffect, ThreadsAre, NamesDiffer
  DEF Names, Control, InForce, Storing, Loading, Over
<1>20. CASE Remove
  BY <1>0, <1>20, RemoveEffect, ThreadsAre, NamesDiffer DEF Names, Control, InForce, Storing, Loading, Over
<1>21. CASE StartUp \/ OtaStart \/ OtaOver \/ UNCHANGED vars
  BY <1>0, <1>21, QuietEffect, ThreadsAre, NamesDiffer DEF Names, Control, InForce, Storing, Loading, Over
<1>22. CASE PowerCut
  BY <1>0, <1>22, PowerCutEffect, ThreadsAre, NamesDiffer
  DEF Names, Control, InForce, Storing, Loading, Over
<1> QED
  BY <1>1, <1>2, <1>3, <1>4, <1>5, <1>6, <1>7, <1>8, <1>9, <1>10, <1>11, <1>12, <1>13, <1>14, <1>15, <1>16,
     <1>17, <1>18, <1>19, <1>20, <1>21, <1>22, StepKinds, ThreadsAre, Zenon

LEMMA ShapesKept == StoreInv /\ [Next]_vars => Shapes'
<1> SUFFICES ASSUME StoreInv, [Next]_vars PROVE Shapes'
  OBVIOUS
<1>0. TypeOK /\ Control /\ Shapes /\ Found /\ Magic
  BY DEF StoreInv
<1>t. /\ \A t \in Threads : fname[t] \in Files /\ cont[t] \in {"done", "upgrade", "again"}
      /\ \A f \in Files : file[f] \in Contents /\ file[f].cfg \in Configs
      /\ config \in Configs /\ fresh \subseteq Files
      /\ config_src \in {DEFAULT_CFG, GAMEID_CFG} /\ gameid \in Games \cup {NO_GAME}
  BY <1>0 DEF TypeOK, Contents
<1>1. ASSUME NEW t \in Threads, Load(t) PROVE Shapes'
  BY <1>0, <1>t, <1>1, LoadEffect, ThreadsAre, NamesDiffer DEF Shapes
<1>2. ASSUME NEW t \in Threads, Read(t) PROVE Shapes'
  BY <1>0, <1>t, <1>2, ReadMoves, ThreadsAre, NamesDiffer DEF Shapes
<1>3. ASSUME NEW t \in Threads, Upgrade(t) PROVE Shapes'
  BY <1>0, <1>t, <1>3, UpgradeEffect, ThreadsAre, NamesDiffer DEF Shapes
<1>4. ASSUME NEW t \in Threads, Open(t) PROVE Shapes'
  <2>1. ASSUME NEW f \in Files PROVE Shape(file'[f])
    BY <1>0, <1>4, OpenEffect, ShapeFact DEF Shapes
  <2> QED
    BY <2>1 DEF Shapes, Shape
<1>5. ASSUME NEW t \in Threads, Write(t) PROVE Shapes'
  <2>1. /\ HalfWritten(config).len = HalfLen
        /\ HalfWritten(config).cfg.magic = config.magic /\ HalfWritten(config).cfg.layout = config.layout
    BY <1>t, WrittenFact
  <2>2. Shape(HalfWritten(config)) /\ Shape(ABSENT)
    BY <1>0, <2>1, ShapeFact DEF Magic
  <2>3. ASSUME NEW f \in Files PROVE Shape(file'[f])
    BY <1>0, <1>5, <2>2, WriteEffect DEF Shapes
  <2> QED
    BY <2>3 DEF Shapes, Shape
<1>6. ASSUME NEW t \in Threads, Flush(t) PROVE Shapes'
  <2> DEFINE x == file[fname[t]]
             y == file'[fname[t]]
  <2>1. x # ABSENT => x.cfg.magic # "v0" /\ (x.cfg.magic = "v1" => x.cfg.layout = "v1")
    BY <1>0, <1>t, <1>6, FlushEffect, ShapeFact DEF Shapes, Found, NewInHand, Long
  <2>2. x # ABSENT => Shape(y)
    <3>1. x # ABSENT => y.len = FileLen("v2") /\ y.cfg.magic = x.cfg.magic /\ y.cfg.layout = x.cfg.layout
      BY <1>0, <1>6, FlushEffect
    <3> QED
      BY <2>1, <3>1, ShapeFact
  <2>3. x = ABSENT => Shape(y)
    BY <1>0, <1>6, FlushEffect, ShapeFact
  <2>4. ASSUME NEW f \in Files PROVE Shape(file'[f])
    BY <1>0, <1>6, <2>2, <2>3, FlushEffect DEF Shapes
  <2> QED
    BY <2>4 DEF Shapes, Shape
<1>7. ASSUME NEW g \in Games, GameId(g) PROVE Shapes'
  BY <1>0, <1>t, <1>7, GameIdEffect, ThreadsAre, NamesDiffer DEF Shapes
<1>8. CASE ConfigInit
  BY <1>0, <1>t, <1>8, ConfigInitEffect, ThreadsAre, NamesDiffer DEF Shapes
<1>9. CASE ChooseFile
  BY <1>0, <1>t, <1>9, ChooseEffect, ThreadsAre, NamesDiffer DEF Shapes
<1>10. CASE (\E q \in Parts : WriteReq(q)) \/ ExecWriteReq \/ SetGameidCfg
  BY <1>0, <1>t, <1>10, UpdateEffect, ThreadsAre, NamesDiffer DEF Shapes
<1>11. ASSUME NEW q \in Parts, PrepareWriteReq(q) PROVE Shapes'
  BY <1>0, <1>t, <1>11, PrepareEffect, ThreadsAre, NamesDiffer DEF Shapes
<1>12. CASE SetDefaultCfg \/ DelFile(gameid)
  BY <1>0, <1>t, <1>12, WebDefaultEffect, ThreadsAre, NamesDiffer DEF Shapes
<1>13. ASSUME NEW f \in Files, DelFile(f), f # gameid PROVE Shapes'
  BY <1>0, <1>t, <1>13, DelOtherEffect, ThreadsAre, NamesDiffer DEF Shapes
<1>14. CASE Remove
  <2>1. ASSUME NEW f \in Files PROVE Shape(file'[f])
    BY <1>0, <1>14, RemoveEffect, ShapeFact DEF Shapes
  <2> QED
    BY <2>1 DEF Shapes, Shape
<1>15. CASE StartUp \/ OtaStart \/ OtaOver \/ UNCHANGED vars
  BY <1>0, <1>t, <1>15, QuietEffect, ThreadsAre, NamesDiffer DEF Shapes
<1>16. CASE PowerCut
  BY <1>0, <1>t, <1>16, PowerCutEffect, ThreadsAre, NamesDiffer DEF Shapes
<1> QED
  BY <1>1, <1>2, <1>3, <1>4, <1>5, <1>6, <1>7, <1>8, <1>9, <1>10, <1>11, <1>12, <1>13, <1>14, <1>15, <1>16,
     StepKinds, ThreadsAre, Zenon

LEMMA FoundKept == StoreInv /\ [Next]_vars => Found'
<1> SUFFICES ASSUME StoreInv, [Next]_vars PROVE Found'
  OBVIOUS
<1>0. TypeOK /\ Shapes /\ Control /\ Names /\ Found
  BY DEF StoreInv
<1>t. /\ \A t \in Threads : fname[t] \in Files /\ cont[t] \in {"done", "upgrade", "again"}
      /\ \A f \in Files : file[f] \in Contents /\ file[f].cfg \in Configs
      /\ config \in Configs /\ fresh \subseteq Files
      /\ config_src \in {DEFAULT_CFG, GAMEID_CFG} /\ gameid \in Games \cup {NO_GAME}
  BY <1>0 DEF TypeOK, Contents
<1>1. CASE Load("fb")
  BY <1>0, <1>t, <1>1, LoadEffect, ThreadsAre, NamesDiffer, LengthsDiffer, Blanks
  DEF Found, NewInHand, WebFound, GameFound, NotFresh, Control, Long, Names, Loading, InForce, Storing
<1>2. CASE Load("web")
  BY <1>0, <1>t, <1>2, LoadEffect, ThreadsAre, NamesDiffer, LengthsDiffer, Blanks
  DEF Found, NewInHand, WebFound, GameFound, NotFresh, Control, Long, Names, Loading, InForce, Storing
<1>3. CASE Read("fb")
  BY <1>0, <1>t, <1>3, ReadMoves, ThreadsAre, NamesDiffer, LengthsDiffer, Blanks
  DEF Found, NewInHand, WebFound, GameFound, NotFresh, Control, Long, Names, Loading, InForce, Storing
<1>4. CASE Read("web")
  BY <1>0, <1>t, <1>4, ReadMoves, ThreadsAre, NamesDiffer, LengthsDiffer, Blanks
  DEF Found, NewInHand, WebFound, GameFound, NotFresh, Control, Long, Names, Loading, InForce, Storing
<1>5. CASE Upgrade("fb")
  BY <1>0, <1>t, <1>5, UpgradeEffect, ThreadsAre, NamesDiffer, LengthsDiffer, Blanks
  DEF Found, NewInHand, WebFound, GameFound, NotFresh, Control, Long, Names, Loading, InForce, Storing
<1>6. CASE Upgrade("web")
  BY <1>0, <1>t, <1>6, UpgradeEffect, ThreadsAre, NamesDiffer, LengthsDiffer, Blanks
  DEF Found, NewInHand, WebFound, GameFound, NotFresh, Control, Long, Names, Loading, InForce, Storing
<1>7. CASE Open("fb")
  BY <1>0, <1>t, <1>7, OpenMoves, StoredFiles, ThreadsAre, NamesDiffer, LengthsDiffer, Blanks
  DEF Found, NewInHand, WebFound, GameFound, NotFresh, Control, Long, Names, Loading, InForce, Storing
<1>8. CASE Open("web")
  BY <1>0, <1>t, <1>8, OpenMoves, StoredFiles, ThreadsAre, NamesDiffer, LengthsDiffer, Blanks
  DEF Found, NewInHand, WebFound, GameFound, NotFresh, Control, Long, Names, Loading, InForce, Storing
<1>9. CASE Write("fb")
  BY <1>0, <1>t, <1>9, WriteEffect, StoredFiles, ThreadsAre, NamesDiffer, LengthsDiffer, Blanks
  DEF Found, NewInHand, WebFound, GameFound, NotFresh, Control, Long, Names, Loading, InForce, Storing
<1>10. CASE Write("web")
  BY <1>0, <1>t, <1>10, WriteEffect, StoredFiles, ThreadsAre, NamesDiffer, LengthsDiffer, Blanks
  DEF Found, NewInHand, WebFound, GameFound, NotFresh, Control, Long, Names, Loading, InForce, Storing
<1>11. CASE Flush("fb")
  BY <1>0, <1>t, <1>11, FlushMoves, StoredFiles, ThreadsAre, NamesDiffer, LengthsDiffer, Blanks
  DEF Found, NewInHand, WebFound, GameFound, NotFresh, Control, Long, Names, Loading, InForce, Storing
<1>12. CASE Flush("web")
  BY <1>0, <1>t, <1>12, FlushMoves, StoredFiles, ThreadsAre, NamesDiffer, LengthsDiffer, Blanks
  DEF Found, NewInHand, WebFound, GameFound, NotFresh, Control, Long, Names, Loading, InForce, Storing
<1>13. ASSUME NEW g \in Games, GameId(g) PROVE Found'
  BY <1>0, <1>t, <1>13, GameIdEffect, ThreadsAre, NamesDiffer, LengthsDiffer, Blanks
  DEF Found, NewInHand, WebFound, GameFound, NotFresh, Control, Long, Names, Loading, InForce, Storing
<1>14. CASE ConfigInit
  BY <1>0, <1>t, <1>14, ConfigInitEffect, ThreadsAre, NamesDiffer, LengthsDiffer, Blanks
  DEF Found, NewInHand, WebFound, GameFound, NotFresh, Control, Long, Names, Loading, InForce, Storing
<1>15. CASE ChooseFile
  BY <1>0, <1>t, <1>15, ChooseEffect, ThreadsAre, NamesDiffer, LengthsDiffer, Blanks
  DEF Found, NewInHand, WebFound, GameFound, NotFresh, Control, Long, Names, Loading, InForce, Storing
<1>16. CASE (\E q \in Parts : WriteReq(q)) \/ ExecWriteReq \/ SetGameidCfg
  BY <1>0, <1>t, <1>16, UpdateEffect, ThreadsAre, NamesDiffer, LengthsDiffer, Blanks
  DEF Found, NewInHand, WebFound, GameFound, NotFresh, Control, Long, Names, Loading, InForce, Storing
<1>17. ASSUME NEW q \in Parts, PrepareWriteReq(q) PROVE Found'
  BY <1>0, <1>t, <1>17, PrepareEffect, ThreadsAre, NamesDiffer, LengthsDiffer, Blanks
  DEF Found, NewInHand, WebFound, GameFound, NotFresh, Control, Long, Names, Loading, InForce, Storing
<1>18. CASE SetDefaultCfg \/ DelFile(gameid)
  BY <1>0, <1>t, <1>18, WebDefaultEffect, ThreadsAre, NamesDiffer, LengthsDiffer, Blanks
  DEF Found, NewInHand, WebFound, GameFound, NotFresh, Control, Long, Names, Loading, InForce, Storing
<1>19. ASSUME NEW f \in Files, DelFile(f), f # gameid PROVE Found'
  BY <1>0, <1>t, <1>19, DelOtherEffect, ThreadsAre, NamesDiffer, LengthsDiffer, Blanks
  DEF Found, NewInHand, WebFound, GameFound, NotFresh, Control, Long, Names, Loading, InForce, Storing
<1>20. CASE Remove
  BY <1>0, <1>t, <1>20, RemoveEffect, ThreadsAre, NamesDiffer, LengthsDiffer, Blanks
  DEF Found, NewInHand, WebFound, GameFound, NotFresh, Control, Long, Names, Loading, InForce, Storing
<1>21. CASE StartUp \/ OtaStart \/ OtaOver \/ UNCHANGED vars
  BY <1>0, <1>t, <1>21, QuietEffect, ThreadsAre, NamesDiffer, LengthsDiffer, Blanks
  DEF Found, NewInHand, WebFound, GameFound, NotFresh, Control, Long, Names, Loading, InForce, Storing
<1>22. CASE PowerCut
  BY <1>0, <1>t, <1>22, PowerCutEffect, ThreadsAre, NamesDiffer, LengthsDiffer, Blanks
  DEF Found, NewInHand, WebFound, GameFound, NotFresh, Control, Long, Names, Loading, InForce, Storing
<1> QED
  BY <1>1, <1>2, <1>3, <1>4, <1>5, <1>6, <1>7, <1>8, <1>9, <1>10, <1>11, <1>12, <1>13, <1>14, <1>15, <1>16,
     <1>17, <1>18, <1>19, <1>20, <1>21, <1>22, StepKinds, ThreadsAre, Zenon

\* What a load brings has a magic that is known, or is upgraded next.
LEMMA ReadMagic ==
    ASSUME StoreInv, NEW t \in Threads, Read(t)
    PROVE  /\ config'.magic \in {"v1", "v2"}
           /\ config'.magic = "v1" => config'.layout = "v1" /\ pc'[t] = "upgrade"
<1>0. TypeOK /\ Shapes /\ Magic
  BY DEF StoreInv
<1>1. PICK c \in Configs : Brought(t, c) /\ Judged(t, c)
  BY <1>0, ReadEffect, Zenon
<1>2. fname[t] \in Files /\ file[fname[t]] \in Contents /\ config \in Configs
  BY <1>0 DEF TypeOK
<1>3. c.magic = "v1" => c.layout = "v1"
  <2>1. CASE c = config
    BY <1>0, <2>1 DEF Magic
  <2>2. CASE file[fname[t]] # ABSENT /\ c = ReadInto(config, file[fname[t]])
    <3>1. file[fname[t]].len = 0 => c = config
      BY <1>2, <2>2, ReadFact
    <3>2. file[fname[t]].len # 0 => c.magic = file[fname[t]].cfg.magic /\ c.layout = file[fname[t]].cfg.layout
      BY <1>2, <2>2, ReadFact
    <3>3. file[fname[t]].cfg.magic = "v1" => file[fname[t]].cfg.layout = "v1"
      BY <1>0, <1>2, <2>2, Blanks DEF Shapes, Shape
    <3> QED
      BY <1>0, <3>1, <3>2, <3>3 DEF Magic
  <2> QED
    BY <1>1, <2>1, <2>2 DEF Brought
<1>4. Defaults(fname[t]).magic = "v2" /\ V0Updated(c).magic = "v2"
  BY <1>2, DefaultsFact, V0Fact
<1> QED
  BY <1>1, <1>3, <1>4 DEF Judged

LEMMA UpgradeMagic ==
    ASSUME TypeOK, NEW t \in Threads, Upgrade(t)
    PROVE  config'.magic = "v2"
<1>1. fname[t] \in Files /\ file[fname[t]] \in Contents
  BY DEF TypeOK
<1>2. Defaults(fname[t]).magic = "v2" /\ V1Updated(fname[t], file[fname[t]]).magic = "v2"
  BY <1>1, DefaultsFact, V1Fact
<1> QED
  BY <1>2, UpgradeEffect

LEMMA MagicKept == StoreInv /\ [Next]_vars => Magic'
<1> SUFFICES ASSUME StoreInv, [Next]_vars PROVE Magic'
  OBVIOUS
<1>0. StoreInv /\ TypeOK /\ Shapes /\ Control /\ Names /\ Found /\ Magic
  BY DEF StoreInv
<1>t. /\ \A t \in Threads : fname[t] \in Files /\ cont[t] \in {"done", "upgrade", "again"}
      /\ \A f \in Files : file[f] \in Contents /\ file[f].cfg \in Configs
      /\ config \in Configs /\ fresh \subseteq Files
      /\ config_src \in {DEFAULT_CFG, GAMEID_CFG} /\ gameid \in Games \cup {NO_GAME}
  BY <1>0 DEF TypeOK, Contents
<1>1. CASE Load("fb")
  BY <1>0, <1>t, <1>1, LoadEffect, DefaultsFact, ThreadsAre, NamesDiffer, Blanks
  DEF Magic, Control, Storing, Loading
<1>2. CASE Load("web")
  BY <1>0, <1>t, <1>2, LoadEffect, DefaultsFact, ThreadsAre, NamesDiffer, Blanks
  DEF Magic, Control, Storing, Loading
<1>3. CASE Read("fb")
  BY <1>0, <1>t, <1>3, ReadMoves, ReadMagic, ThreadsAre, NamesDiffer, Blanks
  DEF Magic, Control, Storing, Loading
<1>4. CASE Read("web")
  BY <1>0, <1>t, <1>4, ReadMoves, ReadMagic, ThreadsAre, NamesDiffer, Blanks
  DEF Magic, Control, Storing, Loading
<1>5. CASE Upgrade("fb")
  BY <1>0, <1>t, <1>5, UpgradeEffect, UpgradeMagic, ThreadsAre, NamesDiffer, Blanks
  DEF Magic, Control, Storing, Loading
<1>6. CASE Upgrade("web")
  BY <1>0, <1>t, <1>6, UpgradeEffect, UpgradeMagic, ThreadsAre, NamesDiffer, Blanks
  DEF Magic, Control, Storing, Loading
<1>7. CASE Open("fb")
  BY <1>0, <1>t, <1>7, OpenMoves, ThreadsAre, NamesDiffer, Blanks DEF Magic, Control, Storing, Loading
<1>8. CASE Open("web")
  BY <1>0, <1>t, <1>8, OpenMoves, ThreadsAre, NamesDiffer, Blanks DEF Magic, Control, Storing, Loading
<1>9. CASE Write("fb")
  BY <1>0, <1>t, <1>9, WriteEffect, ThreadsAre, NamesDiffer, Blanks DEF Magic, Control, Storing, Loading
<1>10. CASE Write("web")
  BY <1>0, <1>t, <1>10, WriteEffect, ThreadsAre, NamesDiffer, Blanks DEF Magic, Control, Storing, Loading
<1>11. CASE Flush("fb")
  BY <1>0, <1>t, <1>11, FlushMoves, ThreadsAre, NamesDiffer, Blanks DEF Magic, Control, Storing, Loading
<1>12. CASE Flush("web")
  BY <1>0, <1>t, <1>12, FlushMoves, ThreadsAre, NamesDiffer, Blanks DEF Magic, Control, Storing, Loading
<1>13. ASSUME NEW g \in Games, GameId(g) PROVE Magic'
  BY <1>0, <1>t, <1>13, GameIdEffect, ThreadsAre, NamesDiffer, Blanks DEF Magic, Control, Storing, Loading
<1>14. CASE ConfigInit
  BY <1>0, <1>t, <1>14, ConfigInitEffect, ThreadsAre, NamesDiffer, Blanks
  DEF Magic, Control, Storing, Loading
<1>15. CASE ChooseFile
  BY <1>0, <1>t, <1>15, ChooseEffect, ThreadsAre, NamesDiffer, Blanks DEF Magic, Control, Storing, Loading
<1>16. CASE (\E q \in Parts : WriteReq(q)) \/ ExecWriteReq \/ SetGameidCfg
  BY <1>0, <1>t, <1>16, UpdateEffect, ThreadsAre, NamesDiffer, Blanks DEF Magic, Control, Storing, Loading
<1>17. ASSUME NEW q \in Parts, PrepareWriteReq(q) PROVE Magic'
  BY <1>0, <1>t, <1>17, PrepareEffect, ThreadsAre, NamesDiffer, Blanks DEF Magic, Control, Storing, Loading
<1>18. CASE SetDefaultCfg \/ DelFile(gameid)
  BY <1>0, <1>t, <1>18, WebDefaultEffect, ThreadsAre, NamesDiffer, Blanks
  DEF Magic, Control, Storing, Loading
<1>19. ASSUME NEW f \in Files, DelFile(f), f # gameid PROVE Magic'
  BY <1>0, <1>t, <1>19, DelOtherEffect, ThreadsAre, NamesDiffer, Blanks DEF Magic, Control, Storing, Loading
<1>20. CASE Remove
  BY <1>0, <1>t, <1>20, RemoveEffect, ThreadsAre, NamesDiffer, Blanks DEF Magic, Control, Storing, Loading
<1>21. CASE StartUp \/ OtaStart \/ OtaOver \/ UNCHANGED vars
  BY <1>0, <1>t, <1>21, QuietEffect, ThreadsAre, NamesDiffer, Blanks DEF Magic, Control, Storing, Loading
<1>22. CASE PowerCut
  BY <1>0, <1>t, <1>22, PowerCutEffect, ThreadsAre, NamesDiffer, Blanks DEF Magic, Control, Storing, Loading
<1> QED
  BY <1>1, <1>2, <1>3, <1>4, <1>5, <1>6, <1>7, <1>8, <1>9, <1>10, <1>11, <1>12, <1>13, <1>14, <1>15, <1>16,
     <1>17, <1>18, <1>19, <1>20, <1>21, <1>22, StepKinds, ThreadsAre, Zenon

LEMMA OneAtATimeKept == StoreInv /\ [Next]_vars => OneAtATime'
<1> SUFFICES ASSUME StoreInv, [Next]_vars PROVE OneAtATime'
  OBVIOUS
<1>0. TypeOK /\ Control /\ Names /\ Found /\ OneAtATime
  BY DEF StoreInv
<1>t. /\ \A t \in Threads : fname[t] \in Files /\ cont[t] \in {"done", "upgrade", "again"}
      /\ \A f \in Files : file[f] \in Contents /\ file[f].cfg \in Configs
      /\ config \in Configs /\ fresh \subseteq Files
      /\ config_src \in {DEFAULT_CFG, GAMEID_CFG} /\ gameid \in Games \cup {NO_GAME}
  BY <1>0 DEF TypeOK, Contents
<1>1. CASE Load("fb")
  BY <1>0, <1>t, <1>1, LoadEffect, ThreadsAre, NamesDiffer, Blanks
  DEF OneAtATime, Alone, LoadsInForce, Opened, KeepsCurrent, Control, Names, InForce
<1>2. CASE Load("web")
  BY <1>0, <1>t, <1>2, LoadEffect, ThreadsAre, NamesDiffer, Blanks
  DEF OneAtATime, Alone, LoadsInForce, Opened, KeepsCurrent, Control, Names, InForce
<1>3. CASE Read("fb")
  BY <1>0, <1>t, <1>3, ReadMoves, ThreadsAre, NamesDiffer, Blanks
  DEF OneAtATime, Alone, LoadsInForce, Opened, KeepsCurrent, Control, Names, InForce
<1>4. CASE Read("web")
  BY <1>0, <1>t, <1>4, ReadMoves, ThreadsAre, NamesDiffer, Blanks
  DEF OneAtATime, Alone, LoadsInForce, Opened, KeepsCurrent, Control, Names, InForce
<1>5. CASE Upgrade("fb")
  BY <1>0, <1>t, <1>5, UpgradeEffect, ThreadsAre, NamesDiffer, Blanks
  DEF OneAtATime, Alone, LoadsInForce, Opened, KeepsCurrent, Control, Names, InForce
<1>6. CASE Upgrade("web")
  BY <1>0, <1>t, <1>6, UpgradeEffect, ThreadsAre, NamesDiffer, Blanks
  DEF OneAtATime, Alone, LoadsInForce, Opened, KeepsCurrent, Control, Names, InForce
<1>7. CASE Open("fb")
  BY <1>0, <1>t, <1>7, OpenMoves, StoredFiles, ThreadsAre, NamesDiffer, Blanks
  DEF OneAtATime, Alone, LoadsInForce, Opened, KeepsCurrent, Control, Names, InForce
<1>8. CASE Open("web")
  BY <1>0, <1>t, <1>8, OpenMoves, StoredFiles, ThreadsAre, NamesDiffer, Blanks
  DEF OneAtATime, Alone, LoadsInForce, Opened, KeepsCurrent, Control, Names, InForce
<1>9. CASE Write("fb")
  BY <1>0, <1>t, <1>9, WriteEffect, StoredFiles, ThreadsAre, NamesDiffer, Blanks
  DEF OneAtATime, Alone, LoadsInForce, Opened, KeepsCurrent, Control, Names, InForce
<1>10. CASE Write("web")
  BY <1>0, <1>t, <1>10, WriteEffect, StoredFiles, ThreadsAre, NamesDiffer, Blanks
  DEF OneAtATime, Alone, LoadsInForce, Opened, KeepsCurrent, Control, Names, InForce
<1>11. CASE Flush("fb")
  BY <1>0, <1>t, <1>11, FlushMoves, StoredFiles, ThreadsAre, NamesDiffer, Blanks
  DEF OneAtATime, Alone, LoadsInForce, Opened, KeepsCurrent, Control, Names, InForce
<1>12. CASE Flush("web")
  BY <1>0, <1>t, <1>12, FlushMoves, StoredFiles, ThreadsAre, NamesDiffer, Blanks
  DEF OneAtATime, Alone, LoadsInForce, Opened, KeepsCurrent, Control, Names, InForce
<1>13. ASSUME NEW g \in Games, GameId(g) PROVE OneAtATime'
  BY <1>0, <1>t, <1>13, GameIdEffect, ThreadsAre, NamesDiffer, Blanks
  DEF OneAtATime, Alone, LoadsInForce, Opened, KeepsCurrent, Control, Names, InForce
<1>14. CASE ConfigInit
  BY <1>0, <1>t, <1>14, ConfigInitEffect, ThreadsAre, NamesDiffer, Blanks
  DEF OneAtATime, Alone, LoadsInForce, Opened, KeepsCurrent, Control, Names, InForce
<1>15. CASE ChooseFile
  BY <1>0, <1>t, <1>15, ChooseEffect, ThreadsAre, NamesDiffer, Blanks
  DEF OneAtATime, Alone, LoadsInForce, Opened, KeepsCurrent, Control, Names, InForce
<1>16. CASE (\E q \in Parts : WriteReq(q)) \/ ExecWriteReq \/ SetGameidCfg
  BY <1>0, <1>t, <1>16, UpdateEffect, ThreadsAre, NamesDiffer, Blanks
  DEF OneAtATime, Alone, LoadsInForce, Opened, KeepsCurrent, Control, Names, InForce
<1>17. ASSUME NEW q \in Parts, PrepareWriteReq(q) PROVE OneAtATime'
  BY <1>0, <1>t, <1>17, PrepareEffect, ThreadsAre, NamesDiffer, Blanks
  DEF OneAtATime, Alone, LoadsInForce, Opened, KeepsCurrent, Control, Names, InForce
<1>18. CASE SetDefaultCfg \/ DelFile(gameid)
  BY <1>0, <1>t, <1>18, WebDefaultEffect, ThreadsAre, NamesDiffer, Blanks
  DEF OneAtATime, Alone, LoadsInForce, Opened, KeepsCurrent, Control, Names, InForce
<1>19. ASSUME NEW f \in Files, DelFile(f), f # gameid PROVE OneAtATime'
  BY <1>0, <1>t, <1>19, DelOtherEffect, ThreadsAre, NamesDiffer, Blanks
  DEF OneAtATime, Alone, LoadsInForce, Opened, KeepsCurrent, Control, Names, InForce
<1>20. CASE Remove
  BY <1>0, <1>t, <1>20, RemoveEffect, ThreadsAre, NamesDiffer, Blanks
  DEF OneAtATime, Alone, LoadsInForce, Opened, KeepsCurrent, Control, Names, InForce
<1>21. CASE StartUp \/ OtaStart \/ OtaOver \/ UNCHANGED vars
  BY <1>0, <1>t, <1>21, QuietEffect, ThreadsAre, NamesDiffer, Blanks
  DEF OneAtATime, Alone, LoadsInForce, Opened, KeepsCurrent, Control, Names, InForce
<1>22. CASE PowerCut
  BY <1>0, <1>t, <1>22, PowerCutEffect, ThreadsAre, NamesDiffer, Blanks
  DEF OneAtATime, Alone, LoadsInForce, Opened, KeepsCurrent, Control, Names, InForce
<1> QED
  BY <1>1, <1>2, <1>3, <1>4, <1>5, <1>6, <1>7, <1>8, <1>9, <1>10, <1>11, <1>12, <1>13, <1>14, <1>15, <1>16,
     <1>17, <1>18, <1>19, <1>20, <1>21, <1>22, StepKinds, ThreadsAre, Zenon

\* What bt_fb_task and the start-up may have read, if every call worked.
LEMMA FbReads ==
    ASSUME StoreInv, Read("fb"), ~Excused'
    PROVE  /\ ~Excused /\ pc["fb"] = "read" /\ pc["web"] = "idle"
           /\ config'.layout = "v2" \/ pc'["fb"] = "upgrade" \/ cont'["fb"] = "upgrade"
           /\ pc'["fb"] = "upgrade" => config'.magic = "v1" /\ file[fname["fb"]].len # FileLen("v0")
           /\ up /\ (pc'["fb"] = "upgrade" \/ cont'["fb"] = "upgrade") =>
                fname["fb"] = gameid /\ fname["fb"] # DefaultFile /\ config_src = GAMEID_CFG
           /\ ~up /\ pc'["fb"] = "idle" => ~Long(DefaultFile) /\ file[DefaultFile].len # 0
<1>0. TypeOK /\ Shapes /\ Control /\ Names /\ Found /\ Magic /\ Layouts
  BY DEF StoreInv
<1> DEFINE f == fname["fb"]
           x == file[f]
<1>1. f \in Files /\ x \in Contents /\ x.cfg \in Configs /\ config \in Configs /\ Shape(x)
  BY <1>0, ThreadsAre DEF TypeOK, Contents, Shapes
<1>2. PICK c \in Configs : Brought("fb", c) /\ Judged("fb", c)
  BY <1>0, ReadEffect, ThreadsAre, Zenon
<1>3. /\ pc["fb"] = "read" /\ pc["web"] = "idle" /\ cont["fb"] = "done" /\ rm = NO_FILE
      /\ ~Excused /\ failed' = failed
  <2>1. pc["fb"] = "read" /\ pc["web"] = "idle" /\ cutUpgrade' = cutUpgrade
    BY <1>0, ReadMoves, ThreadsAre
  <2>2. failed' = failed /\ ~Excused
    <3>1. ~failed' /\ ~cutUpgrade'
      BY Zenon DEF Excused
    <3>2. failed' = failed
      BY <1>2, <3>1, Zenon DEF Brought
    <3> QED
      BY <2>1, <3>1, <3>2, Zenon DEF Excused
  <2> QED
    BY <1>0, <2>1, <2>2, ThreadsAre DEF Control, Storing, TypeOK
<1>4. config.layout = "v2" /\ config.magic # "v1" /\ config.magic # "v0"
  BY <1>0, <1>3 DEF Layouts, LayoutsNow, OldInHand, Magic
<1>5. c = config \/ (x # ABSENT /\ x.len # 0 /\ c.magic = x.cfg.magic /\ c.layout = x.cfg.layout)
  <2>1. c = config \/ (x # ABSENT /\ c = ReadInto(config, x))
    BY <1>2, <1>3 DEF Brought
  <2> QED
    BY <1>1, <2>1, ReadFact
<1>6. ASSUME c # config, c.magic = "v2"
      PROVE  c.layout = "v2" /\ x.len \notin {0, FileLen("v0"), FileLen("v1")}
  <2>1. x.len \in {HalfLen, FileLen("v2")}
    BY <1>1, <1>5, <1>6, ShapeFact
  <2>2. x.len \notin {0, FileLen("v0"), FileLen("v1")}
    BY <2>1, LengthsDiffer
  <2>3. OldFiles
    BY <1>0, <1>3 DEF Layouts, LayoutsNow
  <2> QED
    BY <1>1, <1>3, <1>5, <1>6, <2>2, <2>3 DEF OldFiles, Long
<1>7. ASSUME up, c # config, c.magic \in {"v0", "v1"}
      PROVE  f = gameid /\ f # DefaultFile /\ config_src = GAMEID_CFG
  <2>1. f # DefaultFile
    <3>1. SUFFICES ASSUME f = DefaultFile PROVE FALSE
      OBVIOUS
    <3>2. ~Long(f) /\ OldFiles
      BY <1>0, <1>3, <1>7, <3>1 DEF Layouts, LayoutsNow, DefaultIsNew
    <3>3. x.len \notin {FileLen("v0"), FileLen("v1")} /\ x.cfg.magic # "v1"
      BY <1>1, <3>1, <3>2 DEF OldFiles, Long
    <3> QED
      BY <1>1, <1>5, <1>7, <3>3, ShapeFact
  <2>2. config_src = GAMEID_CFG
    BY <1>0, <1>3, <1>5, <1>7, <2>1, StoreConstants, NamesDiffer, <1>1 DEF Found, GameFound, Loading, TypeOK
  <2> QED
    BY <1>0, <2>1, <2>2 DEF Names
<1>8. Defaults(f).layout = "v2"
  BY <1>1, DefaultsFact
<1>9. c = config => c.magic \in {"v2", "none"}
  BY <1>1, <1>4, ConfigFields
<1>10. c # config /\ c.magic = "v1" => x.len # FileLen("v0")
  BY <1>1, <1>5, ShapeFact, LengthsDiffer
<1>11. ~up => f = DefaultFile /\ config.magic = "none"
  BY <1>0, <1>3 DEF Control, Magic, Loading
<1>12. c.magic \in {"v0", "v1", "v2", "none"}
  BY ConfigFields
<1>13. \/ c.magic = "v2" /\ config' = c /\ pc'["fb"] = "idle" /\ cont'["fb"] = "done"
       \/ c.magic = "v1" /\ config' = c /\ pc'["fb"] = "upgrade" /\ cont'["fb"] = "done"
       \/ c.magic = "v0" /\ pc'["fb"] = "open" /\ cont'["fb"] = "upgrade"
       \/ c.magic = "none" /\ config' = Defaults(f) /\ pc'["fb"] = "open" /\ cont'["fb"] = "done"
  BY <1>2, <1>3 DEF Judged
<1>14. CASE c.magic = "v2"
  BY <1>3, <1>4, <1>6, <1>11, <1>13, <1>14 DEF Long
<1>15. CASE c.magic \in {"v0", "v1"}
  BY <1>3, <1>7, <1>9, <1>10, <1>13, <1>15
<1>16. CASE c.magic = "none"
  BY <1>3, <1>8, <1>13, <1>16
<1> QED
  BY <1>12, <1>14, <1>15, <1>16

\* The web configuration reads the settings for all games, which the start-up has upgraded.
LEMMA WebReads ==
    ASSUME StoreInv, Read("web"), ~Excused'
    PROVE  /\ ~Excused /\ config'.layout = "v2"
           /\ pc'["web"] # "upgrade" /\ cont'["web"] = "done"
<1>0. TypeOK /\ Shapes /\ Control /\ Names /\ Found /\ Magic /\ Layouts
  BY DEF StoreInv
<1> DEFINE x == file[DefaultFile]
<1>1. x \in Contents /\ x.cfg \in Configs /\ config \in Configs /\ Shape(x)
  BY <1>0, StoreConstants DEF TypeOK, Contents, Shapes
<1>2. PICK c \in Configs : Brought("web", c) /\ Judged("web", c)
  BY <1>0, ReadEffect, ThreadsAre, Zenon
<1>3. /\ pc["web"] = "read" /\ cont["web"] = "done" /\ fname["web"] = DefaultFile /\ up
      /\ x # ABSENT /\ ~Excused /\ failed' = failed
  <2>1. pc["web"] = "read" /\ cutUpgrade' = cutUpgrade
    BY <1>0, ReadMoves, ThreadsAre
  <2>2. failed' = failed /\ ~Excused
    <3>1. ~failed' /\ ~cutUpgrade'
      BY Zenon DEF Excused
    <3>2. failed' = failed
      BY <1>2, <3>1, Zenon DEF Brought
    <3> QED
      BY <2>1, <3>1, <3>2, Zenon DEF Excused
  <2>3. fname["web"] = DefaultFile /\ up
    BY <1>0, <2>1 DEF Control, Names, Loading
  <2> QED
    BY <1>0, <2>1, <2>2, <2>3, ThreadsAre DEF Control, Storing, TypeOK, Found, WebFound
<1>4. OldInHand /\ WebIsNew /\ OldFiles /\ DefaultIsNew /\ GameUpgraded
  BY <1>0, <1>3 DEF Layouts, LayoutsNow
<1>5. c = ReadInto(config, x)
  BY <1>2, <1>3, Zenon DEF Brought, Excused
<1>6. CASE x.len = 0
  <2>1. c = config
    BY <1>1, <1>5, <1>6, ReadFact
  <2>2. fname["fb"] = DefaultFile /\ pc["fb"] = "write"
    BY <1>3, <1>4, <1>6, ThreadsAre DEF DefaultIsNew
  <2>3. config.layout = "v2" /\ config.magic = "v2"
    <3>1. gameid # DefaultFile
      BY <1>0, StoreConstants DEF TypeOK
    <3> QED
      BY <1>0, <1>3, <1>4, <2>2, <3>1 DEF OldInHand, Magic, Loading
  <2> QED
    BY <1>2, <1>3, <2>1, <2>3 DEF Judged
<1>7. CASE x.len # 0
  <2>1. c.magic = x.cfg.magic /\ c.layout = x.cfg.layout
    BY <1>1, <1>5, <1>7, ReadFact
  <2>2. ~Long(DefaultFile)
    BY <1>3, <1>4 DEF DefaultIsNew
  <2>3. x.cfg.magic \notin {"v0", "v1"} /\ x.cfg.layout = "v2"
    <3>1. x.cfg.magic # "v1" /\ x.cfg.layout = "v2"
      BY <1>3, <1>4, <2>2, StoreConstants DEF OldFiles, GameUpgraded
    <3>2. x.len \notin {FileLen("v0"), FileLen("v1")}
      BY <2>2 DEF Long
    <3> QED
      BY <1>1, <1>3, <3>1, <3>2, ShapeFact
  <2>4. Defaults(DefaultFile).layout = "v2"
    BY StoreConstants, DefaultsFact
  <2> QED
    BY <1>2, <1>3, <2>1, <2>3, <2>4 DEF Judged
<1> QED
  BY <1>6, <1>7

\* After an upgrade of the records the layout is the current one.
LEMMA FbUpgrades ==
    ASSUME StoreInv, Upgrade("fb"), ~Excused
    PROVE  config'.layout = "v2"
<1>0. TypeOK /\ Shapes /\ Layouts
  BY DEF StoreInv
<1> DEFINE f == fname["fb"]
           x == file[f]
<1>1. f \in Files /\ x \in Contents /\ Shape(x) /\ Defaults(f).layout = "v2"
  BY <1>0, ThreadsAre, DefaultsFact DEF TypeOK, Shapes
<1>2. pc["fb"] = "upgrade" /\ (config' = Defaults(f) \/ (x # ABSENT /\ config' = V1Updated(f, x)))
  BY <1>0, UpgradeEffect, ThreadsAre
<1>3. x.len # FileLen("v0")
  BY <1>0, <1>2, ThreadsAre DEF Layouts, LayoutsNow, UpgradesV1
<1>4. x # ABSENT => V1Updated(f, x).layout = "v2"
  BY <1>1, <1>3, ShapeFact, V1Fact
<1> QED
  BY <1>1, <1>2, <1>4

LEMMA LayoutsKept == StoreInv /\ [Next]_vars => Layouts'
<1> SUFFICES ASSUME StoreInv, [Next]_vars, ~Excused' PROVE LayoutsNow'
  BY DEF Layouts
<1>0. TypeOK /\ Shapes /\ Control /\ Names /\ Found /\ Magic /\ Layouts
  BY DEF StoreInv
<1>t. /\ \A t \in Threads : fname[t] \in Files /\ cont[t] \in {"done", "upgrade", "again"}
      /\ \A f \in Files : file[f] \in Contents /\ file[f].cfg \in Configs
      /\ config \in Configs /\ fresh \subseteq Files
      /\ config_src \in {DEFAULT_CFG, GAMEID_CFG} /\ gameid \in Games \cup {NO_GAME}
  BY <1>0 DEF TypeOK, Contents
<1>e. ~failed' /\ ~cutUpgrade' /\ ~Excused
  <2>1. ~failed' /\ ~cutUpgrade'
    BY Zenon DEF Excused
  <2> QED
    BY <1>0, <2>1, NotForgotten, Zenon DEF Excused
<1>l. LayoutsNow
  BY <1>0, <1>e DEF Layouts
<1>1. CASE Load("fb")
  BY <1>0, <1>t, <1>e, <1>l, <1>1, LoadEffect, DefaultsFact, ThreadsAre, NamesDiffer, LengthsDiffer,
     Blanks, StoreConstants
  DEF LayoutsNow, OldInHand, WebIsNew, OldFiles, UpgradesV1, DefaultIsNew, GameUpgraded, Control, Names,
      Loading, Storing, Long
<1>2. CASE Load("web")
  BY <1>0, <1>t, <1>e, <1>l, <1>2, LoadEffect, DefaultsFact, ThreadsAre, NamesDiffer, LengthsDiffer,
     Blanks, StoreConstants
  DEF LayoutsNow, OldInHand, WebIsNew, OldFiles, UpgradesV1, DefaultIsNew, GameUpgraded, Control, Names,
      Loading, Storing, Long
<1>3. CASE Read("fb")
  BY <1>0, <1>t, <1>e, <1>l, <1>3, ReadMoves, ThreadsAre, NamesDiffer, LengthsDiffer, Blanks,
     StoreConstants, FbReads
  DEF LayoutsNow, OldInHand, WebIsNew, OldFiles, UpgradesV1, DefaultIsNew, GameUpgraded, Control, Names,
      Loading, Storing, Long
<1>4. CASE Read("web")
  BY <1>0, <1>t, <1>e, <1>l, <1>4, ReadMoves, ThreadsAre, NamesDiffer, LengthsDiffer, Blanks,
     StoreConstants, WebReads
  DEF LayoutsNow, OldInHand, WebIsNew, OldFiles, UpgradesV1, DefaultIsNew, GameUpgraded, Control, Names,
      Loading, Storing, Long
<1>5. CASE Upgrade("fb")
  BY <1>0, <1>t, <1>e, <1>l, <1>5, UpgradeEffect, ThreadsAre, NamesDiffer, LengthsDiffer, Blanks,
     StoreConstants, FbUpgrades
  DEF LayoutsNow, OldInHand, WebIsNew, OldFiles, UpgradesV1, DefaultIsNew, GameUpgraded, Control, Names,
      Loading, Storing, Long
<1>6. CASE Upgrade("web")
  BY <1>0, <1>t, <1>e, <1>l, <1>6, UpgradeEffect, ThreadsAre, NamesDiffer, LengthsDiffer, Blanks,
     StoreConstants
  DEF LayoutsNow, OldInHand, WebIsNew, OldFiles, UpgradesV1, DefaultIsNew, GameUpgraded, Control, Names,
      Loading, Storing, Long
<1>7. CASE Open("fb")
  BY <1>0, <1>t, <1>e, <1>l, <1>7, OpenMoves, StoredHeads, ThreadsAre, NamesDiffer, LengthsDiffer, Blanks,
     StoreConstants
  DEF LayoutsNow, OldInHand, WebIsNew, OldFiles, UpgradesV1, DefaultIsNew, GameUpgraded, Control, Names,
      Loading, Storing, Long
<1>8. CASE Open("web")
  BY <1>0, <1>t, <1>e, <1>l, <1>8, OpenMoves, StoredHeads, ThreadsAre, NamesDiffer, LengthsDiffer, Blanks,
     StoreConstants
  DEF LayoutsNow, OldInHand, WebIsNew, OldFiles, UpgradesV1, DefaultIsNew, GameUpgraded, Control, Names,
      Loading, Storing, Long
<1>9. CASE Write("fb")
  BY <1>0, <1>t, <1>e, <1>l, <1>9, WriteEffect, StoredHeads, ThreadsAre, NamesDiffer, LengthsDiffer,
     Blanks, StoreConstants
  DEF LayoutsNow, OldInHand, WebIsNew, OldFiles, UpgradesV1, DefaultIsNew, GameUpgraded, Control, Names,
      Loading, Storing, Magic, Long
<1>10. CASE Write("web")
  BY <1>0, <1>t, <1>e, <1>l, <1>10, WriteEffect, StoredHeads, ThreadsAre, NamesDiffer, LengthsDiffer,
     Blanks, StoreConstants
  DEF LayoutsNow, OldInHand, WebIsNew, OldFiles, UpgradesV1, DefaultIsNew, GameUpgraded, Control, Names,
      Loading, Storing, Magic, Long
<1>11. CASE Flush("fb")
  BY <1>0, <1>t, <1>e, <1>l, <1>11, FlushMoves, StoredHeads, ThreadsAre, NamesDiffer, LengthsDiffer,
     Blanks, StoreConstants
  DEF LayoutsNow, OldInHand, WebIsNew, OldFiles, UpgradesV1, DefaultIsNew, GameUpgraded, Control, Names,
      Loading, Storing, Found, NewInHand, Long
<1>12. CASE Flush("web")
  BY <1>0, <1>t, <1>e, <1>l, <1>12, FlushMoves, StoredHeads, ThreadsAre, NamesDiffer, LengthsDiffer,
     Blanks, StoreConstants
  DEF LayoutsNow, OldInHand, WebIsNew, OldFiles, UpgradesV1, DefaultIsNew, GameUpgraded, Control, Names,
      Loading, Storing, Found, NewInHand, Long
<1>13. ASSUME NEW g \in Games, GameId(g) PROVE LayoutsNow'
  BY <1>0, <1>t, <1>e, <1>l, <1>13, GameIdEffect, ThreadsAre, NamesDiffer, LengthsDiffer, Blanks,
     StoreConstants
  DEF LayoutsNow, OldInHand, WebIsNew, OldFiles, UpgradesV1, DefaultIsNew, GameUpgraded, Control, Names,
      Loading, Storing, Long
<1>14. CASE ConfigInit
  BY <1>0, <1>t, <1>e, <1>l, <1>14, ConfigInitEffect, ThreadsAre, NamesDiffer, LengthsDiffer, Blanks,
     StoreConstants
  DEF LayoutsNow, OldInHand, WebIsNew, OldFiles, UpgradesV1, DefaultIsNew, GameUpgraded, Control, Names,
      Loading, Storing, Long
<1>15. CASE ChooseFile
  BY <1>0, <1>t, <1>e, <1>l, <1>15, ChooseEffect, ThreadsAre, NamesDiffer, LengthsDiffer, Blanks,
     StoreConstants
  DEF LayoutsNow, OldInHand, WebIsNew, OldFiles, UpgradesV1, DefaultIsNew, GameUpgraded, Control, Names,
      Loading, Storing, Long
<1>16. CASE (\E q \in Parts : WriteReq(q)) \/ ExecWriteReq \/ SetGameidCfg
  BY <1>0, <1>t, <1>e, <1>l, <1>16, UpdateEffect, ThreadsAre, NamesDiffer, LengthsDiffer, Blanks,
     StoreConstants
  DEF LayoutsNow, OldInHand, WebIsNew, OldFiles, UpgradesV1, DefaultIsNew, GameUpgraded, Control, Names,
      Loading, Storing, Long
<1>17. ASSUME NEW q \in Parts, PrepareWriteReq(q) PROVE LayoutsNow'
  BY <1>0, <1>t, <1>e, <1>l, <1>17, PrepareEffect, ThreadsAre, NamesDiffer, LengthsDiffer, Blanks,
     StoreConstants
  DEF LayoutsNow, OldInHand, WebIsNew, OldFiles, UpgradesV1, DefaultIsNew, GameUpgraded, Control, Names,
      Loading, Storing, Long
<1>18. CASE SetDefaultCfg \/ DelFile(gameid)
  BY <1>0, <1>t, <1>e, <1>l, <1>18, WebDefaultEffect, ThreadsAre, NamesDiffer, LengthsDiffer, Blanks,
     StoreConstants
  DEF LayoutsNow, OldInHand, WebIsNew, OldFiles, UpgradesV1, DefaultIsNew, GameUpgraded, Control, Names,
      Loading, Storing, Long
<1>19. ASSUME NEW f \in Files, DelFile(f), f # gameid PROVE LayoutsNow'
  BY <1>0, <1>t, <1>e, <1>l, <1>19, DelOtherEffect, ThreadsAre, NamesDiffer, LengthsDiffer, Blanks,
     StoreConstants
  DEF LayoutsNow, OldInHand, WebIsNew, OldFiles, UpgradesV1, DefaultIsNew, GameUpgraded, Control, Names,
      Loading, Storing, Long
<1>20. CASE Remove
  BY <1>0, <1>t, <1>e, <1>l, <1>20, RemoveEffect, ThreadsAre, NamesDiffer, LengthsDiffer, Blanks,
     StoreConstants
  DEF LayoutsNow, OldInHand, WebIsNew, OldFiles, UpgradesV1, DefaultIsNew, GameUpgraded, Control, Names,
      Loading, Storing, Long
<1>21. CASE StartUp \/ OtaStart \/ OtaOver \/ UNCHANGED vars
  <2>1. OldInHand'
    BY <1>0, <1>t, <1>e, <1>l, <1>21, QuietEffect, ThreadsAre, NamesDiffer, LengthsDiffer, Blanks,
       StoreConstants DEF LayoutsNow, OldInHand, WebIsNew, Control, Names, Loading, Storing
  <2>2. WebIsNew'
    BY <1>0, <1>t, <1>e, <1>l, <1>21, QuietEffect, ThreadsAre, NamesDiffer, LengthsDiffer, Blanks,
       StoreConstants DEF LayoutsNow, WebIsNew, Control, Storing
  <2>3. OldFiles'
    BY <1>0, <1>t, <1>e, <1>l, <1>21, QuietEffect, ThreadsAre, NamesDiffer, LengthsDiffer, Blanks,
       StoreConstants DEF LayoutsNow, OldFiles, Control, Long, Storing
  <2>4. UpgradesV1'
    BY <1>0, <1>t, <1>e, <1>l, <1>21, QuietEffect, ThreadsAre, NamesDiffer, LengthsDiffer, Blanks,
       StoreConstants DEF LayoutsNow, UpgradesV1, WebIsNew, Control, Long, Storing
  <2>5. DefaultIsNew'
    BY <1>0, <1>t, <1>e, <1>l, <1>21, QuietEffect, ThreadsAre, NamesDiffer, LengthsDiffer, Blanks,
       StoreConstants DEF LayoutsNow, DefaultIsNew, Control, Long
  <2>6. GameUpgraded'
    BY <1>0, <1>t, <1>e, <1>l, <1>21, QuietEffect, ThreadsAre, NamesDiffer, LengthsDiffer, Blanks,
       StoreConstants DEF LayoutsNow, GameUpgraded, Control, Storing
  <2> QED
    BY <2>1, <2>2, <2>3, <2>4, <2>5, <2>6 DEF LayoutsNow
<1>22. CASE PowerCut
  BY <1>0, <1>t, <1>e, <1>l, <1>22, PowerCutEffect, ThreadsAre, NamesDiffer, LengthsDiffer, Blanks,
     StoreConstants
  DEF LayoutsNow, OldInHand, WebIsNew, OldFiles, UpgradesV1, DefaultIsNew, GameUpgraded, Control, Names,
      Loading, Storing, Long
<1> QED
  BY <1>1, <1>2, <1>3, <1>4, <1>5, <1>6, <1>7, <1>8, <1>9, <1>10, <1>11, <1>12, <1>13, <1>14, <1>15, <1>16,
     <1>17, <1>18, <1>19, <1>20, <1>21, <1>22, StepKinds, ThreadsAre, Zenon

\* What a thread has read when nothing has gone wrong: the file is complete.
LEMMA ReadsWhole ==
    ASSUME StoreInv, [Next]_vars, NEW t \in Threads, Read(t), ~Spoiled'
    PROVE  LET f == fname[t]
           IN /\ file[f] # ABSENT /\ file[f].len \notin {0, HalfLen}
              /\ SettingsOf(config', f)
              /\ \/ pc'[t] \in {"idle", "remove"} /\ config' = file[f].cfg /\ cont'[t] = cont[t]
                 \/ pc'[t] = "upgrade" /\ file[f].len = FileLen("v1") /\ cont'[t] = cont[t]
                 \/ pc'[t] = "open" /\ file[f].len = FileLen("v0") /\ cont'[t] = "upgrade"
<1> DEFINE f == fname[t]
           x == file[f]
<1>0. TypeOK /\ Shapes /\ Control /\ OneAtATime /\ Apart
  BY DEF StoreInv
<1>e. ~failed' /\ ~cut' /\ ~cutUpgrade' /\ ~crossed'
      /\ ~Spoiled /\ ~Excused /\ ~crossed /\ ~Excused'
  <2>1. ~failed' /\ ~cut' /\ ~cutUpgrade' /\ ~crossed'
    BY Zenon DEF Spoiled
  <2> QED
    BY <1>0, <2>1, NotForgotten, Zenon DEF Spoiled, Excused
<1>1. f \in Files /\ x \in Contents /\ config \in Configs /\ Shape(x)
  BY <1>0 DEF TypeOK, Shapes
<1>2. PICK c \in Configs : Brought(t, c) /\ Judged(t, c)
  BY <1>0, ReadEffect, Zenon
<1>3. pc[t] = "read" /\ (t = "web" \/ pc["web"] = "idle")
  BY <1>0, ReadMoves
<1>4. x # ABSENT
  BY <1>0, <1>e, <1>3 DEF OneAtATime, Opened
<1>5. c = ReadInto(config, x)
  BY <1>2, <1>4, <1>e, Zenon DEF Brought
<1>6. x.len \notin {0, HalfLen}
  <2>1. HalfIsHeld /\ Alone
    BY <1>0, <1>e DEF Apart, ApartNow, OneAtATime
  <2> QED
    BY <1>1, <1>3, <2>1, ThreadsAre DEF HalfIsHeld, Alone
<1>7. FilesApart /\ NewMagic
  BY <1>0, <1>e DEF Apart, ApartNow
<1>8. CASE x.len = FileLen("v2")
  <2>1. c = x.cfg /\ c.magic = "v2" /\ SettingsOf(c, f)
    BY <1>1, <1>5, <1>7, <1>8, ReadFact DEF FilesApart, NewMagic
  <2>2. config' = c /\ pc'[t] \in {"idle", "remove"} /\ cont'[t] = cont[t]
    BY <1>2, <2>1 DEF Judged
  <2> QED
    BY <1>4, <1>6, <2>1, <2>2
<1>9. CASE x.len \in {FileLen("v0"), FileLen("v1")}
  <2>1. c.magic = x.cfg.magic /\ c.part[1] = x.cfg.part[1] /\ c.part[2] = LOST
    BY <1>1, <1>5, <1>6, <1>9, ReadFact, LengthsDiffer
  <2>2. SettingsOf(c, f)
    BY <1>1, <1>7, <2>1 DEF FilesApart, SettingsOf, Parts
  <2>3. \/ x.len = FileLen("v0") /\ x.cfg.magic = "v0"
        \/ x.len = FileLen("v1") /\ x.cfg.magic = "v1"
    BY <1>1, <1>4, <1>9, ShapeFact, LengthsDiffer
  <2>4. V0Updated(c).part = c.part
    BY V0Fact
  <2>5. SettingsOf(V0Updated(c), f)
    BY <2>2, <2>4 DEF SettingsOf
  <2> QED
    BY <1>2, <1>4, <1>6, <2>1, <2>2, <2>3, <2>5 DEF Judged
<1> QED
  BY <1>1, <1>4, <1>6, <1>8, <1>9, ShapeFact

\* What an upgrade of the records leaves in RAM.
LEMMA UpgradesWhole ==
    ASSUME StoreInv, [Next]_vars, NEW t \in Threads, Upgrade(t), ~Spoiled'
    PROVE  LET f == fname[t]
           IN /\ SettingsOf(config', f)
              /\ file[f].len = FileLen("v1") => config'.part = file[f].cfg.part
<1> DEFINE f == fname[t]
           x == file[f]
<1>0. TypeOK /\ Shapes /\ Apart
  BY DEF StoreInv
<1>e. ~failed' /\ ~cut' /\ ~cutUpgrade' /\ ~crossed'
      /\ ~Spoiled /\ ~Excused /\ ~crossed /\ ~Excused'
  <2>1. ~failed' /\ ~cut' /\ ~cutUpgrade' /\ ~crossed'
    BY Zenon DEF Spoiled
  <2> QED
    BY <1>0, <2>1, NotForgotten, Zenon DEF Spoiled, Excused
<1>1. f \in Files /\ x \in Contents /\ Shape(x)
  BY <1>0 DEF TypeOK, Shapes
<1>2. \/ x # ABSENT /\ config' = V1Updated(f, x)
      \/ x = ABSENT /\ config' = Defaults(f)
  BY <1>0, <1>e, UpgradeEffect
<1>3. SettingsOf(Defaults(f), f)
  BY <1>1, DefaultsFact DEF SettingsOf
<1>4. SettingsOf(x.cfg, f)
  BY <1>0, <1>e, <1>1 DEF Apart, ApartNow, FilesApart
<1>5. x # ABSENT => \/ x.len \in {0, HalfLen, FileLen("v2")} /\ V1Updated(f, x) = Defaults(f)
                    \/ V1Updated(f, x).part = x.cfg.part
  BY <1>1, ShapeFact, V1Fact
<1>6. x # ABSENT => SettingsOf(V1Updated(f, x), f)
  BY <1>3, <1>4, <1>5 DEF SettingsOf
<1>7. x.len = FileLen("v1") => x # ABSENT /\ V1Updated(f, x).part = x.cfg.part
  BY <1>1, V1Fact, Blanks, LengthsDiffer
<1> QED
  BY <1>2, <1>3, <1>6, <1>7

\* The web configuration stores what is in force, for the file that is in force then.
LEMMA UpdatesWhole ==
    ASSUME StoreInv, [Next]_vars, ~Spoiled',
           (\E q \in Parts : WriteReq(q)) \/ ExecWriteReq \/ SetGameidCfg
    PROVE  /\ pc["fb"] = "idle" /\ InForce' = fname'["web"]
           /\ SettingsOf(config', fname'["web"])
           /\ DefaultFile \notin fresh /\ fname'["web"] = DefaultFile => KeptIn(config')
<1>0. TypeOK /\ Control /\ Apart /\ Survive
  BY DEF StoreInv
<1>e. ~failed' /\ ~cut' /\ ~cutUpgrade' /\ ~crossed'
      /\ ~Spoiled /\ ~Excused /\ ~crossed /\ ~Excused'
  <2>1. ~failed' /\ ~cut' /\ ~cutUpgrade' /\ ~crossed'
    BY Zenon DEF Spoiled
  <2> QED
    BY <1>0, <2>1, NotForgotten, Zenon DEF Spoiled, Excused
<1>1. pc["fb"] = "idle" /\ pc["web"] = "idle" /\ gameid' = gameid
  <2>1. crossed' = (crossed \/ pc["fb"] # "idle") /\ pc["web"] = "idle" /\ gameid' = gameid
    BY <1>0, UpdateEffect
  <2> QED
    BY <1>e, <2>1, Zenon
<1>2. InForce' = fname'["web"]
  BY <1>0, <1>1, UpdateEffect, NamesDiffer DEF InForce
<1>3. gameid = NO_GAME => InForce = DefaultFile
  BY <1>0 DEF Control, InForce, TypeOK
<1>4. SettingsOf(config, InForce) /\ (DefaultFile \notin fresh /\ InForce = DefaultFile => KeptIn(config))
  BY <1>0, <1>e, <1>1 DEF Apart, ApartNow, RamInForce, Survive, SurviveNow, RamKept, Loading
<1>5. CASE /\ \A p \in Parts :
                /\ config.part[p] = LOST => config'.part[p] = LOST
                /\ config.part[p] # LOST => config'.part[p] # LOST
                                           /\ config'.part[p].of = config.part[p].of
                                           /\ (config'.part[p].edit > 0 \/ config'.part[p] = config.part[p])
           /\ fname'["web"] = InForce \/ (gameid = NO_GAME /\ fname'["web"] = DefaultFile)
  <2>1. fname'["web"] = InForce
    BY <1>3, <1>5
  <2>2. SettingsOf(config', InForce)
    BY <1>4, <1>5 DEF SettingsOf
  <2>3. KeptIn(config) => KeptIn(config')
    BY <1>5 DEF KeptIn, Kept
  <2> QED
    BY <1>1, <1>2, <1>4, <2>1, <2>2, <2>3
<1>6. CASE /\ fname'["web"] = gameid /\ gameid # NO_GAME
           /\ \A p \in Parts : config'.part[p] = LOST \/ config'.part[p].of = gameid
  <2>1. SettingsOf(config', gameid)
    BY <1>6 DEF SettingsOf
  <2>2. gameid # DefaultFile
    BY <1>0, <1>6, StoreConstants DEF TypeOK
  <2> QED
    BY <1>1, <1>2, <1>6, <2>1, <2>2
<1> QED
  BY <1>0, <1>5, <1>6, UpdateSettings

\* Neither defaults nor a removed file have the settings of another file.
LEMMA BlanksWhole ==
    ASSUME NEW f \in Files
    PROVE  SettingsOf(Defaults(f), f) /\ SettingsOf(ABSENT.cfg, f)
BY DefaultsFact, Blanks DEF SettingsOf

\* A prepared write gives the settings to nobody else, and loses none.
LEMMA PreparesWhole ==
    ASSUME TypeOK, NEW q \in Parts, PrepareWriteReq(q)
    PROVE  /\ \A f \in Files : SettingsOf(config, f) => SettingsOf(config', f)
           /\ KeptIn(config) => KeptIn(config')
           /\ \A p \in Parts : p \in pending' \/ config'.part[p] = config.part[p]
           /\ pending \subseteq pending'
BY PrepareEffect DEF SettingsOf, KeptIn, Kept

\* What a store leaves in the files is of the game it is for.
LEMMA StoresWhole ==
    ASSUME StoreInv, [Next]_vars, ~Spoiled', NEW t \in Threads, Open(t) \/ Write(t) \/ Flush(t)
    PROVE  FilesApart'
<1>0. TypeOK /\ Apart
  BY DEF StoreInv
<1>e. ~failed' /\ ~cut' /\ ~cutUpgrade' /\ ~crossed'
      /\ ~Spoiled /\ ~Excused /\ ~crossed /\ ~Excused'
  <2>1. ~failed' /\ ~cut' /\ ~cutUpgrade' /\ ~crossed'
    BY Zenon DEF Spoiled
  <2> QED
    BY <1>0, <2>1, NotForgotten, Zenon DEF Spoiled, Excused
<1>1. fname[t] \in Files /\ pc[t] \in Storing
  BY <1>0, OpenEffect, WriteEffect, FlushEffect DEF TypeOK, Storing
<1>2. SettingsOf(config, fname[t]) /\ FilesApart
  BY <1>0, <1>e, <1>1 DEF Apart, ApartNow, RamInHand
<1>3. ASSUME NEW f \in Files PROVE SettingsOf(file'[f].cfg, f)
  <2>1. CASE file'[f] = file[f]
    BY <1>2, <2>1 DEF FilesApart
  <2>2. CASE file'[f] # file[f]
    BY <1>0, <1>2, <2>2, StoredSettings DEF FilesApart, SettingsOf, Parts
  <2> QED
    BY <2>1, <2>2
<1> QED
  BY <1>3 DEF FilesApart, SettingsOf

LEMMA ApartKept == StoreInv /\ [Next]_vars => Apart'
<1> SUFFICES ASSUME StoreInv, [Next]_vars, ~Spoiled' PROVE ApartNow'
  BY DEF Apart
<1>0. TypeOK /\ Shapes /\ Control /\ Names /\ Found /\ Magic /\ Layouts /\ OneAtATime /\ Apart
  BY DEF StoreInv
<1>t. /\ \A t \in Threads : fname[t] \in Files /\ cont[t] \in {"done", "upgrade", "again"}
      /\ \A f \in Files : file[f] \in Contents /\ file[f].cfg \in Configs
      /\ config \in Configs /\ fresh \subseteq Files
      /\ config_src \in {DEFAULT_CFG, GAMEID_CFG} /\ gameid \in Games \cup {NO_GAME}
  BY <1>0 DEF TypeOK, Contents
<1>e. ~failed' /\ ~cut' /\ ~cutUpgrade' /\ ~crossed'
      /\ ~Spoiled /\ ~Excused /\ ~crossed /\ ~Excused'
  <2>1. ~failed' /\ ~cut' /\ ~cutUpgrade' /\ ~crossed'
    BY Zenon DEF Spoiled
  <2> QED
    BY <1>0, <2>1, NotForgotten, Zenon DEF Spoiled, Excused
<1>a. ApartNow
  BY <1>0, <1>e DEF Apart
<1>1. CASE Load("fb")
  BY <1>0, <1>t, <1>e, <1>a, <1>1, LoadEffect, BlanksWhole, ThreadsAre, NamesDiffer, LengthsDiffer, Blanks,
     StoreConstants
  DEF ApartNow, FilesApart, HalfIsHeld, NewMagic, RamInForce, RamInHand, HalfAgrees, SourceHolds,
      OneAtATime, Alone, LoadsInForce, Control, Names, InForce, Loading, Storing, Opened, Parts,
      KeepsCurrent, Same
<1>2. CASE Load("web")
  BY <1>0, <1>t, <1>e, <1>a, <1>2, LoadEffect, BlanksWhole, ThreadsAre, NamesDiffer, LengthsDiffer, Blanks,
     StoreConstants
  DEF ApartNow, FilesApart, HalfIsHeld, NewMagic, RamInForce, RamInHand, HalfAgrees, SourceHolds,
      OneAtATime, Alone, LoadsInForce, Control, Names, InForce, Loading, Storing, Opened, Parts,
      KeepsCurrent, Same
<1>3. CASE Read("fb")
  BY <1>0, <1>t, <1>e, <1>a, <1>3, ReadMoves, ReadsWhole, ThreadsAre, NamesDiffer, LengthsDiffer, Blanks,
     StoreConstants
  DEF ApartNow, FilesApart, HalfIsHeld, NewMagic, RamInForce, RamInHand, HalfAgrees, SourceHolds,
      OneAtATime, Alone, LoadsInForce, Control, Names, InForce, Loading, Storing, Opened, Parts,
      KeepsCurrent, Same
<1>4. CASE Read("web")
  <2>1. FilesApart'
    BY <1>0, <1>t, <1>e, <1>a, <1>4, ReadMoves, ThreadsAre, NamesDiffer, LengthsDiffer, Blanks, StoreConstants
    DEF ApartNow, FilesApart
  <2>2. HalfIsHeld'
    BY <1>0, <1>t, <1>e, <1>a, <1>4, ReadMoves, ReadsWhole, ThreadsAre, NamesDiffer, LengthsDiffer, Blanks,
       StoreConstants DEF ApartNow, HalfIsHeld
  <2>3. NewMagic'
    BY <1>0, <1>t, <1>e, <1>a, <1>4, ReadMoves, ThreadsAre, NamesDiffer, LengthsDiffer, Blanks, StoreConstants
    DEF ApartNow, NewMagic
  <2>4. RamInForce'
    BY <1>0, <1>t, <1>e, <1>a, <1>4, ReadMoves, ReadsWhole, ThreadsAre, NamesDiffer, LengthsDiffer, Blanks,
       StoreConstants
    DEF ApartNow, RamInForce, RamInHand, OneAtATime, Alone, LoadsInForce, Control, Names, InForce, Loading,
        Storing
  <2>5. RamInHand'
    BY <1>0, <1>t, <1>e, <1>a, <1>4, ReadMoves, ReadsWhole, ThreadsAre, NamesDiffer, LengthsDiffer, Blanks,
       StoreConstants DEF ApartNow, RamInHand, RamInForce, OneAtATime, Alone, Control, Loading, Storing
  <2>6. HalfAgrees'
    BY <1>0, <1>t, <1>e, <1>a, <1>4, ReadMoves, ReadsWhole, ThreadsAre, NamesDiffer, LengthsDiffer, Blanks,
       StoreConstants DEF ApartNow, HalfAgrees, OneAtATime, Alone, Opened, Control, Parts
  <2>7. SourceHolds'
    <3>1. SUFFICES ASSUME pc'["fb"] = "idle", pc'["web"] \notin Storing \cup Loading
                   PROVE  /\ config_src' = GAMEID_CFG => file'[gameid'] # ABSENT
                          /\ file'[InForce'] # ABSENT => \A p \in Parts : Same(p)'
      BY DEF SourceHolds
    <3>2. /\ pc["fb"] = "idle" /\ pc["web"] = "read" /\ gameid' = gameid /\ config_src' = config_src
          /\ file' = file
      BY <1>0, <1>4, <3>1, ReadMoves, ThreadsAre
    <3>3. fname["web"] = DefaultFile /\ InForce = DefaultFile
      BY <1>0, <3>2 DEF Names, Loading
    <3>4. config_src = DEFAULT_CFG /\ InForce' = DefaultFile
      BY <1>t, <3>2, <3>3, StoreConstants DEF InForce
    <3>5. pc'["web"] # "upgrade"
      BY <1>e, <1>4, WebReads
    <3>6. config' = file[DefaultFile].cfg
      BY <1>0, <1>4, <3>1, <3>3, <3>5, ReadsWhole, ThreadsAre DEF Storing
    <3> QED
      BY <3>2, <3>4, <3>6, NamesDiffer DEF Same
  <2> QED
    BY <2>1, <2>2, <2>3, <2>4, <2>5, <2>6, <2>7 DEF ApartNow
<1>5. CASE Upgrade("fb")
  BY <1>0, <1>t, <1>e, <1>a, <1>5, UpgradeEffect, UpgradesWhole, ThreadsAre, NamesDiffer, LengthsDiffer,
     Blanks, StoreConstants
  DEF ApartNow, FilesApart, HalfIsHeld, NewMagic, RamInForce, RamInHand, HalfAgrees, SourceHolds,
      OneAtATime, Alone, LoadsInForce, Control, Names, InForce, Loading, Storing, Opened, Parts,
      KeepsCurrent, Same
<1>6. CASE Upgrade("web")
  BY <1>0, <1>t, <1>e, <1>a, <1>6, UpgradeEffect, UpgradesWhole, ThreadsAre, NamesDiffer, LengthsDiffer,
     Blanks, StoreConstants
  DEF ApartNow, FilesApart, HalfIsHeld, NewMagic, RamInForce, RamInHand, HalfAgrees, SourceHolds,
      OneAtATime, Alone, LoadsInForce, Control, Names, InForce, Loading, Storing, Opened, Parts,
      KeepsCurrent, Same
<1>7. CASE Open("fb")
  BY <1>0, <1>t, <1>e, <1>a, <1>7, StoresWhole, OpenMoves, StoredSettings, StoredHeads, ThreadsAre,
     NamesDiffer, LengthsDiffer, Blanks, StoreConstants
  DEF ApartNow, FilesApart, HalfIsHeld, NewMagic, RamInForce, RamInHand, HalfAgrees, SourceHolds,
      OneAtATime, Alone, LoadsInForce, Control, Names, InForce, Loading, Storing, Opened, Parts,
      KeepsCurrent, Same
<1>8. CASE Open("web")
  BY <1>0, <1>t, <1>e, <1>a, <1>8, StoresWhole, OpenMoves, StoredSettings, StoredHeads, ThreadsAre,
     NamesDiffer, LengthsDiffer, Blanks, StoreConstants
  DEF ApartNow, FilesApart, HalfIsHeld, NewMagic, RamInForce, RamInHand, HalfAgrees, SourceHolds,
      OneAtATime, Alone, LoadsInForce, Control, Names, InForce, Loading, Storing, Opened, Parts,
      KeepsCurrent, Same
<1>9. CASE Write("fb")
  BY <1>0, <1>t, <1>e, <1>a, <1>9, StoresWhole, WriteEffect, StoredSettings, StoredHeads, ThreadsAre,
     NamesDiffer, LengthsDiffer, Blanks, StoreConstants
  DEF ApartNow, FilesApart, HalfIsHeld, NewMagic, RamInForce, RamInHand, HalfAgrees, SourceHolds, Magic,
      OneAtATime, Alone, Loading, LoadsInForce, Control, Names, InForce, Storing, Opened, Parts,
      KeepsCurrent, Same
<1>10. CASE Write("web")
  BY <1>0, <1>t, <1>e, <1>a, <1>10, StoresWhole, WriteEffect, StoredSettings, StoredHeads, ThreadsAre,
     NamesDiffer, LengthsDiffer, Blanks, StoreConstants
  DEF ApartNow, FilesApart, HalfIsHeld, NewMagic, RamInForce, RamInHand, HalfAgrees, SourceHolds, Magic,
      OneAtATime, Alone, Loading, LoadsInForce, Control, Names, InForce, Storing, Opened, Parts,
      KeepsCurrent, Same
<1>11. CASE Flush("fb")
  BY <1>0, <1>t, <1>e, <1>a, <1>11, StoresWhole, FlushMoves, StoredSettings, StoredHeads, ThreadsAre,
     NamesDiffer, LengthsDiffer, Blanks, StoreConstants
  DEF ApartNow, FilesApart, HalfIsHeld, NewMagic, RamInForce, RamInHand, HalfAgrees, SourceHolds,
      OneAtATime, Alone, LoadsInForce, Control, Names, InForce, Loading, Storing, Opened, Parts,
      KeepsCurrent, Same
<1>12. CASE Flush("web")
  BY <1>0, <1>t, <1>e, <1>a, <1>12, StoresWhole, FlushMoves, StoredSettings, StoredHeads, ThreadsAre,
     NamesDiffer, LengthsDiffer, Blanks, StoreConstants
  DEF ApartNow, FilesApart, HalfIsHeld, NewMagic, RamInForce, RamInHand, HalfAgrees, SourceHolds,
      OneAtATime, Alone, LoadsInForce, Control, Names, InForce, Loading, Storing, Opened, Parts,
      KeepsCurrent, Same
<1>13. ASSUME NEW g \in Games, GameId(g) PROVE ApartNow'
  BY <1>0, <1>t, <1>e, <1>a, <1>13, GameIdEffect, ThreadsAre, NamesDiffer, LengthsDiffer, Blanks,
     StoreConstants
  DEF ApartNow, FilesApart, HalfIsHeld, NewMagic, RamInForce, RamInHand, HalfAgrees, SourceHolds,
      OneAtATime, Alone, LoadsInForce, Control, Names, InForce, Loading, Storing, Opened, Parts,
      KeepsCurrent, Same
<1>14. CASE ConfigInit
  BY <1>0, <1>t, <1>e, <1>a, <1>14, ConfigInitEffect, ThreadsAre, NamesDiffer, LengthsDiffer, Blanks,
     StoreConstants
  DEF ApartNow, FilesApart, HalfIsHeld, NewMagic, RamInForce, RamInHand, HalfAgrees, SourceHolds,
      OneAtATime, Alone, LoadsInForce, Control, Names, InForce, Loading, Storing, Opened, Parts,
      KeepsCurrent, Same
<1>15. CASE ChooseFile
  BY <1>0, <1>t, <1>e, <1>a, <1>15, ChooseEffect, ThreadsAre, NamesDiffer, LengthsDiffer, Blanks,
     StoreConstants
  DEF ApartNow, FilesApart, HalfIsHeld, NewMagic, RamInForce, RamInHand, HalfAgrees, SourceHolds,
      OneAtATime, Alone, LoadsInForce, Control, Names, InForce, Loading, Storing, Opened, Parts,
      KeepsCurrent, Same
<1>16. CASE (\E q \in Parts : WriteReq(q)) \/ ExecWriteReq \/ SetGameidCfg
  BY <1>0, <1>t, <1>e, <1>a, <1>16, UpdateEffect, UpdatesWhole, ThreadsAre, NamesDiffer, LengthsDiffer,
     Blanks, StoreConstants
  DEF ApartNow, FilesApart, HalfIsHeld, NewMagic, RamInForce, RamInHand, HalfAgrees, SourceHolds,
      OneAtATime, Alone, LoadsInForce, Control, Names, InForce, Loading, Storing, Opened, Parts,
      KeepsCurrent, Same
<1>17. ASSUME NEW q \in Parts, PrepareWriteReq(q) PROVE ApartNow'
  BY <1>0, <1>t, <1>e, <1>a, <1>17, PrepareEffect, PreparesWhole, ThreadsAre, NamesDiffer, LengthsDiffer,
     Blanks, StoreConstants
  DEF ApartNow, FilesApart, HalfIsHeld, NewMagic, RamInForce, RamInHand, HalfAgrees, SourceHolds,
      OneAtATime, Alone, LoadsInForce, Control, Names, InForce, Loading, Storing, Opened, Parts,
      KeepsCurrent, Same
<1>18. CASE SetDefaultCfg \/ DelFile(gameid)
  <2>1. FilesApart'
    BY <1>0, <1>t, <1>e, <1>a, <1>18, WebDefaultEffect, ThreadsAre, NamesDiffer, LengthsDiffer, Blanks,
       StoreConstants DEF ApartNow, FilesApart
  <2>2. HalfIsHeld'
    BY <1>0, <1>t, <1>e, <1>a, <1>18, WebDefaultEffect, ThreadsAre, NamesDiffer, LengthsDiffer, Blanks,
       StoreConstants DEF ApartNow, HalfIsHeld
  <2>3. NewMagic'
    BY <1>0, <1>t, <1>e, <1>a, <1>18, WebDefaultEffect, ThreadsAre, NamesDiffer, LengthsDiffer, Blanks,
       StoreConstants DEF ApartNow, NewMagic
  <2>4. RamInForce'
    BY <1>0, <1>t, <1>e, <1>a, <1>18, WebDefaultEffect, ThreadsAre, NamesDiffer, LengthsDiffer, Blanks,
       StoreConstants
    DEF ApartNow, RamInForce, RamInHand, OneAtATime, Alone, LoadsInForce, Control, Names, InForce, Loading,
        Storing
  <2>5. RamInHand'
    BY <1>0, <1>t, <1>e, <1>a, <1>18, WebDefaultEffect, ThreadsAre, NamesDiffer, LengthsDiffer, Blanks,
       StoreConstants DEF ApartNow, RamInHand, RamInForce, OneAtATime, Alone, Control, Loading, Storing
  <2>6. HalfAgrees'
    BY <1>0, <1>t, <1>e, <1>a, <1>18, WebDefaultEffect, ThreadsAre, NamesDiffer, LengthsDiffer, Blanks,
       StoreConstants DEF ApartNow, HalfAgrees, OneAtATime, Alone, Opened, Control, Parts
  <2>7. SourceHolds'
    BY <1>0, <1>t, <1>e, <1>a, <1>18, WebDefaultEffect, ThreadsAre, NamesDiffer, LengthsDiffer, Blanks,
       StoreConstants
    DEF ApartNow, SourceHolds, HalfAgrees, OneAtATime, Alone, LoadsInForce, KeepsCurrent, Opened, Control,
        Names, InForce, Same, Parts, Loading, Storing
  <2> QED
    BY <2>1, <2>2, <2>3, <2>4, <2>5, <2>6, <2>7 DEF ApartNow
<1>19. ASSUME NEW f \in Files, DelFile(f), f # gameid PROVE ApartNow'
  BY <1>0, <1>t, <1>e, <1>a, <1>19, DelOtherEffect, ThreadsAre, NamesDiffer, LengthsDiffer, Blanks,
     StoreConstants
  DEF ApartNow, FilesApart, HalfIsHeld, NewMagic, RamInForce, RamInHand, HalfAgrees, SourceHolds,
      OneAtATime, Alone, LoadsInForce, Control, Names, InForce, Loading, Storing, Opened, Parts,
      KeepsCurrent, Same
<1>20. CASE Remove
  BY <1>0, <1>t, <1>e, <1>a, <1>20, RemoveEffect, BlanksWhole, ThreadsAre, NamesDiffer, LengthsDiffer,
     Blanks, StoreConstants
  DEF ApartNow, FilesApart, HalfIsHeld, NewMagic, RamInForce, RamInHand, HalfAgrees, SourceHolds,
      OneAtATime, Alone, LoadsInForce, Control, Names, InForce, Loading, Storing, Opened, Parts,
      KeepsCurrent, Same
<1>21. CASE StartUp \/ OtaStart \/ OtaOver \/ UNCHANGED vars
  <2>1. FilesApart'
    BY <1>0, <1>t, <1>e, <1>a, <1>21, QuietEffect, ThreadsAre, NamesDiffer, LengthsDiffer, Blanks,
       StoreConstants DEF ApartNow, FilesApart
  <2>2. HalfIsHeld'
    <3>1. UNCHANGED <<file, pc, fname>>
      BY <1>21, QuietEffect
    <3> QED
      BY <1>a, <3>1 DEF ApartNow, HalfIsHeld
  <2>3. NewMagic'
    BY <1>0, <1>t, <1>e, <1>a, <1>21, QuietEffect, ThreadsAre, NamesDiffer, LengthsDiffer, Blanks,
       StoreConstants DEF ApartNow, NewMagic
  <2>4. RamInForce'
    BY <1>0, <1>t, <1>e, <1>a, <1>21, QuietEffect, ThreadsAre, NamesDiffer, LengthsDiffer, Blanks,
       StoreConstants
    DEF ApartNow, RamInForce, RamInHand, OneAtATime, Alone, LoadsInForce, Control, Names, InForce, Loading,
        Storing
  <2>5. RamInHand'
    BY <1>0, <1>t, <1>e, <1>a, <1>21, QuietEffect, ThreadsAre, NamesDiffer, LengthsDiffer, Blanks,
       StoreConstants DEF ApartNow, RamInHand, RamInForce, OneAtATime, Alone, Control, Loading, Storing
  <2>6. HalfAgrees'
    BY <1>0, <1>t, <1>e, <1>a, <1>21, QuietEffect, ThreadsAre, NamesDiffer, LengthsDiffer, Blanks,
       StoreConstants DEF ApartNow, HalfAgrees, OneAtATime, Alone, Opened, Control, Parts
  <2>7. SourceHolds'
    BY <1>0, <1>t, <1>e, <1>a, <1>21, QuietEffect, ThreadsAre, NamesDiffer, LengthsDiffer, Blanks,
       StoreConstants
    DEF ApartNow, SourceHolds, HalfAgrees, OneAtATime, Alone, LoadsInForce, KeepsCurrent, Opened, Control,
        Names, InForce, Same, Parts, Loading, Storing
  <2> QED
    BY <2>1, <2>2, <2>3, <2>4, <2>5, <2>6, <2>7 DEF ApartNow
<1>22. CASE PowerCut
  BY <1>0, <1>t, <1>e, <1>a, <1>22, PowerCutEffect, ThreadsAre, NamesDiffer, LengthsDiffer, Blanks,
     StoreConstants
  DEF ApartNow, FilesApart, HalfIsHeld, NewMagic, RamInForce, RamInHand, HalfAgrees, SourceHolds,
      OneAtATime, Alone, LoadsInForce, Control, Names, InForce, Loading, Storing, Opened, Parts,
      KeepsCurrent, Same
<1> QED
  BY <1>1, <1>2, <1>3, <1>4, <1>5, <1>6, <1>7, <1>8, <1>9, <1>10, <1>11, <1>12, <1>13, <1>14, <1>15, <1>16,
     <1>17, <1>18, <1>19, <1>20, <1>21, <1>22, StepKinds, ThreadsAre, Zenon

\* The settings for all games come out of a load, and of an upgrade, as they were.
LEMMA ReadsKept ==
    ASSUME StoreInv, [Next]_vars, NEW t \in Threads, Read(t), ~Spoiled',
           DefaultFile \notin fresh, fname[t] = DefaultFile
    PROVE  \/ pc'[t] \in {"idle", "remove"} /\ KeptIn(config') /\ cont'[t] # "upgrade"
           \/ pc'[t] = "upgrade" /\ file[DefaultFile].len = FileLen("v1") /\ cont'[t] # "upgrade"
<1>0. TypeOK /\ Control /\ Found /\ Survive
  BY DEF StoreInv
<1>e. ~failed' /\ ~cut' /\ ~cutUpgrade' /\ ~crossed'
      /\ ~Spoiled /\ ~Excused /\ ~crossed /\ ~Excused'
  <2>1. ~failed' /\ ~cut' /\ ~cutUpgrade' /\ ~crossed'
    BY Zenon DEF Spoiled
  <2> QED
    BY <1>0, <2>1, NotForgotten, Zenon DEF Spoiled, Excused
<1>1. file[DefaultFile].len # FileLen("v0")
  BY <1>0, StoreConstants DEF Found, NotFresh
<1>2. file[DefaultFile].len \notin {0, HalfLen}
  BY ReadsWhole
<1>3. KeptIn(file[DefaultFile].cfg)
  BY <1>0, <1>e, <1>2 DEF Survive, SurviveNow, FileKept
<1>4. cont[t] # "upgrade"
  BY <1>0, ReadMoves DEF Control, Storing
<1> QED
  BY <1>1, <1>3, <1>4, ReadsWhole

LEMMA UpgradesKept ==
    ASSUME StoreInv, [Next]_vars, NEW t \in Threads, Upgrade(t), ~Spoiled',
           DefaultFile \notin fresh, fname[t] = DefaultFile
    PROVE  KeptIn(config')
<1>0. TypeOK /\ Control /\ Survive
  BY DEF StoreInv
<1>e. ~failed' /\ ~cut' /\ ~cutUpgrade' /\ ~crossed'
      /\ ~Spoiled /\ ~Excused /\ ~crossed /\ ~Excused'
  <2>1. ~failed' /\ ~cut' /\ ~cutUpgrade' /\ ~crossed'
    BY Zenon DEF Spoiled
  <2> QED
    BY <1>0, <2>1, NotForgotten, Zenon DEF Spoiled, Excused
<1>1. pc[t] = "upgrade"
  BY <1>0, UpgradeEffect
<1>2. FileKept /\ HandKept
  BY <1>0, <1>e DEF Survive, SurviveNow
<1>3. file[DefaultFile].len = FileLen("v1") /\ KeptIn(file[DefaultFile].cfg)
  BY <1>1, <1>2, LengthsDiffer DEF FileKept, HandKept
<1>4. config'.part = file[DefaultFile].cfg.part
  BY <1>3, UpgradesWhole
<1> QED
  BY <1>3, <1>4 DEF KeptIn

LEMMA SurviveKept == StoreInv /\ [Next]_vars => Survive'
<1> SUFFICES ASSUME StoreInv, [Next]_vars, ~Spoiled', DefaultFile \notin fresh' PROVE SurviveNow'
  BY DEF Survive
<1>0. TypeOK /\ Shapes /\ Control /\ Names /\ Found /\ OneAtATime /\ Apart /\ Survive
  BY DEF StoreInv
<1>t. /\ \A t \in Threads : fname[t] \in Files /\ cont[t] \in {"done", "upgrade", "again"}
      /\ \A f \in Files : file[f] \in Contents /\ file[f].cfg \in Configs
      /\ config \in Configs /\ fresh \subseteq Files
      /\ config_src \in {DEFAULT_CFG, GAMEID_CFG} /\ gameid \in Games \cup {NO_GAME}
  BY <1>0 DEF TypeOK, Contents
<1>e. ~failed' /\ ~cut' /\ ~cutUpgrade' /\ ~crossed'
      /\ ~Spoiled /\ ~Excused /\ ~crossed /\ ~Excused'
  <2>1. ~failed' /\ ~cut' /\ ~cutUpgrade' /\ ~crossed'
    BY Zenon DEF Spoiled
  <2> QED
    BY <1>0, <2>1, NotForgotten, Zenon DEF Spoiled, Excused
<1>a. SurviveNow /\ DefaultFile \notin fresh
  BY <1>0, <1>e, FreshGrows DEF Survive
<1>1. CASE Load("fb")
  BY <1>0, <1>t, <1>e, <1>a, <1>1, LoadEffect, ThreadsAre, NamesDiffer, LengthsDiffer, Blanks, StoreConstants
  DEF SurviveNow, FileKept, RamKept, HandKept, KeptIn, Kept, Parts, Storing, OneAtATime, Alone,
      LoadsInForce, Control, Names, Found, NotFresh, InForce, Loading
<1>2. CASE Load("web")
  BY <1>0, <1>t, <1>e, <1>a, <1>2, LoadEffect, ThreadsAre, NamesDiffer, LengthsDiffer, Blanks, StoreConstants
  DEF SurviveNow, FileKept, RamKept, HandKept, KeptIn, Kept, Parts, Storing, OneAtATime, Alone,
      LoadsInForce, Control, Names, Found, NotFresh, InForce, Loading
<1>3. CASE Read("fb")
  BY <1>0, <1>t, <1>e, <1>a, <1>3, ReadMoves, ReadsKept, ThreadsAre, NamesDiffer, LengthsDiffer, Blanks,
     StoreConstants
  DEF SurviveNow, FileKept, RamKept, HandKept, KeptIn, Kept, Parts, Storing, OneAtATime, Alone,
      LoadsInForce, Control, Names, Found, NotFresh, InForce, Loading
<1>4. CASE Read("web")
  BY <1>0, <1>t, <1>e, <1>a, <1>4, ReadMoves, ReadsKept, ThreadsAre, NamesDiffer, LengthsDiffer, Blanks,
     StoreConstants, WebReads
  DEF SurviveNow, FileKept, RamKept, HandKept, KeptIn, Kept, Parts, Storing, OneAtATime, Alone,
      LoadsInForce, Control, Names, Found, NotFresh, InForce, Loading
<1>5. CASE Upgrade("fb")
  BY <1>0, <1>t, <1>e, <1>a, <1>5, UpgradeEffect, UpgradesKept, ThreadsAre, NamesDiffer, LengthsDiffer,
     Blanks, StoreConstants
  DEF SurviveNow, FileKept, RamKept, HandKept, KeptIn, Kept, Parts, Storing, OneAtATime, Alone,
      LoadsInForce, Control, Names, Found, NotFresh, InForce, Loading
<1>6. CASE Upgrade("web")
  BY <1>0, <1>t, <1>e, <1>a, <1>6, UpgradeEffect, UpgradesKept, ThreadsAre, NamesDiffer, LengthsDiffer,
     Blanks, StoreConstants
  DEF SurviveNow, FileKept, RamKept, HandKept, KeptIn, Kept, Parts, Storing, OneAtATime, Alone,
      LoadsInForce, Control, Names, Found, NotFresh, InForce, Loading
<1>7. CASE Open("fb")
  BY <1>0, <1>t, <1>e, <1>a, <1>7, OpenMoves, StoredSettings, ThreadsAre, NamesDiffer, LengthsDiffer,
     Blanks, StoreConstants
  DEF SurviveNow, FileKept, RamKept, HandKept, KeptIn, Kept, Parts, Storing, OneAtATime, Alone,
      LoadsInForce, Control, Names, Found, NotFresh, InForce, Loading
<1>8. CASE Open("web")
  BY <1>0, <1>t, <1>e, <1>a, <1>8, OpenMoves, StoredSettings, ThreadsAre, NamesDiffer, LengthsDiffer,
     Blanks, StoreConstants
  DEF SurviveNow, FileKept, RamKept, HandKept, KeptIn, Kept, Parts, Storing, OneAtATime, Alone,
      LoadsInForce, Control, Names, Found, NotFresh, InForce, Loading
<1>9. CASE Write("fb")
  BY <1>0, <1>t, <1>e, <1>a, <1>9, WriteEffect, StoredSettings, ThreadsAre, NamesDiffer, LengthsDiffer,
     Blanks, StoreConstants
  DEF SurviveNow, FileKept, RamKept, HandKept, KeptIn, Kept, Parts, Storing, OneAtATime, Alone,
      LoadsInForce, Control, Names, Found, NotFresh, InForce, Loading, Opened
<1>10. CASE Write("web")
  BY <1>0, <1>t, <1>e, <1>a, <1>10, WriteEffect, StoredSettings, ThreadsAre, NamesDiffer, LengthsDiffer,
     Blanks, StoreConstants
  DEF SurviveNow, FileKept, RamKept, HandKept, KeptIn, Kept, Parts, Storing, OneAtATime, Alone,
      LoadsInForce, Control, Names, Found, NotFresh, InForce, Loading, Opened
<1>11. CASE Flush("fb")
  BY <1>0, <1>t, <1>e, <1>a, <1>11, FlushMoves, StoredSettings, ThreadsAre, NamesDiffer, LengthsDiffer,
     Blanks, StoreConstants
  DEF SurviveNow, FileKept, RamKept, HandKept, KeptIn, Kept, Parts, Storing, OneAtATime, Alone,
      LoadsInForce, Control, Names, Found, NotFresh, InForce, Loading
<1>12. CASE Flush("web")
  BY <1>0, <1>t, <1>e, <1>a, <1>12, FlushMoves, StoredSettings, ThreadsAre, NamesDiffer, LengthsDiffer,
     Blanks, StoreConstants
  DEF SurviveNow, FileKept, RamKept, HandKept, KeptIn, Kept, Parts, Storing, OneAtATime, Alone,
      LoadsInForce, Control, Names, Found, NotFresh, InForce, Loading
<1>13. ASSUME NEW g \in Games, GameId(g) PROVE SurviveNow'
  BY <1>0, <1>t, <1>e, <1>a, <1>13, GameIdEffect, ThreadsAre, NamesDiffer, LengthsDiffer, Blanks,
     StoreConstants
  DEF SurviveNow, FileKept, RamKept, HandKept, KeptIn, Kept, Parts, Storing, OneAtATime, Alone,
      LoadsInForce, Control, Names, Found, NotFresh, InForce, Loading
<1>14. CASE ConfigInit
  BY <1>0, <1>t, <1>e, <1>a, <1>14, ConfigInitEffect, ThreadsAre, NamesDiffer, LengthsDiffer, Blanks,
     StoreConstants
  DEF SurviveNow, FileKept, RamKept, HandKept, KeptIn, Kept, Parts, Storing, OneAtATime, Alone,
      LoadsInForce, Control, Names, Found, NotFresh, InForce, Loading
<1>15. CASE ChooseFile
  BY <1>0, <1>t, <1>e, <1>a, <1>15, ChooseEffect, ThreadsAre, NamesDiffer, LengthsDiffer, Blanks,
     StoreConstants
  DEF SurviveNow, FileKept, RamKept, HandKept, KeptIn, Kept, Parts, Storing, OneAtATime, Alone,
      LoadsInForce, Control, Names, Found, NotFresh, InForce, Loading
<1>16. CASE (\E q \in Parts : WriteReq(q)) \/ ExecWriteReq \/ SetGameidCfg
  BY <1>0, <1>t, <1>e, <1>a, <1>16, UpdateEffect, UpdatesWhole, ThreadsAre, NamesDiffer, LengthsDiffer,
     Blanks, StoreConstants
  DEF SurviveNow, FileKept, RamKept, HandKept, KeptIn, Kept, Parts, Storing, OneAtATime, Alone,
      LoadsInForce, Control, Names, Found, NotFresh, InForce, Loading
<1>17. ASSUME NEW q \in Parts, PrepareWriteReq(q) PROVE SurviveNow'
  BY <1>0, <1>t, <1>e, <1>a, <1>17, PrepareEffect, PreparesWhole, ThreadsAre, NamesDiffer, LengthsDiffer,
     Blanks, StoreConstants
  DEF SurviveNow, FileKept, RamKept, HandKept, KeptIn, Kept, Parts, Storing, OneAtATime, Alone,
      LoadsInForce, Control, Names, Found, NotFresh, InForce, Loading
<1>18. CASE SetDefaultCfg \/ DelFile(gameid)
  BY <1>0, <1>t, <1>e, <1>a, <1>18, WebDefaultEffect, ThreadsAre, NamesDiffer, LengthsDiffer, Blanks,
     StoreConstants
  DEF SurviveNow, FileKept, RamKept, HandKept, KeptIn, Kept, Parts, Storing, OneAtATime, Alone,
      LoadsInForce, Control, Names, Found, NotFresh, InForce, Loading
<1>19. ASSUME NEW f \in Files, DelFile(f), f # gameid PROVE SurviveNow'
  BY <1>0, <1>t, <1>e, <1>a, <1>19, DelOtherEffect, ThreadsAre, NamesDiffer, LengthsDiffer, Blanks,
     StoreConstants
  DEF SurviveNow, FileKept, RamKept, HandKept, KeptIn, Kept, Parts, Storing, OneAtATime, Alone,
      LoadsInForce, Control, Names, Found, NotFresh, InForce, Loading
<1>20. CASE Remove
  BY <1>0, <1>t, <1>e, <1>a, <1>20, RemoveEffect, ThreadsAre, NamesDiffer, LengthsDiffer, Blanks,
     StoreConstants
  DEF SurviveNow, FileKept, RamKept, HandKept, KeptIn, Kept, Parts, Storing, OneAtATime, Alone,
      LoadsInForce, Control, Names, Found, NotFresh, InForce, Loading
<1>21. CASE StartUp \/ OtaStart \/ OtaOver \/ UNCHANGED vars
  BY <1>0, <1>t, <1>e, <1>a, <1>21, QuietEffect, ThreadsAre, NamesDiffer, LengthsDiffer, Blanks,
     StoreConstants
  DEF SurviveNow, FileKept, RamKept, HandKept, KeptIn, Kept, Parts, Storing, OneAtATime, Alone,
      LoadsInForce, Control, Names, Found, NotFresh, InForce, Loading
<1>22. CASE PowerCut
  BY <1>0, <1>t, <1>e, <1>a, <1>22, PowerCutEffect, ThreadsAre, NamesDiffer, LengthsDiffer, Blanks,
     StoreConstants
  DEF SurviveNow, FileKept, RamKept, HandKept, KeptIn, Kept, Parts, Storing, OneAtATime, Alone,
      LoadsInForce, Control, Names, Found, NotFresh, InForce, Loading
<1> QED
  BY <1>1, <1>2, <1>3, <1>4, <1>5, <1>6, <1>7, <1>8, <1>9, <1>10, <1>11, <1>12, <1>13, <1>14, <1>15, <1>16,
     <1>17, <1>18, <1>19, <1>20, <1>21, <1>22, StepKinds, ThreadsAre, Zenon

-----------------------------------------------------------------------------
(* The initial states, and the theorems.                                   *)

LEMMA StoreInit == Init => StoreInv
<1> SUFFICES ASSUME Init PROVE StoreInv
  OBVIOUS
<1>1. TypeOK
  BY StoreInitType
<1>2. PICK was \in [Files -> Versions \cup {"none"}] :
        /\ file = [f \in Files |-> IF was[f] = "none" THEN ABSENT ELSE Stored(f, was[f])]
        /\ fresh = {f \in Files : was[f] \in {"none", "v0"}}
  BY DEF Init
<1>3. /\ config = NoConfig /\ config_src = DEFAULT_CFG /\ gameid = NO_GAME /\ ~up /\ rm = NO_FILE
      /\ pc["fb"] = "load" /\ pc["web"] = "idle" /\ Threads = {"fb", "web"}
      /\ \A t \in Threads : fname[t] = DefaultFile /\ cont[t] = "done"
  BY DEF Init, PoweredOn, Threads
<1>4. ASSUME NEW f \in Files
      PROVE  \/ file[f] = ABSENT /\ f \in fresh
             \/ \E v \in {"v0", "v1", "v2"} :
                   /\ file[f].len = FileLen(v) /\ file[f].cfg.magic = v /\ file[f].cfg.layout = v
                   /\ \A p \in Parts : file[f].cfg.part[p] = [of |-> f, edit |-> 1]
                   /\ v = "v0" => f \in fresh
  <2>1. CASE was[f] = "none"
    BY <1>2, <2>1
  <2>2. CASE was[f] # "none"
    <3>1. was[f] \in {"v0", "v1", "v2"} /\ file[f] = Stored(f, was[f])
      BY <1>2, <2>2, Lengths
    <3>2. was[f] = "v0" => f \in fresh
      BY <1>2
    <3>3. /\ file[f].len = FileLen(was[f]) /\ file[f].cfg.magic = was[f] /\ file[f].cfg.layout = was[f]
          /\ \A p \in Parts : file[f].cfg.part[p] = [of |-> f, edit |-> 1]
      BY <3>1 DEF Stored
    <3> QED
      BY <3>1, <3>2, <3>3
  <2> QED
    BY <2>1, <2>2
<1>s. ASSUME NEW f \in Files
      PROVE  /\ SettingsOf(file[f].cfg, f) /\ (f \notin fresh => KeptIn(file[f].cfg))
             /\ file[f].len \notin {0, HalfLen}
             /\ file[f].len = FileLen("v2") => file[f].cfg.magic = "v2"
  <2>1. CASE file[f] = ABSENT /\ f \in fresh
    BY <2>1, BlanksWhole, Blanks, LengthsDiffer
  <2>2. ASSUME NEW v \in {"v0", "v1", "v2"},
               file[f].len = FileLen(v), file[f].cfg.magic = v,
               \A p \in Parts : file[f].cfg.part[p] = [of |-> f, edit |-> 1]
        PROVE  /\ SettingsOf(file[f].cfg, f) /\ KeptIn(file[f].cfg)
               /\ file[f].len \notin {0, HalfLen}
               /\ file[f].len = FileLen("v2") => file[f].cfg.magic = "v2"
    <3>1. SettingsOf(file[f].cfg, f)
      BY <2>2 DEF SettingsOf
    <3>2. KeptIn(file[f].cfg)
      <4>1. [of |-> f, edit |-> 1] # LOST
        BY DEF LOST
      <4> QED
        BY <2>2, <4>1 DEF KeptIn, Kept
    <3>3. file[f].len \notin {0, HalfLen} /\ (file[f].len = FileLen("v2") => v = "v2")
      BY <2>2, LengthsDiffer
    <3> QED
      BY <2>2, <3>1, <3>2, <3>3
  <2> QED
    BY <1>4, <2>1, <2>2
<1>5. Shapes
  BY <1>4, LengthsDiffer DEF Shapes, Shape
<1>6. Control /\ Names /\ Magic
  BY <1>3, Blanks, NamesDiffer DEF Control, Names, Magic, Storing, Loading
<1>7. Found
  BY <1>3, <1>4, Blanks, LengthsDiffer, NamesDiffer DEF Found, NewInHand, WebFound, GameFound, NotFresh
<1>8. LayoutsNow
  <2>1. OldInHand /\ WebIsNew /\ UpgradesV1 /\ DefaultIsNew /\ GameUpgraded
    BY <1>3, Blanks DEF OldInHand, WebIsNew, UpgradesV1, DefaultIsNew, GameUpgraded
  <2>2. OldFiles
    BY <1>4, Blanks DEF OldFiles, Long
  <2> QED
    BY <2>1, <2>2 DEF LayoutsNow
<1>9. Alone /\ LoadsInForce /\ Opened /\ KeepsCurrent
  BY <1>3, NamesDiffer DEF Alone, LoadsInForce, Opened, KeepsCurrent, InForce
<1>10. ApartNow
  <2>1. FilesApart
    BY <1>s DEF FilesApart
  <2>2. HalfIsHeld /\ NewMagic
    BY <1>s DEF HalfIsHeld, NewMagic
  <2>3. RamInForce /\ RamInHand /\ HalfAgrees /\ SourceHolds
    BY <1>3 DEF RamInForce, RamInHand, HalfAgrees, SourceHolds, Storing
  <2> QED
    BY <2>1, <2>2, <2>3 DEF ApartNow
<1>11. Survive
  <2>1. DefaultFile \notin fresh => FileKept
    BY <1>s, StoreConstants DEF FileKept
  <2>2. RamKept /\ HandKept
    BY <1>3 DEF RamKept, HandKept, Storing
  <2> QED
    BY <2>1, <2>2 DEF Survive, SurviveNow
<1> QED
  BY <1>1, <1>5, <1>6, <1>7, <1>8, <1>9, <1>10, <1>11 DEF StoreInv, Layouts, OneAtATime, Apart

LEMMA StoreStep == StoreInv /\ [Next]_vars => StoreInv'
<1> SUFFICES ASSUME StoreInv, [Next]_vars PROVE StoreInv'
  OBVIOUS
<1>1. TypeOK'
  BY StoreStepType DEF StoreInv
<1>2. Shapes' /\ Control' /\ Names' /\ Found' /\ Magic'
  BY ShapesKept, ControlKept, NamesKept, FoundKept, MagicKept
<1>3. Layouts' /\ OneAtATime' /\ Apart' /\ Survive'
  BY LayoutsKept, OneAtATimeKept, ApartKept, SurviveKept
<1> QED
  BY <1>1, <1>2, <1>3 DEF StoreInv

\* The four properties are what the invariant says of the states in which they matter.
LEMMA StoreSafe ==
    StoreInv => FilesKeepApart /\ SourceIsTrue /\ SettingsUsable /\ SettingsSurvive
<1> SUFFICES ASSUME StoreInv PROVE FilesKeepApart /\ SourceIsTrue /\ SettingsUsable /\ SettingsSurvive
  OBVIOUS
<1>0. TypeOK /\ Control /\ Magic /\ Layouts /\ Apart /\ Survive
  BY DEF StoreInv
<1>1. FilesKeepApart
  BY <1>0 DEF Apart, ApartNow, FilesApart, SettingsOf, FilesKeepApart
<1>2. ASSUME Quiet, ~Spoiled
      PROVE  ApartNow /\ pc["fb"] = "idle" /\ pc["web"] = "idle"
             /\ \A f \in Files : file[f].len \notin {0, HalfLen}
  <2>1. ApartNow
    BY <1>0, <1>2 DEF Apart
  <2>2. \A t \in Threads : pc[t] = "idle"
    BY <1>2 DEF Quiet
  <2> QED
    BY <2>1, <2>2, ThreadsAre DEF ApartNow, HalfIsHeld
<1>3. SourceIsTrue
  <2> SUFFICES ASSUME Quiet, ~Spoiled
               PROVE  /\ config_src = GAMEID_CFG => file[gameid] # ABSENT
                      /\ file[InForce] # ABSENT =>
                           \A p \in Parts \ pending : config.part[p] = file[InForce].cfg.part[p]
    BY DEF SourceIsTrue
  <2>1. SourceHolds /\ pc["fb"] = "idle" /\ pc["web"] = "idle"
    BY <1>2 DEF ApartNow
  <2> QED
    BY <2>1 DEF SourceHolds, Same, Storing, Loading
<1>4. SettingsUsable
  <2> SUFFICES ASSUME Quiet PROVE config.magic = "v2" /\ (config.layout = "v2" \/ cutUpgrade \/ failed)
    BY DEF SettingsUsable
  <2>1. pc["fb"] = "idle" /\ pc["web"] = "idle"
    BY ThreadsAre DEF Quiet
  <2>2. config.magic = "v2"
    BY <1>0, <2>1 DEF Magic, Loading
  <2>3. ~Excused => config.layout = "v2"
    BY <1>0, <2>1, ThreadsAre DEF Layouts, LayoutsNow, OldInHand, Control, Storing
  <2> QED
    BY <2>2, <2>3, Zenon DEF Excused
<1>5. SettingsSurvive
  <2> SUFFICES ASSUME Quiet, ~Spoiled, DefaultFile \notin fresh
               PROVE  \A p \in Parts : file[DefaultFile].cfg.part[p] # LOST
                                       /\ file[DefaultFile].cfg.part[p].edit > 0
    BY DEF SettingsSurvive
  <2>1. FileKept /\ file[DefaultFile].len \notin {0, HalfLen}
    BY <1>0, <1>2, StoreConstants DEF Survive, SurviveNow
  <2> QED
    BY <2>1 DEF FileKept, KeptIn, Kept
<1> QED
  BY <1>1, <1>3, <1>4, <1>5

\* The variables keep their types: what RAM and the files hold has one of the three layouts, and
\* the threads are where config.c has code (config_load_from_file and config_store_on_file).
THEOREM StoreTypeCorrect == Spec => []TypeOK
<1>1. Init => StoreInv
  BY StoreInit
<1>2. StoreInv /\ [Next]_vars => StoreInv'
  BY StoreStep
<1>3. StoreInv => TypeOK
  BY DEF StoreInv
<1> QED
  BY <1>1, <1>2, <1>3, PTL DEF Spec

\* The inductive invariant of config.c, whatever game ids, accesses of the web configuration,
\* failing calls and power cuts come, in any number.
THEOREM StoreInvariant == Spec => []StoreInv
BY StoreInit, StoreStep, PTL DEF Spec

\* The settings of a game never get into the file of another one (config_store_on_file gets a
\* file and the one struct config), unless the web configuration crosses the load of a game.
THEOREM FilesStayApart == Spec => []FilesKeepApart
<1>1. StoreInv => FilesKeepApart
  BY StoreSafe
<1> QED
  BY <1>1, StoreInvariant, PTL

\* config_src and gameid name the file that RAM was loaded from or stored to.
THEOREM SourceStaysTrue == Spec => []SourceIsTrue
<1>1. StoreInv => SourceIsTrue
  BY StoreSafe
<1> QED
  BY <1>1, StoreInvariant, PTL

\* The wired task gets the magic it waits for, over bytes of the current layout.
THEOREM SettingsStayUsable == Spec => []SettingsUsable
<1>1. StoreInv => SettingsUsable
  BY StoreSafe
<1> QED
  BY <1>1, StoreInvariant, PTL

\* Loads, upgrades from version 1 and stores lose no settings of the file for all games.
THEOREM SettingsDoSurvive == Spec => []SettingsSurvive
<1>1. StoreInv => SettingsSurvive
  BY StoreSafe
<1> QED
  BY <1>1, StoreInvariant, PTL

-----------------------------------------------------------------------------
(***************************************************************************)
(* MemoryCard, for any set of blocks and of writers, any length of the     *)
(* feedback queue, any number of files and any number of writes and        *)
(* failures.  CardIndInv says that nothing is lost but by the race between *)
(* Mark and Clear; MarkedIsUnderWay, that somebody is about to arm the     *)
(* timer.  The two rest on the types alone, not on each other.             *)
(***************************************************************************)
USE DEF TGoto

-----------------------------------------------------------------------------
(* MemoryCard: types.                                                      *)

LEMMA CardInitType == CardInit => CardTypeOK
<1> SUFFICES ASSUME CardInit PROVE CardTypeOK
  OBVIOUS
<1> USE DEF CardInit
<1>1. CardFlagsOK
  BY Zenon DEF CardFlagsOK
<1>2. /\ wpc \in [Writers -> {"idle", "mark", "notify"}]
      /\ mc_buffer \in [Blocks -> 0 .. MaxWrites]
      /\ card_file \in [Blocks -> Content]
  BY CardAssumption DEF Content
<1> QED
  BY <1>1, <1>2, CardAssumption DEF CardTypeOK

\* The flags are apart, for the provers' sake.
LEMMA CardStepFlags == CardFlagsOK /\ [CardNext]_memVars => CardFlagsOK'
<1> SUFFICES ASSUME CardFlagsOK, [CardNext]_memVars PROVE CardFlagsOK'
  OBVIOUS
<1> USE DEF CardFlagsOK, timerVars, fileVars
<1>1. CASE \E w \in Writers : McWrite(w)
  BY <1>1, Zenon DEF McWrite, Copy, Mark, Notify
<1>2. CASE OtherQueued \/ FbTask
  BY <1>2, Zenon DEF OtherQueued, FbTask, OtherHandled, TakeNote, FbStop, FbStart
<1>3. CASE Callback
  BY <1>3, Zenon DEF Callback, Fire, OpenFailed, FileOpened, Pick, PickNone, StoreBlock, StoreBlockFailed,
                     Clear, Rearm, CbStop, CbStart
<1>4. CASE UNCHANGED memVars
  BY <1>4, Zenon DEF memVars
<1> QED
  BY <1>1, <1>2, <1>3, <1>4 DEF CardNext

LEMMA AfterActiveType == AfterActive \in {"stop", "start"}
  BY Zenon DEF AfterActive

\* Every step keeps the types.
LEMMA CardStepType == CardTypeOK /\ [CardNext]_memVars => CardTypeOK'
<1> SUFFICES ASSUME CardTypeOK, [CardNext]_memVars PROVE CardTypeOK'
  OBVIOUS
<1> USE CardAssumption DEF CardTypeOK, Content, cardVars, writerVars, queueVars, timerVars, fileVars
<1>f. CardFlagsOK'
  BY CardStepFlags
<1>1. ASSUME NEW w \in Writers, NEW b \in Blocks, Copy(w, b) PROVE CardTypeOK'
  BY <1>1, <1>f DEF Copy
<1>2. ASSUME NEW w \in Writers, Mark(w) PROVE CardTypeOK'
  BY <1>2, <1>f DEF Mark
<1>3. ASSUME NEW w \in Writers, Notify(w) PROVE CardTypeOK'
  <2>1. mem_notes' \in 0 .. QueueLen /\ mem_notes' + others <= QueueLen
    BY <1>3 DEF Notify
  <2>2. UNCHANGED <<cardVars, wblock, writes, others, fpc, armed, timerVars>>
    BY <1>3 DEF Notify
  <2>3. wpc' \in [Writers -> {"idle", "mark", "notify"}]
    BY <1>3 DEF Notify
  <2> QED
    BY <2>1, <2>2, <2>3, <1>f
<1>4. CASE OtherQueued
  BY <1>4, <1>f DEF OtherQueued
<1>5. CASE FbTask
  <2>1. CASE OtherHandled \/ TakeNote
    <3>1. /\ mem_notes' \in 0 .. QueueLen
          /\ others' \in 0 .. QueueLen
          /\ mem_notes' + others' <= QueueLen
      BY <2>1 DEF OtherHandled, TakeNote
    <3>2. fpc' \in {"idle", "stop", "start"}
      BY <2>1, AfterActiveType DEF OtherHandled, TakeNote
    <3>3. UNCHANGED <<cardVars, writerVars, timerVars>>
      BY <2>1 DEF OtherHandled, TakeNote
    <3> QED
      BY <3>1, <3>2, <3>3, <1>f
  <2>2. CASE FbStop \/ FbStart
    <3>1. fpc' \in {"idle", "start"}
      BY <2>2 DEF FbStop, FbStart
    <3>2. UNCHANGED <<cardVars, writerVars, queueVars, muted, timerVars>>
      BY <2>2 DEF FbStop, FbStart
    <3> QED
      BY <3>1, <3>2, <1>f
  <2> QED
    BY <1>5, <2>1, <2>2 DEF FbTask
<1>6. CASE Fire
  <2>1. tpc' = "open"
    BY <1>6 DEF Fire
  <2>2. UNCHANGED <<cardVars, writerVars, queueVars, fpc, tblock, leaked, fails>>
    BY <1>6 DEF Fire
  <2> QED
    BY <2>1, <2>2, <1>f
<1>7. CASE OpenFailed \/ PickNone
  <2>1. leaked' \in 0 .. MaxFiles /\ fails' \in 0 .. MaxFails /\ tpc' = "idle"
    BY <1>7 DEF OpenFailed, FileOpened, PickNone
  <2>2. UNCHANGED <<cardVars, writerVars, queueVars, fpc, tblock>>
    BY <1>7 DEF OpenFailed, PickNone
  <2> QED
    BY <2>1, <2>2, <1>f
<1>8. CASE Pick
  BY <1>8, <1>f DEF FileOpened, Pick
<1>9. CASE StoreBlock
  BY <1>9, <1>f DEF StoreBlock
<1>10. CASE StoreBlockFailed
  <2>1. fails' \in 0 .. MaxFails /\ tpc' = "clear" /\ card_file' \in [Blocks -> Content]
    BY <1>10 DEF StoreBlockFailed
  <2>2. UNCHANGED <<mc_buffer, mc_block_state, raced, writerVars, queueVars, fpc, tblock, leaked>>
    BY <1>10 DEF StoreBlockFailed
  <2> QED
    BY <2>1, <2>2, <1>f
<1>11. CASE Clear \/ Rearm
  BY <1>11, <1>f DEF Clear, Rearm, AfterActive
<1>12. CASE CbStop \/ CbStart
  <2>1. tpc' \in {"idle", "start"}
    BY <1>12 DEF CbStop, CbStart
  <2>2. UNCHANGED <<cardVars, writerVars, queueVars, fpc, tblock, leaked, fails>>
    BY <1>12 DEF CbStop, CbStart
  <2> QED
    BY <2>1, <2>2, <1>f
<1>13. CASE UNCHANGED memVars
  BY <1>13, <1>f DEF memVars
<1> QED
  BY <1>1, <1>2, <1>3, <1>4, <1>5, <1>6, <1>7, <1>8, <1>9, <1>10, <1>11, <1>12, <1>13
     DEF CardNext, McWrite, Callback

(***************************************************************************)
(* Every variable of the memory card keeps its type: the feedback queue is *)
(* never longer than it may be, and no more files are open than there are. *)
(***************************************************************************)
THEOREM CardTypeCorrect == CardSpec => []CardTypeOK
  BY CardInitType, CardStepType, PTL DEF CardSpec

-----------------------------------------------------------------------------
(* Nothing is lost but by the race.                                        *)

LEMMA CardInitInd == CardInit => CardIndInv
<1> SUFFICES ASSUME CardInit PROVE CardIndInv
  OBVIOUS
<1>1. CardTypeOK
  BY CardInitType
<1>2. LostOnlyByRace /\ StoredIsNoted /\ PickedIsMarked
  BY DEF CardInit, LostOnlyByRace, StoredIsNoted, PickedIsMarked
<1> QED
  BY <1>1, <1>2 DEF CardIndInv

\* A writer that is between its copy and its mark stays there while others work.
LEMMA MarkingStays ==
    ASSUME NEW b \in Blocks, Marking(b), UNCHANGED <<wpc, wblock>>
    PROVE  Marking(b)'
  BY DEF Marking

LEMMA CardStepInd == CardIndInv /\ [CardNext]_memVars => CardIndInv'
<1> SUFFICES ASSUME CardIndInv, [CardNext]_memVars PROVE CardIndInv'
  OBVIOUS
<1> USE DEF CardIndInv
<1>a. CardTypeOK'
  BY CardStepType
<1>b. tblock \in Blocks /\ mc_block_state \subseteq Blocks
  BY DEF CardTypeOK
<1> SUFFICES LostOnlyByRace' /\ StoredIsNoted' /\ PickedIsMarked'
  BY <1>a
<1>1. ASSUME NEW w \in Writers, NEW b \in Blocks, Copy(w, b)
      PROVE  LostOnlyByRace' /\ StoredIsNoted' /\ PickedIsMarked'
  <2> USE <1>1 DEF Copy, cardVars, writerVars, timerVars, queueVars
  <2>1. Marking(b)'
    BY DEF Marking, CardTypeOK
  <2>2. ASSUME NEW c \in Blocks, c # b
        PROVE  /\ mc_buffer'[c] = mc_buffer[c]
               /\ Marking(c) => Marking(c)'
    BY <2>2 DEF Marking, CardTypeOK
  <2>3. LostOnlyByRace'
    BY <2>1, <2>2 DEF LostOnlyByRace
  <2>4. StoredIsNoted'
    BY <2>1, <2>2, <1>b DEF StoredIsNoted
  <2>5. PickedIsMarked'
    BY DEF PickedIsMarked
  <2> QED
    BY <2>3, <2>4, <2>5
<1>2. ASSUME NEW w \in Writers, Mark(w)
      PROVE  LostOnlyByRace' /\ StoredIsNoted' /\ PickedIsMarked'
  <2> USE <1>2 DEF Mark, cardVars, writerVars, timerVars, queueVars
  <2>1. /\ wblock[w] \in mc_block_state'
        /\ mc_block_state \subseteq mc_block_state'
        /\ raced \subseteq raced'
    OBVIOUS
  <2>2. ASSUME NEW c \in Blocks, c # wblock[w], Marking(c) PROVE Marking(c)'
    BY <2>2 DEF Marking, CardTypeOK
  <2>3. LostOnlyByRace'
    BY <2>1, <2>2 DEF LostOnlyByRace
  <2>4. StoredIsNoted'
    BY <2>1, <2>2, <1>b DEF StoredIsNoted
  <2>5. PickedIsMarked'
    BY <2>1 DEF PickedIsMarked
  <2> QED
    BY <2>3, <2>4, <2>5
<1>3. ASSUME NEW w \in Writers, Notify(w)
      PROVE  LostOnlyByRace' /\ StoredIsNoted' /\ PickedIsMarked'
  <2> USE <1>3 DEF Notify, cardVars, timerVars
  <2>1. ASSUME NEW c \in Blocks, Marking(c) PROVE Marking(c)'
    BY <2>1 DEF Marking, CardTypeOK
  <2> QED
    BY <2>1, <1>b DEF LostOnlyByRace, StoredIsNoted, PickedIsMarked
<1>4. CASE UNCHANGED <<cardVars, writerVars, timerVars>>
  BY <1>4 DEF cardVars, writerVars, timerVars, LostOnlyByRace, StoredIsNoted, PickedIsMarked, Marking
<1>5. CASE Fire \/ OpenFailed \/ Pick \/ PickNone \/ Rearm \/ CbStop \/ CbStart
  <2>1. UNCHANGED <<cardVars, writerVars>>
    BY <1>5 DEF Fire, OpenFailed, Pick, PickNone, Rearm, CbStop, CbStart
  <2>2. LostOnlyByRace'
    BY <2>1 DEF LostOnlyByRace, Marking, cardVars, writerVars
  <2>3. StoredIsNoted'
    BY <1>5 DEF StoredIsNoted, AfterActive, Fire, OpenFailed, Pick, PickNone, Rearm, CbStop, CbStart
  <2>4. PickedIsMarked'
    BY <1>5 DEF PickedIsMarked, AfterActive, cardVars,
                Fire, OpenFailed, Pick, PickNone, Rearm, CbStop, CbStart
  <2> QED
    BY <2>2, <2>3, <2>4
<1>6. CASE StoreBlock
  <2> USE <1>6 DEF StoreBlock, writerVars
  <2>1. card_file'[tblock] = mc_buffer[tblock]
    BY <1>b DEF CardTypeOK
  <2>2. ASSUME NEW c \in Blocks, c # tblock
        PROVE  card_file'[c] = card_file[c] /\ (c \in raced => c \in raced') /\ (Marking(c) => Marking(c)')
    BY <2>2 DEF CardTypeOK, Marking
  <2> QED
    BY <2>1, <2>2 DEF LostOnlyByRace, StoredIsNoted, PickedIsMarked
<1>7. CASE StoreBlockFailed
  <2> USE <1>7 DEF StoreBlockFailed, writerVars
  <2>1. tblock \in mc_block_state
    BY DEF PickedIsMarked
  <2>2. ASSUME NEW c \in Blocks, c # tblock
        PROVE  card_file'[c] = card_file[c] /\ (Marking(c) => Marking(c)')
    BY <2>2 DEF CardTypeOK, Marking
  <2> QED
    BY <2>1, <2>2 DEF LostOnlyByRace, StoredIsNoted, PickedIsMarked
<1>8. CASE Clear
  <2> USE <1>8 DEF Clear, writerVars
  <2>1. ASSUME NEW c \in Blocks, Marking(c) PROVE Marking(c)'
    BY <2>1 DEF Marking
  <2>2. ASSUME NEW c \in Blocks, c \in mc_block_state, c \notin mc_block_state'
        PROVE  c = tblock /\ stored
    BY <2>2
  <2>3. LostOnlyByRace'
    BY <2>1, <2>2 DEF LostOnlyByRace, StoredIsNoted
  <2> QED
    BY <2>3 DEF StoredIsNoted, PickedIsMarked
<1>9. CASE OtherQueued \/ FbTask
  BY <1>4, <1>9 DEF OtherQueued, FbTask, OtherHandled, TakeNote, FbStop, FbStart
<1>10. CASE UNCHANGED memVars
  BY <1>4, <1>10 DEF memVars
<1> QED
  BY <1>1, <1>2, <1>3, <1>5, <1>6, <1>7, <1>8, <1>9, <1>10 DEF CardNext, McWrite, Callback

\* The invariant with the two clauses about the callback at work.
THEOREM CardInvariant == CardSpec => []CardIndInv
  BY CardInitInd, CardStepInd, PTL DEF CardSpec

(***************************************************************************)
(* A block whose file is out of date is marked or about to be, whatever    *)
(* the writers and the callback do, except after the one race of mc_write  *)
(* with mc_store_spread between fwrite and atomic_clear_bit.               *)
(***************************************************************************)
THEOREM LossIsTheRace == CardSpec => []LostOnlyByRace
<1>1. CardIndInv => LostOnlyByRace
  BY DEF CardIndInv
<1> QED
  BY <1>1, CardInvariant, PTL

-----------------------------------------------------------------------------
(* What is marked is on its way.                                           *)

LEMMA InitUnderWay == CardInit => MarkedIsUnderWay
  BY DEF CardInit, MarkedIsUnderWay

LEMMA StepUnderWay == CardTypeOK /\ MarkedIsUnderWay /\ [CardNext]_memVars => MarkedIsUnderWay'
<1> SUFFICES ASSUME CardTypeOK, MarkedIsUnderWay, [CardNext]_memVars PROVE MarkedIsUnderWay'
  OBVIOUS
<1> USE DEF MarkedIsUnderWay, UnderWay, cardVars, writerVars, queueVars, timerVars, fileVars
<1>1. ASSUME NEW w \in Writers, NEW b \in Blocks, Copy(w, b) PROVE MarkedIsUnderWay'
  <2>1. \A v \in Writers : wpc[v] = "notify" => wpc'[v] = "notify"
    BY <1>1 DEF Copy, CardTypeOK
  <2> QED
    BY <1>1, <2>1 DEF Copy
<1>2. ASSUME NEW w \in Writers, Mark(w) PROVE MarkedIsUnderWay'
  <2>1. wpc'[w] = "notify"
    BY <1>2 DEF Mark, CardTypeOK
  <2> QED
    BY <2>1
<1>3. ASSUME NEW w \in Writers, Notify(w) PROVE MarkedIsUnderWay'
  <2>1. CASE mem_notes + others < QueueLen
    <3>1. mem_notes' > 0
      BY <1>3, <2>1 DEF Notify, CardTypeOK
    <3> QED
      BY <3>1
  <2>2. CASE ~(mem_notes + others < QueueLen)
    <3>1. mem_notes' = mem_notes /\ UNCHANGED <<mc_block_state, fpc, armed, tpc, unopened>>
      BY <1>3, <2>2 DEF Notify
    <3>2. mem_notes = 0 => muted'
      BY <1>3, <2>2, Zenon DEF Notify
    <3>3. mem_notes = 0 \/ mem_notes' > 0
      BY <3>1 DEF CardTypeOK
    <3> QED
      BY <3>1, <3>2, <3>3
  <2> QED
    BY <2>1, <2>2
<1>4. CASE OtherQueued
  BY <1>4 DEF OtherQueued
<1>5. CASE FbTask
  BY <1>5 DEF FbTask, OtherHandled, TakeNote, FbStop, FbStart, AfterActive
<1>6. CASE Callback
  <2>1. CASE OpenFailed
    BY <2>1, Zenon DEF OpenFailed
  <2>2. CASE PickNone
    BY <2>2 DEF PickNone
  <2>3. CASE Rearm
    BY <2>3 DEF Rearm, AfterActive
  <2>4. CASE Fire \/ Pick \/ StoreBlock \/ StoreBlockFailed \/ Clear \/ CbStop \/ CbStart
    BY <2>4 DEF Fire, FileOpened, Pick, StoreBlock, StoreBlockFailed, Clear, CbStop, CbStart
  <2> QED
    BY <1>6, <2>1, <2>2, <2>3, <2>4 DEF Callback
<1>7. CASE UNCHANGED memVars
  BY <1>7 DEF memVars
<1> QED
  BY <1>1, <1>2, <1>3, <1>4, <1>5, <1>6, <1>7 DEF CardNext, McWrite

(***************************************************************************)
(* As long as a block is marked the timer is armed or somebody is about to *)
(* arm it, however bt_fb_task and the callback interleave in               *)
(* mc_start_update_timer, unless a note was dropped or fopen failed.       *)
(***************************************************************************)
THEOREM WorkIsUnderWay == CardSpec => []MarkedIsUnderWay
  BY InitUnderWay, StepUnderWay, CardTypeCorrect, PTL DEF CardSpec

=============================================================================
