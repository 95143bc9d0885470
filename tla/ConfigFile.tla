----------------------------- MODULE ConfigFile -----------------------------
(***************************************************************************)
(* struct config and its file: what a store leaves in the file, what a     *)
(* load brings into RAM, and the upgrades of the two older layouts.  The   *)
(* settings come in two parts: 1 has the global ones, the outputs and the  *)
(* mappings of the first six controllers, 2 the mappings of the other six. *)
(* (Mutants: see BssRing.)                                                 *)
(***************************************************************************)
EXTENDS Integers, FiniteSets

CONSTANTS Games,         \* the game ids, which are names of files too
          DefaultFile,   \* CONFIG_FILE
          MaxEdits       \* bound: how often the settings are changed

Files == Games \cup {DefaultFile}
Parts == {1, 2}

ASSUME ConfigAssumption ==
    /\ DefaultFile \notin Games
    /\ MaxEdits \in Nat \ {0}

-----------------------------------------------------------------------------
(* The bytes: WIRED_MAX_DEV records of a fixed size after a head that grew *)
(* by a byte with each version.                                            *)

WIRED_MAX_DEV == 12
HeadLen == [v0 |-> 30, v1 |-> 31, v2 |-> 32]
RecordLen == [v0 |-> 3 + 255 * 8, v1 |-> 3 + 255 * 8, v2 |-> 3 + 128 * 8]
Versions == DOMAIN HeadLen
FileLen(v) == HeadLen[v] + WIRED_MAX_DEV * RecordLen[v]
HalfLen == HeadLen.v2 + 6 * RecordLen.v2           \* where part 2 begins

\* Settings of one part: which file they were made for, and their last change; 0 are the defaults.
Settings == [of : Files, edit : 0 .. MaxEdits]
LOST == [of |-> "nobody", edit |-> 0]      \* bytes that are not there, or are not read

\* What RAM holds.  layout is the version the bytes follow, whatever magic says.
Configs == [magic : Versions \cup {"none"}, layout : Versions, part : [Parts -> Settings \cup {LOST}]]
\* What a file holds: the same, up to its length; -1 if there is no such file.
Contents == [len : Int, cfg : Configs]

NoConfig == [magic |-> "none", layout |-> "v2", part |-> [p \in Parts |-> LOST]]

ABSENT == [len |-> -1, cfg |-> NoConfig]

\* config_init_struct
Defaults(f) == [magic |-> "v2", layout |-> "v2", part |-> [p \in Parts |-> [of |-> f, edit |-> 0]]]

\* What fopen(, "wb"), half of the fwrite, and all of it leave in the file.
Truncated == [len |-> 0, cfg |-> NoConfig]
HalfWritten(c) == [len |-> HalfLen, cfg |-> [c EXCEPT !.part[2] = LOST]]
Written(c) == [len |-> FileLen("v2"), cfg |-> c]

\* fread of sizeof(struct config) into c: the parts that the file has.  Of the longer records of
\* the older layouts the second six are beyond that size.
ReadInto(c, content) ==
    CASE content.len = 0 -> c
      [] content.len = HalfLen -> [content.cfg EXCEPT !.part[2] = c.part[2]]
      [] content.len = FileLen("v2") -> content.cfg
      [] OTHER -> [content.cfg EXCEPT !.part[2] = LOST]

\* config_v0_update, before its store: a byte is inserted, and the magic is the newest one.
V0Updated(c) == [c EXCEPT !.magic = "v2", !.layout = "v1"]

\* config_v1_update: the records are read once more, from where they were in the older layout.
\* A file that has not all of them is given up; in one that is still of version 0 (its store
\* failed) they all begin a byte earlier.
RecordsFound(content) ==
    Cardinality({i \in 0 .. WIRED_MAX_DEV - 1 :
                    HeadLen.v1 + i * RecordLen.v1 + RecordLen.v2 <= content.len})

V1UpdatedNever(f, content) == Defaults(f)       \* mutant: the records are never enough

V1Updated(f, content) ==
    IF RecordsFound(content) = WIRED_MAX_DEV
    THEN [magic |-> "v2", layout |-> IF content.cfg.layout = "v1" THEN "v2" ELSE "v0",
          part |-> content.cfg.part]
    ELSE Defaults(f)

=============================================================================
