----------------------------- MODULE ServersFile -----------------------------
(***************************************************************************)
(* Gluetun's server data on a volume with two writers: this program, which *)
(* rewrites the protonvpn section on every fetch and after every updater,  *)
(* and Gluetun, which writes its own at every start and update by          *)
(* truncating the file first.  Two layouts exist, a volume outlives the    *)
(* image that made its files, and the program has to find out from the     *)
(* files which layout is read, which schema version is expected, and       *)
(* whether Gluetun uses the volume at all.                                 *)
(***************************************************************************)
EXTENDS Integers

CONSTANTS
    Images,      \* Gluetun images: [layout : "directory" or "legacy", schema : Nat]
    Default,     \* config.DefaultSchemaVersion
    Configs      \* settings, as a set of choices:
                 \*   mode, GLUETUN_SERVERS_WRITE_MODE "update" or "replace"
                 \*   storage, whether Gluetun keeps its data on the shared volume

ASSUME ServersFileAssumption ==
    /\ Images # {} /\ Images \subseteq [layout : {"directory", "legacy"}, schema : Nat \ {0}]
    /\ Default \in Nat \ {0}
    /\ Configs # {} /\ Configs \subseteq [mode : {"update", "replace"}, storage : BOOLEAN]

VARIABLES
    conf,        \* the choice made of Configs
    image,       \* what the Gluetun container runs
    gluetun,     \* "down", "starting" (not listening yet), "up" or "updating"
    data,        \* whose protonvpn servers Gluetun uses: "builtin" or "tool"
    manifest,    \* servers/manifest.json exists
    files,       \* the two files: "directory", the provider's, and "legacy"
    detached,    \* the file Gluetun is writing was replaced under it
    pc,          \* where this program is: "down", "idle", a step of Write, or
                 \* "answered", a health check that Gluetun has answered
    schema,      \* e.schemaVersion
    layout,      \* e.layout
    kept,        \* other providers' sections writeLegacy holds
    observed,    \* e.gluetunWroteServerData
    hadData,     \* the same in the state file
    ignored,     \* the warning that Gluetun does not read what is written
    wrote,       \* history: Gluetun opened its file on this volume to write it
    moved,       \* history: the files Gluetun was writing at some time during this
                 \* write or health check
    met,         \* history: a write replaced the legacy file Gluetun wrote meanwhile
    ready        \* history: the version of a write that ended undisturbed since
                 \* Gluetun came up, 0 without one

tool    == <<pc, schema, layout, kept, observed, hadData, ignored>>
volume  == <<manifest, files>>
theirs  == <<image, gluetun, data, detached>>
history == <<wrote, moved, met, ready>>
vars    == <<conf, tool, volume, theirs, history>>

Both    == {"directory", "legacy"}
Missing == [form |-> "missing", version |-> 0, by |-> "", others |-> 0]

\* What opening with O_TRUNC leaves until the data is written: nothing, or the
\* beginning of a document.
Half(form) == [form |-> form, version |-> 0, by |-> "", others |-> 0]

-----------------------------------------------------------------------------
(* What the program reads                                                   *)

Exists(file) == files[file].form # "missing"

\* Faulty variant: a manifest decides, whoever left it there.
ManifestDecides == IF manifest THEN {"directory"} ELSE IF Exists("legacy") THEN {"legacy"} ELSE Both

\* The artefacts outlive the Gluetun that made them, so both together and
\* neither mean both.
DetectLayout ==
    IF manifest = Exists("legacy") THEN Both ELSE IF manifest THEN {"directory"} ELSE {"legacy"}

\* Faulty variant: any file counts, our own too.
AnyFile == manifest \/ Exists("legacy") \/ Exists("directory")

\* Only Gluetun writes a manifest or another provider's section.
HasGluetunData == manifest \/ (files["legacy"].form = "whole" /\ files["legacy"].others > 0)

\* Faulty variant: the legacy file first.
LegacyFirst ==
    LET provider == files["directory"]  legacy == files["legacy"]
    IN  CASE legacy.form = "whole" -> legacy.version
          [] legacy.form \in {"missing", "empty"} /\ provider.form = "whole" -> provider.version
          [] OTHER -> Default

\* The provider's file before the legacy one; what cannot be parsed, or is in
\* neither, leaves the default.
DetectSchemaVersion ==
    LET provider == files["directory"]  legacy == files["legacy"]
    IN  CASE provider.form = "whole" -> provider.version
          [] provider.form \in {"missing", "empty"} /\ legacy.form = "whole" -> legacy.version
          [] OTHER -> Default

Init ==
    /\ conf \in Configs /\ image \in Images
    /\ gluetun = "down" /\ data = "builtin" /\ detached = FALSE
    /\ manifest = FALSE /\ files = [file \in Both |-> Missing]
    /\ pc = "down" /\ schema = Default /\ layout = Both /\ kept = 0
    /\ observed = FALSE /\ hadData = FALSE /\ ignored = FALSE
    /\ wrote = FALSE /\ moved = {} /\ met = FALSE /\ ready = 0

-----------------------------------------------------------------------------
(* The program                                                              *)

\* Run: detectSchemaVersion, with refreshGluetunDataObservation before it.
Start ==
    /\ pc = "down" /\ pc' = "idle" /\ ignored' = FALSE /\ kept' = 0
    /\ observed' = (hadData \/ HasGluetunData) /\ hadData' = observed'
    /\ layout' = DetectLayout /\ schema' = DetectSchemaVersion
    /\ UNCHANGED <<conf, volume, theirs, history>>

\* The process ends, between any two steps.
Stop ==
    /\ pc # "down" /\ pc' = "down"
    /\ UNCHANGED <<conf, schema, layout, kept, observed, hadData, ignored>>
    /\ UNCHANGED <<volume, theirs, history>>

Writing  == pc \in {"provider", "read", "legacy"}
Flushing == gluetun \in {"starting", "updating"} /\ conf.storage

\* What Gluetun is writing from now on.
WatchBegins == moved' = IF Flushing THEN {image.layout} ELSE {}

\* The write reached its end.
Ended ==
    /\ pc' = "idle" /\ ready' = IF gluetun = "up" /\ moved = {} THEN schema ELSE 0
    /\ UNCHANGED <<wrote, moved>>

\* writeServersFile, which detects the layout again.
BeginWrite ==
    /\ pc = "idle" /\ layout' = DetectLayout
    /\ pc' = IF "directory" \in layout' THEN "provider" ELSE "read"
    /\ WatchBegins /\ ready' = 0
    /\ UNCHANGED <<conf, schema, kept, observed, hadData, ignored, volume, theirs, wrote, met>>

\* An atomic replacement; whoever has the old file open writes into nothing.
Replace(file, content) ==
    /\ files' = [files EXCEPT ![file] = content]
    /\ detached' = (detached \/ (Flushing /\ file = image.layout))
    /\ UNCHANGED <<manifest, image, gluetun, data>>

Ours(others) == [form |-> "whole", version |-> schema, by |-> "tool", others |-> others]

WriteProvider ==
    /\ pc = "provider" /\ Replace("directory", Ours(0))
    /\ IF "legacy" \in layout THEN pc' = "read" /\ UNCHANGED history ELSE Ended /\ UNCHANGED met
    /\ UNCHANGED <<conf, schema, layout, kept, observed, hadData, ignored>>

Unreadable == conf.mode = "update" /\ files["legacy"].form = "partial"

\* writeLegacy reads what it has to preserve.  An empty file counts as a missing
\* one; one that cannot be parsed lets the write fail.
ReadLegacy ==
    /\ pc = "read" /\ ~Unreadable /\ pc' = "legacy"
    /\ kept' = IF conf.mode = "update" THEN files["legacy"].others ELSE 0
    /\ UNCHANGED <<conf, schema, layout, observed, hadData, ignored, volume, theirs, history>>

\* Faulty variant: what was read is not merged into what is written.
WriteUnmerged ==
    /\ pc = "legacy" /\ Replace("legacy", Ours(0))
    /\ Ended /\ kept' = 0 /\ met' = (met \/ "legacy" \in moved)
    /\ UNCHANGED <<conf, schema, layout, observed, hadData, ignored>>

WriteLegacy ==
    /\ pc = "legacy" /\ Replace("legacy", Ours(kept))
    /\ Ended /\ kept' = 0 /\ met' = (met \/ "legacy" \in moved)
    /\ UNCHANGED <<conf, schema, layout, observed, hadData, ignored>>

\* A file that cannot be read, parsed or replaced ends the write with an error,
\* the provider's file perhaps replaced already.
Fails ==
    /\ Writing /\ pc' = "idle" /\ kept' = 0
    /\ UNCHANGED <<conf, schema, layout, observed, hadData, ignored, volume, theirs, history>>

\* checkGluetun: Gluetun has answered, and may be on its way down before the
\* files are looked at.  Without an answer nothing changes.
Answered ==
    /\ pc = "idle" /\ gluetun \in {"up", "updating"} /\ pc' = "answered" /\ WatchBegins
    /\ UNCHANGED <<conf, schema, layout, kept, observed, hadData, ignored>>
    /\ UNCHANGED <<volume, theirs, wrote, met, ready>>

\* checkServerDataIsRead.
Check ==
    /\ pc = "answered" /\ pc' = "idle"
    /\ observed' = (observed \/ HasGluetunData) /\ hadData' = observed'
    /\ ignored' = ~observed'
    /\ UNCHANGED <<conf, schema, layout, kept, volume, theirs, history>>

Tool ==
    \/ Start \/ Stop \/ BeginWrite \/ WriteProvider \/ ReadLegacy \/ WriteLegacy \/ Fails
    \/ Answered \/ Check

-----------------------------------------------------------------------------
(* Gluetun                                                                  *)

\* What an image reads when it starts: a directory image takes the legacy file
\* over as long as there is no manifest.
Source == IF image.layout = "directory" /\ manifest THEN "directory" ELSE "legacy"

\* Opening its file truncates it.
Truncates ==
    /\ wrote' = TRUE
    /\ \E form \in {"empty", "partial"} :
          files' = [files EXCEPT ![image.layout] = Half(form)]
    /\ detached' = FALSE /\ moved' = moved \cup {image.layout} /\ ready' = 0

\* A start uses the servers it finds if their version is its own.
GluetunStarts ==
    /\ gluetun = "down" /\ gluetun' = "starting"
    /\ IF conf.storage
       THEN /\ data' = IF files[Source].by = "tool" /\ files[Source].version = image.schema
                       THEN "tool" ELSE "builtin"
            /\ Truncates
       ELSE data' = "builtin" /\ UNCHANGED <<files, detached, wrote, moved, ready>>
    /\ UNCHANGED <<conf, tool, manifest, image, met>>

\* The updater replaces Gluetun's list and flushes it.
GluetunUpdates ==
    /\ gluetun = "up" /\ conf.storage /\ gluetun' = "updating" /\ data' = "builtin" /\ Truncates
    /\ UNCHANGED <<conf, tool, manifest, image, met>>

\* The data is written, to a file that may have been replaced; a start ends
\* with the control server listening.
GluetunWrites ==
    /\ gluetun \in {"starting", "updating"} /\ gluetun' = "up"
    /\ IF conf.storage /\ ~detached
       THEN files' = [files EXCEPT ![image.layout] =
                        [form |-> "whole", version |-> image.schema,
                         by |-> IF data = "tool" THEN "tool" ELSE "gluetun",
                         others |-> IF image.layout = "legacy" THEN 1 ELSE 0]]
       ELSE UNCHANGED files
    /\ manifest' = (manifest \/ (conf.storage /\ image.layout = "directory"))
    /\ detached' = FALSE
    /\ UNCHANGED <<conf, tool, image, data, history>>

\* A half-written file stays half-written.
GluetunStops ==
    /\ gluetun # "down" /\ gluetun' = "down" /\ data' = "builtin" /\ detached' = FALSE
    /\ UNCHANGED <<conf, tool, volume, image, history>>

\* The container is recreated from another image, on the same volume.
ImageChanges ==
    /\ gluetun = "down"
    /\ image' \in Images \ {image} /\ ready' = 0
    /\ UNCHANGED <<conf, tool, volume, gluetun, data, detached, wrote, moved, met>>

Gluetun == GluetunStarts \/ GluetunUpdates \/ GluetunWrites \/ GluetunStops \/ ImageChanges

Next == Tool \/ Gluetun

Spec == Init /\ [][Next]_vars

-----------------------------------------------------------------------------
(* Correctness                                                              *)

Contents == [form : {"missing", "empty", "partial", "whole"}, version : Nat,
             by : {"", "tool", "gluetun"}, others : {0, 1}]

\* Every variable has its type.
TypeOK ==
    /\ conf \in Configs /\ image \in Images
    /\ gluetun \in {"down", "starting", "up", "updating"} /\ data \in {"builtin", "tool"}
    /\ {manifest, detached, observed, hadData, ignored, wrote, met} \subseteq BOOLEAN
    /\ files \in [Both -> Contents] /\ {layout, moved} \subseteq SUBSET Both
    /\ pc \in {"down", "idle", "provider", "read", "legacy", "answered"}
    /\ schema \in Nat \ {0} /\ ready \in Nat /\ kept \in {0, 1}

\* What other providers have in the legacy file stays there in update mode,
\* whatever fails or ends in between, unless Gluetun was writing that file while
\* it was read and replaced (writeLegacy); a Gluetun that writes the directory
\* layout does no harm.
ForeignKept ==
    [][(Tool /\ conf.mode = "update" /\ "legacy" \notin moved) =>
            files'["legacy"].others >= files["legacy"].others]_vars

\* What is written beside a running Gluetun, with the version it expects, is
\* what it uses when it is started again, whatever other images have left on
\* the volume (DetectLayout, writeServersFile).
WrittenIsUsed ==
    [][(gluetun = "down" /\ gluetun' = "starting" /\ conf.storage /\ ready = image.schema)
            => data' = "tool"]_vars

\* A start that finds Gluetun's own file, as Gluetun wrote it, finds the version
\* Gluetun expects, unless a provider's file hides a legacy one
\* (DetectSchemaVersion).
VersionIsGluetuns ==
    [][(Start /\ gluetun = "up" /\ files[image.layout].by = "gluetun"
            /\ (image.layout = "legacy" => ~Exists("directory")))
            => schema' = image.schema]_vars

\* Gluetun is said to ignore the files only when it does not keep any on this
\* volume, when it wrote the legacy file during the health check, or when a write
\* lost its sections, on purpose or by meeting one of Gluetun's; and it is taken
\* to use them only when it has written there itself (HasGluetunData,
\* checkServerDataIsRead).
WarningIsTrue ==
    [][/\ (ignored' /\ ~ignored) =>
              ~conf.storage \/ conf.mode = "replace" \/ "legacy" \in moved \/ met
       /\ observed' => conf.storage /\ wrote]_vars
=============================================================================
