-------------------------- MODULE ServersFileProofs --------------------------
(***************************************************************************)
(* Theorems about ServersFile, for any set of images, any default version  *)
(* and any settings.  The argument is one invariant: what is known of a    *)
(* write that no write of Gluetun has met so far.                          *)
(***************************************************************************)
EXTENDS ServersFile, TLAPS

\* A manifest and other providers' sections come from Gluetun, wherever they
\* have been copied to since.
Evidence ==
    /\ Flushing => wrote
    /\ (manifest \/ observed \/ hadData \/ kept > 0 \/ files["legacy"].others > 0)
          => conf.storage /\ wrote

\* A write or a health check that has not been met has seen no file truncated,
\* and nothing is ready before a write has ended.
Overlaps ==
    /\ (Writing \/ pc = "answered") /\ Flushing => image.layout \in moved
    /\ Writing \/ Flushing => ready = 0
    /\ detached => Flushing
    /\ detached /\ image.layout = "legacy" => met

\* What a write holds of the legacy file is what is in it.
Held ==
    conf.mode = "update" /\ pc = "legacy" /\ "legacy" \notin moved =>
        kept = files["legacy"].others

\* The evidence a health check will look for, once Gluetun has answered it.
Seen ==
    (/\ pc = "answered" /\ conf.storage /\ conf.mode = "update"
     /\ "legacy" \notin moved /\ ~met) => HasGluetunData

\* What Gluetun wrote is whole and has the version of the image that runs.
Genuine ==
    /\ \A file \in Both : files[file].by # "" => files[file].form = "whole"
    /\ \A file \in Both : files[file].form = "whole" => files[file].version # 0
    /\ \A file \in Both : files[file].by = "gluetun" => conf.storage
    /\ gluetun # "down" /\ files[image.layout].by = "gluetun" =>
          gluetun = "up" /\ files[image.layout].version = image.schema

\* A Gluetun that is up has left the artefact of its layout.
Settled ==
    /\ conf.storage /\ gluetun # "down" /\ image.layout = "legacy" => Exists("legacy")
    /\ conf.storage /\ gluetun \in {"up", "updating"} /\ image.layout = "directory" => manifest
    /\ (/\ conf.storage /\ image.layout = "legacy" /\ gluetun = "up"
        /\ conf.mode = "update" /\ ~met) =>
          files["legacy"].form = "whole" /\ files["legacy"].others > 0

\* A write beside a Gluetun that is up includes the file that one reads.
Placed ==
    /\ (conf.storage /\ gluetun = "up" /\ Writing /\ moved = {}) => image.layout \in layout
    /\ pc = "provider" => "directory" \in layout
    /\ pc \in {"read", "legacy"} => "legacy" \in layout
    /\ (pc \in {"read", "legacy"} /\ "directory" \in layout /\ moved = {}) =>
          files["directory"].by = "tool" /\ files["directory"].version = schema

\* What is ready is what the next start reads.
Ready ==
    conf.storage /\ ready # 0 => files[Source].by = "tool" /\ files[Source].version = ready

Inv == TypeOK /\ Evidence /\ Overlaps /\ Held /\ Seen /\ Genuine /\ Settled /\ Placed /\ Ready

-----------------------------------------------------------------------------
LEMMA Assumed ==
    /\ \A i \in Images : i.layout \in Both /\ i.schema \in Nat \ {0}
    /\ \A c \in Configs : c.mode \in {"update", "replace"} /\ c.storage \in BOOLEAN
    /\ Default \in Nat \ {0}
    /\ Images \subseteq [layout : Both, schema : Nat \ {0}]
BY ServersFileAssumption DEF Both

\* Types of what a write puts into a file.
LEMMA ContentTypes ==
    ASSUME TypeOK
    PROVE  /\ \A file \in Both, content \in Contents :
                 [files EXCEPT ![file] = content] \in [Both -> Contents]
           /\ \A file \in Both : files[file] \in Contents
           /\ \A n \in {0, 1} : Ours(n) \in Contents
           /\ \A form \in {"empty", "partial"} : Half(form) \in Contents
           /\ image.layout \in Both /\ image.schema \in Nat \ {0}
           /\ conf.mode \in {"update", "replace"} /\ conf.storage \in BOOLEAN
BY Assumed DEF TypeOK, Ours, Half, Contents

\* A version that is detected is one a file can have, or the default.
LEMMA Detected ==
    ASSUME TypeOK, \A file \in Both : files[file].form = "whole" => files[file].version # 0
    PROVE  DetectSchemaVersion \in Nat \ {0}
BY Assumed, ContentTypes DEF DetectSchemaVersion, TypeOK, Contents, Both

\* What a health check will find stays there as long as nobody writes.
LEMMA SeenStays ==
    ASSUME Seen, UNCHANGED <<conf, manifest, files>>, pc' = "answered" => pc = "answered",
           moved \subseteq moved', met => met'
    PROVE  Seen'
BY DEF Seen, HasGluetunData

LEMMA InitInv == Init => Inv
<1> SUFFICES ASSUME Init PROVE Inv
  OBVIOUS
<1>1. Missing \in Contents
  BY DEF Missing, Contents
<1>2. TypeOK
  BY <1>1, Assumed DEF Init, TypeOK, Both
<1>3. /\ \A file \in Both : files[file] = Missing
      /\ "directory" \in Both /\ "legacy" \in Both
      /\ Missing.others = 0 /\ Missing.by = "" /\ Missing.form = "missing"
  BY DEF Init, Both, Missing
<1>4. /\ ~manifest /\ ~observed /\ ~hadData /\ ~detached /\ kept = 0 /\ ready = 0
      /\ pc = "down" /\ gluetun = "down"
  BY DEF Init
<1>5. Evidence /\ Overlaps
  <2>1. files["legacy"].others = 0
    BY <1>3
  <2> QED
    BY <1>4, <2>1 DEF Evidence, Overlaps, Writing, Flushing
<1>6. image.layout \in Both
  BY <1>2, ContentTypes
<1>7. Held /\ Genuine
  <2>1. \A file \in Both : files[file].by = "" /\ files[file].form = "missing"
    BY <1>3
  <2> QED
    BY <1>4, <1>6, <2>1 DEF Held, Genuine
<1>8. Settled /\ Placed /\ Ready
  BY <1>4 DEF Settled, Placed, Ready, Writing
<1>9. Seen
  BY <1>4 DEF Seen
<1> QED
  BY <1>2, <1>5, <1>7, <1>8, <1>9 DEF Inv

-----------------------------------------------------------------------------
(* The program's steps                                                      *)

LEMMA StartInv == Inv /\ Start => Inv'
<1> SUFFICES ASSUME Inv, Start PROVE Inv'
  OBVIOUS
<1>1. /\ pc' = "idle" /\ kept' = 0 /\ ready' = ready /\ layout' \in SUBSET Both
      /\ UNCHANGED <<conf, manifest, files, image, gluetun, data, detached, wrote, moved, met>>
      /\ observed' = (hadData \/ HasGluetunData) /\ hadData' = observed' /\ ignored' = FALSE
      /\ schema' = DetectSchemaVersion
  BY DEF Start, DetectLayout, Both, volume, theirs, history
<1>2. TypeOK'
  <2>1. DetectSchemaVersion \in Nat \ {0}
    BY Detected DEF Inv, Genuine
  <2> QED
    BY <1>1, <2>1 DEF Inv, TypeOK
<1>3. Evidence'
  <2>1. observed' \/ hadData' => hadData \/ manifest \/ files["legacy"].others > 0
    BY <1>1 DEF HasGluetunData
  <2>2. ~(kept' > 0)
    BY <1>1
  <2> QED
    BY <1>1, <2>1, <2>2 DEF Inv, Evidence, Flushing
<1>4. Overlaps' /\ Held' /\ Genuine' /\ Settled' /\ Placed' /\ Ready'
  BY <1>1 DEF Inv, Overlaps, Held, Genuine, Settled, Placed, Ready, Writing, Flushing, Exists, Source
<1>5. Seen'
  BY <1>1 DEF Seen
<1> QED
  BY <1>2, <1>3, <1>4, <1>5 DEF Inv

LEMMA StopInv == Inv /\ (Stop \/ Fails) => Inv'
<1> SUFFICES ASSUME Inv, Stop \/ Fails PROVE Inv'
  OBVIOUS
<1>1. /\ pc' \in {"down", "idle"} /\ kept' \in {kept, 0}
      /\ UNCHANGED <<conf, manifest, files, image, gluetun, data, detached, wrote, moved, met, ready>>
      /\ UNCHANGED <<schema, layout, observed, hadData, ignored>>
  BY DEF Stop, Fails, volume, theirs, history
<1>2. TypeOK' /\ Evidence'
  BY <1>1 DEF Inv, TypeOK, Evidence, Flushing
<1>3. Overlaps' /\ Held' /\ Genuine' /\ Settled' /\ Placed' /\ Ready'
  BY <1>1 DEF Inv, Overlaps, Held, Genuine, Settled, Placed, Ready, Writing, Flushing, Exists, Source
<1>4. Seen'
  BY <1>1 DEF Seen
<1> QED
  BY <1>2, <1>3, <1>4 DEF Inv

LEMMA BeginWriteInv == Inv /\ BeginWrite => Inv'
<1> SUFFICES ASSUME Inv, BeginWrite PROVE Inv'
  OBVIOUS
<1>1. /\ pc = "idle" /\ moved' = (IF Flushing THEN {image.layout} ELSE {}) /\ ready' = 0
      /\ UNCHANGED <<conf, manifest, files, image, gluetun, data, detached, wrote, met>>
      /\ UNCHANGED <<schema, kept, observed, hadData, ignored>>
  BY DEF BeginWrite, WatchBegins, volume, theirs
<1>2. /\ layout' \in SUBSET Both /\ layout' # {}
      /\ pc' = IF "directory" \in layout' THEN "provider" ELSE "read"
      /\ manifest => "directory" \in layout'
      /\ Exists("legacy") => "legacy" \in layout'
  BY DEF BeginWrite, DetectLayout, Both, Inv, TypeOK
<1>3. TypeOK' /\ Evidence' /\ Overlaps' /\ Held' /\ Seen'
  BY <1>1, <1>2, ContentTypes DEF Inv, TypeOK, Evidence, Overlaps, Held, Seen, Writing, Flushing
<1>4. Genuine' /\ Settled' /\ Ready'
  BY <1>1 DEF Inv, Genuine, Settled, Ready, Exists, Source
<1>5. Placed'
  BY <1>1, <1>2, ContentTypes DEF Inv, Placed, Settled, Both
<1> QED
  BY <1>3, <1>4, <1>5 DEF Inv

LEMMA WriteProviderInv == Inv /\ WriteProvider => Inv'
<1> SUFFICES ASSUME Inv, WriteProvider PROVE Inv'
  OBVIOUS
<1>1. /\ pc = "provider" /\ files' = [files EXCEPT !["directory"] = Ours(0)]
      /\ detached' = (detached \/ (Flushing /\ "directory" = image.layout))
      /\ UNCHANGED <<conf, manifest, image, gluetun, data, wrote, moved>>
      /\ UNCHANGED <<schema, layout, kept, observed, hadData, ignored>>
  BY DEF WriteProvider, Replace, Ended, history
<1>2. \/ "legacy" \in layout /\ pc' = "read" /\ UNCHANGED <<ready, met>>
      \/ /\ "legacy" \notin layout /\ pc' = "idle" /\ met' = met
         /\ ready' = IF gluetun = "up" /\ moved = {} THEN schema ELSE 0
  BY DEF WriteProvider, Ended, history
<1>3. /\ files'["directory"] = Ours(0) /\ files'["legacy"] = files["legacy"]
      /\ Ours(0).form = "whole" /\ Ours(0).by = "tool" /\ Ours(0).version = schema /\ schema # 0
  BY <1>1 DEF Inv, TypeOK, Ours, Both
<1>4. TypeOK'
  BY <1>1, <1>2, ContentTypes DEF Inv, TypeOK, Both
<1>5. Evidence' /\ Overlaps' /\ Held' /\ Seen'
  BY <1>1, <1>2, <1>3, ContentTypes DEF Inv, Evidence, Overlaps, Held, Seen, Writing, Flushing, Both
<1>6. Genuine'
  BY <1>1, <1>3, ContentTypes DEF Inv, Genuine, Both
<1>7. Settled'
  BY <1>1, <1>2, <1>3, ContentTypes DEF Inv, Settled, Exists, Both
<1>8. Placed' /\ Ready'
  BY <1>1, <1>2, <1>3, ContentTypes DEF Inv, Placed, Ready, Settled, Overlaps, Source, Writing, Both
<1> QED
  BY <1>4, <1>5, <1>6, <1>7, <1>8 DEF Inv

LEMMA ReadLegacyInv == Inv /\ ReadLegacy => Inv'
<1> SUFFICES ASSUME Inv, ReadLegacy PROVE Inv'
  OBVIOUS
<1>1. /\ pc = "read" /\ pc' = "legacy"
      /\ kept' = IF conf.mode = "update" THEN files["legacy"].others ELSE 0
      /\ UNCHANGED <<conf, manifest, files, image, gluetun, data, detached, wrote, moved, met, ready>>
      /\ UNCHANGED <<schema, layout, observed, hadData, ignored>>
  BY DEF ReadLegacy, volume, theirs, history
<1>2. TypeOK'
  BY <1>1, ContentTypes DEF Inv, TypeOK, Contents, Both
<1>3. Evidence' /\ Overlaps'
  BY <1>1 DEF Inv, Evidence, Overlaps, Writing, Flushing
<1>4. Held' /\ Seen'
  BY <1>1 DEF Held, Seen
<1>5. Genuine' /\ Settled' /\ Placed' /\ Ready'
  BY <1>1 DEF Inv, Genuine, Settled, Placed, Ready, Writing, Exists, Source
<1> QED
  BY <1>2, <1>3, <1>4, <1>5 DEF Inv

LEMMA WriteLegacyInv == Inv /\ WriteLegacy => Inv'
<1> SUFFICES ASSUME Inv, WriteLegacy PROVE Inv'
  OBVIOUS
<1>1. /\ pc = "legacy" /\ pc' = "idle" /\ files' = [files EXCEPT !["legacy"] = Ours(kept)]
      /\ detached' = (detached \/ (Flushing /\ "legacy" = image.layout))
      /\ met' = (met \/ "legacy" \in moved) /\ kept' = 0
      /\ ready' = IF gluetun = "up" /\ moved = {} THEN schema ELSE 0
      /\ UNCHANGED <<conf, manifest, image, gluetun, data, wrote, moved>>
      /\ UNCHANGED <<schema, layout, observed, hadData, ignored>>
  BY DEF WriteLegacy, Replace, Ended
<1>2. /\ files'["legacy"] = Ours(kept) /\ files'["directory"] = files["directory"]
      /\ Ours(kept).form = "whole" /\ Ours(kept).by = "tool" /\ Ours(kept).version = schema
      /\ Ours(kept).others = kept /\ schema # 0
  BY <1>1 DEF Inv, TypeOK, Ours, Both
<1>3. TypeOK'
  BY <1>1, ContentTypes DEF Inv, TypeOK, Both
<1>4. Evidence' /\ Held' /\ Seen'
  BY <1>1, <1>2 DEF Inv, Evidence, Held, Seen, Flushing
<1>5. Overlaps'
  <2>1. Flushing => image.layout \in moved
    BY <1>1 DEF Inv, Overlaps, Writing
  <2>2. Flushing' = Flushing /\ ~Writing' /\ pc' # "answered"
    BY <1>1 DEF Flushing, Writing
  <2>3. Flushing => ready' = 0
    BY <1>1 DEF Flushing
  <2>4. (detached' => Flushing) /\ (detached' /\ image.layout = "legacy" => met')
    BY <1>1, <2>1 DEF Inv, Overlaps
  <2> QED
    BY <1>1, <2>2, <2>3, <2>4 DEF Overlaps
<1>6. Genuine' /\ Settled'
  BY <1>1, <1>2, ContentTypes DEF Inv, Genuine, Settled, Held, Exists, Both
<1>7. Placed' /\ Ready'
  BY <1>1, <1>2, ContentTypes DEF Inv, Placed, Ready, Settled, Overlaps, Source, Writing, Both
<1> QED
  BY <1>3, <1>4, <1>5, <1>6, <1>7 DEF Inv

LEMMA AnsweredInv == Inv /\ Answered => Inv'
<1> SUFFICES ASSUME Inv, Answered PROVE Inv'
  OBVIOUS
<1>1. /\ pc' = "answered" /\ gluetun \in {"up", "updating"}
      /\ moved' = (IF Flushing THEN {image.layout} ELSE {})
      /\ UNCHANGED <<conf, manifest, files, image, gluetun, data, detached, wrote, met, ready>>
      /\ UNCHANGED <<schema, layout, kept, observed, hadData, ignored>>
  BY DEF Answered, WatchBegins, volume, theirs
<1>2. TypeOK' /\ Evidence' /\ Overlaps' /\ Held'
  BY <1>1, ContentTypes DEF Inv, TypeOK, Evidence, Overlaps, Held, Writing, Flushing
<1>3. Seen'
  <2> SUFFICES ASSUME conf.storage, conf.mode = "update", "legacy" \notin moved', ~met
               PROVE  HasGluetunData'
    BY <1>1 DEF Seen
  <2>1. CASE image.layout = "legacy"
    <3>1. gluetun = "up"
      BY <1>1, <2>1 DEF Flushing
    <3> QED
      BY <1>1, <2>1, <3>1 DEF Inv, Settled, HasGluetunData
  <2>2. CASE image.layout = "directory"
    BY <1>1, <2>2 DEF Inv, Settled, HasGluetunData
  <2> QED
    BY <2>1, <2>2, ContentTypes DEF Inv, Both
<1>4. Genuine' /\ Settled' /\ Placed' /\ Ready'
  BY <1>1 DEF Inv, Genuine, Settled, Placed, Ready, Writing, Exists, Source
<1> QED
  BY <1>2, <1>3, <1>4 DEF Inv

LEMMA CheckInv == Inv /\ Check => Inv'
<1> SUFFICES ASSUME Inv, Check PROVE Inv'
  OBVIOUS
<1>1. /\ pc = "answered" /\ pc' = "idle"
      /\ observed' \in BOOLEAN /\ hadData' = observed' /\ ignored' \in BOOLEAN
      /\ observed' => observed \/ manifest \/ files["legacy"].others > 0
      /\ UNCHANGED <<conf, manifest, files, image, gluetun, data, detached, wrote, moved, met, ready>>
      /\ UNCHANGED <<schema, layout, kept>>
  BY DEF Check, HasGluetunData, volume, theirs, history, Inv, TypeOK
<1>2. TypeOK' /\ Evidence' /\ Seen'
  BY <1>1 DEF Inv, TypeOK, Evidence, Seen, Flushing
<1>3. Overlaps' /\ Held' /\ Genuine' /\ Settled' /\ Placed' /\ Ready'
  BY <1>1 DEF Inv, Overlaps, Held, Genuine, Settled, Placed, Ready, Writing, Flushing, Exists, Source
<1> QED
  BY <1>2, <1>3 DEF Inv

-----------------------------------------------------------------------------
(* Gluetun's steps                                                          *)

\* What opening a file for a write leaves of the invariant.
LEMMA TruncatesInv ==
    ASSUME Inv, Truncates, conf.storage,
           gluetun' = "starting" \/ (gluetun = "up" /\ gluetun' = "updating"),
           UNCHANGED <<conf, tool, manifest, image, met>>, data' \in {"builtin", "tool"}
    PROVE  Inv'
<1>1. /\ wrote' = TRUE /\ moved' = moved \cup {image.layout} /\ ready' = 0 /\ detached' = FALSE
      /\ UNCHANGED <<conf, pc, schema, layout, kept, observed, hadData, ignored, manifest, image, met>>
  BY DEF Truncates, tool
<1>2. PICK form \in {"empty", "partial"} : files' = [files EXCEPT ![image.layout] = Half(form)]
  BY DEF Truncates
<1>3. /\ files' \in [Both -> Contents] /\ files'[image.layout] = Half(form)
      /\ \A file \in Both \ {image.layout} : files'[file] = files[file]
      /\ Half(form).by = "" /\ Half(form).form = form /\ Half(form).others = 0
      /\ image.layout \in Both
  BY <1>2, ContentTypes DEF Inv, TypeOK, Half
<1>4. TypeOK'
  BY <1>1, <1>3 DEF Inv, TypeOK
<1>5. Evidence' /\ Overlaps' /\ Held' /\ Seen'
  <2>1. files'["legacy"].others = 0 \/ files'["legacy"] = files["legacy"]
    BY <1>3 DEF Both
  <2>2. "legacy" \notin moved' => files'["legacy"] = files["legacy"] /\ "legacy" \notin moved
    BY <1>1, <1>3 DEF Both
  <2>3. Evidence' /\ Overlaps'
    BY <1>1, <2>1 DEF Inv, Evidence, Overlaps, Writing, Flushing
  <2>4. Held' /\ Seen'
    BY <1>1, <2>2 DEF Inv, Held, Seen, HasGluetunData
  <2> QED
    BY <2>3, <2>4
<1>6. Genuine'
  <2>1. \A file \in Both :
           files'[file] = files[file] \/ (files'[file].by = "" /\ files'[file].form # "whole")
    BY <1>3
  <2>2. files'[image'.layout].by = ""
    BY <1>1, <1>3
  <2> QED
    BY <1>1, <2>1, <2>2 DEF Inv, Genuine
<1>7. Settled'
  <2>1. gluetun' \in {"up", "updating"} => gluetun = "up" /\ gluetun' = "updating"
    OBVIOUS
  <2>2. image'.layout = "legacy" => files'["legacy"].form # "missing"
    BY <1>1, <1>3
  <2>3. conf.storage /\ gluetun = "up" /\ image.layout = "directory" => manifest
    BY DEF Inv, Settled
  <2> QED
    BY <1>1, <2>1, <2>2, <2>3 DEF Settled, Exists
<1>8. Placed' /\ Ready'
  BY <1>1 DEF Inv, Placed, Ready, Writing
<1> QED
  BY <1>4, <1>5, <1>6, <1>7, <1>8 DEF Inv

LEMMA GluetunStartsInv == Inv /\ GluetunStarts => Inv'
<1> SUFFICES ASSUME Inv, GluetunStarts PROVE Inv'
  OBVIOUS
<1>1. CASE conf.storage
  BY <1>1, TruncatesInv DEF GluetunStarts
<1>2. CASE ~conf.storage
  <2>1. /\ gluetun = "down" /\ gluetun' = "starting" /\ data' = "builtin"
        /\ UNCHANGED <<conf, manifest, files, image, detached, wrote, moved, met, ready>>
        /\ UNCHANGED <<pc, schema, layout, kept, observed, hadData, ignored>>
    BY <1>2 DEF GluetunStarts, tool
  <2>2. TypeOK' /\ Evidence' /\ Overlaps' /\ Held' /\ Seen'
    BY <1>2, <2>1 DEF Inv, TypeOK, Evidence, Overlaps, Held, Seen, Writing, Flushing
  <2>3. Genuine' /\ Settled' /\ Placed' /\ Ready'
    BY <1>2, <2>1, ContentTypes DEF Inv, Genuine, Settled, Placed, Ready, Writing, Both
  <2> QED
    BY <2>2, <2>3 DEF Inv
<1> QED
  BY <1>1, <1>2

LEMMA GluetunUpdatesInv == Inv /\ GluetunUpdates => Inv'
BY TruncatesInv DEF GluetunUpdates

LEMMA GluetunWritesInv == Inv /\ GluetunWrites => Inv'
<1> SUFFICES ASSUME Inv, GluetunWrites PROVE Inv'
  OBVIOUS
<1>1. /\ gluetun \in {"starting", "updating"} /\ gluetun' = "up" /\ detached' = FALSE
      /\ manifest' = (manifest \/ (conf.storage /\ image.layout = "directory"))
      /\ UNCHANGED <<conf, pc, schema, layout, kept, observed, hadData, ignored, image, data>>
      /\ UNCHANGED <<wrote, moved, met, ready>>
  BY DEF GluetunWrites, tool, history
<1>2. Flushing = conf.storage /\ ~Flushing'
  BY <1>1, ContentTypes DEF Flushing, Inv
<1>3. /\ conf.storage /\ (Writing \/ pc = "answered") => image.layout \in moved
      /\ conf.storage => ready = 0 /\ wrote
      /\ detached => conf.storage /\ (image.layout = "legacy" => met)
  BY <1>2 DEF Inv, Overlaps, Evidence
<1>4. Overlaps'
  BY <1>1, <1>2 DEF Inv, Overlaps, Writing
<1>5. CASE conf.storage /\ ~detached
  <2> DEFINE content == [form |-> "whole", version |-> image.schema,
                         by |-> IF data = "tool" THEN "tool" ELSE "gluetun",
                         others |-> IF image.layout = "legacy" THEN 1 ELSE 0]
  <2>1. files' = [files EXCEPT ![image.layout] = content]
    BY <1>5 DEF GluetunWrites
  <2>2. /\ content \in Contents /\ content.form = "whole" /\ content.version = image.schema
        /\ image.schema # 0 /\ content.by # ""
        /\ content.others = IF image.layout = "legacy" THEN 1 ELSE 0
    BY ContentTypes DEF Inv, Contents
  <2> HIDE DEF content
  <2>3. /\ files' \in [Both -> Contents] /\ files'[image.layout] = content
        /\ \A file \in Both \ {image.layout} : files'[file] = files[file]
        /\ image.layout \in Both
    BY <2>1, <2>2, ContentTypes DEF Inv, TypeOK
  <2>4. TypeOK'
    BY <1>1, <2>3 DEF Inv, TypeOK
  <2>5. Evidence' /\ Held'
    BY <1>1, <1>2, <1>3, <1>5, <2>2, <2>3 DEF Inv, Evidence, Held, Writing, Both
  <2>6. Genuine'
    BY <1>1, <1>5, <2>2, <2>3 DEF Inv, Genuine
  <2>7. Settled'
    <3>1. image'.layout = "legacy" =>
             files'["legacy"].form = "whole" /\ files'["legacy"].others = 1
      BY <1>1, <2>2, <2>3
    <3>2. image'.layout = "directory" => manifest'
      BY <1>1, <1>5
    <3> QED
      BY <3>1, <3>2 DEF Settled, Exists
  <2>8. Placed' /\ Ready'
    BY <1>1, <1>3, <1>5 DEF Inv, Placed, Ready, Writing
  <2>9. Seen'
    BY <1>1, <1>3, <1>5, <2>3 DEF Inv, Seen, HasGluetunData, Both
  <2> QED
    BY <1>4, <2>4, <2>5, <2>6, <2>7, <2>8, <2>9 DEF Inv
<1>6. CASE conf.storage /\ detached
  <2>1. files' = files
    BY <1>6 DEF GluetunWrites
  <2>2. TypeOK' /\ Evidence' /\ Held' /\ Seen'
    BY <1>1, <1>2, <1>3, <1>6, <2>1 DEF Inv, TypeOK, Evidence, Held, Seen, HasGluetunData, Writing
  <2>3. Genuine' /\ Placed' /\ Ready'
    BY <1>1, <1>3, <1>6, <2>1 DEF Inv, Genuine, Placed, Ready, Writing
  <2>4. Settled'
    <3>1. image'.layout = "legacy" => Exists("legacy")' /\ met'
      BY <1>1, <1>3, <1>6, <2>1 DEF Inv, Settled, Exists
    <3>2. image'.layout = "directory" => manifest'
      BY <1>1, <1>6
    <3> QED
      BY <3>1, <3>2 DEF Settled
  <2> QED
    BY <1>4, <2>2, <2>3, <2>4 DEF Inv
<1>7. CASE ~conf.storage
  <2>1. files' = files /\ ~detached /\ (manifest' <=> manifest)
    BY <1>1, <1>3, <1>7 DEF GluetunWrites
  <2>2. TypeOK' /\ Evidence' /\ Held' /\ Seen'
    BY <1>1, <1>2, <1>7, <2>1 DEF Inv, TypeOK, Evidence, Held, Seen
  <2>3. Genuine' /\ Settled' /\ Placed' /\ Ready'
    BY <1>1, <1>7, <2>1, ContentTypes DEF Inv, Genuine, Settled, Placed, Ready, Writing
  <2> QED
    BY <1>4, <2>2, <2>3 DEF Inv
<1> QED
  BY <1>5, <1>6, <1>7, ContentTypes DEF Inv

LEMMA GluetunStopsInv == Inv /\ GluetunStops => Inv'
<1> SUFFICES ASSUME Inv, GluetunStops PROVE Inv'
  OBVIOUS
<1>1. /\ gluetun' = "down" /\ data' = "builtin" /\ detached' = FALSE
      /\ UNCHANGED <<conf, pc, schema, layout, kept, observed, hadData, ignored, manifest, files, image>>
      /\ UNCHANGED <<wrote, moved, met, ready>>
  BY DEF GluetunStops, tool, volume, history
<1>2. TypeOK' /\ Evidence' /\ Overlaps' /\ Held'
  BY <1>1 DEF Inv, TypeOK, Evidence, Overlaps, Held, Writing, Flushing
<1>3. Genuine' /\ Settled' /\ Placed' /\ Ready'
  BY <1>1 DEF Inv, Genuine, Settled, Placed, Ready, Writing, Source
<1>4. Seen'
  BY <1>1, SeenStays DEF Inv
<1> QED
  BY <1>2, <1>3, <1>4 DEF Inv

LEMMA ImageChangesInv == Inv /\ ImageChanges => Inv'
<1> SUFFICES ASSUME Inv, ImageChanges PROVE Inv'
  OBVIOUS
<1>1. /\ gluetun = "down" /\ image' \in Images /\ ready' = 0
      /\ UNCHANGED <<conf, pc, schema, layout, kept, observed, hadData, ignored, manifest, files>>
      /\ UNCHANGED <<gluetun, data, detached, wrote, moved, met>>
  BY DEF ImageChanges, tool, volume
<1>2. TypeOK' /\ Evidence' /\ Overlaps' /\ Held'
  BY <1>1 DEF Inv, TypeOK, Evidence, Overlaps, Held, Writing, Flushing
<1>3. Genuine' /\ Settled' /\ Placed' /\ Ready'
  BY <1>1 DEF Inv, Genuine, Settled, Placed, Ready, Writing
<1>4. Seen'
  BY <1>1, SeenStays DEF Inv
<1> QED
  BY <1>2, <1>3, <1>4 DEF Inv

-----------------------------------------------------------------------------
\* The invariant holds in every behaviour.
THEOREM Invariance == Spec => []Inv
<1>1. Inv /\ [Next]_vars => Inv'
  <2> SUFFICES ASSUME Inv, [Next]_vars PROVE Inv'
    OBVIOUS
  <2>1. CASE Tool
    BY <2>1, StartInv, StopInv, BeginWriteInv, WriteProviderInv, ReadLegacyInv, WriteLegacyInv,
       AnsweredInv, CheckInv DEF Tool
  <2>2. CASE Gluetun
    BY <2>2, GluetunStartsInv, GluetunUpdatesInv, GluetunWritesInv, GluetunStopsInv, ImageChangesInv
    DEF Gluetun
  <2>3. CASE UNCHANGED vars
    <3>1. /\ UNCHANGED <<conf, pc, schema, layout, kept, observed, hadData, ignored, manifest, files>>
          /\ UNCHANGED <<image, gluetun, data, detached, wrote, moved, met, ready>>
      BY <2>3 DEF vars, tool, volume, theirs, history
    <3>2. TypeOK' /\ Evidence' /\ Overlaps' /\ Held'
      BY <3>1 DEF Inv, TypeOK, Evidence, Overlaps, Held, Writing, Flushing
    <3>3. Genuine' /\ Settled' /\ Placed' /\ Ready'
      BY <3>1 DEF Inv, Genuine, Settled, Placed, Ready, Writing, Exists, Source
    <3>4. Seen'
      BY <3>1, SeenStays DEF Inv
    <3> QED
      BY <3>2, <3>3, <3>4 DEF Inv
  <2> QED
    BY <2>1, <2>2, <2>3 DEF Next
<1> QED
  BY InitInv, <1>1, PTL DEF Spec

\* Every variable has its type.
THEOREM TypeCorrectness == Spec => []TypeOK
<1>1. Inv => TypeOK
  BY DEF Inv
<1> QED
  BY Invariance, <1>1, PTL

\* Unless Gluetun writes that file meanwhile, no write takes away what other
\* providers have in it.
THEOREM OthersAreKept == Spec => ForeignKept
<1>1. Inv => ((Tool /\ conf.mode = "update" /\ "legacy" \notin moved) =>
                 files'["legacy"].others >= files["legacy"].others)
  <2> SUFFICES ASSUME Inv, Tool, conf.mode = "update", "legacy" \notin moved
               PROVE  files'["legacy"].others >= files["legacy"].others
    OBVIOUS
  <2>1. files["legacy"].others \in {0, 1}
    BY ContentTypes DEF Inv, Contents, Both
  <2>2. CASE WriteLegacy
    <3>1. kept = files["legacy"].others
      BY <2>2 DEF WriteLegacy, Inv, Held
    <3>2. files'["legacy"].others = kept
      BY <2>2 DEF WriteLegacy, Replace, Ours, Inv, TypeOK, Both
    <3> QED
      BY <2>1, <3>1, <3>2
  <2>3. CASE ~WriteLegacy
    <3>1. files'["legacy"] = files["legacy"]
      <4>1. WriteProvider => files'["legacy"] = files["legacy"]
        BY DEF WriteProvider, Replace, Inv, TypeOK, Both
      <4>2. Start \/ Stop \/ BeginWrite \/ ReadLegacy \/ Fails \/ Answered \/ Check => files' = files
        BY DEF Start, Stop, BeginWrite, ReadLegacy, Fails, Answered, Check, volume
      <4> QED
        BY <2>3, <4>1, <4>2 DEF Tool
    <3> QED
      BY <2>1, <3>1
  <2> QED
    BY <2>2, <2>3
<1> QED
  BY Invariance, <1>1, PTL DEF ForeignKept

\* What was written undisturbed beside a running Gluetun is what it uses when
\* it is started again.
THEOREM WritesAreUsed == Spec => WrittenIsUsed
<1> DEFINE A == (gluetun = "down" /\ gluetun' = "starting" /\ conf.storage /\ ready = image.schema)
                    => data' = "tool"
<1>1. Inv /\ Next => A
  <2> SUFFICES ASSUME Inv, Next, gluetun = "down", gluetun' = "starting", conf.storage,
                      ready = image.schema
               PROVE  data' = "tool"
    OBVIOUS
  <2>1. GluetunStarts
    BY DEF Next, Tool, Gluetun, Start, Stop, BeginWrite, WriteProvider, ReadLegacy, WriteLegacy, Fails,
       Answered, Check, Replace, GluetunUpdates, GluetunWrites, GluetunStops, ImageChanges, theirs
  <2>2. files[Source].by = "tool" /\ files[Source].version = image.schema
    BY ContentTypes DEF Inv, Ready
  <2> QED
    BY <2>1, <2>2 DEF GluetunStarts
<1>2. Inv /\ UNCHANGED vars => A
  BY DEF vars, theirs
<1>3. Inv /\ [Next]_vars => A
  BY <1>1, <1>2
<1> HIDE DEF A
<1>4. Spec => [][A]_vars
  BY Invariance, <1>3, PTL DEF Spec
<1> QED
  BY <1>4 DEF A, WrittenIsUsed

\* A start that finds Gluetun's own file finds its version.
THEOREM VersionIsDetected == Spec => VersionIsGluetuns
<1>1. Inv => ((Start /\ gluetun = "up" /\ files[image.layout].by = "gluetun"
                 /\ (image.layout = "legacy" => ~Exists("directory")))
                => schema' = image.schema)
  <2> SUFFICES ASSUME Inv, Start, gluetun = "up", files[image.layout].by = "gluetun",
                      image.layout = "legacy" => ~Exists("directory")
               PROVE  schema' = image.schema
    OBVIOUS
  <2>1. /\ files[image.layout].form = "whole" /\ files[image.layout].version = image.schema
        /\ image.layout \in Both
    BY ContentTypes DEF Inv, Genuine
  <2>2. CASE image.layout = "directory"
    BY <2>1, <2>2 DEF Start, DetectSchemaVersion
  <2>3. CASE image.layout = "legacy"
    BY <2>1, <2>3 DEF Start, DetectSchemaVersion, Exists
  <2> QED
    BY <2>1, <2>2, <2>3 DEF Both
<1> QED
  BY Invariance, <1>1, PTL DEF VersionIsGluetuns

\* Gluetun is not wrongly said to ignore the files, nor wrongly taken to use
\* them.
THEOREM WarningHolds == Spec => WarningIsTrue
<1> DEFINE A == /\ (ignored' /\ ~ignored) =>
                      ~conf.storage \/ conf.mode = "replace" \/ "legacy" \in moved \/ met
                /\ observed' => conf.storage /\ wrote
<1>1. Inv /\ Next => A
  <2> SUFFICES ASSUME Inv, Next PROVE A
    OBVIOUS
  <2>1. CASE Check
    <3>1. observed' => observed \/ manifest \/ files["legacy"].others > 0
      BY <2>1 DEF Check, HasGluetunData
    <3>2. (ignored' /\ ~ignored) => ~HasGluetunData
      BY <2>1 DEF Check, Inv, TypeOK
    <3>3. conf.storage /\ conf.mode = "update" /\ "legacy" \notin moved /\ ~met => HasGluetunData
      BY <2>1 DEF Check, Inv, Seen
    <3> QED
      BY <3>1, <3>2, <3>3, ContentTypes DEF Inv, Evidence
  <2>2. CASE Start
    <3>1. observed' => hadData \/ manifest \/ files["legacy"].others > 0
      BY <2>2 DEF Start, HasGluetunData
    <3> QED
      BY <2>2, <3>1 DEF Start, Inv, Evidence
  <2>3. CASE ~Check /\ ~Start
    <3>1. observed' = observed /\ ignored' = ignored
      BY <2>3 DEF Next, Tool, Gluetun, Stop, BeginWrite, WriteProvider, ReadLegacy, WriteLegacy,
         Fails, Answered, GluetunStarts, GluetunUpdates, GluetunWrites, GluetunStops, ImageChanges, tool
    <3> QED
      BY <3>1 DEF Inv, Evidence
  <2> QED
    BY <2>1, <2>2, <2>3
<1>2. Inv /\ UNCHANGED vars => A
  BY DEF vars, tool, Inv, Evidence
<1>3. Inv /\ [Next]_vars => A
  BY <1>1, <1>2
<1> HIDE DEF A
<1>4. Spec => [][A]_vars
  BY Invariance, <1>3, PTL DEF Spec
<1> QED
  BY <1>4 DEF A, WarningIsTrue
=============================================================================
