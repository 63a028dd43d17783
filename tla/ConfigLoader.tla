---------------------------- MODULE ConfigLoader ----------------------------
(***************************************************************************)
(* How main reads units.conf and map.conf before anything else runs: line  *)
(* by line, by what a line begins with or contains.                        *)
(*                                                                         *)
(* A line is a record.  Its kind is what the loaders tell apart: a         *)
(* "comment" (or an empty line), a "setting" (a top-level key), a header   *)
(* ("units", "regions", "paths"), or "text".  Of text it matters whether   *)
(* it begins with "{" (opens), contains "}" (closes), begins in the middle *)
(* of an array (continues), and which fields it has.  A value is a         *)
(* sequence, <<>> for none and for the zero of its type; of an array that  *)
(* goes on in later lines only the first items stand on the field's line.  *)
(***************************************************************************)
EXTENDS Integers, Sequences

CONSTANTS
    Keys,           \* the fields of a unit, "id" among them
    Values,         \* what fields may be set to
    Ids,            \* the ids of units, regions and paths
    NoUnit,         \* no block is open
    UnitsFiles,     \* the texts units.conf may have
    MapFiles        \* the texts map.conf may have

SettingKeys == {"hidden-until-turn", "max-turns", "turn-duration-seconds"}

Units == [Keys -> Values]

\* mutant: an array that is not closed on its line is taken for none
WholeOrNothing(w) == IF w.onLine = Len(w.value) THEN w.value ELSE <<>>

\* extractValue, applyUnitField, parseStringArray: the value up to the end of the line;
\* what an array has on later lines is lost
Extracted(w) == SubSeq(w.value, 1, w.onLine)

\* value: what is written, onLine: how much of it stands on the line of the field.
\* The id of a unit, a region or a path is one string.
LineField ==
    {w \in [key : Keys, value : Values, onLine : Nat] :
       /\ Extracted(w) \in Values
       /\ w.key = "id" => Extracted(w) = <<>> \/ \E i \in Ids : Extracted(w) = <<i>>}

TextLine ==
    [kind : {"text"}, opens : BOOLEAN, closes : BOOLEAN, continues : BOOLEAN,
     fields : Seq(LineField)]

UnitLine ==
    [kind : {"comment", "units"}]
      \cup [kind : {"setting"}, key : SettingKeys, value : Seq(Int)]
      \cup TextLine

MapFileLine == [kind : {"comment", "regions", "paths"}] \cup TextLine

ASSUME ConfigAssumption ==
    /\ "id" \in Keys /\ <<>> \in Values /\ NoUnit \notin Units
    /\ UnitsFiles \subseteq Seq(UnitLine) /\ MapFiles \subseteq Seq(MapFileLine)

VARIABLES
    unitsFile, mapFile,
    stage,          \* "units", "map", "main", then "loaded", or "dead"
    n,              \* the line that is read
    f,              \* the field of line n that comes next; 0: none was looked at
    inUnitsBlock, currentUnit, configs, settings,       \* LoadUnitsConfig
    inRegions, inPaths, regions, paths,                 \* LoadMapConfig
    session                                             \* main

files == <<unitsFile, mapFile>>
unitVars == <<inUnitsBlock, currentUnit, configs>>
mapVars == <<inRegions, inPaths, regions, paths>>
vars == <<files, stage, n, f, unitVars, settings, mapVars, session>>

Defaults == [k \in SettingKeys |->
    CASE k = "hidden-until-turn" -> 3 [] k = "max-turns" -> 40 [] OTHER -> 60]

Fallbacks == [k \in SettingKeys |->
    CASE k = "hidden-until-turn" -> 3 [] k = "max-turns" -> 30 [] OTHER -> 60]

NewUnit == [k \in Keys |-> <<>>]

Init ==
    /\ unitsFile \in UnitsFiles /\ mapFile \in MapFiles
    /\ stage = "units" /\ n = 1 /\ f = 0
    /\ inUnitsBlock = FALSE /\ currentUnit = NoUnit /\ configs = <<>>
    /\ settings = Defaults
    /\ inRegions = FALSE /\ inPaths = FALSE /\ regions = <<>> /\ paths = <<>>
    /\ session = Defaults

----------------------------------------------------------------------------
(***************************************************************************)
(* LoadUnitsConfig                                                         *)
(***************************************************************************)
Line == unitsFile[n]

Reading(kind) == stage = "units" /\ n \in DOMAIN unitsFile /\ Line.kind = kind

NextLine == n' = n + 1 /\ f' = 0

SkipComment ==
    /\ Reading("comment") /\ NextLine
    /\ UNCHANGED <<files, stage, unitVars, settings, mapVars, session>>

\* mutant: what is outside of the units block is skipped first
ReadSettingFirst ==
    /\ Reading("setting") /\ NextLine
    /\ settings' = IF Line.value = <<>> \/ inUnitsBlock THEN settings
                   ELSE [settings EXCEPT ![Line.key] = Line.value[1]]
    /\ UNCHANGED <<files, stage, unitVars, mapVars, session>>

\* wherever it is; without a "=" it does nothing, and no number is 0
ReadSetting ==
    /\ Reading("setting") /\ NextLine
    /\ settings' = IF Line.value = <<>> THEN settings
                   ELSE [settings EXCEPT ![Line.key] = Line.value[1]]
    /\ UNCHANGED <<files, stage, unitVars, mapVars, session>>

EnterUnits ==
    /\ Reading("units") /\ NextLine
    /\ inUnitsBlock' = TRUE
    /\ UNCHANGED <<files, stage, currentUnit, configs, settings, mapVars, session>>

\* mutant: a new block goes on with the unit of the last
OpenedAgain == IF Line.opens /\ currentUnit = NoUnit THEN NewUnit ELSE currentUnit

\* the unit a line is about
Opened == IF Line.opens THEN NewUnit ELSE currentUnit

SkipText ==
    /\ Reading("text") /\ f = 0 /\ (inUnitsBlock => Opened = NoUnit)
    /\ NextLine
    /\ UNCHANGED <<files, stage, unitVars, settings, mapVars, session>>

\* mutant: the unit is forgotten before it is stored
ForgetAndStore ==
    /\ Reading("text") /\ f = 0 /\ inUnitsBlock /\ Opened # NoUnit /\ Line.closes
    /\ currentUnit' = NoUnit
    /\ configs' = IF Opened["id"] = <<>> THEN configs
                  ELSE [i \in DOMAIN configs \cup {Opened["id"][1]} |->
                          IF i = Opened["id"][1] THEN currentUnit' ELSE configs[i]]
    /\ NextLine
    /\ UNCHANGED <<files, stage, inUnitsBlock, settings, mapVars, session>>

\* a line with a "}" ends the unit, and its own fields are not looked at
CloseUnit ==
    /\ Reading("text") /\ f = 0 /\ inUnitsBlock /\ Opened # NoUnit /\ Line.closes
    /\ configs' = IF Opened["id"] = <<>> THEN configs
                  ELSE [i \in DOMAIN configs \cup {Opened["id"][1]} |->
                          IF i = Opened["id"][1] THEN Opened ELSE configs[i]]
    /\ currentUnit' = NoUnit
    /\ NextLine
    /\ UNCHANGED <<files, stage, inUnitsBlock, settings, mapVars, session>>

\* parseUnitFields; the rest of an array becomes part of the first key, if one follows it
BeginLine ==
    /\ Reading("text") /\ f = 0 /\ inUnitsBlock /\ Opened # NoUnit /\ ~Line.closes
    /\ currentUnit' = Opened
    /\ f' = IF Line.continues THEN 2 ELSE 1
    /\ UNCHANGED <<files, stage, n, inUnitsBlock, configs, settings, mapVars, session>>

ApplyUnitField ==
    /\ Reading("text") /\ f \in DOMAIN Line.fields
    /\ currentUnit' = [currentUnit EXCEPT ![Line.fields[f].key] = Extracted(Line.fields[f])]
    /\ f' = f + 1
    /\ UNCHANGED <<files, stage, n, inUnitsBlock, configs, settings, mapVars, session>>

EndLine ==
    /\ Reading("text") /\ f > Len(Line.fields) /\ f > 0
    /\ NextLine
    /\ UNCHANGED <<files, stage, unitVars, settings, mapVars, session>>

\* what is open at the end of the file is lost
EndUnits ==
    /\ stage = "units" /\ n \notin DOMAIN unitsFile
    /\ stage' = "map" /\ n' = 1 /\ f' = 0
    /\ UNCHANGED <<files, unitVars, settings, mapVars, session>>

----------------------------------------------------------------------------
(***************************************************************************)
(* LoadMapConfig: an entry is one line.                                    *)
(***************************************************************************)
MapLine == mapFile[n]

ReadingMap == stage = "map" /\ n \in DOMAIN mapFile

\* extractInlineFields: of two fields of one name the last counts
Inline(line, k) ==
    LET at == {i \in DOMAIN line.fields : line.fields[i].key = k}
    IN  IF at = {} THEN <<>> ELSE Extracted(line.fields[CHOOSE i \in at : \A j \in at : j <= i])

Entry(line) == [k \in {line.fields[i].key : i \in DOMAIN line.fields} |-> Inline(line, k)]

EnterSection ==
    /\ ReadingMap /\ MapLine.kind \in {"regions", "paths"} /\ NextLine
    /\ inRegions' = (MapLine.kind = "regions")
    /\ inPaths' = (MapLine.kind = "paths")
    /\ UNCHANGED <<files, stage, unitVars, settings, regions, paths, session>>

IsEntry(line) == line.kind = "text" /\ line.opens /\ Inline(line, "id") # <<>>

\* parseRegion, parsePath
ReadEntry ==
    /\ ReadingMap /\ IsEntry(MapLine) /\ NextLine
    /\ regions' = IF inRegions THEN Append(regions, Entry(MapLine)) ELSE regions
    /\ paths' = IF inPaths THEN Append(paths, Entry(MapLine)) ELSE paths
    /\ UNCHANGED <<files, stage, unitVars, settings, inRegions, inPaths, session>>

SkipMapLine ==
    /\ ReadingMap /\ MapLine.kind \in {"comment", "text"} /\ ~IsEntry(MapLine) /\ NextLine
    /\ UNCHANGED <<files, stage, unitVars, settings, mapVars, session>>

EndMap ==
    /\ stage = "map" /\ n \notin DOMAIN mapFile
    /\ stage' = "main"
    /\ UNCHANGED <<files, n, f, unitVars, settings, mapVars, session>>

----------------------------------------------------------------------------
\* main puts right what makes no sense
BeginSession ==
    /\ stage = "main" /\ stage' = "loaded"
    /\ session' = [k \in SettingKeys |->
                     IF settings[k] <= 0 THEN Fallbacks[k] ELSE settings[k]]
    /\ UNCHANGED <<files, n, f, unitVars, settings, mapVars>>

\* a file that cannot be read ends the program
Unreadable ==
    /\ stage \in {"units", "map"} /\ n = 1 /\ f = 0
    /\ stage' = "dead"
    /\ UNCHANGED <<files, n, f, unitVars, settings, mapVars, session>>

Next ==
    \/ SkipComment \/ ReadSetting \/ EnterUnits \/ SkipText
    \/ CloseUnit \/ BeginLine \/ ApplyUnitField \/ EndLine \/ EndUnits
    \/ EnterSection \/ ReadEntry \/ SkipMapLine \/ EndMap
    \/ BeginSession \/ Unreadable

Spec == Init /\ [][Next]_vars
=============================================================================
