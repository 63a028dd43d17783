-------------------------- MODULE ConfigProperties --------------------------
(***************************************************************************)
(* Properties of the configuration loader.                                 *)
(***************************************************************************)
EXTENDS ConfigLoader

TypeOK ==
    /\ stage \in {"units", "map", "main", "loaded", "dead"}
    /\ n \in Nat \ {0} /\ f \in Nat
    /\ inUnitsBlock \in BOOLEAN /\ currentUnit \in Units \cup {NoUnit}
    /\ \A id \in DOMAIN configs : configs[id] \in Units

\* line i of units.conf is text
Text(i) == unitsFile[i].kind = "text"

\* lines s to e are the block of one unit
Block(s, e) ==
    /\ s \in DOMAIN unitsFile /\ e \in DOMAIN unitsFile /\ s <= e
    /\ \E i \in 1..(s - 1) : unitsFile[i].kind = "units"
    /\ Text(s) /\ unitsFile[s].opens
    /\ \A i \in (s + 1)..e : Text(i) => ~unitsFile[i].opens
    /\ Text(e) /\ unitsFile[e].closes
    /\ \A i \in s..(e - 1) : Text(i) => ~unitsFile[i].closes

\* what the line of a field has of its value: of an array that goes on, the first items
OnItsLine(w) == SubSeq(w.value, 1, w.onLine)

\* what lines s to e say of field k, each on its own line
WrittenIn(s, e, k) ==
    UNION {{OnItsLine(unitsFile[i].fields[j]) :
              j \in {d \in DOMAIN unitsFile[i].fields : unitsFile[i].fields[d].key = k}} :
           i \in {l \in s..e : Text(l)}}

(***************************************************************************)
(* What a unit is loaded with comes from its own block: no field of one    *)
(* unit ends up in another, wherever braces and line ends are.             *)
(***************************************************************************)
FieldsAreOwn ==
    \A id \in DOMAIN configs :
      \E s, e \in DOMAIN unitsFile :
        /\ Block(s, e)
        /\ \A k \in Keys : configs[id][k] \in WrittenIn(s, e - 1, k) \cup {<<>>}

\* field j of line i is not the one that the rest of an array spoils
Sound(i, j) == ~(unitsFile[i].continues /\ j = 1)

Says(i, j, k) == Text(i) /\ j \in DOMAIN unitsFile[i].fields
                   /\ unitsFile[i].fields[j].key = k /\ Sound(i, j)

\* the last word of lines s to e on field k, if there is one
LastWord(s, e, k, v) ==
    \E i \in s..e : \E j \in DOMAIN unitsFile[i].fields :
      /\ Says(i, j, k) /\ v = OnItsLine(unitsFile[i].fields[j])
      /\ \A d \in i..e : Text(d) =>
           \A g \in DOMAIN unitsFile[d].fields :
             Says(d, g, k) => d = i /\ g <= j

\* What stands above the last line of a block is read: every unit with an id
\* there is loaded, with every field there but one that follows the end of an
\* array on its line, and of an array with the items on its first line alone.
EarlierLinesAreRead ==
    stage \notin {"units", "dead"} =>
      \A s, e \in DOMAIN unitsFile : \A id \in Ids :
        /\ Block(s, e) /\ LastWord(s, e - 1, "id", <<id>>)
        /\ \A t, d \in DOMAIN unitsFile :
             Block(t, d) /\ s < t => ~LastWord(t, d - 1, "id", <<id>>)
        => /\ id \in DOMAIN configs
           /\ \A k \in Keys : \A v \in Values :
                LastWord(s, e - 1, k, v) => configs[id][k] = v

\* line i of map.conf belongs to this section
InSection(i, section) ==
    \E h \in 1..i : /\ mapFile[h].kind = section
                    /\ \A j \in h..i : mapFile[j].kind \in {"regions", "paths"} => j = h

\* lines 1 to m of map.conf that are entries of this section
EntryLines(section, m) ==
    {i \in DOMAIN mapFile : i <= m /\ IsEntry(mapFile[i]) /\ InSection(i, section)}

\* these are the entries of this section on lines 1 to m, in their order
AreEntries(entries, section, m) ==
    \E at \in [DOMAIN entries -> EntryLines(section, m)] :
      /\ \A line \in EntryLines(section, m) : \E i \in DOMAIN entries : at[i] = line
      /\ \A i, j \in DOMAIN entries : i < j => at[i] < at[j]
      /\ \A i \in DOMAIN entries : entries[i] = Entry(mapFile[at[i]])

\* every entry of map.conf is a region or a path by the header above it
MapIsSplit ==
    stage \in {"main", "loaded"} =>
      /\ AreEntries(regions, "regions", Len(mapFile))
      /\ AreEntries(paths, "paths", Len(mapFile))

(***************************************************************************)
(* This much of the two files is read.  Of a unit, the last word on every  *)
(* field on the lines above the closing one; of an array that goes on, its *)
(* first line, whatever follows (three of the five paths of Saruman in     *)
(* units.conf are lost so), and neither a field after the end of the array *)
(* on its last line nor any field on the closing line.  Of the map, every  *)
(* entry in its own section, never in both, in the order of the file, also *)
(* when a header comes twice.                                              *)
(***************************************************************************)
FilesAreRead == EarlierLinesAreRead /\ MapIsSplit

(***************************************************************************)
(* A field that is written is not left unset, as parseUnitFields' caller   *)
(* says ("Parse unit fields from current line (and multi-line blocks)").   *)
(***************************************************************************)
FieldsAreRead ==
    stage \notin {"units", "dead"} =>
      \A s, e \in DOMAIN unitsFile : \A id \in DOMAIN configs : \A k \in Keys :
        /\ Block(s, e) /\ configs[id]["id"] \in WrittenIn(s, e, "id")
        /\ configs[id]["id"] # <<>> /\ WrittenIn(s, e, k) # {}
        => configs[id][k] \in WrittenIn(s, e, k)

\* setting k is line i
Sets(i, k) ==
    unitsFile[i].kind = "setting" /\ unitsFile[i].key = k /\ unitsFile[i].value # <<>>

(***************************************************************************)
(* A setting counts wherever it stands, before, in and after the units,    *)
(* the last of its name before the others; the game that begins can be     *)
(* played whatever units.conf says.                                        *)
(***************************************************************************)
SettingsAreRead ==
    stage = "loaded" => \A k \in SettingKeys :
      /\ session[k] > 0
      /\ \A i \in DOMAIN unitsFile :
           /\ Sets(i, k) /\ \A j \in DOMAIN unitsFile : i < j => ~Sets(j, k)
           /\ unitsFile[i].value[1] > 0
           => session[k] = unitsFile[i].value[1]
=============================================================================
