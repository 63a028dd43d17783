--------------------------- MODULE ConfigTheorems ---------------------------
(***************************************************************************)
(* Whatever units.conf and map.conf say: the loaded units have every       *)
(* field, each field comes from the unit's own block, and the two files    *)
(* are read as they are written.                                           *)
(***************************************************************************)
EXTENDS ConfigProperties, TLAPS

\* lines s to e begin a block that has not ended
InBlock(s, e) ==
    /\ s \in DOMAIN unitsFile /\ e \in DOMAIN unitsFile /\ s <= e
    /\ \E i \in 1..(s - 1) : unitsFile[i].kind = "units"
    /\ Text(s) /\ unitsFile[s].opens
    /\ \A i \in (s + 1)..e : Text(i) => ~unitsFile[i].opens
    /\ \A i \in s..e : Text(i) => ~unitsFile[i].closes

\* the unit has nothing but what lines s to e say
From(unit, s, e) == \A k \in Keys : unit[k] \in WrittenIn(s, e, k) \cup {<<>>}

Own(unit) == \E s, e \in DOMAIN unitsFile : Block(s, e) /\ From(unit, s, e - 1)

\* the last line of which something was read
LastRead == IF f = 0 THEN n - 1 ELSE n

HeaderSeen ==
    inUnitsBlock => \E i \in 1..(n - 1) : i \in DOMAIN unitsFile /\ unitsFile[i].kind = "units"

UnitIsOpen ==
    currentUnit # NoUnit =>
      inUnitsBlock /\ \E s \in DOMAIN unitsFile : InBlock(s, LastRead)
                                                   /\ From(currentUnit, s, LastRead)

LineIsText ==
    f > 0 => n \in DOMAIN unitsFile /\ Text(n) /\ currentUnit # NoUnit

\* FieldsAreOwn with what is known of the unit that is being read
ConfigInvariant ==
    /\ TypeOK
    /\ unitsFile \in UnitsFiles
    /\ stage = "units" => HeaderSeen /\ UnitIsOpen /\ LineIsText
    /\ FieldsAreOwn

----------------------------------------------------------------------------
\* what is known of a line
LEMMA LineFacts ==
    ASSUME unitsFile \in UnitsFiles
    PROVE  /\ unitsFile \in Seq(UnitLine)
           /\ DOMAIN unitsFile = 1..Len(unitsFile) /\ Len(unitsFile) \in Nat
           /\ \A i \in DOMAIN unitsFile : unitsFile[i] \in UnitLine
           /\ \A i \in DOMAIN unitsFile : Text(i) =>
                /\ unitsFile[i].fields \in Seq(LineField)
                /\ \A j \in DOMAIN unitsFile[i].fields :
                     /\ unitsFile[i].fields[j].key \in Keys
                     /\ OnItsLine(unitsFile[i].fields[j]) \in Values
  <1>1. unitsFile \in Seq(UnitLine)
    BY ConfigAssumption
  <1>2. DOMAIN unitsFile = 1..Len(unitsFile) /\ Len(unitsFile) \in Nat
    BY <1>1
  <1>3. \A i \in DOMAIN unitsFile : unitsFile[i] \in UnitLine
    BY <1>1, <1>2
  <1>4. ASSUME NEW i \in DOMAIN unitsFile, Text(i)
        PROVE  /\ unitsFile[i].fields \in Seq(LineField)
               /\ \A j \in DOMAIN unitsFile[i].fields :
                    /\ unitsFile[i].fields[j].key \in Keys
                    /\ OnItsLine(unitsFile[i].fields[j]) \in Values
    <2>1. unitsFile[i].fields \in Seq(LineField)
      BY <1>3, <1>4 DEF UnitLine, TextLine, Text
    <2>2. ASSUME NEW S, NEW q \in Seq(S)  PROVE  \A j \in DOMAIN q : q[j] \in S
      OBVIOUS
    <2>3. \A j \in DOMAIN unitsFile[i].fields :
            unitsFile[i].fields[j] \in LineField
      BY <2>1, <2>2
    <2> QED  BY <2>1, <2>3 DEF LineField, Extracted, OnItsLine
  <1> QED  BY <1>1, <1>2, <1>3, <1>4

\* a field of one of the lines is written there
LEMMA FieldIsWritten ==
    ASSUME NEW s \in Int, NEW e \in Int, NEW i \in s..e, Text(i),
           NEW j \in DOMAIN unitsFile[i].fields
    PROVE  OnItsLine(unitsFile[i].fields[j]) \in WrittenIn(s, e, unitsFile[i].fields[j].key)
  BY DEF WrittenIn

\* more lines say more
LEMMA WrittenGrows ==
    ASSUME NEW s \in Int, NEW e \in Int, NEW k
    PROVE  WrittenIn(s, e, k) \subseteq WrittenIn(s, e + 1, k)
  <1>1. s..e \subseteq s..(e + 1)
    OBVIOUS
  <1>2. {l \in s..e : Text(l)} \subseteq {l \in s..(e + 1) : Text(l)}
    BY <1>1
  <1>3. ASSUME NEW F(_), NEW A, NEW B, A \subseteq B
        PROVE  UNION {F(i) : i \in A} \subseteq UNION {F(i) : i \in B}
    BY <1>3
  <1> QED  BY <1>2, <1>3 DEF WrittenIn

\* a block goes on over a line that neither opens nor closes one
LEMMA BlockGoesOn ==
    ASSUME NEW s, NEW e \in Int, DOMAIN unitsFile \subseteq Int, InBlock(s, e),
           e + 1 \in DOMAIN unitsFile,
           Text(e + 1) => ~unitsFile[e + 1].opens /\ ~unitsFile[e + 1].closes
    PROVE  InBlock(s, e + 1)
  <1>1. s \in Int /\ s <= e
    BY DEF InBlock
  <1>2. ASSUME NEW i \in (s + 1)..(e + 1), Text(i)  PROVE  ~unitsFile[i].opens
    <2>1. i \in (s + 1)..e \/ i = e + 1
      BY <1>1, <1>2
    <2> QED  BY <1>2, <2>1 DEF InBlock
  <1>3. ASSUME NEW i \in s..(e + 1), Text(i)  PROVE  ~unitsFile[i].closes
    <2>1. i \in s..e \/ i = e + 1
      BY <1>1, <1>3
    <2> QED  BY <1>3, <2>1 DEF InBlock
  <1> QED  BY <1>1, <1>2, <1>3 DEF InBlock

LEMMA FromGoesOn ==
    ASSUME NEW unit, NEW s \in Int, NEW e \in Int, From(unit, s, e)
    PROVE  From(unit, s, e + 1)
  BY WrittenGrows DEF From

\* a block is over at a line that closes it
LEMMA BlockEnds ==
    ASSUME NEW s, NEW e \in Int, DOMAIN unitsFile \subseteq Int, InBlock(s, e),
           e + 1 \in DOMAIN unitsFile, Text(e + 1),
           ~unitsFile[e + 1].opens, unitsFile[e + 1].closes
    PROVE  Block(s, e + 1)
  <1>1. s \in Int /\ s <= e
    BY DEF InBlock
  <1>2. ASSUME NEW i \in (s + 1)..(e + 1), Text(i)  PROVE  ~unitsFile[i].opens
    <2>1. i \in (s + 1)..e \/ i = e + 1
      BY <1>1, <1>2
    <2> QED  BY <1>2, <2>1 DEF InBlock
  <1>3. (e + 1) - 1 = e
    OBVIOUS
  <1> QED  BY <1>1, <1>2, <1>3 DEF InBlock, Block

\* the file stays what it is, and with it whose fields are whose
LEMMA OwnStays ==
    ASSUME unitsFile' = unitsFile
    PROVE  /\ \A u : Own(u) => Own(u)'
           /\ \A i : Text(i)' <=> Text(i)
           /\ \A s, e : InBlock(s, e)' <=> InBlock(s, e)
           /\ \A u, s, e : From(u, s, e)' <=> From(u, s, e)
  <1>1. \A i : Text(i)' <=> Text(i)
    BY DEF Text
  <1>2. \A s, e : InBlock(s, e)' <=> InBlock(s, e)
    BY DEF Text, InBlock
  <1>3. \A s, e : Block(s, e)' <=> Block(s, e)
    BY DEF Text, Block
  <1>4. \A s, e, k : WrittenIn(s, e, k)' = WrittenIn(s, e, k)
    BY DEF Text, WrittenIn
  <1>5. \A u, s, e : From(u, s, e)' <=> From(u, s, e)
    BY <1>4 DEF From
  <1>6. ASSUME NEW u, Own(u)  PROVE  Own(u)'
    BY <1>3, <1>5, <1>6 DEF Own
  <1> QED  BY <1>1, <1>2, <1>5, <1>6

LEMMA OwnFields == FieldsAreOwn <=> \A id \in DOMAIN configs : Own(configs[id])
  BY DEF FieldsAreOwn, Own, From
----------------------------------------------------------------------------
LEMMA ConfigBegins == Init => ConfigInvariant
  <1> SUFFICES ASSUME Init  PROVE  ConfigInvariant
    OBVIOUS
  <1>1. DOMAIN configs = {}
    BY DEF Init
  <1>2. TypeOK
    <2>1. \A id \in DOMAIN configs : configs[id] \in Units
      BY <1>1
    <2>2. /\ stage = "units" /\ n = 1 /\ f = 0
          /\ inUnitsBlock = FALSE /\ currentUnit = NoUnit
      BY DEF Init
    <2>3. currentUnit \in Units \cup {NoUnit} /\ n \in Nat \ {0} /\ f \in Nat
      BY <2>2
    <2> QED  BY <2>1, <2>2, <2>3 DEF TypeOK
  <1>3. HeaderSeen /\ UnitIsOpen /\ LineIsText
    BY DEF Init, HeaderSeen, UnitIsOpen, LineIsText
  <1>4. FieldsAreOwn
    BY <1>1 DEF FieldsAreOwn
  <1> QED  BY <1>2, <1>3, <1>4 DEF Init, ConfigInvariant

\* reading units.conf goes on, and nothing of it was loaded by this step
LEMMA StillReading ==
    ASSUME ConfigInvariant, stage = "units", unitsFile' = unitsFile, configs' = configs
    PROVE  unitsFile' \in UnitsFiles /\ FieldsAreOwn'
  <1>1. \A id \in DOMAIN configs : Own(configs[id])'
    BY OwnStays, OwnFields DEF ConfigInvariant
  <1> QED  BY <1>1 DEF ConfigInvariant, FieldsAreOwn, Own, From

\* a line that is not looked at is skipped
LEMMA LineIsSkipped ==
    ASSUME ConfigInvariant, stage = "units", f = 0, n \in DOMAIN unitsFile, NextLine,
           UNCHANGED <<unitsFile, stage, configs, inUnitsBlock, currentUnit>>,
           Text(n) => currentUnit = NoUnit
    PROVE  ConfigInvariant'
  <1> USE DEF ConfigInvariant
  <1>1. DOMAIN unitsFile \subseteq Int /\ n \in Nat /\ f' = 0 /\ n' = n + 1
    BY LineFacts DEF NextLine, TypeOK
  <1>2. TypeOK'
    BY <1>1 DEF TypeOK
  <1>3. HeaderSeen'
    BY <1>1 DEF HeaderSeen
  <1>4. ASSUME currentUnit # NoUnit
        PROVE  \E s \in DOMAIN unitsFile : InBlock(s, n) /\ From(currentUnit, s, n)
    <2>1. PICK s \in DOMAIN unitsFile : InBlock(s, n - 1) /\ From(currentUnit, s, n - 1)
      BY <1>4 DEF UnitIsOpen, LastRead
    <2>2. ~Text(n) /\ (n - 1) + 1 = n /\ n - 1 \in Int /\ s \in Int
      BY <1>1, <1>4, <2>1
    <2>3. InBlock(s, n) /\ From(currentUnit, s, n)
      BY <1>1, <2>1, <2>2, BlockGoesOn, FromGoesOn
    <2> QED  BY <2>3
  <1>5. UnitIsOpen'
    <2>1. LastRead' = n
      BY <1>1 DEF LastRead
    <2> QED  BY <1>4, <2>1, OwnStays DEF UnitIsOpen
  <1>6. LineIsText'
    BY <1>1 DEF LineIsText
  <1> QED  BY <1>2, <1>3, <1>5, <1>6, StillReading
\* CloseUnit: the unit of the block that ends here is loaded
LEMMA UnitIsStored ==
    ASSUME ConfigInvariant, CloseUnit
    PROVE  ConfigInvariant'
  <1> USE DEF ConfigInvariant
  <1>1. /\ n \in DOMAIN unitsFile /\ Text(n) /\ unitsFile[n].closes /\ f = 0 /\ stage = "units"
        /\ Opened # NoUnit /\ inUnitsBlock /\ unitsFile' = unitsFile /\ stage' = "units"
        /\ currentUnit' = NoUnit /\ inUnitsBlock' = inUnitsBlock /\ n' = n + 1 /\ f' = 0
    BY DEF CloseUnit, Reading, Line, Text, NextLine, files
  <1>2. DOMAIN unitsFile \subseteq Int /\ n \in Nat /\ unitsFile[n] \in UnitLine
    BY <1>1, LineFacts DEF TypeOK
  <1>3. Opened \in Units
    BY <1>1, ConfigAssumption DEF TypeOK, Opened, NewUnit, Units
  <1>4. Own(Opened)
    <2>1. CASE unitsFile[n].opens
      <3>1. Opened = [k \in Keys |-> <<>>]
        BY <2>1 DEF Opened, Line, NewUnit
      <3>2. Block(n, n)
        BY <1>1, <1>2, <2>1 DEF Block, HeaderSeen
      <3>3. From(Opened, n, n - 1)
        BY <3>1 DEF From
      <3> QED  BY <1>1, <3>2, <3>3 DEF Own
    <2>2. CASE ~unitsFile[n].opens
      <3>1. Opened = currentUnit
        BY <2>2 DEF Opened, Line
      <3>2. PICK s \in DOMAIN unitsFile : InBlock(s, n - 1) /\ From(currentUnit, s, n - 1)
        BY <1>1, <3>1 DEF UnitIsOpen, LastRead
      <3>3. (n - 1) + 1 = n /\ n - 1 \in Int
        BY <1>2
      <3>4. Block(s, n)
        BY <1>1, <1>2, <2>2, <3>2, <3>3, BlockEnds
      <3> QED  BY <1>1, <3>1, <3>2, <3>4 DEF Own
    <2> QED  BY <2>1, <2>2
  <1>5. \A id \in DOMAIN configs' :
          configs'[id] = Opened \/ (id \in DOMAIN configs /\ configs'[id] = configs[id])
    <2>1. CASE Opened["id"] = <<>>
      BY <2>1 DEF CloseUnit
    <2>2. CASE Opened["id"] # <<>>
      <3>1. configs' = [i \in DOMAIN configs \cup {Opened["id"][1]} |->
                          IF i = Opened["id"][1] THEN Opened ELSE configs[i]]
        BY <2>2 DEF CloseUnit
      <3> QED  BY <3>1
    <2> QED  BY <2>1, <2>2
  <1>6. FieldsAreOwn'
    <2>1. \A id \in DOMAIN configs' : Own(configs'[id])
      BY <1>4, <1>5, OwnFields
    <2>2. \A u : Own(u) =>
            \E s, e \in DOMAIN unitsFile' :
              Block(s, e)' /\ \A k \in Keys : u[k] \in WrittenIn(s, e - 1, k)' \cup {<<>>}
      BY <1>1, OwnStays DEF Own, From
    <2> QED  BY <2>1, <2>2 DEF FieldsAreOwn
  <1>7. TypeOK'
    BY <1>1, <1>2, <1>3, <1>5 DEF TypeOK
  <1>8. HeaderSeen' /\ UnitIsOpen' /\ LineIsText'
    BY <1>1, <1>2 DEF HeaderSeen, UnitIsOpen, LineIsText
  <1> QED  BY <1>1, <1>6, <1>7, <1>8

\* BeginLine: the line belongs to the block
LEMMA LineIsBegun ==
    ASSUME ConfigInvariant, BeginLine
    PROVE  ConfigInvariant'
  <1> USE DEF ConfigInvariant
  <1>1. /\ n \in DOMAIN unitsFile /\ Text(n) /\ ~unitsFile[n].closes /\ f = 0 /\ stage = "units"
        /\ Opened # NoUnit /\ inUnitsBlock /\ unitsFile' = unitsFile /\ stage' = "units"
        /\ currentUnit' = Opened /\ inUnitsBlock' = inUnitsBlock /\ n' = n
        /\ f' \in {1, 2} /\ configs' = configs
    BY DEF BeginLine, Reading, Line, Text, files
  <1>2. DOMAIN unitsFile \subseteq Int /\ n \in Nat
    BY <1>1, LineFacts DEF TypeOK
  <1>3. Opened \in Units
    BY <1>1, ConfigAssumption DEF TypeOK, Opened, NewUnit, Units
  <1>4. \E s \in DOMAIN unitsFile : InBlock(s, n) /\ From(Opened, s, n)
    <2>1. CASE unitsFile[n].opens
      <3>1. Opened = [k \in Keys |-> <<>>]
        BY <2>1 DEF Opened, Line, NewUnit
      <3>2. InBlock(n, n)
        BY <1>1, <1>2, <2>1 DEF InBlock, HeaderSeen
      <3>3. From(Opened, n, n)
        BY <3>1 DEF From
      <3> QED  BY <1>1, <3>2, <3>3
    <2>2. CASE ~unitsFile[n].opens
      <3>1. Opened = currentUnit
        BY <2>2 DEF Opened, Line
      <3>2. PICK s \in DOMAIN unitsFile : InBlock(s, n - 1) /\ From(currentUnit, s, n - 1)
        BY <1>1, <3>1 DEF UnitIsOpen, LastRead
      <3>3. (n - 1) + 1 = n /\ n - 1 \in Int /\ s \in Int
        BY <1>2
      <3>4. InBlock(s, n) /\ From(currentUnit, s, n)
        BY <1>1, <1>2, <2>2, <3>2, <3>3, BlockGoesOn, FromGoesOn
      <3> QED  BY <3>1, <3>4
    <2> QED  BY <2>1, <2>2
  <1>5. LastRead' = n
    BY <1>1 DEF LastRead
  <1>6. UnitIsOpen'
    BY <1>1, <1>4, <1>5, OwnStays DEF UnitIsOpen
  <1>7. TypeOK'
    BY <1>1, <1>2, <1>3 DEF TypeOK
  <1>8. HeaderSeen' /\ LineIsText'
    BY <1>1, <1>2, OwnStays DEF HeaderSeen, LineIsText
  <1> QED  BY <1>1, <1>6, <1>7, <1>8, StillReading
\* ApplyUnitField: what is set was written on the line
LEMMA FieldIsApplied ==
    ASSUME ConfigInvariant, ApplyUnitField
    PROVE  ConfigInvariant'
  <1> USE DEF ConfigInvariant
  <1> DEFINE field == unitsFile[n].fields[f]
  <1>1. /\ n \in DOMAIN unitsFile /\ Text(n) /\ f \in DOMAIN unitsFile[n].fields
        /\ stage = "units" /\ unitsFile' = unitsFile /\ stage' = "units"
        /\ currentUnit' = [currentUnit EXCEPT ![field.key] = OnItsLine(field)]
        /\ inUnitsBlock' = inUnitsBlock /\ n' = n /\ f' = f + 1 /\ configs' = configs
    BY DEF ApplyUnitField, Reading, Line, Text, files, Extracted, OnItsLine
  <1>2. DOMAIN unitsFile \subseteq Int /\ n \in Nat /\ f \in Nat /\ f > 0
    <2>1. ASSUME NEW S, NEW q \in Seq(S)  PROVE  \A j \in DOMAIN q : j > 0
      OBVIOUS
    <2> QED  BY <1>1, <2>1, LineFacts DEF TypeOK
  <1>3. field.key \in Keys /\ OnItsLine(field) \in Values
    BY <1>1, LineFacts
  <1>4. currentUnit \in Units /\ currentUnit # NoUnit /\ LastRead = n
    BY <1>1, <1>2 DEF TypeOK, LineIsText, LastRead
  <1>5. currentUnit' \in Units /\ currentUnit' # NoUnit
    BY <1>1, <1>3, <1>4, ConfigAssumption DEF Units
  <1>6. PICK s \in DOMAIN unitsFile : InBlock(s, n) /\ From(currentUnit, s, n)
    BY <1>1, <1>4 DEF UnitIsOpen
  <1>7. OnItsLine(field) \in WrittenIn(s, n, field.key)
    <2>1. s \in Int /\ n \in Int /\ n \in s..n
      BY <1>2, <1>6 DEF InBlock
    <2> QED  BY <1>1, <2>1, FieldIsWritten
  <1>8. From(currentUnit', s, n)
    <2>1. \A k \in Keys : currentUnit'[k] = IF k = field.key THEN OnItsLine(field) ELSE currentUnit[k]
      BY <1>1, <1>4 DEF Units
    <2> QED  BY <1>6, <1>7, <2>1 DEF From
  <1>9. UnitIsOpen'
    <2>1. LastRead' = n
      BY <1>1, <1>2 DEF LastRead
    <2>2. InBlock(s, n)'
      BY <1>1, <1>6, OwnStays
    <2>3. \A k \in Keys : currentUnit'[k] \in WrittenIn(s, n, k)' \cup {<<>>}
      BY <1>1, <1>8 DEF From, WrittenIn, Text
    <2> QED  BY <1>1, <1>4, <1>6, <2>1, <2>2, <2>3 DEF UnitIsOpen, From
  <1>10. TypeOK'
    BY <1>1, <1>2, <1>5 DEF TypeOK
  <1>11. HeaderSeen' /\ LineIsText'
    BY <1>1, <1>2, <1>5, OwnStays DEF HeaderSeen, LineIsText
  <1> QED  BY <1>1, <1>9, <1>10, <1>11, StillReading

\* EndLine: the next line comes
LEMMA LineIsEnded ==
    ASSUME ConfigInvariant, EndLine
    PROVE  ConfigInvariant'
  <1> USE DEF ConfigInvariant
  <1>1. /\ f > 0 /\ n \in DOMAIN unitsFile /\ stage = "units" /\ unitsFile' = unitsFile
        /\ stage' = "units" /\ currentUnit' = currentUnit /\ inUnitsBlock' = inUnitsBlock
        /\ n' = n + 1 /\ f' = 0 /\ configs' = configs
    BY DEF EndLine, Reading, NextLine, files, unitVars
  <1>2. n \in Nat /\ f \in Nat
    BY DEF TypeOK
  <1>3. LastRead' = LastRead
    BY <1>1, <1>2 DEF LastRead
  <1>4. UnitIsOpen'
    BY <1>1, <1>3, OwnStays DEF UnitIsOpen
  <1>5. TypeOK' /\ HeaderSeen' /\ LineIsText'
    BY <1>1, <1>2 DEF TypeOK, HeaderSeen, LineIsText
  <1> QED  BY <1>1, <1>4, <1>5, StillReading

\* the other steps leave the units alone
LEMMA UnitsAreLeft ==
    ASSUME ConfigInvariant, UNCHANGED <<files, unitVars>>, n' \in Nat \ {0}, f' \in Nat,
           stage' \in {"map", "main", "loaded", "dead"}
    PROVE  ConfigInvariant'
  <1>1. \A id \in DOMAIN configs : Own(configs[id])'
    BY OwnStays, OwnFields DEF ConfigInvariant, files, unitVars
  <1> QED  BY <1>1 DEF ConfigInvariant, TypeOK, FieldsAreOwn, Own, From, files, unitVars

LEMMA ConfigStep == ConfigInvariant /\ [Next]_vars => ConfigInvariant'
  <1> SUFFICES ASSUME ConfigInvariant, [Next]_vars  PROVE  ConfigInvariant'
    OBVIOUS
  <1> USE DEF ConfigInvariant
  <1>0. n \in Nat \ {0} /\ f \in Nat /\ n + 1 \in Nat \ {0}
    BY DEF TypeOK
  <1>1. ASSUME Reading("comment") \/ Reading("setting"), NextLine,
               UNCHANGED <<files, stage, unitVars>>
        PROVE  ConfigInvariant'
    <2>1. f = 0 /\ ~Text(n)
      BY <1>0, <1>1 DEF Reading, Line, Text, LineIsText
    <2> QED  BY <1>1, <2>1, LineIsSkipped DEF Reading, files, unitVars
  <1>2. CASE SkipComment
    BY <1>1, <1>2 DEF SkipComment
  <1>3. CASE ReadSetting
    BY <1>1, <1>3 DEF ReadSetting, unitVars
  <1>4. CASE EnterUnits
    <2>1. f = 0 /\ ~Text(n) /\ n \in DOMAIN unitsFile /\ unitsFile[n].kind = "units"
      BY <1>0, <1>4 DEF EnterUnits, Reading, Line, Text, LineIsText
    <2>2. /\ stage = "units" /\ stage' = "units" /\ unitsFile' = unitsFile /\ n' = n + 1 /\ f' = 0
          /\ currentUnit' = currentUnit /\ configs' = configs /\ inUnitsBlock' = TRUE
      BY <1>4 DEF EnterUnits, Reading, NextLine, files
    <2>3. HeaderSeen'
      BY <1>0, <2>1, <2>2 DEF HeaderSeen
    <2>4. ASSUME currentUnit # NoUnit
          PROVE  \E s \in DOMAIN unitsFile : InBlock(s, n) /\ From(currentUnit, s, n)
      <3>1. PICK s \in DOMAIN unitsFile : InBlock(s, n - 1) /\ From(currentUnit, s, n - 1)
        BY <2>1, <2>2, <2>4 DEF UnitIsOpen, LastRead
      <3>2. (n - 1) + 1 = n /\ n - 1 \in Int /\ s \in Int /\ DOMAIN unitsFile \subseteq Int
        BY <1>0, <3>1, LineFacts
      <3>3. InBlock(s, n) /\ From(currentUnit, s, n)
        BY <2>1, <3>1, <3>2, BlockGoesOn, FromGoesOn
      <3> QED  BY <3>3
    <2>5. UnitIsOpen'
      <3>1. LastRead' = n
        BY <1>0, <2>2 DEF LastRead
      <3> QED  BY <2>2, <2>4, <3>1, OwnStays DEF UnitIsOpen
    <2>6. TypeOK' /\ LineIsText'
      BY <1>0, <2>2 DEF TypeOK, LineIsText
    <2> QED  BY <2>2, <2>3, <2>5, <2>6, StillReading
  <1>5. CASE SkipText
    <2>1. NewUnit # NoUnit
      BY ConfigAssumption DEF NewUnit, Units
    <2>2. currentUnit = NoUnit
      BY <1>5, <2>1 DEF SkipText, Opened, UnitIsOpen, Reading
    <2> QED  BY <1>5, <2>2, LineIsSkipped DEF SkipText, Reading, files, unitVars
  <1>6. CASE CloseUnit
    BY <1>6, UnitIsStored
  <1>7. CASE BeginLine
    BY <1>7, LineIsBegun
  <1>8. CASE ApplyUnitField
    BY <1>8, FieldIsApplied
  <1>9. CASE EndLine
    BY <1>9, LineIsEnded
  <1>10. CASE EndUnits
    BY <1>10, UnitsAreLeft DEF EndUnits
  <1>11. CASE EnterSection
    BY <1>0, <1>11, UnitsAreLeft DEF EnterSection, ReadingMap, NextLine
  <1>12. CASE ReadEntry
    BY <1>0, <1>12, UnitsAreLeft DEF ReadEntry, ReadingMap, NextLine
  <1>13. CASE SkipMapLine
    BY <1>0, <1>13, UnitsAreLeft DEF SkipMapLine, ReadingMap, NextLine
  <1>14. CASE EndMap
    BY <1>0, <1>14, UnitsAreLeft DEF EndMap
  <1>15. CASE BeginSession
    BY <1>0, <1>15, UnitsAreLeft DEF BeginSession
  <1>16. CASE Unreadable
    BY <1>0, <1>16, UnitsAreLeft DEF Unreadable
  <1>17. CASE UNCHANGED vars
    <2>1. UNCHANGED <<files, unitVars, stage, n, f>>
      BY <1>17 DEF vars
    <2>2. LastRead' = LastRead
      BY <2>1 DEF LastRead
    <2>3. stage' = "units" => UnitIsOpen'
      BY <2>1, <2>2, OwnStays DEF UnitIsOpen, files, unitVars
    <2>4. TypeOK' /\ (stage' = "units" => HeaderSeen' /\ LineIsText')
      BY <2>1, OwnStays DEF TypeOK, HeaderSeen, LineIsText, files, unitVars
    <2>5. \A id \in DOMAIN configs : Own(configs[id])'
      BY <2>1, OwnStays, OwnFields DEF files, unitVars
    <2> QED  BY <2>1, <2>3, <2>4, <2>5 DEF FieldsAreOwn, Own, From, files, unitVars
  <1> QED  BY <1>2, <1>3, <1>4, <1>5, <1>6, <1>7, <1>8, <1>9, <1>10, <1>11, <1>12, <1>13,
              <1>14, <1>15, <1>16, <1>17 DEF Next

LEMMA ConfigIsInvariant == Spec => []ConfigInvariant
  BY ConfigBegins, ConfigStep, PTL DEF Spec

(***************************************************************************)
(* LoadUnitsConfig: every unit that is loaded has a value for every field, *)
(* whatever the file is.                                                   *)
(***************************************************************************)
THEOREM ConfigTypes == Spec => []TypeOK
  <1>1. ConfigInvariant => TypeOK
    BY DEF ConfigInvariant
  <1> QED  BY <1>1, ConfigIsInvariant, PTL

(***************************************************************************)
(* LoadUnitsConfig: whatever the file is, no field of one unit ends up in  *)
(* another.                                                                *)
(***************************************************************************)
THEOREM UnitsKeepTheirFields == Spec => []FieldsAreOwn
  <1>1. ConfigInvariant => FieldsAreOwn
    BY DEF ConfigInvariant
  <1> QED  BY <1>1, ConfigIsInvariant, PTL
----------------------------------------------------------------------------
(***************************************************************************)
(* The settings.                                                           *)
(***************************************************************************)
\* of the first m lines the last that sets k has been obeyed
Obeyed(k, m) ==
    \A i \in DOMAIN unitsFile :
      i <= m /\ Sets(i, k) /\ (\A j \in DOMAIN unitsFile : i < j /\ j <= m => ~Sets(j, k))
      => settings[k] = unitsFile[i].value[1]

SettingsInvariant ==
    /\ unitsFile \in UnitsFiles /\ n \in Nat \ {0}
    /\ settings \in [SettingKeys -> Int]
    /\ stage = "units" => \A k \in SettingKeys : Obeyed(k, n - 1)
    /\ stage \in {"map", "main", "loaded"} =>
         \A k \in SettingKeys : Obeyed(k, Len(unitsFile))
    /\ stage = "loaded" =>
         session = [k \in SettingKeys |-> IF settings[k] <= 0 THEN Fallbacks[k] ELSE settings[k]]

LEMMA SettingFacts ==
    ASSUME unitsFile \in UnitsFiles, NEW i \in DOMAIN unitsFile, unitsFile[i].kind = "setting"
    PROVE  /\ unitsFile[i].key \in SettingKeys
           /\ unitsFile[i].value # <<>> => unitsFile[i].value[1] \in Int
  <1>1. unitsFile[i] \in UnitLine
    BY LineFacts
  <1>2. unitsFile[i].key \in SettingKeys /\ unitsFile[i].value \in Seq(Int)
    BY <1>1 DEF UnitLine, TextLine
  <1>3. ASSUME NEW q \in Seq(Int), q # <<>>  PROVE  q[1] \in Int
    BY <1>3
  <1> QED  BY <1>2, <1>3

\* a line that sets nothing
LEMMA ObeyedGoesOn ==
    ASSUME NEW k, NEW m \in Int, DOMAIN unitsFile \subseteq Int, Obeyed(k, m),
           m + 1 \in DOMAIN unitsFile => ~Sets(m + 1, k)
    PROVE  Obeyed(k, m + 1)
  <1> SUFFICES ASSUME NEW i \in DOMAIN unitsFile, i <= m + 1, Sets(i, k),
                      \A j \in DOMAIN unitsFile : i < j /\ j <= m + 1 => ~Sets(j, k)
               PROVE  settings[k] = unitsFile[i].value[1]
    BY DEF Obeyed
  <1>1. i # m + 1
    OBVIOUS
  <1>2. i \in Int /\ i <= m
    BY <1>1
  <1>3. \A j \in DOMAIN unitsFile : i < j /\ j <= m => ~Sets(j, k)
    OBVIOUS
  <1> QED  BY <1>2, <1>3 DEF Obeyed

LEMMA SettingsBegin == Init => SettingsInvariant
  <1> SUFFICES ASSUME Init  PROVE  SettingsInvariant
    OBVIOUS
  <1>1. settings \in [SettingKeys -> Int]
    BY DEF Init, Defaults
  <1>2. unitsFile \in UnitsFiles /\ n = 1 /\ stage = "units"
    BY DEF Init
  <1>3. \A k \in SettingKeys : Obeyed(k, n - 1)
    BY <1>2, LineFacts DEF Obeyed
  <1> QED  BY <1>1, <1>2, <1>3 DEF SettingsInvariant

\* a line of units.conf is read
LEMMA SettingsLine ==
    ASSUME SettingsInvariant, stage = "units", n \in DOMAIN unitsFile, n' = n + 1,
           UNCHANGED <<files, stage>>,
           \/ unitsFile[n].kind # "setting" /\ settings' = settings
           \/ ReadSetting
    PROVE  SettingsInvariant'
  <1> USE DEF SettingsInvariant, files
  <1>1. /\ DOMAIN unitsFile \subseteq Int /\ n \in Int /\ (n - 1) + 1 = n /\ n - 1 \in Int
        /\ n' - 1 = n
    <2>1. unitsFile \in UnitsFiles
      BY Zenon
    <2>2. DOMAIN unitsFile = 1..Len(unitsFile) /\ Len(unitsFile) \in Nat
      BY <2>1, LineFacts, Zenon
    <2> HIDE DEF SettingsInvariant
    <2>3. n \in 1..Len(unitsFile)
      BY <2>2, Zenon
    <2> QED
      BY <2>2, <2>3
  <1>2. CASE unitsFile[n].kind # "setting" /\ settings' = settings
    <2>1. \A k : ~Sets(n, k)
      BY <1>2 DEF Sets
    <2>2. \A k \in SettingKeys : Obeyed(k, n)
      BY <1>1, <2>1, ObeyedGoesOn
    <2>3. \A k \in SettingKeys : Obeyed(k, n - 1)'
      BY <1>1, <1>2, <2>2 DEF Obeyed, Sets
    <2> QED  BY <1>1, <1>2, <2>3
  <1>3. CASE ReadSetting
    <2>1. unitsFile[n].kind = "setting" /\
          settings' = IF unitsFile[n].value = <<>> THEN settings
                      ELSE [settings EXCEPT ![unitsFile[n].key] = unitsFile[n].value[1]]
      BY <1>3 DEF ReadSetting, Reading, Line
    <2>2. settings' \in [SettingKeys -> Int]
      BY <2>1, SettingFacts
    <2>3. ASSUME NEW k \in SettingKeys  PROVE  Obeyed(k, n - 1)'
      <3>1. CASE Sets(n, k)
        <4>1. settings'[k] = unitsFile[n].value[1]
          BY <2>1, <3>1 DEF Sets
        <4>2. \A i \in DOMAIN unitsFile :
                i <= n /\ (\A j \in DOMAIN unitsFile : i < j /\ j <= n => ~Sets(j, k)) => i = n
          BY <1>1, <3>1
        <4> QED  BY <1>1, <4>1, <4>2 DEF Obeyed, Sets
      <3>2. CASE ~Sets(n, k)
        <4>1. Obeyed(k, n)
          BY <1>1, <3>2, ObeyedGoesOn
        <4>2. settings'[k] = settings[k]
          BY <2>1, <3>2 DEF Sets
        <4> QED  BY <1>1, <4>1, <4>2 DEF Obeyed, Sets
      <3> QED  BY <3>1, <3>2
    <2> QED  BY <1>1, <2>2, <2>3
  <1> QED  BY <1>2, <1>3

LEMMA SettingsStep == SettingsInvariant /\ [Next]_vars => SettingsInvariant'
  <1> SUFFICES ASSUME SettingsInvariant, [Next]_vars  PROVE  SettingsInvariant'
    OBVIOUS
  <1> USE DEF SettingsInvariant
  <1>1. ASSUME UNCHANGED <<files, settings, session, stage, n>>  PROVE  SettingsInvariant'
    BY <1>1 DEF files, Obeyed, Sets
  <1>2. CASE SkipComment
    BY <1>2, SettingsLine DEF SkipComment, Reading, Line, NextLine
  <1>3. CASE ReadSetting
    BY <1>3, SettingsLine DEF ReadSetting, Reading, NextLine
  <1>4. CASE EnterUnits
    BY <1>4, SettingsLine DEF EnterUnits, Reading, Line, NextLine
  <1>5. CASE SkipText
    BY <1>5, SettingsLine DEF SkipText, Reading, Line, NextLine
  <1>6. CASE CloseUnit
    BY <1>6, SettingsLine DEF CloseUnit, Reading, Line, NextLine
  <1>7. CASE BeginLine
    BY <1>1, <1>7 DEF BeginLine
  <1>8. CASE ApplyUnitField
    BY <1>1, <1>8 DEF ApplyUnitField
  <1>9. CASE EndLine
    BY <1>9, SettingsLine DEF EndLine, Reading, Line, NextLine
  <1>10. CASE EndUnits
    <2>1. DOMAIN unitsFile = 1..Len(unitsFile) /\ Len(unitsFile) \in Nat
      BY LineFacts
    <2>2. Len(unitsFile) <= n - 1
      BY <1>10, <2>1 DEF EndUnits
    <2>3. \A k \in SettingKeys : Obeyed(k, Len(unitsFile))
      BY <1>10, <2>1, <2>2 DEF EndUnits, Obeyed
    <2>4. \A k \in SettingKeys : Obeyed(k, Len(unitsFile))'
      BY <1>10, <2>3 DEF EndUnits, files, Obeyed, Sets
    <2> QED  BY <1>10, <2>4 DEF EndUnits, files
  <1>11. ASSUME UNCHANGED <<files, settings, session>>, n' \in Nat \ {0},
                stage \in {"map", "main"}, stage' \in {"map", "main", "dead"}
         PROVE  SettingsInvariant'
    <2>1. \A k \in SettingKeys : Obeyed(k, Len(unitsFile))'
      BY <1>11 DEF files, Obeyed, Sets
    <2> QED  BY <1>11, <2>1 DEF files
  <1>12. CASE EnterSection \/ ReadEntry \/ SkipMapLine
    BY <1>11, <1>12 DEF EnterSection, ReadEntry, SkipMapLine, ReadingMap, NextLine
  <1>13. CASE EndMap
    BY <1>11, <1>13 DEF EndMap
  <1>14. CASE BeginSession
    <2>1. \A k \in SettingKeys : Obeyed(k, Len(unitsFile))'
      BY <1>14 DEF BeginSession, files, Obeyed, Sets
    <2>2. session' = [k \in SettingKeys |->
                        IF settings'[k] <= 0 THEN Fallbacks[k] ELSE settings'[k]]
      BY <1>14 DEF BeginSession
    <2> QED  BY <1>14, <2>1, <2>2 DEF BeginSession, files
  <1>15. CASE Unreadable
    BY <1>15 DEF Unreadable, files
  <1>16. CASE UNCHANGED vars
    BY <1>1, <1>16 DEF vars
  <1> QED  BY <1>2, <1>3, <1>4, <1>5, <1>6, <1>7, <1>8, <1>9, <1>10, <1>12, <1>13, <1>14,
              <1>15, <1>16 DEF Next

(***************************************************************************)
(* LoadUnitsConfig and main: whatever the file is, a game that can be      *)
(* played begins, and the last line that sets something counts.            *)
(***************************************************************************)
THEOREM SettingsCount == Spec => []SettingsAreRead
  <1>1. SettingsInvariant => SettingsAreRead
    <2> SUFFICES ASSUME SettingsInvariant, stage = "loaded", NEW k \in SettingKeys
                 PROVE  /\ session[k] > 0
                        /\ \A i \in DOMAIN unitsFile :
                             /\ Sets(i, k) /\ \A j \in DOMAIN unitsFile : i < j => ~Sets(j, k)
                             /\ unitsFile[i].value[1] > 0
                             => session[k] = unitsFile[i].value[1]
      BY DEF SettingsAreRead
    <2>1. session[k] = IF settings[k] <= 0 THEN Fallbacks[k] ELSE settings[k]
      BY DEF SettingsInvariant
    <2>2. Fallbacks[k] \in Int /\ Fallbacks[k] > 0 /\ settings[k] \in Int
      BY DEF Fallbacks, SettingsInvariant
    <2>3. Obeyed(k, Len(unitsFile)) /\ DOMAIN unitsFile = 1..Len(unitsFile)
      BY LineFacts DEF SettingsInvariant
    <2>4. ASSUME NEW i \in DOMAIN unitsFile, Sets(i, k),
                 \A j \in DOMAIN unitsFile : i < j => ~Sets(j, k)
          PROVE  settings[k] = unitsFile[i].value[1]
      BY <2>3, <2>4 DEF Obeyed
    <2> QED  BY <2>1, <2>2, <2>4
  <1> QED  BY <1>1, SettingsBegin, SettingsStep, PTL DEF Spec
----------------------------------------------------------------------------
(***************************************************************************)
(* The two files are read.  Of units.conf what is above the field that     *)
(* comes next has been read; of map.conf what is above line n.             *)
(***************************************************************************)
\* field j of line i is above field g of line l
Above(i, j, l, g) == i < l \/ (i = l /\ j < g)

\* the fields on k from line s to there, by line and place
Words(s, l, g, k) ==
    {w \in (s..l) \X Nat : Above(w[1], w[2], l, g) /\ Says(w[1], w[2], k)}

\* of these the last says v
Ends(words, v) ==
    \E w \in words :
      /\ v = OnItsLine(unitsFile[w[1]].fields[w[2]])
      /\ \A u \in words : u[1] < w[1] \/ (u[1] = w[1] /\ u[2] <= w[2])

\* v is what these say, or nothing
Agrees(v, words) == (\A u \in Values : Ends(words, u) => v = u) /\ (v # <<>> => Ends(words, v))

\* what was read of a block is what its unit has
BlockIsRead ==
    \A s \in DOMAIN unitsFile : InBlock(s, LastRead) =>
      currentUnit # NoUnit /\ \A k \in Keys : Agrees(currentUnit[k], Words(s, n, f, k))

\* the unit of the block is loaded as it is written
Kept(s, e, id) ==
    id \in DOMAIN configs /\ \A k \in Keys : \A v \in Values :
      LastWord(s, e - 1, k, v) => configs[id][k] = v

\* no block that ends above line m says this id after line s
LastOf(s, id, m) ==
    \A t, d \in DOMAIN unitsFile :
      d < m /\ Block(t, d) /\ s < t => ~LastWord(t, d - 1, "id", <<id>>)

\* the blocks that end above line m are read
BlocksAreKept(m) ==
    \A s, e \in DOMAIN unitsFile : \A id \in Ids :
      e < m /\ Block(s, e) /\ LastWord(s, e - 1, "id", <<id>>) /\ LastOf(s, id, m)
      => Kept(s, e, id)

HeaderIsObeyed ==
    (\E i \in 1..(n - 1) : i \in DOMAIN unitsFile /\ unitsFile[i].kind = "units") => inUnitsBlock

SpoiltIsPassed == f > 0 /\ unitsFile[n].continues => f > 1

UnitsAreRead ==
    IF stage = "units"
    THEN HeaderIsObeyed /\ SpoiltIsPassed /\ BlockIsRead /\ BlocksAreKept(n)
    ELSE stage # "dead" => BlocksAreKept(Len(unitsFile) + 1)

Entries == {Entry(mapFile[i]) : i \in {j \in DOMAIN mapFile : IsEntry(mapFile[j])}}

\* the entries on lines 1 to m are split, and the header above line m + 1 is obeyed
SplitTo(m) ==
    /\ m \in 0..Len(mapFile)
    /\ inRegions = InSection(m, "regions") /\ inPaths = InSection(m, "paths")
    /\ AreEntries(regions, "regions", m) /\ AreEntries(paths, "paths", m)

MapIsRead ==
    /\ mapFile \in MapFiles /\ n \in Nat \ {0}
    /\ regions \in Seq(Entries) /\ paths \in Seq(Entries)
    /\ stage = "units" => SplitTo(0)
    /\ stage = "map" => SplitTo(n - 1)
    /\ MapIsSplit

\* with the file these stay what they are
LEMMA WordsStay ==
    ASSUME unitsFile' = unitsFile
    PROVE  /\ \A s, e : InBlock(s, e)' <=> InBlock(s, e)
           /\ \A s, l, g, k : Words(s, l, g, k)' = Words(s, l, g, k)
           /\ \A v, words : Agrees(v, words)' <=> Agrees(v, words)
           /\ \A s, e : Block(s, e)' <=> Block(s, e)
           /\ \A s, e, k, v : LastWord(s, e, k, v)' <=> LastWord(s, e, k, v)
           /\ \A s, id, m : LastOf(s, id, m)' <=> LastOf(s, id, m)
  <1>1. \A i, j, k : Says(i, j, k)' <=> Says(i, j, k)
    BY DEF Says, Text, Sound
  <1>2. \A i : Text(i)' <=> Text(i)
    BY DEF Text
  <1>3. \A s, e : InBlock(s, e)' <=> InBlock(s, e)
    BY <1>2 DEF InBlock
  <1>4. \A s, l, g, k : Words(s, l, g, k)' = Words(s, l, g, k)
    BY <1>1 DEF Words, Above
  <1>5. \A words, v : Ends(words, v)' <=> Ends(words, v)
    BY DEF Ends
  <1>6. \A v, words : Agrees(v, words)' <=> Agrees(v, words)
    BY <1>5 DEF Agrees
  <1>7. \A s, e : Block(s, e)' <=> Block(s, e)
    BY <1>2 DEF Block
  <1>8. \A s, e, k, v : LastWord(s, e, k, v)' <=> LastWord(s, e, k, v)
    BY <1>1, <1>2 DEF LastWord
  <1>9. \A s, id, m : LastOf(s, id, m)' <=> LastOf(s, id, m)
    BY <1>7, <1>8 DEF LastOf
  <1> QED  BY <1>3, <1>4, <1>6, <1>7, <1>8, <1>9

\* the places of the words
LEMMA WordPlaces ==
    ASSUME NEW s, NEW l, NEW g, NEW k
    PROVE  \A i, j : <<i, j>> \in Words(s, l, g, k) <=>
             i \in s..l /\ j \in Nat /\ Says(i, j, k) /\ Above(i, j, l, g)
  BY DEF Words

LEMMA WordsArePairs ==
    ASSUME NEW s \in Int, NEW l \in Int, NEW g, NEW k, NEW w \in Words(s, l, g, k)
    PROVE  w = <<w[1], w[2]>> /\ w[1] \in s..l /\ w[2] \in Nat
  BY DEF Words

\* words in the same places are the same
LEMMA SameWords ==
    ASSUME NEW s \in Int, NEW l \in Int, NEW g, NEW t \in Int, NEW m \in Int, NEW h, NEW k,
           \A i, j : <<i, j>> \in Words(s, l, g, k) <=> <<i, j>> \in Words(t, m, h, k)
    PROVE  Words(s, l, g, k) = Words(t, m, h, k)
  BY WordsArePairs

LEMMA FieldPlaces ==
    ASSUME unitsFile \in UnitsFiles, NEW i \in DOMAIN unitsFile, Text(i),
           NEW j \in DOMAIN unitsFile[i].fields
    PROVE  j \in Nat \ {0}
  <1>1. ASSUME NEW q \in Seq(LineField), NEW m \in DOMAIN q  PROVE  m \in Nat \ {0}
    BY <1>1
  <1> QED  BY <1>1, LineFacts

\* the last word on a field, as a place
LEMMA LastWordIs ==
    ASSUME unitsFile \in UnitsFiles, NEW s \in Int, NEW l \in Int, s..l \subseteq DOMAIN unitsFile,
           NEW k, NEW v
    PROVE  LastWord(s, l, k, v) <=> Ends(Words(s, l + 1, 0, k), v)
  <1>1. \A i, j : <<i, j>> \in Words(s, l + 1, 0, k) <=> i \in s..l /\ Says(i, j, k)
    <2>1. ASSUME NEW i \in s..l, NEW j, Says(i, j, k)  PROVE  j \in Nat
      BY <2>1, FieldPlaces DEF Says
    <2>2. ASSUME NEW i, NEW j \in Nat
          PROVE  i \in s..l <=> i \in s..(l + 1) /\ Above(i, j, l + 1, 0)
      BY DEF Above
    <2> QED  BY <2>1, <2>2, WordPlaces
  <1>0. l + 1 \in Int
    OBVIOUS
  <1>2. ASSUME LastWord(s, l, k, v)  PROVE  Ends(Words(s, l + 1, 0, k), v)
    <2>0. PICK i \in s..l : \E j \in DOMAIN unitsFile[i].fields :
            /\ Says(i, j, k) /\ v = OnItsLine(unitsFile[i].fields[j])
            /\ \A d \in i..l : Text(d) =>
                 \A g \in DOMAIN unitsFile[d].fields : Says(d, g, k) => d = i /\ g <= j
      BY <1>2 DEF LastWord
    <2>1. PICK j \in DOMAIN unitsFile[i].fields :
            /\ Says(i, j, k) /\ v = OnItsLine(unitsFile[i].fields[j])
            /\ \A d \in i..l : Text(d) =>
                 \A g \in DOMAIN unitsFile[d].fields : Says(d, g, k) => d = i /\ g <= j
      BY <2>0
    <2>2. <<i, j>> \in Words(s, l + 1, 0, k)
      BY <1>1, <2>1
    <2>3. ASSUME NEW u \in Words(s, l + 1, 0, k)
          PROVE  u[1] < i \/ (u[1] = i /\ u[2] <= j)
      <3>1. u = <<u[1], u[2]>>
        BY <1>0, WordsArePairs
      <3>2. u[1] \in s..l /\ Says(u[1], u[2], k)
        BY <1>1, <3>1
      <3>3. u[1] < i \/ u[1] \in i..l
        BY <2>1, <3>2
      <3> QED  BY <2>1, <3>2, <3>3 DEF Says
    <2> QED  BY <2>1, <2>2, <2>3 DEF Ends
  <1>3. ASSUME Ends(Words(s, l + 1, 0, k), v)  PROVE  LastWord(s, l, k, v)
    <2>1. PICK w \in Words(s, l + 1, 0, k) :
            /\ v = OnItsLine(unitsFile[w[1]].fields[w[2]])
            /\ \A u \in Words(s, l + 1, 0, k) : u[1] < w[1] \/ (u[1] = w[1] /\ u[2] <= w[2])
      BY <1>3 DEF Ends
    <2>2. w = <<w[1], w[2]>>
      BY <1>0, WordsArePairs
    <2>3. w[1] \in s..l /\ Says(w[1], w[2], k)
      BY <1>1, <2>2
    <2>4. ASSUME NEW d \in w[1]..l, NEW g, Says(d, g, k)  PROVE  d = w[1] /\ g <= w[2]
      <3>1. d \in s..l /\ ~(d < w[1])
        BY <2>3
      <3>2. <<d, g>> \in Words(s, l + 1, 0, k)
        BY <1>1, <2>4, <3>1
      <3>3. <<d, g>>[1] = d /\ <<d, g>>[2] = g
        OBVIOUS
      <3> QED  BY <2>1, <3>1, <3>2, <3>3
    <2>5. w[2] \in DOMAIN unitsFile[w[1]].fields
      BY <2>3 DEF Says
    <2> QED  BY <2>1, <2>3, <2>4, <2>5 DEF LastWord
  <1> QED  BY <1>2, <1>3

\* there is one last word
LEMMA OneLastWord ==
    ASSUME NEW s \in Int, NEW l \in Int, NEW g, NEW k, NEW u, NEW v,
           Ends(Words(s, l, g, k), u), Ends(Words(s, l, g, k), v)
    PROVE  u = v
  <1>1. PICK w \in Words(s, l, g, k) :
          /\ u = OnItsLine(unitsFile[w[1]].fields[w[2]])
          /\ \A x \in Words(s, l, g, k) : x[1] < w[1] \/ (x[1] = w[1] /\ x[2] <= w[2])
    BY DEF Ends
  <1>2. PICK y \in Words(s, l, g, k) :
          /\ v = OnItsLine(unitsFile[y[1]].fields[y[2]])
          /\ \A x \in Words(s, l, g, k) : x[1] < y[1] \/ (x[1] = y[1] /\ x[2] <= y[2])
    BY DEF Ends
  <1>3. w[1] \in Int /\ w[2] \in Int /\ y[1] \in Int /\ y[2] \in Int
    BY WordsArePairs
  <1>4. w[1] = y[1] /\ w[2] = y[2]
    BY <1>1, <1>2, <1>3
  <1> QED  BY <1>1, <1>2, <1>4

\* a line that was read to its end is one of the lines above
LEMMA WordsGoOn ==
    ASSUME unitsFile \in UnitsFiles, NEW s \in Int, NEW l \in DOMAIN unitsFile, NEW g \in Nat,
           NEW k, s <= l, Text(l) => \A j \in DOMAIN unitsFile[l].fields : j < g
    PROVE  Words(s, l + 1, 0, k) = Words(s, l, g, k)
  <1>1. l \in Int /\ l + 1 \in Int
    BY LineFacts
  <1>2. ASSUME NEW i, NEW j
        PROVE  <<i, j>> \in Words(s, l + 1, 0, k) <=> <<i, j>> \in Words(s, l, g, k)
    <2>1. ASSUME i \in s..l, j \in Nat, Says(i, j, k)
          PROVE  Above(i, j, l + 1, 0) /\ Above(i, j, l, g)
      BY <1>1, <2>1 DEF Above, Says
    <2>2. i \in s..(l + 1) /\ j \in Nat /\ Above(i, j, l + 1, 0) => i \in s..l
      BY <1>1 DEF Above
    <2> QED  BY <1>1, <2>1, <2>2, WordPlaces
  <1> QED  BY <1>1, <1>2, SameWords

\* parseUnitFields begins with the first field that is not spoilt
LEMMA WordsBegin ==
    ASSUME unitsFile \in UnitsFiles, NEW s \in Int, NEW l \in DOMAIN unitsFile, Text(l), NEW k
    PROVE  /\ Words(s, l, 1, k) = Words(s, l, 0, k)
           /\ unitsFile[l].continues => Words(s, l, 2, k) = Words(s, l, 0, k)
  <1>1. l \in Int
    BY LineFacts
  <1>2. ASSUME NEW i, NEW j
        PROVE  <<i, j>> \in Words(s, l, 1, k) <=> <<i, j>> \in Words(s, l, 0, k)
    <2>1. ASSUME i = l, Says(i, j, k)  PROVE  j \in Nat \ {0}
      BY <2>1, FieldPlaces DEF Says
    <2> QED  BY <1>1, <2>1, WordPlaces DEF Above
  <1>3. ASSUME unitsFile[l].continues, NEW i, NEW j
        PROVE  <<i, j>> \in Words(s, l, 2, k) <=> <<i, j>> \in Words(s, l, 0, k)
    <2>1. ASSUME i = l, Says(i, j, k)  PROVE  j \in Nat \ {0} /\ j # 1
      BY <1>3, <2>1, FieldPlaces DEF Says, Sound
    <2> QED  BY <1>1, <2>1, WordPlaces DEF Above
  <1> QED  BY <1>1, <1>2, <1>3, SameWords

\* the first line of a block says nothing before it was read
LEMMA NoWords ==
    ASSUME NEW l \in Int, NEW k
    PROVE  Words(l, l, 0, k) = {} /\ Agrees(<<>>, Words(l, l, 0, k))
  <1>1. Words(l, l, 0, k) = {}
    BY WordsArePairs, WordPlaces DEF Above
  <1> QED  BY <1>1 DEF Agrees, Ends

\* one field more
LEMMA WordsGrow ==
    ASSUME unitsFile \in UnitsFiles, NEW s \in Int, NEW l \in DOMAIN unitsFile, Text(l), s <= l,
           NEW g \in DOMAIN unitsFile[l].fields, unitsFile[l].continues => g > 1,
           NEW k, NEW v, Agrees(v, Words(s, l, g, k))
    PROVE  IF k = unitsFile[l].fields[g].key
           THEN Agrees(OnItsLine(unitsFile[l].fields[g]), Words(s, l, g + 1, k))
           ELSE Agrees(v, Words(s, l, g + 1, k))
  <1>1. l \in Int /\ g \in Nat \ {0} /\ g + 1 \in Nat /\ s..l \subseteq Int
    BY LineFacts, FieldPlaces
  <1>2. ASSUME NEW i, NEW j
        PROVE  <<i, j>> \in Words(s, l, g + 1, k) <=>
                 \/ <<i, j>> \in Words(s, l, g, k)
                 \/ i = l /\ j = g /\ k = unitsFile[l].fields[g].key
    <2>1. Says(l, g, k) <=> k = unitsFile[l].fields[g].key
      BY <1>1 DEF Says, Sound
    <2>2. ASSUME j \in Nat, i \in s..l
          PROVE  Above(i, j, l, g + 1) <=> Above(i, j, l, g) \/ (i = l /\ j = g)
      BY <1>1, <2>2 DEF Above
    <2>3. l \in s..l
      BY <1>1
    <2>4. ~Above(l, g, l, g)
      BY <1>1 DEF Above
    <2> QED  BY <1>1, <2>1, <2>2, <2>3, <2>4, WordPlaces
  <1>3. CASE k # unitsFile[l].fields[g].key
    <2>1. Words(s, l, g + 1, k) = Words(s, l, g, k)
      BY <1>1, <1>2, <1>3, SameWords
    <2> QED  BY <1>3, <2>1
  <1>4. CASE k = unitsFile[l].fields[g].key
    <2>1. <<l, g>> \in Words(s, l, g + 1, k)
      BY <1>2, <1>4
    <2>2. ASSUME NEW u \in Words(s, l, g + 1, k)  PROVE  u[1] < l \/ (u[1] = l /\ u[2] <= g)
      <3>1. u = <<u[1], u[2]>> /\ u[1] \in s..l /\ u[2] \in Nat
        BY <1>1, WordsArePairs
      <3>2. Above(u[1], u[2], l, g + 1)
        BY <3>1, WordPlaces
      <3> QED  BY <1>1, <3>1, <3>2 DEF Above
    <2>3. Ends(Words(s, l, g + 1, k), OnItsLine(unitsFile[l].fields[g]))
      <3>1. <<l, g>>[1] = l /\ <<l, g>>[2] = g
        OBVIOUS
      <3> QED  BY <2>1, <2>2, <3>1 DEF Ends
    <2> QED  BY <1>1, <1>4, <2>3, OneLastWord DEF Agrees
  <1> QED  BY <1>3, <1>4
----------------------------------------------------------------------------
\* units.conf: what the steps do to the blocks
LEMMA KeptStays ==
    ASSUME unitsFile' = unitsFile, configs' = configs
    PROVE  \A m : BlocksAreKept(m)' <=> BlocksAreKept(m)
  <1>1. \A s, e, id : Kept(s, e, id)' <=> Kept(s, e, id)
    BY WordsStay DEF Kept
  <1> QED  BY <1>1, WordsStay DEF BlocksAreKept

\* on a line where no block ends
LEMMA KeptGoesOn ==
    ASSUME NEW m \in Int, DOMAIN unitsFile \subseteq Int, BlocksAreKept(m), \A s : ~Block(s, m)
    PROVE  BlocksAreKept(m + 1)
  <1> SUFFICES ASSUME NEW s \in DOMAIN unitsFile, NEW e \in DOMAIN unitsFile, NEW id \in Ids,
                      e < m + 1, Block(s, e), LastWord(s, e - 1, "id", <<id>>),
                      LastOf(s, id, m + 1)
               PROVE  Kept(s, e, id)
    BY DEF BlocksAreKept
  <1>1. e \in Int /\ e # m
    OBVIOUS
  <1>2. e < m
    BY <1>1
  <1>3. LastOf(s, id, m)
    BY DEF LastOf
  <1> QED  BY <1>2, <1>3 DEF BlocksAreKept

\* a block was open on the line before
LEMMA BlockWasOpen ==
    ASSUME DOMAIN unitsFile = 1..Len(unitsFile), Len(unitsFile) \in Nat,
           NEW s, NEW e \in Int, InBlock(s, e), s # e
    PROVE  InBlock(s, e - 1)
  <1>1. s \in Int /\ s <= e - 1 /\ e - 1 \in DOMAIN unitsFile
    BY DEF InBlock
  <1>2. \A i \in (s + 1)..(e - 1) : i \in (s + 1)..e
    BY <1>1
  <1>3. \A i \in s..(e - 1) : i \in s..e
    BY <1>1
  <1> QED  BY <1>1, <1>2, <1>3 DEF InBlock

LEMMA BlockWasOpenTill ==
    ASSUME DOMAIN unitsFile = 1..Len(unitsFile), Len(unitsFile) \in Nat,
           NEW s, NEW e \in Int, Block(s, e), s # e
    PROVE  InBlock(s, e - 1) /\ ~unitsFile[e].opens
  <1>1. s \in Int /\ s <= e - 1 /\ e - 1 \in DOMAIN unitsFile /\ e \in (s + 1)..e
    BY DEF Block
  <1>2. \A i \in (s + 1)..(e - 1) : i \in (s + 1)..e
    BY <1>1
  <1> QED  BY <1>1, <1>2 DEF InBlock, Block

\* what the last word can be
LEMMA LastWordFacts ==
    ASSUME unitsFile \in UnitsFiles, NEW s \in Int, NEW l \in Int, s..l \subseteq DOMAIN unitsFile,
           NEW k, NEW v, LastWord(s, l, k, v)
    PROVE  /\ s <= l /\ v \in Values
           /\ k = "id" => v = <<>> \/ \E id \in Ids : v = <<id>>
  <1>1. PICK i \in s..l : \E j \in DOMAIN unitsFile[i].fields :
          Says(i, j, k) /\ v = OnItsLine(unitsFile[i].fields[j])
    BY DEF LastWord
  <1>2. PICK j \in DOMAIN unitsFile[i].fields :
          Says(i, j, k) /\ v = OnItsLine(unitsFile[i].fields[j])
    BY <1>1
  <1>3. i \in DOMAIN unitsFile /\ Text(i) /\ k = unitsFile[i].fields[j].key
    BY <1>1, <1>2 DEF Says
  <1>4. ASSUME NEW q \in Seq(LineField), NEW m \in DOMAIN q  PROVE  q[m] \in LineField
    BY <1>4
  <1>5. unitsFile[i].fields[j] \in LineField
    BY <1>2, <1>3, <1>4, LineFacts
  <1>6. Extracted(unitsFile[i].fields[j]) = OnItsLine(unitsFile[i].fields[j])
    BY DEF Extracted, OnItsLine
  <1> QED  BY <1>1, <1>2, <1>3, <1>5, <1>6 DEF LineField

\* a line that is in no block, or says nothing
LEMMA LineIsPassed ==
    ASSUME ConfigInvariant, UnitsAreRead, stage = "units", f = 0, n \in DOMAIN unitsFile, NextLine,
           UNCHANGED <<unitsFile, stage, configs, currentUnit>>,
           inUnitsBlock \/ unitsFile[n].kind = "units" => inUnitsBlock',
           Text(n) => \A s : ~InBlock(s, n) /\ ~Block(s, n)
    PROVE  UnitsAreRead'
  <1>1. /\ DOMAIN unitsFile = 1..Len(unitsFile) /\ Len(unitsFile) \in Nat /\ unitsFile \in UnitsFiles
        /\ n \in Nat \ {0} /\ f' = 0 /\ n' = n + 1 /\ stage' = "units"
    BY LineFacts DEF ConfigInvariant, NextLine, TypeOK
  <1>2. LastRead = n - 1 /\ LastRead' = n
    BY <1>1 DEF LastRead
  <1>3. HeaderIsObeyed'
    <2>1. \A i \in 1..(n' - 1) : i = n \/ i \in 1..(n - 1)
      BY <1>1
    <2> QED  BY <2>1 DEF UnitsAreRead, HeaderIsObeyed
  <1>4. BlockIsRead'
    <2>1. ASSUME NEW s \in DOMAIN unitsFile, InBlock(s, n)
          PROVE  currentUnit # NoUnit /\ \A k \in Keys : Agrees(currentUnit[k], Words(s, n + 1, 0, k))
      <3>1. ~Text(n) /\ s # n /\ s <= n /\ s \in Int
        BY <1>1, <2>1 DEF InBlock
      <3>2. InBlock(s, n - 1)
        BY <1>1, <2>1, <3>1, BlockWasOpen
      <3>3. currentUnit # NoUnit /\ \A k \in Keys : Agrees(currentUnit[k], Words(s, n, 0, k))
        BY <1>2, <3>2 DEF UnitsAreRead, BlockIsRead
      <3>4. \A k : Words(s, n + 1, 0, k) = Words(s, n, 0, k)
        BY <1>1, <3>1, WordsGoOn
      <3> QED  BY <3>3, <3>4
    <2> QED  BY <1>1, <1>2, <2>1, WordsStay DEF BlockIsRead
  <1>5. BlocksAreKept(n + 1)
    <2>1. \A s : ~Block(s, n)
      BY DEF Block
    <2>2. DOMAIN unitsFile \subseteq Int /\ n \in Int
      BY <1>1
    <2> QED  BY <2>1, <2>2, KeptGoesOn DEF UnitsAreRead
  <1>6. BlocksAreKept(n)'
    BY <1>1, <1>5, KeptStays
  <1> QED  BY <1>1, <1>3, <1>4, <1>6 DEF UnitsAreRead, SpoiltIsPassed

\* SkipText: no block is open, and none begins
LEMMA TextIsPassed ==
    ASSUME ConfigInvariant, UnitsAreRead, SkipText
    PROVE  UnitsAreRead'
  <1>1. /\ stage = "units" /\ f = 0 /\ n \in DOMAIN unitsFile /\ NextLine /\ Text(n)
        /\ inUnitsBlock => Opened = NoUnit
        /\ UNCHANGED <<unitsFile, stage, configs, currentUnit, inUnitsBlock>>
    BY DEF SkipText, Reading, Line, Text, files, unitVars
  <1>2. DOMAIN unitsFile = 1..Len(unitsFile) /\ Len(unitsFile) \in Nat /\ n \in Int /\ LastRead = n - 1
    BY <1>1, LineFacts DEF ConfigInvariant, LastRead
  <1>3. NewUnit # NoUnit
    BY ConfigAssumption DEF NewUnit, Units
  <1>4. ASSUME NEW s, s # n, InBlock(s, n - 1), ~unitsFile[n].opens  PROVE  FALSE
    <2>1. currentUnit # NoUnit /\ inUnitsBlock
      BY <1>1, <1>2, <1>4 DEF UnitsAreRead, BlockIsRead, ConfigInvariant, UnitIsOpen, InBlock
    <2> QED  BY <1>1, <1>4, <2>1 DEF Opened, Line
  <1>5. ASSUME NEW s, s = n, InBlock(s, n) \/ Block(s, n)  PROVE  FALSE
    <2>1. unitsFile[n].opens /\ \E i \in 1..(n - 1) : unitsFile[i].kind = "units"
      BY <1>5 DEF InBlock, Block
    <2>2. inUnitsBlock
      BY <1>1, <1>2, <2>1 DEF UnitsAreRead, HeaderIsObeyed
    <2> QED  BY <1>1, <1>3, <2>1, <2>2 DEF Opened, Line
  <1>6. ASSUME NEW s, InBlock(s, n)  PROVE  FALSE
    <2>1. s # n
      BY <1>5, <1>6
    <2>2. InBlock(s, n - 1)
      BY <1>2, <1>6, <2>1, BlockWasOpen
    <2>3. ~unitsFile[n].opens
      BY <1>1, <1>2, <1>6, <2>1 DEF InBlock
    <2> QED  BY <1>4, <2>1, <2>2, <2>3
  <1>7. ASSUME NEW s, Block(s, n)  PROVE  FALSE
    <2>1. s # n
      BY <1>5, <1>7
    <2>2. InBlock(s, n - 1) /\ ~unitsFile[n].opens
      BY <1>2, <1>7, <2>1, BlockWasOpenTill
    <2> QED  BY <1>4, <2>1, <2>2
  <1>8. inUnitsBlock \/ unitsFile[n].kind = "units" => inUnitsBlock'
    BY <1>1 DEF Text
  <1> QED  BY <1>1, <1>6, <1>7, <1>8, LineIsPassed

\* CloseUnit: what the block that ends here says is what is stored
LEMMA ClosedIsRead ==
    ASSUME ConfigInvariant, UnitsAreRead, CloseUnit
    PROVE  /\ \A s, id : Block(s, n) /\ LastWord(s, n - 1, "id", <<id>>) /\ id \in Ids =>
                Opened["id"] = <<id>> /\ \A k \in Keys : \A v \in Values :
                  LastWord(s, n - 1, k, v) => Opened[k] = v
           /\ Opened["id"] # <<>> =>
                \E t, id : /\ t \in DOMAIN unitsFile /\ id \in Ids /\ Block(t, n)
                           /\ Opened["id"] = <<id>> /\ LastWord(t, n - 1, "id", <<id>>)
  <1>1. /\ n \in DOMAIN unitsFile /\ Text(n) /\ unitsFile[n].closes /\ f = 0 /\ stage = "units"
        /\ Opened # NoUnit /\ LastRead = n - 1
    BY DEF CloseUnit, Reading, Line, Text, LastRead
  <1>2. /\ DOMAIN unitsFile = 1..Len(unitsFile) /\ Len(unitsFile) \in Nat /\ n \in Nat \ {0}
        /\ unitsFile \in UnitsFiles /\ n - 1 \in Int /\ (n - 1) + 1 = n /\ "id" \in Keys
    BY LineFacts, ConfigAssumption DEF ConfigInvariant, TypeOK
  <1>3. ASSUME NEW s \in DOMAIN unitsFile, InBlock(s, n - 1)
        PROVE  /\ \A k \in Keys : Agrees(currentUnit[k], Words(s, n, 0, k))
               /\ \A k, v : LastWord(s, n - 1, k, v) <=> Ends(Words(s, n, 0, k), v)
               /\ \A k, v : LastWord(s, n - 1, k, v) =>
                    v \in Values /\ (k = "id" => v = <<>> \/ \E id \in Ids : v = <<id>>)
    <2>1. s \in Int /\ s..(n - 1) \subseteq DOMAIN unitsFile
      BY <1>1, <1>2
    <2>2. \A k \in Keys : Agrees(currentUnit[k], Words(s, n, 0, k))
      BY <1>1, <1>3 DEF UnitsAreRead, BlockIsRead
    <2>3. \A k, v : LastWord(s, n - 1, k, v) <=> Ends(Words(s, (n - 1) + 1, 0, k), v)
      BY <1>2, <2>1, LastWordIs
    <2>4. \A k, v : LastWord(s, n - 1, k, v) =>
            v \in Values /\ (k = "id" => v = <<>> \/ \E id \in Ids : v = <<id>>)
      BY <1>2, <2>1, LastWordFacts
    <2> QED  BY <1>2, <2>2, <2>3, <2>4
  <1>4. ASSUME NEW s, NEW id \in Ids, Block(s, n), LastWord(s, n - 1, "id", <<id>>)
        PROVE  Opened["id"] = <<id>> /\ \A k \in Keys : \A v \in Values :
                 LastWord(s, n - 1, k, v) => Opened[k] = v
    <2>1. s \in DOMAIN unitsFile /\ s \in Int /\ s <= n
      BY <1>2, <1>4 DEF Block
    <2>2. s..(n - 1) \subseteq DOMAIN unitsFile
      BY <1>1, <1>2, <2>1
    <2>3. s <= n - 1
      BY <1>2, <1>4, <2>1, <2>2, LastWordFacts
    <2>4. InBlock(s, n - 1) /\ ~unitsFile[n].opens
      BY <1>2, <1>4, <2>1, <2>3, BlockWasOpenTill
    <2>5. Opened = currentUnit
      BY <2>4 DEF Opened, Line
    <2>6. \A k \in Keys, v \in Values : LastWord(s, n - 1, k, v) => Opened[k] = v
      BY <1>3, <2>1, <2>4, <2>5 DEF Agrees
    <2>7. <<id>> \in Values
      BY <1>3, <1>4, <2>1, <2>4
    <2> QED  BY <1>2, <1>4, <2>6, <2>7
  <1>5. ASSUME Opened["id"] # <<>>
        PROVE  \E t, id : /\ t \in DOMAIN unitsFile /\ id \in Ids /\ Block(t, n)
                          /\ Opened["id"] = <<id>> /\ LastWord(t, n - 1, "id", <<id>>)
    <2>1. ~unitsFile[n].opens /\ Opened = currentUnit
      BY <1>2, <1>5 DEF Opened, Line, NewUnit
    <2>2. PICK t \in DOMAIN unitsFile : InBlock(t, n - 1)
      BY <1>1, <2>1 DEF ConfigInvariant, UnitIsOpen
    <2>3. Ends(Words(t, n, 0, "id"), Opened["id"])
      BY <1>2, <1>3, <1>5, <2>1, <2>2 DEF Agrees
    <2>4. LastWord(t, n - 1, "id", Opened["id"])
      BY <1>3, <2>2, <2>3
    <2>5. PICK id \in Ids : Opened["id"] = <<id>>
      BY <1>3, <1>5, <2>2, <2>4
    <2>6. Block(t, (n - 1) + 1)
      BY <1>1, <1>2, <2>1, <2>2, BlockEnds
    <2>7. Block(t, n)
      BY <1>2, <2>6
    <2> QED  BY <2>4, <2>5, <2>7
  <1> QED  BY <1>4, <1>5

\* a block that ends on an earlier line begins on one
LEMMA BlocksInOrder ==
    ASSUME DOMAIN unitsFile \subseteq Int, NEW s, NEW e, NEW t, NEW d,
           Block(s, e), Block(t, d), e < d
    PROVE  s < t
  <1>1. /\ s \in Int /\ e \in Int /\ t \in Int /\ d \in Int /\ s <= e /\ t <= d
        /\ Text(e) /\ unitsFile[e].closes
        /\ \A i \in t..(d - 1) : Text(i) => ~unitsFile[i].closes
    BY DEF Block
  <1>2. ~(e \in t..(d - 1))
    BY <1>1
  <1> QED  BY <1>1, <1>2

LEMMA ClosedIsKept ==
    ASSUME ConfigInvariant, UnitsAreRead, CloseUnit
    PROVE  UnitsAreRead'
  <1>1. /\ n \in DOMAIN unitsFile /\ Text(n) /\ unitsFile[n].closes /\ f = 0 /\ stage = "units"
        /\ inUnitsBlock /\ unitsFile' = unitsFile /\ stage' = "units"
        /\ currentUnit' = NoUnit /\ inUnitsBlock' = inUnitsBlock /\ n' = n + 1 /\ f' = 0
    BY DEF CloseUnit, Reading, Line, Text, NextLine, files
  <1>2. /\ DOMAIN unitsFile = 1..Len(unitsFile) /\ Len(unitsFile) \in Nat /\ n \in Nat \ {0}
        /\ DOMAIN unitsFile \subseteq Int
    BY LineFacts DEF ConfigInvariant, TypeOK
  <1>3. ASSUME NEW s \in DOMAIN unitsFile, NEW e \in DOMAIN unitsFile, NEW id \in Ids,
               e < n + 1, Block(s, e), LastWord(s, e - 1, "id", <<id>>), LastOf(s, id, n + 1)
        PROVE  id \in DOMAIN configs' /\ \A k \in Keys : \A v \in Values :
                 LastWord(s, e - 1, k, v) => configs'[id][k] = v
    <2>1. CASE e = n
      <3>1. Opened["id"] = <<id>> /\ \A k \in Keys : \A v \in Values :
              LastWord(s, n - 1, k, v) => Opened[k] = v
        BY <1>3, <2>1, ClosedIsRead
      <3>2. Opened["id"] # <<>> /\ Opened["id"][1] = id
        BY <3>1
      <3>3. configs' = [i \in DOMAIN configs \cup {id} |-> IF i = id THEN Opened ELSE configs[i]]
        BY <3>2 DEF CloseUnit
      <3> QED  BY <2>1, <3>1, <3>3
    <2>2. CASE e # n
      <3>1. e < n
        BY <1>2, <1>3, <2>2
      <3>2. LastOf(s, id, n)
        <4>1. \A d \in DOMAIN unitsFile : d < n => d < n + 1
          BY <1>2
        <4> QED  BY <1>3, <4>1 DEF LastOf
      <3>3. Kept(s, e, id)
        BY <1>1, <1>3, <3>1, <3>2 DEF UnitsAreRead, BlocksAreKept
      <3>4. CASE Opened["id"] = <<>>
        <4>1. configs' = configs
          BY <3>4 DEF CloseUnit
        <4> QED  BY <3>3, <4>1 DEF Kept
      <3>5. CASE Opened["id"] # <<>>
        <4>1. PICK t, other : /\ t \in DOMAIN unitsFile /\ other \in Ids /\ Block(t, n)
                              /\ Opened["id"] = <<other>>
                              /\ LastWord(t, n - 1, "id", <<other>>)
          BY <3>5, ClosedIsRead
        <4>2. s < t
          BY <1>2, <1>3, <3>1, <4>1, BlocksInOrder
        <4>3. other # id
          BY <1>1, <1>2, <1>3, <4>1, <4>2 DEF LastOf
        <4>4. Opened["id"][1] = other
          BY <4>1
        <4>5. configs' = [i \in DOMAIN configs \cup {other} |->
                            IF i = other THEN Opened ELSE configs[i]]
          BY <3>5, <4>4 DEF CloseUnit
        <4> QED  BY <3>3, <4>3, <4>5 DEF Kept
      <3> QED  BY <3>4, <3>5
    <2> QED  BY <2>1, <2>2
  <1>4. BlocksAreKept(n)'
    BY <1>1, <1>3, WordsStay DEF BlocksAreKept, Kept
  <1>5. BlockIsRead'
    <2>1. LastRead' = n
      BY <1>1, <1>2 DEF LastRead
    <2>2. \A s : ~InBlock(s, n)
      BY <1>1, <1>2 DEF InBlock
    <2> QED  BY <1>1, <2>1, <2>2, WordsStay DEF BlockIsRead
  <1> QED  BY <1>1, <1>4, <1>5 DEF UnitsAreRead, SpoiltIsPassed, HeaderIsObeyed

\* BeginLine: nothing of the line was read
LEMMA BegunIsRead ==
    ASSUME ConfigInvariant, UnitsAreRead, BeginLine
    PROVE  UnitsAreRead'
  <1>1. /\ n \in DOMAIN unitsFile /\ Text(n) /\ ~unitsFile[n].closes /\ f = 0 /\ stage = "units"
        /\ Opened # NoUnit /\ inUnitsBlock /\ unitsFile' = unitsFile /\ stage' = "units"
        /\ currentUnit' = Opened /\ inUnitsBlock' = inUnitsBlock /\ n' = n
        /\ f' = (IF unitsFile[n].continues THEN 2 ELSE 1) /\ configs' = configs
    BY DEF BeginLine, Reading, Line, Text, files
  <1>2. /\ DOMAIN unitsFile = 1..Len(unitsFile) /\ Len(unitsFile) \in Nat /\ n \in Nat \ {0}
        /\ unitsFile \in UnitsFiles /\ LastRead = n - 1 /\ LastRead' = n
    BY <1>1, LineFacts DEF ConfigInvariant, TypeOK, LastRead
  <1>3. ASSUME NEW s \in DOMAIN unitsFile, InBlock(s, n), NEW k \in Keys
        PROVE  Agrees(Opened[k], Words(s, n, f', k))
    <2>1. s \in Int /\ n \in Int
      BY <1>2
    <2>2. Words(s, n, f', k) = Words(s, n, 0, k)
      BY <1>1, <1>2, <2>1, WordsBegin
    <2>3. CASE s = n
      <3>1. Opened[k] = <<>>
        BY <1>3, <2>3 DEF InBlock, Opened, Line, NewUnit
      <3> QED  BY <2>1, <2>2, <2>3, <3>1, NoWords
    <2>4. CASE s # n
      <3>1. InBlock(s, n - 1)
        BY <1>2, <1>3, <2>1, <2>4, BlockWasOpen
      <3>2. ~unitsFile[n].opens
        BY <1>1, <1>2, <1>3, <2>4 DEF InBlock
      <3>3. Opened = currentUnit
        BY <3>2 DEF Opened, Line
      <3>4. Agrees(currentUnit[k], Words(s, n, 0, k))
        BY <1>1, <1>2, <3>1 DEF UnitsAreRead, BlockIsRead
      <3> QED  BY <2>2, <3>3, <3>4
    <2> QED  BY <2>3, <2>4
  <1>4. BlockIsRead'
    BY <1>1, <1>2, <1>3, WordsStay DEF BlockIsRead
  <1>5. BlocksAreKept(n)'
    BY <1>1, KeptStays DEF UnitsAreRead
  <1>6. HeaderIsObeyed' /\ SpoiltIsPassed'
    BY <1>1 DEF HeaderIsObeyed, SpoiltIsPassed
  <1> QED  BY <1>1, <1>4, <1>5, <1>6 DEF UnitsAreRead

\* ApplyUnitField: one field more was read
LEMMA AppliedIsRead ==
    ASSUME ConfigInvariant, UnitsAreRead, ApplyUnitField
    PROVE  UnitsAreRead'
  <1> DEFINE field == unitsFile[n].fields[f]
  <1>1. /\ n \in DOMAIN unitsFile /\ Text(n) /\ f \in DOMAIN unitsFile[n].fields
        /\ stage = "units" /\ unitsFile' = unitsFile /\ stage' = "units"
        /\ currentUnit' = [currentUnit EXCEPT ![field.key] = OnItsLine(field)]
        /\ inUnitsBlock' = inUnitsBlock /\ n' = n /\ f' = f + 1 /\ configs' = configs
    BY DEF ApplyUnitField, Reading, Line, Text, files, Extracted, OnItsLine
  <1>2. /\ DOMAIN unitsFile = 1..Len(unitsFile) /\ Len(unitsFile) \in Nat
        /\ unitsFile \in UnitsFiles /\ f \in Nat \ {0} /\ LastRead = n /\ LastRead' = n
    BY <1>1, LineFacts, FieldPlaces DEF ConfigInvariant, LastRead
  <1>3. currentUnit \in Units /\ currentUnit' \in Units /\ currentUnit' # NoUnit
    <2>1. currentUnit \in Units
      BY <1>1, <1>2 DEF ConfigInvariant, TypeOK, LineIsText
    <2>2. field.key \in Keys /\ OnItsLine(field) \in Values
      BY <1>1, <1>2, LineFacts
    <2> QED  BY <1>1, <2>1, <2>2, ConfigAssumption DEF Units
  <1>4. ASSUME NEW s \in DOMAIN unitsFile, InBlock(s, n), NEW k \in Keys
        PROVE  Agrees(currentUnit'[k], Words(s, n, f + 1, k))
    <2>1. Agrees(currentUnit[k], Words(s, n, f, k))
      BY <1>1, <1>2, <1>4 DEF UnitsAreRead, BlockIsRead
    <2>2. unitsFile[n].continues => f > 1
      BY <1>1, <1>2 DEF UnitsAreRead, SpoiltIsPassed
    <2>3. s \in Int /\ s <= n
      BY <1>2, <1>4 DEF InBlock
    <2>4. IF k = field.key THEN Agrees(OnItsLine(field), Words(s, n, f + 1, k))
                           ELSE Agrees(currentUnit[k], Words(s, n, f + 1, k))
      BY <1>1, <1>2, <2>1, <2>2, <2>3, WordsGrow
    <2>5. currentUnit'[k] = IF k = field.key THEN OnItsLine(field) ELSE currentUnit[k]
      BY <1>1, <1>3 DEF Units
    <2> QED  BY <2>4, <2>5
  <1>5. BlockIsRead'
    BY <1>1, <1>2, <1>3, <1>4, WordsStay DEF BlockIsRead
  <1>6. BlocksAreKept(n)'
    BY <1>1, KeptStays DEF UnitsAreRead
  <1>7. HeaderIsObeyed' /\ SpoiltIsPassed'
    BY <1>1, <1>2 DEF UnitsAreRead, HeaderIsObeyed, SpoiltIsPassed
  <1> QED  BY <1>1, <1>5, <1>6, <1>7 DEF UnitsAreRead

\* EndLine: all of the line was read, and no block ends on it
LEMMA EndedIsRead ==
    ASSUME ConfigInvariant, UnitsAreRead, EndLine
    PROVE  UnitsAreRead'
  <1>1. /\ f > Len(unitsFile[n].fields) /\ f > 0 /\ n \in DOMAIN unitsFile /\ Text(n)
        /\ stage = "units" /\ unitsFile' = unitsFile /\ stage' = "units"
        /\ currentUnit' = currentUnit /\ inUnitsBlock' = inUnitsBlock
        /\ n' = n + 1 /\ f' = 0 /\ configs' = configs
    BY DEF EndLine, Reading, Line, Text, NextLine, files, unitVars
  <1>2. /\ DOMAIN unitsFile = 1..Len(unitsFile) /\ Len(unitsFile) \in Nat
        /\ n \in Nat \ {0} /\ f \in Nat /\ unitsFile \in UnitsFiles
    BY LineFacts DEF ConfigInvariant, TypeOK
  <1>3. LastRead = n /\ LastRead' = n
    BY <1>1, <1>2 DEF LastRead
  <1>4. \A j \in DOMAIN unitsFile[n].fields : j < f
    <2>1. ASSUME NEW q \in Seq(LineField), f > Len(q), NEW j \in DOMAIN q  PROVE  j < f
      BY <1>2, <2>1
    <2> QED  BY <1>1, <1>2, <2>1, LineFacts
  <1>5. BlockIsRead'
    <2>1. ASSUME NEW s \in DOMAIN unitsFile, InBlock(s, n), NEW k \in Keys
          PROVE  Agrees(currentUnit[k], Words(s, n + 1, 0, k))
      <3>1. s \in Int /\ s <= n
        BY <1>2, <2>1 DEF InBlock
      <3>2. Words(s, n + 1, 0, k) = Words(s, n, f, k)
        BY <1>1, <1>2, <1>4, <3>1, WordsGoOn
      <3> QED  BY <1>1, <1>3, <2>1, <3>2 DEF UnitsAreRead, BlockIsRead
    <2>2. currentUnit # NoUnit
      BY <1>1 DEF ConfigInvariant, LineIsText
    <2> QED  BY <1>1, <1>3, <2>1, <2>2, WordsStay DEF BlockIsRead
  <1>6. BlocksAreKept(n + 1)
    <2>1. PICK t \in DOMAIN unitsFile : InBlock(t, n)
      BY <1>1, <1>3 DEF ConfigInvariant, LineIsText, UnitIsOpen
    <2>2. ~unitsFile[n].closes
      BY <1>1, <1>2, <2>1 DEF InBlock
    <2>3. \A s : ~Block(s, n)
      BY <2>2 DEF Block
    <2> QED  BY <1>1, <1>2, <2>3, KeptGoesOn DEF UnitsAreRead
  <1>7. BlocksAreKept(n)'
    BY <1>1, <1>6, KeptStays
  <1>8. HeaderIsObeyed'
    <2>1. \A i \in 1..(n' - 1) : i = n \/ i \in 1..(n - 1)
      BY <1>1, <1>2
    <2>2. unitsFile[n].kind # "units"
      BY <1>1 DEF Text
    <2> QED  BY <1>1, <2>1, <2>2 DEF UnitsAreRead, HeaderIsObeyed
  <1> QED  BY <1>1, <1>5, <1>7, <1>8 DEF UnitsAreRead, SpoiltIsPassed

\* all of the file was read
LEMMA AllIsKept ==
    ASSUME unitsFile \in UnitsFiles, NEW m, BlocksAreKept(m),
           \A e \in DOMAIN unitsFile : e < m
    PROVE  BlocksAreKept(Len(unitsFile) + 1)
  <1>1. \A e \in DOMAIN unitsFile : e < Len(unitsFile) + 1
    BY LineFacts
  <1> QED  BY <1>1 DEF BlocksAreKept, LastOf

\* the rest of the program leaves the units alone
LEMMA KeptIsLeft ==
    ASSUME UnitsAreRead, UNCHANGED <<unitsFile, configs>>, stage \notin {"units", "dead"},
           stage' # "units"
    PROVE  UnitsAreRead'
  <1>1. \A m : BlocksAreKept(m) => BlocksAreKept(m)'
    BY KeptStays
  <1> QED  BY <1>1 DEF UnitsAreRead

LEMMA UnitsAreReadFirst == Init => UnitsAreRead
  <1> SUFFICES ASSUME Init  PROVE  UnitsAreRead
    OBVIOUS
  <1>1. n = 1 /\ f = 0 /\ stage = "units" /\ unitsFile \in UnitsFiles
    BY DEF Init
  <1>2. DOMAIN unitsFile = 1..Len(unitsFile) /\ Len(unitsFile) \in Nat
    BY <1>1, LineFacts
  <1>3. BlockIsRead
    BY <1>1, <1>2 DEF BlockIsRead, LastRead, InBlock
  <1>4. BlocksAreKept(n)
    BY <1>1, <1>2 DEF BlocksAreKept
  <1> QED  BY <1>1, <1>3, <1>4 DEF UnitsAreRead, HeaderIsObeyed, SpoiltIsPassed

LEMMA UnitsAreReadNext == ConfigInvariant /\ UnitsAreRead /\ [Next]_vars => UnitsAreRead'
  <1> SUFFICES ASSUME ConfigInvariant, UnitsAreRead, [Next]_vars  PROVE  UnitsAreRead'
    OBVIOUS
  <1>0. n \in Nat \ {0} /\ f \in Nat /\ unitsFile \in UnitsFiles
    BY DEF ConfigInvariant, TypeOK
  <1>1. ASSUME Reading("comment") \/ Reading("setting") \/ Reading("units"), NextLine,
               UNCHANGED <<unitsFile, stage, configs, currentUnit>>,
               inUnitsBlock \/ Line.kind = "units" => inUnitsBlock'
        PROVE  UnitsAreRead'
    <2>1. f = 0 /\ ~Text(n) /\ stage = "units" /\ n \in DOMAIN unitsFile
      BY <1>0, <1>1 DEF ConfigInvariant, Reading, Line, Text, LineIsText
    <2> QED  BY <1>1, <2>1, LineIsPassed DEF Line
  <1>2. CASE SkipComment
    BY <1>1, <1>2 DEF SkipComment, Reading, files, unitVars
  <1>3. CASE ReadSetting
    BY <1>1, <1>3 DEF ReadSetting, Reading, files, unitVars
  <1>4. CASE EnterUnits
    BY <1>1, <1>4 DEF EnterUnits, Reading, files
  <1>5. CASE SkipText
    BY <1>5, TextIsPassed
  <1>6. CASE CloseUnit
    BY <1>6, ClosedIsKept
  <1>7. CASE BeginLine
    BY <1>7, BegunIsRead
  <1>8. CASE ApplyUnitField
    BY <1>8, AppliedIsRead
  <1>9. CASE EndLine
    BY <1>9, EndedIsRead
  <1>10. CASE EndUnits
    <2>1. \A e \in DOMAIN unitsFile : e < n
      BY <1>0, <1>10, LineFacts DEF EndUnits
    <2>2. BlocksAreKept(Len(unitsFile) + 1)
      BY <1>0, <1>10, <2>1, AllIsKept DEF EndUnits, UnitsAreRead
    <2>3. BlocksAreKept(Len(unitsFile) + 1)'
      BY <1>10, <2>2, KeptStays DEF EndUnits, files, unitVars
    <2> QED  BY <1>10, <2>3 DEF EndUnits, UnitsAreRead
  <1>11. CASE EnterSection \/ ReadEntry \/ SkipMapLine
    BY <1>11, KeptIsLeft DEF EnterSection, ReadEntry, SkipMapLine, ReadingMap, files, unitVars
  <1>12. CASE EndMap
    BY <1>12, KeptIsLeft DEF EndMap, files, unitVars
  <1>13. CASE BeginSession
    BY <1>13, KeptIsLeft DEF BeginSession, files, unitVars
  <1>14. CASE Unreadable
    BY <1>14 DEF Unreadable, UnitsAreRead
  <1>15. CASE UNCHANGED vars
    <2>1. UNCHANGED <<unitsFile, stage, n, f, inUnitsBlock, currentUnit, configs>>
      BY <1>15 DEF vars, files, unitVars
    <2>2. LastRead' = LastRead
      BY <2>1 DEF LastRead
    <2>3. BlockIsRead => BlockIsRead'
      BY <2>1, <2>2, WordsStay DEF BlockIsRead
    <2>4. \A m : BlocksAreKept(m) => BlocksAreKept(m)'
      BY <2>1, KeptStays
    <2>5. HeaderIsObeyed' = HeaderIsObeyed /\ SpoiltIsPassed' = SpoiltIsPassed
      BY <2>1 DEF HeaderIsObeyed, SpoiltIsPassed
    <2> QED  BY <2>1, <2>3, <2>4, <2>5 DEF UnitsAreRead
  <1> QED  BY <1>2, <1>3, <1>4, <1>5, <1>6, <1>7, <1>8, <1>9, <1>10, <1>11, <1>12, <1>13,
              <1>14, <1>15 DEF Next

(***************************************************************************)
(* LoadUnitsConfig: whatever the file is, a unit with an id above the last *)
(* line of its block is loaded, with the last word there on every field.   *)
(***************************************************************************)
THEOREM LinesCount == Spec => []EarlierLinesAreRead
  <1>1. ConfigInvariant /\ UnitsAreRead => EarlierLinesAreRead
    <2> SUFFICES ASSUME ConfigInvariant, UnitsAreRead, stage \notin {"units", "dead"},
                        NEW s \in DOMAIN unitsFile, NEW e \in DOMAIN unitsFile, NEW id \in Ids,
                        Block(s, e), LastWord(s, e - 1, "id", <<id>>),
                        \A t, d \in DOMAIN unitsFile :
                          Block(t, d) /\ s < t => ~LastWord(t, d - 1, "id", <<id>>)
                 PROVE  /\ id \in DOMAIN configs
                        /\ \A k \in Keys : \A v \in Values :
                             LastWord(s, e - 1, k, v) => configs[id][k] = v
      BY DEF EarlierLinesAreRead
    <2>1. e < Len(unitsFile) + 1
      BY LineFacts DEF ConfigInvariant
    <2>2. LastOf(s, id, Len(unitsFile) + 1)
      BY DEF LastOf
    <2>3. Kept(s, e, id)
      BY <2>1, <2>2 DEF UnitsAreRead, BlocksAreKept
    <2> QED  BY <2>3 DEF Kept
  <1>2. Spec => [](ConfigInvariant /\ UnitsAreRead)
    BY ConfigBegins, ConfigStep, UnitsAreReadFirst, UnitsAreReadNext, PTL DEF Spec
  <1> QED  BY <1>1, <1>2, PTL
----------------------------------------------------------------------------
(***************************************************************************)
(* map.conf.                                                               *)
(***************************************************************************)
\* a line that is no header is of the section of the line above
LEMMA SectionGoesOn ==
    ASSUME NEW m \in Int, mapFile[m].kind \notin {"regions", "paths"},
           NEW section \in {"regions", "paths"}
    PROVE  InSection(m, section) <=> InSection(m - 1, section)
  <1>1. ASSUME NEW h \in 1..m, mapFile[h].kind = section
        PROVE  h \in 1..(m - 1)
    BY <1>1
  <1>2. ASSUME NEW h \in 1..(m - 1)
        PROVE  (\A j \in h..m : mapFile[j].kind \in {"regions", "paths"} => j = h)
                 <=> (\A j \in h..(m - 1) : mapFile[j].kind \in {"regions", "paths"} => j = h)
    <2>1. h..m = h..(m - 1) \cup {m}
      BY <1>2
    <2> QED  BY <2>1
  <1>3. \A h \in 1..(m - 1) : h \in 1..m
    OBVIOUS
  <1> QED  BY <1>1, <1>2, <1>3 DEF InSection

\* a header begins its section and ends the other
LEMMA SectionBegins ==
    ASSUME NEW m \in Int, m > 0, mapFile[m].kind \in {"regions", "paths"},
           NEW section \in {"regions", "paths"}
    PROVE  InSection(m, section) <=> mapFile[m].kind = section
  <1>1. m \in 1..m /\ \A j \in m..m : j = m
    OBVIOUS
  <1>2. ASSUME NEW h \in 1..m,
               \A j \in h..m : mapFile[j].kind \in {"regions", "paths"} => j = h
        PROVE  h = m
    BY <1>2
  <1> QED  BY <1>1, <1>2 DEF InSection

\* an entry more on the next line
LEMMA EntryIsAdded ==
    ASSUME NEW S, NEW entries \in Seq(S), NEW section, NEW m \in Nat,
           AreEntries(entries, section, m), DOMAIN mapFile \subseteq Int,
           m + 1 \in DOMAIN mapFile, IsEntry(mapFile[m + 1]), InSection(m + 1, section)
    PROVE  AreEntries(Append(entries, Entry(mapFile[m + 1])), section, m + 1)
  <1> DEFINE lines == EntryLines(section, m)
             more == EntryLines(section, m + 1)
             longer == Append(entries, Entry(mapFile[m + 1]))
  <1>1. more = lines \cup {m + 1} /\ lines \subseteq Int /\ \A l \in lines : l < m + 1
    BY DEF EntryLines
  <1>2. PICK at \in [DOMAIN entries -> lines] :
          /\ \A line \in lines : \E i \in DOMAIN entries : at[i] = line
          /\ \A i, j \in DOMAIN entries : i < j => at[i] < at[j]
          /\ \A i \in DOMAIN entries : entries[i] = Entry(mapFile[at[i]])
    BY DEF AreEntries
  <1> DEFINE k == Len(entries)
             to == [i \in DOMAIN longer |-> IF i = k + 1 THEN m + 1 ELSE at[i]]
  <1>3. /\ k \in Nat /\ DOMAIN entries = 1..k /\ DOMAIN longer = 1..(k + 1)
        /\ \A i \in DOMAIN entries : longer[i] = entries[i]
        /\ longer[k + 1] = Entry(mapFile[m + 1])
    <2>1. ASSUME NEW T, NEW q \in Seq(T), NEW x
          PROVE  /\ Len(q) \in Nat /\ DOMAIN q = 1..Len(q)
                 /\ DOMAIN Append(q, x) = 1..(Len(q) + 1)
                 /\ \A i \in DOMAIN q : Append(q, x)[i] = q[i]
                 /\ Append(q, x)[Len(q) + 1] = x
      <3>1. q \in Seq(T \cup {x}) /\ x \in T \cup {x}
        OBVIOUS
      <3> QED  BY <3>1
    <2> QED  BY <2>1
  <1> HIDE DEF lines, more, longer, k
  <1>4. DOMAIN longer = DOMAIN entries \cup {k + 1} /\ k + 1 \notin DOMAIN entries
    BY <1>3
  <1>5. to[k + 1] = m + 1 /\ \A i \in DOMAIN entries : to[i] = at[i] /\ at[i] \in lines
    BY <1>2, <1>4
  <1>6. to \in [DOMAIN longer -> more]
    BY <1>1, <1>4, <1>5
  <1>7. \A line \in more : \E i \in DOMAIN longer : to[i] = line
    BY <1>1, <1>2, <1>4, <1>5
  <1>8. ASSUME NEW i \in DOMAIN longer, NEW j \in DOMAIN longer, i < j  PROVE  to[i] < to[j]
    <2>1. i \in DOMAIN entries
      BY <1>3, <1>8
    <2>2. CASE j = k + 1
      BY <1>1, <1>5, <2>1, <2>2
    <2>3. CASE j \in DOMAIN entries
      BY <1>2, <1>5, <1>8, <2>1, <2>3
    <2> QED  BY <1>4, <2>2, <2>3
  <1>9. \A i \in DOMAIN longer : longer[i] = Entry(mapFile[to[i]])
    BY <1>2, <1>3, <1>4, <1>5
  <1> HIDE DEF to
  <1>10. \E al \in [DOMAIN longer -> more] :
           /\ \A line \in more : \E i \in DOMAIN longer : al[i] = line
           /\ \A i, j \in DOMAIN longer : i < j => al[i] < al[j]
           /\ \A i \in DOMAIN longer : longer[i] = Entry(mapFile[al[i]])
    BY <1>6, <1>7, <1>8, <1>9
  <1> QED  BY <1>10 DEF AreEntries, longer, more

\* none on the next line
LEMMA NothingIsAdded ==
    ASSUME NEW entries, NEW section, NEW m \in Nat, DOMAIN mapFile \subseteq Int,
           AreEntries(entries, section, m),
           ~(IsEntry(mapFile[m + 1]) /\ InSection(m + 1, section))
    PROVE  AreEntries(entries, section, m + 1)
  <1>1. \A i \in DOMAIN mapFile : i <= m + 1 <=> i <= m \/ i = m + 1
    OBVIOUS
  <1>2. EntryLines(section, m + 1) = EntryLines(section, m)
    BY <1>1 DEF EntryLines
  <1> QED  BY <1>2 DEF AreEntries

LEMMA MapStays ==
    ASSUME mapFile' = mapFile
    PROVE  /\ Entries' = Entries
           /\ \A i, section : InSection(i, section)' <=> InSection(i, section)
           /\ \A entries, section, m :
                AreEntries(entries, section, m)' <=> AreEntries(entries, section, m)
  <1>1. \A i, section : InSection(i, section)' <=> InSection(i, section)
    BY DEF InSection
  <1>2. \A section, m : EntryLines(section, m)' = EntryLines(section, m)
    BY <1>1 DEF EntryLines
  <1>3. \A entries, section, m :
          AreEntries(entries, section, m)' <=> AreEntries(entries, section, m)
    BY <1>2 DEF AreEntries
  <1> QED  BY <1>1, <1>3 DEF Entries

LEMMA SplitNow ==
    ASSUME mapFile' = mapFile
    PROVE  \A m : SplitTo(m)' <=>
             /\ m \in 0..Len(mapFile)
             /\ inRegions' = InSection(m, "regions") /\ inPaths' = InSection(m, "paths")
             /\ AreEntries(regions', "regions", m) /\ AreEntries(paths', "paths", m)
  <1>1. \A i, section : InSection(i, section)' = InSection(i, section)
    BY DEF InSection
  <1> QED  BY <1>1, MapStays DEF SplitTo

LEMMA MapFacts ==
    ASSUME mapFile \in MapFiles
    PROVE  DOMAIN mapFile = 1..Len(mapFile) /\ Len(mapFile) \in Nat /\ DOMAIN mapFile \subseteq Int
  BY ConfigAssumption

\* a line of map.conf is read
LEMMA MapLineIsRead ==
    ASSUME MapIsRead, ReadingMap, NextLine, stage' = stage, mapFile' = mapFile,
           EnterSection \/ ReadEntry \/ SkipMapLine
    PROVE  MapIsRead'
  <1>1. /\ stage = "map" /\ n \in DOMAIN mapFile /\ n' = n + 1 /\ mapFile \in MapFiles
        /\ n \in Nat \ {0} /\ n - 1 \in Nat /\ (n - 1) + 1 = n
        /\ inRegions = InSection(n - 1, "regions") /\ inPaths = InSection(n - 1, "paths")
        /\ AreEntries(regions, "regions", n - 1) /\ AreEntries(paths, "paths", n - 1)
        /\ regions \in Seq(Entries) /\ paths \in Seq(Entries)
    BY DEF MapIsRead, SplitTo, ReadingMap, NextLine
  <1>2. DOMAIN mapFile = 1..Len(mapFile) /\ Len(mapFile) \in Nat /\ DOMAIN mapFile \subseteq Int
    BY <1>1, MapFacts
  <1>3. \A entries, section :
          AreEntries(entries, section, n - 1) /\ ~(IsEntry(mapFile[n]) /\ InSection(n, section))
            => AreEntries(entries, section, n)
    <2>1. \A entries, section :
            AreEntries(entries, section, n - 1)
              /\ ~(IsEntry(mapFile[(n - 1) + 1]) /\ InSection((n - 1) + 1, section))
            => AreEntries(entries, section, (n - 1) + 1)
      BY <1>1, <1>2, NothingIsAdded
    <2> QED  BY <1>1, <2>1
  <1>4. \A section : \A entries \in Seq(Entries) :
          /\ AreEntries(entries, section, n - 1) /\ IsEntry(mapFile[n]) /\ InSection(n, section)
          => AreEntries(Append(entries, Entry(mapFile[n])), section, n)
    <2>1. \A section : \A entries \in Seq(Entries) :
            /\ AreEntries(entries, section, n - 1) /\ IsEntry(mapFile[(n - 1) + 1])
            /\ InSection((n - 1) + 1, section) /\ (n - 1) + 1 \in DOMAIN mapFile
            => AreEntries(Append(entries, Entry(mapFile[(n - 1) + 1])), section, (n - 1) + 1)
      BY <1>1, <1>2, EntryIsAdded
    <2> QED  BY <1>1, <2>1
  <1>5. /\ inRegions' = InSection(n, "regions") /\ inPaths' = InSection(n, "paths")
        /\ AreEntries(regions', "regions", n) /\ AreEntries(paths', "paths", n)
        /\ regions' \in Seq(Entries) /\ paths' \in Seq(Entries)
    <2>1. CASE EnterSection
      <3>1. /\ mapFile[n].kind \in {"regions", "paths"} /\ regions' = regions /\ paths' = paths
            /\ inRegions' = (mapFile[n].kind = "regions") /\ inPaths' = (mapFile[n].kind = "paths")
        BY <2>1 DEF EnterSection, MapLine
      <3>2. InSection(n, "regions") = (mapFile[n].kind = "regions")
            /\ InSection(n, "paths") = (mapFile[n].kind = "paths")
        <4>1. InSection(n, "regions") \in BOOLEAN /\ InSection(n, "paths") \in BOOLEAN
          BY DEF InSection
        <4> QED  BY <1>1, <3>1, <4>1, SectionBegins
      <3>3. ~IsEntry(mapFile[n])
        BY <3>1 DEF IsEntry
      <3> QED  BY <1>1, <1>3, <3>1, <3>2, <3>3
    <2>2. CASE ReadEntry \/ SkipMapLine
      <3>1. /\ mapFile[n].kind \notin {"regions", "paths"}
            /\ inRegions' = inRegions /\ inPaths' = inPaths
        BY <2>2 DEF ReadEntry, SkipMapLine, MapLine, IsEntry, mapVars
      <3>2. InSection(n, "regions") = InSection(n - 1, "regions")
            /\ InSection(n, "paths") = InSection(n - 1, "paths")
        <4>1. \A i, section : InSection(i, section) \in BOOLEAN
          BY DEF InSection
        <4> QED  BY <1>1, <3>1, <4>1, SectionGoesOn
      <3>3. CASE ReadEntry
        <4>1. /\ IsEntry(mapFile[n])
              /\ regions' = IF inRegions THEN Append(regions, Entry(mapFile[n])) ELSE regions
              /\ paths' = IF inPaths THEN Append(paths, Entry(mapFile[n])) ELSE paths
          BY <3>3 DEF ReadEntry, MapLine
        <4>2. Entry(mapFile[n]) \in Entries
          BY <1>1, <4>1 DEF Entries
        <4>3. regions' \in Seq(Entries) /\ paths' \in Seq(Entries)
          BY <1>1, <4>1, <4>2
        <4>4. AreEntries(regions', "regions", n)
          BY <1>1, <1>3, <1>4, <3>2, <4>1
        <4>5. AreEntries(paths', "paths", n)
          BY <1>1, <1>3, <1>4, <3>2, <4>1
        <4> QED  BY <1>1, <3>1, <3>2, <4>3, <4>4, <4>5
      <3>4. CASE SkipMapLine
        <4>1. ~IsEntry(mapFile[n]) /\ regions' = regions /\ paths' = paths
          BY <3>4 DEF SkipMapLine, MapLine, mapVars
        <4> QED  BY <1>1, <1>3, <3>1, <3>2, <4>1
      <3> QED  BY <2>2, <3>3, <3>4
    <2> QED  BY <2>1, <2>2
  <1>6. n \in 0..Len(mapFile) /\ n' - 1 = n /\ stage' = "map"
    BY <1>1, <1>2
  <1>7. MapIsSplit'
    BY <1>6 DEF MapIsSplit
  <1>8. SplitTo(n - 1)'
    <2>1. (n - 1)' = n
      BY <1>6
    <2> QED  BY <1>5, <1>6, <2>1, SplitNow
  <1> QED  BY <1>1, <1>5, <1>6, <1>7, <1>8, MapStays DEF MapIsRead

LEMMA MapBegins == Init => MapIsRead
  <1> SUFFICES ASSUME Init  PROVE  MapIsRead
    OBVIOUS
  <1>1. /\ mapFile \in MapFiles /\ n = 1 /\ stage = "units" /\ inRegions = FALSE /\ inPaths = FALSE
        /\ regions = <<>> /\ paths = <<>>
    BY DEF Init
  <1>2. DOMAIN mapFile \subseteq Int /\ Len(mapFile) \in Nat /\ DOMAIN mapFile = 1..Len(mapFile)
    BY <1>1, MapFacts
  <1>3. \A section : InSection(0, section) = FALSE /\ EntryLines(section, 0) = {}
    BY <1>2 DEF InSection, EntryLines
  <1>4. \A section : AreEntries(<<>>, section, 0)
    <2>1. DOMAIN <<>> = {} /\ <<>> \in [DOMAIN <<>> -> {}]
      OBVIOUS
    <2> QED  BY <1>3, <2>1 DEF AreEntries
  <1>5. <<>> \in Seq(Entries) /\ 0 \in 0..Len(mapFile)
    BY <1>2
  <1>6. SplitTo(0)
    BY <1>1, <1>3, <1>4, <1>5 DEF SplitTo
  <1> QED  BY <1>1, <1>5, <1>6 DEF MapIsRead, MapIsSplit

LEMMA MapNext == ConfigInvariant /\ MapIsRead /\ [Next]_vars => MapIsRead'
  <1> SUFFICES ASSUME ConfigInvariant, MapIsRead, [Next]_vars  PROVE  MapIsRead'
    OBVIOUS
  <1>0. mapFile' = mapFile /\ n' \in Nat \ {0}
    <2>1. mapFile' = mapFile
      BY DEF Next, SkipComment, ReadSetting, EnterUnits, SkipText, CloseUnit, BeginLine,
             ApplyUnitField, EndLine, EndUnits, EnterSection, ReadEntry, SkipMapLine, EndMap,
             BeginSession, Unreadable, vars, files
    <2> QED  BY <2>1, ConfigStep DEF ConfigInvariant, TypeOK
  <1>9. ASSUME UNCHANGED mapVars
        PROVE  /\ SplitTo(0) => SplitTo(0)'
               /\ SplitTo(n - 1) /\ n' = n => SplitTo(n - 1)'
               /\ SplitTo(0) /\ n' = 1 => SplitTo(n - 1)'
    <2>1. \A m : SplitTo(m) =>
            /\ m \in 0..Len(mapFile)
            /\ inRegions' = InSection(m, "regions") /\ inPaths' = InSection(m, "paths")
            /\ AreEntries(regions', "regions", m) /\ AreEntries(paths', "paths", m)
      BY <1>9 DEF SplitTo, mapVars
    <2>2. \A m : SplitTo(m) => SplitTo(m)'
      BY <1>0, <2>1, SplitNow
    <2>3. (n' = n => (n - 1)' = n - 1) /\ (n' = 1 => (n - 1)' = 0)
      OBVIOUS
    <2> QED  BY <2>2, <2>3
  <1>1. ASSUME stage = "units", stage' = "units", UNCHANGED mapVars  PROVE  MapIsRead'
    BY <1>0, <1>9, <1>1, MapStays DEF MapIsRead, MapIsSplit, mapVars
  <1>2. CASE SkipComment \/ ReadSetting \/ EnterUnits \/ SkipText \/ CloseUnit \/ BeginLine
             \/ ApplyUnitField \/ EndLine
    BY <1>1, <1>2 DEF SkipComment, ReadSetting, EnterUnits, SkipText, CloseUnit, BeginLine,
                      ApplyUnitField, EndLine, Reading
  <1>3. CASE EndUnits
    BY <1>0, <1>9, <1>3, MapStays DEF EndUnits, MapIsRead, MapIsSplit, mapVars
  <1>4. CASE EnterSection \/ ReadEntry \/ SkipMapLine
    BY <1>0, <1>4, MapLineIsRead DEF EnterSection, ReadEntry, SkipMapLine
  <1>5. CASE EndMap
    <2>1. DOMAIN mapFile = 1..Len(mapFile) /\ Len(mapFile) \in Nat /\ n \in Nat \ {0}
      BY MapFacts DEF MapIsRead
    <2>2. /\ n - 1 \in 0..Len(mapFile)
          /\ AreEntries(regions, "regions", n - 1) /\ AreEntries(paths, "paths", n - 1)
      BY <1>5 DEF MapIsRead, SplitTo, EndMap
    <2>3. n - 1 = Len(mapFile)
      BY <1>5, <2>1, <2>2 DEF EndMap
    <2> QED  BY <1>0, <1>5, <2>2, <2>3, MapStays DEF EndMap, MapIsRead, MapIsSplit, mapVars
  <1>6. CASE BeginSession
    BY <1>0, <1>6, MapStays DEF BeginSession, MapIsRead, MapIsSplit, mapVars
  <1>7. CASE Unreadable
    BY <1>0, <1>7, MapStays DEF Unreadable, MapIsRead, MapIsSplit, mapVars
  <1>8. CASE UNCHANGED vars
    BY <1>0, <1>9, <1>8, MapStays DEF vars, MapIsRead, MapIsSplit, mapVars
  <1> QED  BY <1>2, <1>3, <1>4, <1>5, <1>6, <1>7, <1>8 DEF Next

(***************************************************************************)
(* LoadMapConfig: whatever the file is, the regions are the entries below  *)
(* a header "regions" and the paths those below "paths", in their order.   *)
(***************************************************************************)
THEOREM EntriesAreSplit == Spec => []MapIsSplit
  <1>1. Spec => [](ConfigInvariant /\ MapIsRead)
    BY ConfigBegins, ConfigStep, MapBegins, MapNext, PTL DEF Spec
  <1>2. MapIsRead => MapIsSplit
    BY DEF MapIsRead
  <1> QED  BY <1>1, <1>2, PTL

(***************************************************************************)
(* LoadUnitsConfig and LoadMapConfig: of both files, whatever they are,    *)
(* this much is read: the last word on every field on the lines above the  *)
(* closing one of a unit's block, as much of it as stands on its line, and *)
(* every entry of the map in its section.                                  *)
(***************************************************************************)
THEOREM ConfigIsRead == Spec => []FilesAreRead
  <1>1. EarlierLinesAreRead /\ MapIsSplit => FilesAreRead
    BY DEF FilesAreRead
  <1> QED  BY <1>1, LinesCount, EntriesAreSplit, PTL
=============================================================================
