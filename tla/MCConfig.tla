------------------------------ MODULE MCConfig ------------------------------
(***************************************************************************)
(* units.conf with two units in every layout of their fields on lines, and *)
(* a setting before, between or after them; map.conf with its sections in  *)
(* every order, one of them twice.                                         *)
(***************************************************************************)
EXTENDS ConfigProperties, FiniteSets, SequencesExt

CONSTANTS frodo, saruman, shire, road

Field(k, v) == [key |-> k, value |-> v, onLine |-> Len(v)]
Broken(k, v, m) == [key |-> k, value |-> v, onLine |-> m]

Text3(opens, closes, continues, fields) ==
    [kind |-> "text", opens |-> opens, closes |-> closes,
     continues |-> continues, fields |-> fields]

\* above: "{" has a line of its own; end: where "}" is, or that it is missing
Layouts == [breaks : SUBSET {2, 3}, split : BOOLEAN, above : BOOLEAN,
            end : {"last line", "own line", "nowhere"}]

\* the fields of a unit, cut into lines before those in l.breaks; the array
\* is the second field
Cut(id, l) ==
    LET one == Field("id", <<id>>)
        two == Broken("paths", <<id, road>>, IF l.split THEN 1 ELSE 2)
        three == Field("class", <<"Maia">>)
        lines ==
          IF l.split
          THEN (IF 2 \in l.breaks THEN <<<<one>>, <<two>>>> ELSE <<<<one, two>>>>)
                 \o <<<<three>>>>
          ELSE CASE l.breaks = {} -> <<<<one, two, three>>>>
                 [] l.breaks = {2} -> <<<<one>>, <<two, three>>>>
                 [] l.breaks = {3} -> <<<<one, two>>, <<three>>>>
                 [] OTHER -> <<<<one>>, <<two>>, <<three>>>>
        last == Len(lines)
    IN  (IF l.above THEN <<Text3(TRUE, FALSE, FALSE, <<>>)>> ELSE <<>>)
          \o [i \in 1..last |->
                Text3(i = 1 /\ ~l.above, i = last /\ l.end = "last line",
                      l.split /\ i = last, lines[i])]
          \o (IF l.end = "own line" THEN <<Text3(FALSE, TRUE, FALSE, <<>>)>> ELSE <<>>)

Comment == [kind |-> "comment"]
Setting(k, v) == [kind |-> "setting", key |-> k, value |-> v]
MaxTurns == {Setting("max-turns", <<>>), Setting("max-turns", <<0>>), Setting("max-turns", <<8>>)}

\* the "]" that ends the list of the units
EndOfList == Text3(FALSE, FALSE, FALSE, <<>>)

MCUnitsFiles ==
    UNION {{ <<s, Comment, [kind |-> "units"]>> \o Cut(frodo, l) \o Cut(saruman, k)
               \o <<EndOfList>>,
             <<[kind |-> "units"]>> \o Cut(frodo, l) \o <<s>> \o Cut(saruman, k),
             <<[kind |-> "units"]>> \o Cut(frodo, l) \o Cut(saruman, k) \o
               <<EndOfList, Setting("max-turns", <<2>>), s>> } :
           l \in Layouts, k \in {c \in Layouts : ~c.above /\ c.breaks = {3}}, s \in MaxTurns}

RegionEntry == Text3(TRUE, TRUE, FALSE, <<Field("id", <<shire>>), Field("to", <<road>>)>>)
PathEntry == Text3(TRUE, TRUE, FALSE,
                   <<Field("id", <<road>>), Field("to", <<>>), Field("to", <<shire>>)>>)
NoEntry == Text3(TRUE, TRUE, FALSE, <<Field("to", <<road>>)>>)

MCMapFiles ==
    { <<[kind |-> "regions"], RegionEntry, [kind |-> "paths"], PathEntry, NoEntry>>,
      <<RegionEntry, [kind |-> "paths"], PathEntry, Comment, [kind |-> "regions"], RegionEntry,
        [kind |-> "paths"], PathEntry>> }

MCKeys == {"id", "paths", "class", "to"}
MCIds == {frodo, saruman, shire, road}
MCValues == {<<>>, <<"Maia">>} \cup {<<i>> : i \in MCIds} \cup {<<i, road>> : i \in MCIds}
=============================================================================
