--------------------------- MODULE MCLocalizedMessages ---------------------------
EXTENDS LocalizedMessages, TLC

MCLocales == {<<"en">>, <<"EN", "us">>, <<"en", "US">>, <<"ru">>, <<"fr">>}
MCFirst   == [en |-> "en", EN |-> "en", ru |-> "ru", fr |-> "fr"]
MCLater   == [us |-> "US", US |-> "US"]

MCDenotes == ("=0" :> 0) @@ ("=1" :> 10) @@ ("=1.0" :> 10)

Text == [kind |-> "text"]

Choice(kind, argument, offset, options) ==
  [kind |-> kind, argument |-> argument, offset |-> offset, options |-> options]

Gender == Choice("select", "g", 0, [f |-> Text, other |-> Text])

Ordinal == Choice("selectordinal", "n", 0, [one |-> Text, two |-> Text, other |-> Text])

MCMessages ==
  {Text,
   Choice("plural", "n", 0, [one |-> Text, few |-> Gender, many |-> Text, other |-> Text]),
   Choice("plural", "n", 10, ("=0" :> Text) @@ ("=1.0" :> Text) @@ ("=1" :> Text) @@ ("other" :> Gender)),
   Choice("select", "g", 0, [f |-> Ordinal, other |-> Text])}

MCNodes == MCMessages \cup {Gender, Ordinal}

Finite(text, number) == [text |-> text, reads |-> "number", number |-> number]
Other(text, reads)   == [text |-> text, reads |-> reads, number |-> 0]

MCGiven ==
  {Finite("0", 0), Finite("1", 10), Finite("1.5", 15), Finite("2", 20), Finite("12", 120),
   Finite("21", 210), Other("f", "none"), Other("inf", "infinite"), Other("nan", "nan"),
   Other("sNaN", "signal")}
=============================================================================
