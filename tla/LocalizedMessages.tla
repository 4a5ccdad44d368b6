--------------------------- MODULE LocalizedMessages ---------------------------
(***************************************************************************)
(* LocalizedText (i18n.py 189-324): it is built from messages by locale,   *)
(* and a call of format resolves a locale and renders the message chosen.  *)
(*                                                                         *)
(* A locale is the sequence of its subtags as they are spelled.  A message *)
(* is the chain of choices down to one place in it: what stands beside     *)
(* that place is rendered on its own, with the same #.  Numbers are in     *)
(* tenths.                                                                 *)
(***************************************************************************)
EXTENDS Integers, Sequences, FiniteSets

CONSTANTS
  Locales,   \* as callers spell them
  First,     \* the normal spelling of a first subtag
  Later,     \* and of the others
  Nodes,     \* what parsed messages are made of: texts and choices
  Messages,  \* parsed messages
  Denotes,   \* the number each exact selector ("=1", "=1.0") stands for
  Plain,     \* the exact selectors that are spelled as _decimal_text would
  Arguments, \* names of arguments
  Given,     \* what may be given for them
  MaxGiven,  \* bound: messages of one text
  Null       \* no #; no locale

Words == {"zero", "one", "two", "few", "many", "other"}

\* A node of kind "text" is a leaf; the others choose among options.
Choices == {"select", "plural", "selectordinal"}

\* How Decimal(str(value)) ends: with a finite number that can be normalized; with
\* an infinity; with a quiet NaN; with what normalize rejects, a signaling NaN or
\* an exponent beyond those of the context; or with InvalidOperation.
Readings == {"number", "infinite", "nan", "signal", "none"}

\* str(value), and what it reads as.
Value == [text : STRING, reads : Readings, number : Int]

\* _Parser._argument: every choice has an "other"; a select has no offset.
Parsed(node) ==
  \/ node.kind = "text"
  \/ /\ node.kind \in Choices /\ node.argument \in Arguments
     /\ "other" \in DOMAIN node.options
     /\ node.kind # "select" => DOMAIN node.options \subseteq Words \cup DOMAIN Denotes
     /\ node.kind = "select" => node.offset = 0
     /\ node.offset \in Nat
     /\ \A selector \in DOMAIN node.options : node.options[selector] \in Nodes

ASSUME MessagesAssumption == Messages \subseteq Nodes /\ \A node \in Nodes : Parsed(node)
ASSUME PlainAssumption ==
  /\ Plain \subseteq DOMAIN Denotes
  /\ \A s, t \in Plain : Denotes[s] = Denotes[t] => s = t
  /\ Words \cap DOMAIN Denotes = {}
ASSUME GivenAssumption == Given \subseteq Value
ASSUME SpellingAssumption ==
  \A locale \in Locales :
    /\ locale \in Seq(DOMAIN First \cup DOMAIN Later) /\ locale # <<>>
    /\ locale[1] \in DOMAIN First
    /\ \A i \in 2..Len(locale) : locale[i] \in DOMAIN Later

VARIABLES
  default,     \* default_locale
  given,       \* the keys of the mapping it is built from, as far as they were read
  messages,    \* by normal locale
  phase,       \* "building", "ready", "resolving", "rendering", and how it ends
  requested,   \* the locale format is called with
  candidates,  \* the locales it still tries
  selected,    \* the one it found
  values,      \* of the arguments that are given
  node,        \* the choice that is rendered
  path,        \* the choices that were made on the way, and the number of each
  pound        \* what # stands for

call == <<requested, candidates, selected, values, node, path, pound>>
textVars == <<default, given, messages, phase, call>>

-----------------------------------------------------------------------------
\* normalize_locale
Normal(locale) == [i \in DOMAIN locale |-> IF i = 1 THEN First[locale[i]] ELSE Later[locale[i]]]

\* Mutant: the default locale is not tried.
CandidatesOnly(locale) == [i \in 1..Len(locale) |-> SubSeq(locale, 1, Len(locale) + 1 - i)]

\* Mutant: the least specific parent first.
CandidatesUpwards(locale) == Append([i \in 1..Len(locale) |-> SubSeq(locale, 1, i)], default)

\* selected, its parents, and the default
Candidates(locale) ==
  Append([i \in 1..Len(locale) |-> SubSeq(locale, 1, Len(locale) + 1 - i)], default)

\* Python's int()
Integer(number) == IF number >= 0 THEN number \div 10 ELSE -((-number) \div 10)

Whole(number) == number % 10 = 0

\* Mutant: the teens are not told apart.
SlavicCategoryByDigit(integer) ==
  CASE integer % 10 = 1       -> "one"
    [] integer % 10 \in 2..4  -> "few"
    [] OTHER                  -> "many"

SlavicCategory(integer) ==
  CASE integer % 10 = 1 /\ integer % 100 # 11            -> "one"
    [] integer % 10 \in 2..4 /\ integer % 100 \notin 12..14 -> "few"
    [] OTHER                                             -> "many"

\* _plural_category; of the Slavic ones "many" is the last there is.
Category(locale, number, kind) ==
  LET language == locale[1]
      integer  == Integer(number)
  IN  CASE kind = "selectordinal" /\ language = "en" ->
             (CASE integer % 10 = 1 /\ integer % 100 # 11 -> "one"
                [] integer % 10 = 2 /\ integer % 100 # 12 -> "two"
                [] integer % 10 = 3 /\ integer % 100 # 13 -> "few"
                [] OTHER                                  -> "other")
        [] language \in {"zh", "ja", "ko", "th", "vi"} -> "other"
        [] language \in {"fr", "pt"} -> IF number \in {0, 10} THEN "one" ELSE "other"
        [] language \in {"ru", "uk"} /\ Whole(number) -> SlavicCategory(integer)
        [] OTHER -> IF number = 10 THEN "one" ELSE "other"

\* The exact selector of a number is compared as text.
Exactly(number) == {s \in Plain : Denotes[s] = number}

Chosen(choice, wanted) == IF wanted \in DOMAIN choice.options THEN wanted ELSE "other"

Selector(choice, value) ==
  IF choice.kind = "select" THEN Chosen(choice, value.text)
  ELSE IF Exactly(value.number) \cap DOMAIN choice.options # {}
    THEN CHOOSE s \in Exactly(value.number) : TRUE
    ELSE Chosen(choice, Category(selected, value.number, choice.kind))

\* What a plural of no finite number raises: the ValueError of _render, or what
\* normalize raises first (i18n.py 297), or what int raises then (i18n.py 303).
\* No exact selector stands for an infinity or a NaN (_SELECTOR_RE).
Raises(value) ==
  CASE value.reads = "infinite" -> "OverflowError"
    [] value.reads = "signal"   -> "ArithmeticError"
    [] OTHER                    -> "ValueError"

-----------------------------------------------------------------------------
NoCall ==
  /\ requested = Null /\ candidates = <<>> /\ selected = Null
  /\ values = <<>> /\ node = Null /\ path = <<>> /\ pound = Null

TextInit ==
  /\ default \in Locales
  /\ given = {} /\ messages = <<>>
  /\ phase = "building"
  /\ NoCall

\* __post_init__: one entry of the mapping it is given.
AddMessage(locale, message) ==
  /\ phase = "building"
  /\ Cardinality(given) < MaxGiven /\ locale \notin given
  /\ given' = given \cup {locale}
  /\ IF Normal(locale) \in DOMAIN messages
       THEN phase' = "ValueError" /\ UNCHANGED messages
       ELSE /\ messages' = [l \in DOMAIN messages \cup {Normal(locale)} |->
                              IF l = Normal(locale) THEN message ELSE messages[l]]
            /\ UNCHANGED phase
  /\ UNCHANGED <<default, call>>

Built ==
  /\ phase = "building" /\ given # {}
  /\ default' = Normal(default)
  /\ given' = {}
  /\ phase' = IF Normal(default) \in DOMAIN messages THEN "ready" ELSE "ValueError"
  /\ UNCHANGED <<messages, call>>

Format(locale, arguments) ==
  /\ phase = "ready"
  /\ requested' = locale /\ values' = arguments
  /\ candidates' = Candidates(Normal(locale))
  /\ phase' = "resolving"
  /\ UNCHANGED <<default, given, messages, selected, node, path, pound>>

\* _resolve_locale, one candidate
Try ==
  /\ phase = "resolving"
  /\ IF candidates = <<>>
       THEN phase' = "AssertionError" /\ UNCHANGED <<candidates, selected, node>>
     ELSE IF Head(candidates) \in DOMAIN messages
       THEN /\ selected' = Head(candidates) /\ node' = messages[Head(candidates)]
            /\ phase' = "rendering"
            /\ UNCHANGED candidates
       ELSE candidates' = Tail(candidates) /\ UNCHANGED <<phase, selected, node>>
  /\ UNCHANGED <<default, given, messages, requested, values, path, pound>>

\* Mutant: the # of a plural ends at a select inside it.
PoundOfChoice(choice, value) ==
  IF choice.kind = "select" THEN Null ELSE value.number - choice.offset

\* What # stands for inside an option.
Pound(choice, value) ==
  IF choice.kind = "select" THEN pound ELSE value.number - choice.offset

\* _render, of one choice
Render ==
  /\ phase = "rendering"
  /\ IF node.kind = "text"
       THEN phase' = "rendered" /\ UNCHANGED <<node, path, pound>>
     ELSE IF node.argument \notin DOMAIN values
       THEN phase' = "KeyError" /\ UNCHANGED <<node, path, pound>>
     ELSE IF node.kind # "select" /\ values[node.argument].reads # "number"
       THEN phase' = Raises(values[node.argument]) /\ UNCHANGED <<node, path, pound>>
       ELSE LET value    == values[node.argument]
                selector == Selector(node, value)
            IN  /\ node' = node.options[selector]
                /\ pound' = Pound(node, value)
                /\ path' = Append(path, [choice |-> node, selector |-> selector, value |-> value])
                /\ UNCHANGED phase
  /\ UNCHANGED <<default, given, messages, requested, candidates, selected, values>>

Calls == UNION {[names -> Given] : names \in SUBSET Arguments}

TextNext ==
  \/ \E locale \in Locales, message \in Messages : AddMessage(locale, message)
  \/ Built
  \/ \E locale \in Locales, arguments \in Calls : Format(locale, arguments)
  \/ Try
  \/ Render

TextSpec == TextInit /\ [][TextNext]_textVars /\ WF_textVars(Try \/ Render)

-----------------------------------------------------------------------------
(* What holds *)

IsParent(parent, locale) == Len(parent) <= Len(locale) /\ SubSeq(locale, 1, Len(parent)) = parent

\* "Resolution tries the exact locale, successively less specific parents, then
\* the declared default locale" (docs/contracts.md:80-81): what is rendered is
\* the message of the most specific parent there is, however the locales were
\* spelled when the text was built and when it is asked for.
ResolvesToNearest ==
  selected # Null =>
    LET parents == {l \in DOMAIN messages : IsParent(l, Normal(requested))}
    IN  IF parents = {} THEN selected = default
        ELSE selected \in parents /\ \A l \in parents : Len(l) <= Len(selected)

\* The number shown is the one of the innermost plural: a select in between
\* does not hide it, and nothing outside of it shows (i18n.py 253-291).
PoundIsInnermost ==
  phase = "rendered" =>
    LET plurals == {i \in DOMAIN path : path[i].choice.kind # "select"}
    IN  IF plurals = {} THEN pound = Null
        ELSE \E i \in plurals : /\ \A j \in plurals : j <= i
                                /\ pound = path[i].value.number - path[i].choice.offset

\* Reference: the plural rules of Russian and Ukrainian, by the last two digits.
SlavicForm(integer) ==
  LET lastTwo == integer % 100
  IN  IF lastTwo \in 5..20 \/ integer % 10 \in {0} \cup 5..9 THEN "many"
      ELSE IF integer % 10 = 1 THEN "one" ELSE "few"

\* A plural without exact selectors takes the form of its number in Russian: the
\* teens are "many", whatever their last digit (i18n.py 317-323).
SlavicFormsApply ==
  \A i \in DOMAIN path :
    LET step == path[i]
    IN  /\ step.choice.kind = "plural" /\ selected[1] = "ru"
        /\ Whole(step.value.number) /\ step.value.number >= 0
        /\ step.selector \in Words \ {"other"}
        => step.selector = SlavicForm(Integer(step.value.number))

PluralErrors == {"ValueError", "OverflowError", "ArithmeticError"}

\* The choice where rendering stopped is a plural of what is no finite number, and
\* the call ended as such an argument makes it end.
PluralRaises ==
  /\ node.kind \in {"plural", "selectordinal"} /\ node.argument \in DOMAIN values
  /\ values[node.argument].reads # "number"
  /\ phase = Raises(values[node.argument])

\* A call that gives every argument ends in a rendered text: it finds a locale,
\* and an option of every choice on its way (i18n.py 206-207, 132-133).  Only a
\* plural whose own argument is no finite number ends it, and then not always
\* with the ValueError of _render (i18n.py 294): an infinity ends it with an
\* OverflowError, what cannot be normalized with an ArithmeticError.
FormatAnswers ==
  (phase = "resolving" /\ DOMAIN values = Arguments) ~>
    \/ phase = "rendered"
    \/ requested # Null /\ phase \in PluralErrors /\ PluralRaises
=============================================================================
