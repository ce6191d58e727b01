---------------------------- MODULE LogFormatter ----------------------------
(***************************************************************************)
(* NBRaft/log.cpp: LogFormatter::init, which turns a pattern such as       *)
(* "%d{%H:%M} [%p] %m%n" into the items that format writes in turn.  One   *)
(* iteration of its loop is one step.                                      *)
(*                                                                         *)
(* A pattern is a sequence of characters; the braces are "lb" and "rb".    *)
(* There is one date format for all %d of a pattern: what stands in their  *)
(* braces is joined.                                                       *)
(***************************************************************************)
EXTENDS Integers, Sequences

CONSTANTS Chars,  \* the characters patterns are made of
          MaxLen  \* bound: the length of a pattern

ASSUME FormatterAssumption ==
    /\ {"%", "d", "lb", "rb"} \subseteq Chars
    /\ "default" \notin Chars
    /\ MaxLen \in Nat

(* The classes of the items; d is handled apart.                           *)
ItemLetters == {"m", "p", "c", "d", "f", "l", "t", "N", "%", "T", "n"}

FormatItems ==
    [c \in ItemLetters |->
        CASE c = "m" -> "Message"  [] c = "p" -> "Level"       [] c = "c" -> "LoggerName"
          [] c = "d" -> "DateTime" [] c = "f" -> "FileName"    [] c = "l" -> "Line"
          [] c = "t" -> "ThreadId" [] c = "N" -> "Sender"      [] c = "%" -> "PercentSign"
          [] c = "T" -> "Tab"      [] c = "n" -> "NewLine"]

Item(class, arg) == [class |-> class, arg |-> arg]

VARIABLES
    pattern,        \* m_pattern
    i,              \* the character the loop looks at
    parsing_string, \* parsing_string
    tmp,            \* tmp
    patterns,       \* patterns: texts as <<0, text>>, letters as <<1, letter>>
    dateformat,     \* dateformat
    items,          \* m_items
    error,          \* m_error
    stage,          \* "scan", "build" or "done"
    cuts            \* history: where in the pattern each of patterns begins,
                    \* and last where the next one will

formatterVars ==
    <<pattern, i, parsing_string, tmp, patterns, dateformat, items, error, stage, cuts>>

FormatterInit ==
    /\ pattern \in UNION {[1..n -> Chars] : n \in 0..MaxLen}
    /\ i = 1
    /\ parsing_string = TRUE
    /\ tmp = <<>> /\ patterns = <<>> /\ dateformat = <<>>
    /\ items = <<>> /\ error = FALSE
    /\ stage = "scan"
    /\ cuts = <<1>>

Scanning == stage = "scan" /\ i <= Len(pattern)
Flushed  == IF tmp = <<>> THEN patterns ELSE Append(patterns, <<0, tmp>>)
TextCut  == IF tmp = <<>> THEN cuts ELSE Append(cuts, i)

-----------------------------------------------------------------------------
(* A % in a text ends it; one after a % stands for itself.                 *)
Percent ==
    /\ Scanning /\ pattern[i] = "%"
    /\ patterns' = IF parsing_string THEN Flushed ELSE Append(patterns, <<1, "%">>)
    /\ tmp' = IF parsing_string THEN <<>> ELSE tmp
    /\ cuts' = IF parsing_string THEN TextCut ELSE Append(cuts, i + 1)
    /\ parsing_string' = ~parsing_string
    /\ i' = i + 1
    /\ UNCHANGED <<pattern, dateformat, items, error, stage>>

Text ==
    /\ Scanning /\ pattern[i] # "%" /\ parsing_string
    /\ tmp' = Append(tmp, pattern[i])
    /\ i' = i + 1
    /\ UNCHANGED <<pattern, parsing_string, patterns, dateformat, items, error, stage, cuts>>

Letter == Scanning /\ pattern[i] # "%" /\ ~parsing_string

TakeLetter(next) ==
    /\ patterns' = Append(patterns, <<1, pattern[i]>>)
    /\ cuts' = Append(cuts, next)
    /\ parsing_string' = TRUE
    /\ UNCHANGED <<pattern, tmp, items, stage>>

(* A letter, and %d without braces.                                        *)
BraceFollows(j) == j <= Len(pattern) /\ pattern[j] = "lb"

PlainLetter ==
    /\ Letter
    /\ pattern[i] = "d" => i < Len(pattern) /\ ~BraceFollows(i + 1)
    /\ TakeLetter(i + 1)
    /\ i' = i + 1
    /\ UNCHANGED <<dateformat, error>>

(* %d{...}: everything up to the next } is the format.                     *)
Closes(c, j) ==
    /\ c <= Len(pattern) => pattern[c] = "rb"
    /\ \A b \in j..(c - 1) : pattern[b] # "rb"

Date ==
    /\ Letter /\ pattern[i] = "d" /\ BraceFollows(i + 1)
    /\ \E c \in (i + 2)..(Len(pattern) + 1) :
          /\ Closes(c, i + 2)
          /\ dateformat' = dateformat \o SubSeq(pattern, i + 2, c - 1)
          /\ error' = (c = Len(pattern) + 1)
          /\ i' = IF error' THEN c ELSE c + 1
          /\ TakeLetter(c + 1)

(* %d at the end of the pattern: the code looks for the closing brace in   *)
(* the byte behind the string's terminator, whatever that is.              *)
DateAtEnd(stray) ==
    /\ Letter /\ pattern[i] = "d" /\ i = Len(pattern)
    /\ error' = (stray # "rb")
    /\ i' = IF error' THEN i + 2 ELSE i + 3
    /\ TakeLetter(i + 1)
    /\ UNCHANGED dateformat

(* The end of the loop: an error leaves no item.  A lone % is forgotten.   *)
KeepTmp  == patterns
LastText == Flushed

ScanEnds ==
    /\ stage = "scan"
    /\ i > Len(pattern) \/ error
    /\ patterns' = IF error THEN patterns ELSE LastText
    /\ cuts' = IF error THEN cuts ELSE TextCut
    /\ stage' = IF error THEN "done" ELSE "build"
    /\ UNCHANGED <<pattern, i, parsing_string, tmp, dateformat, items, error>>

(* The items, in order, up to the first letter that is unknown.            *)
DateTime  == Item("DateTime", IF dateformat = <<>> THEN <<"default">> ELSE dateformat)

ItemOf(v) ==
    CASE v[1] = 0 -> Item("String", v[2])
      [] v[1] = 1 /\ v[2] = "d" -> DateTime
      [] OTHER -> Item(FormatItems[v[2]], <<>>)

Unknown(v) == v[1] = 1 /\ v[2] \notin ItemLetters

Build ==
    /\ stage = "build"
    /\ \E n \in 0..Len(patterns) :
          /\ \A j \in 1..n : ~Unknown(patterns[j])
          /\ n < Len(patterns) => Unknown(patterns[n + 1])
          /\ items' = [j \in 1..n |-> ItemOf(patterns[j])]
          /\ error' = (n # Len(patterns))
    /\ stage' = "done"
    /\ UNCHANGED <<pattern, i, parsing_string, tmp, patterns, dateformat, cuts>>

-----------------------------------------------------------------------------
FormatterNext ==
    \/ Percent \/ Text \/ PlainLetter \/ Date
    \/ \E stray \in Chars : DateAtEnd(stray)
    \/ ScanEnds \/ Build

FormatterSpec == FormatterInit /\ [][FormatterNext]_formatterVars

-----------------------------------------------------------------------------
FormatterTypeOK ==
    /\ pattern \in Seq(Chars) /\ tmp \in Seq(Chars) /\ dateformat \in Seq(Chars)
    /\ i \in Nat \ {0}
    /\ parsing_string \in BOOLEAN /\ error \in BOOLEAN
    /\ patterns \in Seq(({0} \X Seq(Chars)) \cup ({1} \X Chars))
    /\ items \in Seq([class : {"String"} \cup {FormatItems[c] : c \in ItemLetters},
                      arg : Seq(Chars) \cup {<<"default">>}])
    /\ stage \in {"scan", "build", "done"}
    /\ cuts \in Seq(Nat \ {0})

(* What an item looks like in a pattern; braces says how a date without    *)
(* a format is written, as %d or as %d{}.                                  *)
LetterOf(class) == CHOOSE c \in ItemLetters : FormatItems[c] = class

Source(item, braces) ==
    CASE item.class = "String" -> item.arg
      [] item.class = "DateTime" ->
           <<"%", "d">> \o (IF item.arg = <<"default">> THEN braces
                            ELSE <<"lb">> \o item.arg \o <<"rb">>)
      [] OTHER -> <<"%", LetterOf(item.class)>>

(* A string reads text from one place up to another.                       *)
Reads(string, text, from, to) ==
    /\ to = from + Len(text) /\ to <= Len(string) + 1
    /\ \A k \in 1..Len(text) : string[from + k - 1] = text[k]

OneDate == \A j, k \in DOMAIN patterns : patterns[j] = <<1, "d">> /\ patterns[k] = <<1, "d">> => j = k

(* The cut behind the last piece is the end of the pattern, or a lone %    *)
(* stands behind it.                                                       *)
AllRead ==
    LET last == cuts[Len(cuts)]
    IN  last = Len(pattern) + 1 \/ (last = Len(pattern) /\ pattern[last] = "%")

(* Nothing of a pattern with at most one %d is lost or put in another      *)
(* place: written one after the other, the items are the pattern again,    *)
(* but for a lone % at its end.  After an error they are the part in front *)
(* of it, which format prints without a complaint; after an unclosed       *)
(* brace, nothing.  Of two %d each gets the formats of both, so for those  *)
(* it is not true.                                                         *)
RoundTrip ==
    stage = "done" /\ OneDate =>
        /\ cuts[1] = 1
        /\ \E braces \in {<<>>, <<"lb", "rb">>} :
              \A j \in 1..Len(items) :
                  Reads(pattern, Source(items[j], braces), cuts[j], cuts[j + 1])
        /\ ~error => Len(cuts) = Len(items) + 1 /\ AllRead
=============================================================================
