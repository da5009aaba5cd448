---------------------------- MODULE LogFormatter ----------------------------
(***************************************************************************)
(* apollo::LogFormatter (logger/logformatter.cc): what init() makes of a   *)
(* pattern, a sequence of characters.  An item is a piece of text or a     *)
(* conversion, with its name and what stood in braces behind it.  What a   *)
(* conversion prints is left out but for which of the event's fields it    *)
(* is.  Text is split into single characters.                              *)
(***************************************************************************)
EXTENDS Naturals, Sequences

Alpha == {"m", "p", "r", "c", "t", "n", "d", "f", "l", "T", "F", "N", "x"}

\* s_format_items: the conversions there are, and what of the event each prints
FormatItems ==
  [m |-> "content", p |-> "level", r |-> "elapse", c |-> "logger", t |-> "thread",
   n |-> "newline", d |-> "time", f |-> "file", l |-> "line", T |-> "tab",
   F |-> "fiber", N |-> "threadName"]

Text(c) == [is |-> "text", str |-> <<c>>, fmt |-> <<>>]
Conversion(str, fmt) == [is |-> "conversion", str |-> str, fmt |-> fmt]
PatternError == [is |-> "error", str |-> <<>>, fmt |-> <<>>]

\* The first position from i on that has a character of S, or the end
FirstFrom(p, i, S) ==
  IF \E j \in i .. Len(p) : p[j] \in S
  THEN CHOOSE j \in i .. Len(p) : p[j] \in S /\ \A k \in i .. j - 1 : p[k] \notin S
  ELSE Len(p) + 1

\* A conversion's name goes on over letters and closing braces; it ends at any other
\* character.
EndOfName(p, i) ==
  FirstFrom(p, i, {p[j] : j \in DOMAIN p} \ (Alpha \cup {"}"}))

\* Items[i]: what init() makes of the pattern from position i on.  Of "%%" the first
\* is text, and the second begins a conversion.
Items(p) ==
  LET items[i \in 1 .. Len(p) + 1] ==
        IF i = Len(p) + 1 THEN <<>>
        ELSE IF p[i] # "%" \/ (i < Len(p) /\ p[i + 1] = "%")
             THEN <<Text(p[i])>> \o items[i + 1]
        ELSE LET n   == EndOfName(p, i + 1)
                 str == SubSeq(p, i + 1, n - 1)
                 close == FirstFrom(p, n, {"}"})
             IN  IF n > Len(p) \/ p[n] # "{" THEN <<Conversion(str, <<>>)>> \o items[n]
                 ELSE IF close > Len(p) THEN <<PatternError>> \o items[i + 1]
                 ELSE <<Conversion(str, SubSeq(p, n + 1, close - 1))>> \o items[close + 1]
  IN  items[1]

Known(item) ==
  \/ item.is = "text"
  \/ item.is = "conversion" /\ Len(item.str) = 1 /\ item.str[1] \in DOMAIN FormatItems

\* error_
IsError(p) == \E k \in DOMAIN Items(p) : ~Known(Items(p)[k])
=============================================================================
