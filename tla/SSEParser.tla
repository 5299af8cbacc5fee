------------------------------ MODULE SSEParser ------------------------------
(***************************************************************************)
(* The parser of sse.js: bytes arrive in chunks cut anywhere, lines end in *)
(* LF, CR or CRLF, an empty line ends a record.                            *)
(*                                                                         *)
(* A text is a sequence of symbols that stand for one byte each: the two   *)
(* line terminators; <<field, value>>, which begins a line that sets a     *)
(* field ("id", "event", "data") or, with any other name, a comment; and   *)
(* what continues a line.                                                  *)
(***************************************************************************)
EXTENDS Naturals, SequencesExt

CONSTANT MaxRecordBytes  \* what one record may take (540 KiB in the code)

ASSUME ParserAssumption == MaxRecordBytes \in Nat \ {0}

LF == <<"lf">>
CR == <<"cr">>

\* No id has been seen yet.
NoId == 0

\* A parser before its first byte.
FreshParser == [text |-> << >>, data |-> << >>, event |-> "message", id |-> NoId, bytes |-> 0]

\* A parse: the parser, the records it has put out in this call, and whether it
\* has thrown SSELimitError, which takes those records with it.
Parse(parser) == [parser |-> parser, out |-> << >>, refused |-> FALSE]

ResetRecord(parser) == [parser EXCEPT !.data = << >>, !.event = "message", !.bytes = 0]

\* A record without data is dropped; its id stays.
Dispatch(p) ==
    [p EXCEPT !.parser = ResetRecord(@),
              !.out = IF p.parser.data = << >> THEN @
                      ELSE Append(@, [type |-> p.parser.event, data |-> p.parser.data,
                                      id |-> p.parser.id])]

SetField(parser, line) ==
    CASE Head(line)[1] = "data" -> [parser EXCEPT !.data = Append(@, line)]
      [] Head(line)[1] = "event" -> [parser EXCEPT !.event = Head(line)[2]]
      [] Head(line)[1] = "id" -> [parser EXCEPT !.id = Head(line)[2]]
      [] OTHER -> parser

Refuse(p) == [p EXCEPT !.refused = TRUE, !.out = << >>]

Line(p, line) ==
    LET bytes == p.parser.bytes + Len(line) + 1
    IN  IF p.refused THEN p
        ELSE IF line = << >> THEN Dispatch(p)
        ELSE IF bytes > MaxRecordBytes THEN Refuse(p)
        ELSE [p EXCEPT !.parser = SetField([@ EXCEPT !.bytes = bytes], line)]

\* Mutant: an LF always ends a line, also behind a CR.
EndsLineTwice(s, c) == FALSE

\* Whether c is the LF of a CRLF whose CR has ended the line.
Joins(s, c) == s.behindCR /\ c = LF

\* The next symbol of a text.
Take(s, c) ==
    IF Joins(s, c) THEN [s EXCEPT !.behindCR = FALSE]
    ELSE IF c \in {CR, LF} THEN [parse |-> Line(s.parse, s.line), line |-> << >>, behindCR |-> c = CR]
    ELSE [s EXCEPT !.line = Append(@, c), !.behindCR = FALSE]

\* Mutant: only whole lines count.
CountsLines(p, rest) == FALSE

\* The record so far and the unfinished line together are too long.
TooLong(p, rest) == Len(rest) + p.parser.bytes > MaxRecordBytes

\* A CR that is the last symbol so far is left: an LF may follow it.
Deferred(text, final) == IF ~final /\ text # << >> /\ Last(text) = CR THEN <<CR>> ELSE << >>

EndText(p, rest, final) ==
    IF p.refused \/ TooLong(p, rest) THEN Refuse(p)
    ELSE IF ~final THEN [p EXCEPT !.parser.text = rest]
    ELSE LET last == IF rest = << >> THEN p ELSE Line(p, rest)
         IN  IF last.refused THEN last ELSE Dispatch([last EXCEPT !.parser.text = << >>])

\* What has been made of the parser's text up to each place.
Taken(parser, end) ==
    LET taken[n \in 0..end] ==
            IF n = 0 THEN [parse |-> Parse(parser), line |-> << >>, behindCR |-> FALSE]
            ELSE Take(taken[n - 1], parser.text[n])
    IN  taken

Process(parser, final) ==
    LET left == Deferred(parser.text, final)
        end == Len(parser.text) - Len(left)
        taken == Taken(parser, end)[end]
    IN  EndText(taken.parse, taken.line \o left, final)

\* A chunk, and the end of the stream, which puts out a record cut short.
Push(parser, chunk) == Process([parser EXCEPT !.text = @ \o chunk], FALSE)
Finish(parser) == Process(parser, TRUE)
=============================================================================
