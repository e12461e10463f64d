----------------------------- MODULE Multipart ------------------------------
(***************************************************************************)
(* The multipart/form-data parser: the input stream over a chain of        *)
(* buffers (security/body_parse/chain_is.h), the lines and the boundary    *)
(* (body_multipart.cpp), and the headers of a part (header.cpp).           *)
(*                                                                         *)
(* A character is a string; "cd:" stands for content-disposition: and      *)
(* "name=" for name=, in any case, which the code matches as a whole.      *)
(* A body may be cut: the module inspects a bounded amount of it.          *)
(***************************************************************************)
EXTENDS UrlEncoded, Integers

CONSTANT Boundary     \* the boundary parameter of the Content-Type

CR == "\r"
LF == "\n"
DQ == "\""
Ws == {Space, "\t"}

-----------------------------------------------------------------------------
(* NgxChainInputStream: buffer, position in it; past is set once a byte    *)
(* that is in no buffer was read                                           *)
Open(bufs) == [bufs |-> bufs, i |-> 1, pos |-> 0, past |-> FALSE]

AtEnd(is) == is.pos = Len(is.bufs[is.i])

(* Mutant: the end of the current buffer is taken for the end of the body *)
eof_Buffer(is) == AtEnd(is)

eof(is) == AtEnd(is) /\ is.i = Len(is.bufs)

advance_buffer(is) ==
  IF is.i < Len(is.bufs) THEN [is EXCEPT !.i = @ + 1, !.pos = 0] ELSE is

(* The stream with a byte to read at its position, if one is there *)
Readable(is) == IF AtEnd(is) THEN advance_buffer(is) ELSE is

Peek(is) ==
  LET at == Readable(is) IN IF AtEnd(at) THEN "?" ELSE at.bufs[at.i][at.pos + 1]

Read(is) ==
  LET at == Readable(is)
  IN IF AtEnd(at) THEN [at EXCEPT !.past = TRUE] ELSE [at EXCEPT !.pos = @ + 1]

RECURSIVE SkipLine(_)
SkipLine(is) ==
  IF eof(is) \/ is.past \/ Peek(is) = LF THEN (IF eof(is) THEN is ELSE Read(is))
  ELSE SkipLine(Read(is))

RECURSIVE TakeUntil(_, _, _)
(* read_until: at most n characters, up to and with a line feed *)
TakeUntil(is, n, taken) ==
  IF n = 0 \/ eof(is) \/ is.past THEN [text |-> taken, is |-> is]
  ELSE IF Peek(is) = LF THEN [text |-> Append(taken, LF), is |-> Read(is)]
  ELSE TakeUntil(Read(is), n - 1, Append(taken, Peek(is)))

RECURSIVE TakeLine(_, _)
TakeLine(is, taken) ==
  IF eof(is) \/ is.past THEN [text |-> taken, is |-> is]
  ELSE IF Peek(is) = LF THEN [text |-> Append(taken, LF), is |-> Read(is)]
  ELSE TakeLine(Read(is), Append(taken, Peek(is)))

-----------------------------------------------------------------------------
(* bind_consume_line *)
Delimiter == <<"-", "-">> \o Boundary

(* After the delimiter: two more dashes make it the end; the rest of the   *)
(* line is discarded, unless its line feed was the character just read     *)
AfterDelimiter(is) ==
  LET one == Read(is)
      two == Read(one)
      rest(last, s) == IF last = LF THEN s ELSE SkipLine(s)
  IN IF eof(is) THEN [type |-> "boundary", text |-> <<>>, is |-> is]
     ELSE IF Peek(is) # "-" \/ eof(one)
     THEN [type |-> "boundary", text |-> <<>>, is |-> rest(Peek(is), one)]
     ELSE [type |-> IF Peek(one) = "-" THEN "boundary_end" ELSE "boundary",
           text |-> <<>>, is |-> rest(Peek(one), two)]

(* Part of a delimiter at the end of a body that was cut *)
MaybeCut(text, is) ==
  eof(is) /\ Len(text) < Len(Delimiter) /\ IsPrefix(text, Delimiter)

Other(line) == [type |-> "other", text |-> line.text, is |-> line.is]

(* The line whose beginning, as long as a delimiter at most, is start *)
LineOf(start) ==
  IF start.text = <<>> THEN [type |-> "eof", text |-> <<>>, is |-> start.is]
  ELSE IF Last(start.text) = LF THEN Other(start)
  ELSE IF MaybeCut(start.text, start.is)
  THEN [type |-> "boundary_end", text |-> <<>>, is |-> start.is]
  ELSE IF start.text = Delimiter THEN AfterDelimiter(start.is)
  ELSE Other(TakeLine(start.is, start.text))

consume_line(is) == LineOf(TakeUntil(is, Len(Delimiter), <<>>))

-----------------------------------------------------------------------------
(* unfold_next_header, which its caller always runs to its end *)
RECURSIVE SkipWs(_)
SkipWs(is) == IF ~eof(is) /\ Peek(is) \in Ws THEN SkipWs(Read(is)) ELSE is

(* The loop; the stream is at the character after ch *)
RECURSIVE Unfold(_, _, _)
Unfold(ch, is, line) ==
  LET next(s, l) == IF eof(s) \/ s.past THEN [line |-> l, is |-> s]
                    ELSE Unfold(Peek(s), Read(s), l)
  IN IF ch = CR THEN next(is, line)
     ELSE IF ch # LF THEN next(is, Append(line, ch))
     ELSE IF eof(is) \/ Peek(is) \notin Ws THEN [line |-> line, is |-> is]
     ELSE next(SkipWs(is), line)

RECURSIVE unfold_next_header(_)
unfold_next_header(is) ==
  LET one == Read(is)
      none(s) == [line |-> <<>>, is |-> s]
  IN IF eof(is) THEN none(is)
     ELSE IF Peek(is) \in Ws THEN unfold_next_header(SkipLine(one))
     ELSE IF Peek(is) = LF THEN none(one)
     ELSE IF Peek(is) # CR THEN Unfold(Peek(is), one, <<>>)
     ELSE IF eof(one) THEN none(one)
     ELSE IF Peek(one) = LF THEN none(Read(one))
     ELSE Unfold(Peek(one), Read(one), <<>>)

-----------------------------------------------------------------------------
(* MimeContentDisposition: the name that the last name parameter gives *)
IndexOf(l, S) == SelectInSeq(l, LAMBDA c : c \in S)

From(l, i) == SubSeq(l, i, Len(l))

(* The closing quote of a value, 0 if the line ends before it *)
Quoted(l) == IndexOf(l, {DQ})

RECURSIVE Params(_, _)
(* next_parameter_after_semicolon *)
Params(line, name) ==
  LET l == IF ToSet(line) \subseteq Ws THEN <<>>
           ELSE From(line, IndexOf(line, ToSet(line) \ Ws))
      next(rest, n) ==      \* next_parameter: skip to the next semicolon
        IF IndexOf(rest, {";"}) = 0 THEN n
        ELSE Params(From(rest, IndexOf(rest, {";"}) + 1), n)
      isName == l # <<>> /\ Head(l) = "name="
      eq == IndexOf(l, {"=", "name=", ";"})
      v == From(l, eq + 1)
      quoted == Quoted(Tail(v))
      token == IndexOf(v, Ws \cup {";"})
      value == IF token = 0 THEN v ELSE SubSeq(v, 1, token - 1)
      text == SubSeq(v, 2, quoted)
  IN IF l = <<>> \/ eq = 0 THEN name
     ELSE IF l[eq] = ";" THEN Params(v, name)
     ELSE IF v = <<>> THEN name
     ELSE IF Head(v) = DQ
     THEN IF quoted = 0 THEN name
          ELSE next(From(v, quoted + 2),
                    IF ~isName THEN name
                    ELSE IF Contains(text, "%") THEN decode_percent(FALSE, text)
                    ELSE text)
     ELSE next(From(v, Len(value) + 1), IF isName /\ value # <<>> THEN value ELSE name)

(* One header; the character after the white space is never a semicolon    *)
(* that starts a parameter: it is consumed with the white space            *)
Header(line, name) ==
  LET after == Tail(line)
      first == IndexOf(after, ToSet(after) \ Ws)
      rest == From(after, first + 1)
  IN IF Head(line) # "cd:" \/ first = 0 THEN name
     ELSE IF IndexOf(rest, {";"}) = 0 THEN name
     ELSE Params(From(rest, IndexOf(rest, {";"}) + 1), name)

RECURSIVE AfterHeader(_, _)
(* All the headers of a part, up to an empty line or the end *)
for_stream(is, name) ==
  IF eof(is) \/ is.past THEN [name |-> name, is |-> is]
  ELSE AfterHeader(unfold_next_header(is), name)

AfterHeader(h, name) ==
  IF h.line = <<>> THEN [name |-> name, is |-> h.is]
  ELSE for_stream(h.is, Header(h.line, name))

-----------------------------------------------------------------------------
(* parse_multipart *)
Without(text, c) == IF text # <<>> /\ Last(text) = c THEN Front(text) ELSE text

remove_final_crlf(content) ==
  IF content # <<>> /\ Last(content) = LF THEN Without(Front(content), CR) ELSE content

RECURSIVE FirstBoundary(_)
FirstBoundary(is) ==
  LET line == consume_line(is)
  IN IF eof(is) \/ is.past THEN [found |-> FALSE, is |-> is]
     ELSE IF line.type = "boundary" THEN [found |-> ~eof(line.is), is |-> line.is]
     ELSE IF line.type = "boundary_end" THEN [found |-> FALSE, is |-> line.is]
     ELSE FirstBoundary(line.is)

RECURSIVE ContentLine(_, _)
(* The content of a part, from the lines before this one on *)
ContentLine(line, content) ==
  CASE line.type = "other" /\ ~line.is.past ->
         ContentLine(consume_line(line.is), content \o line.text)
    [] line.type = "eof" \/ (line.type = "other" /\ line.is.past) ->
         [line EXCEPT !.text = Without(remove_final_crlf(content), CR)]
    [] OTHER -> [line EXCEPT !.text = remove_final_crlf(content)]

PartContent(is) == ContentLine(consume_line(is), <<>>)

RECURSIVE Parts(_, _)
RECURSIVE AfterPart(_, _)
(* The values in their order: a part without a name is dropped *)
Parts(is, data) ==
  LET cd == for_stream(is, <<>>)
  IN AfterPart(PartContent(cd.is), [before |-> data, name |-> cd.name])

AfterPart(end, part) ==
  LET data == IF part.name = <<>> THEN part.before
              ELSE Append(part.before, [key |-> part.name, value |-> end.text])
  IN IF end.type = "boundary" /\ ~eof(end.is) /\ ~end.is.past
     THEN Parts(end.is, data)
     ELSE [data |-> data, past |-> end.is.past]

PartsAfter(first) ==
  IF first.found THEN Parts(first.is, <<>>)
  ELSE [data |-> <<>>, past |-> first.is.past]

parse_multipart(bufs) == PartsAfter(FirstBoundary(Open(bufs)))
=============================================================================
