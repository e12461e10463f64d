---------------------------- MODULE BodyParsing -----------------------------
(***************************************************************************)
(* The inspection of a request body: the Content-Type header (header.cpp), *)
(* the choice of a parser and the readers of the buffered chain            *)
(* (security/body_parse/body_parsing.cpp, body_json.cpp), composed with    *)
(* the parsers of Multipart, UrlEncoded and JsonBody.                      *)
(*                                                                         *)
(* A client writes a form, the filter buffers it as a chain of buffers of  *)
(* any lengths, all of it or only the beginning (the filter runs the WAF   *)
(* once it has enough), and a WAF thread parses the chain.  The last       *)
(* buffer of a body that is complete may be empty: it carries last_buf.    *)
(***************************************************************************)
EXTENDS Multipart, JsonBody

CONSTANTS
  Headers,       \* Content-Type values, sequences of words and delimiters
  PartSet,       \* multipart parts: name, how its header is written, content
  PairSet,       \* form fields: key and value
  Raws,          \* form bodies that no client library would write
  MaxParts, MaxPairs

VARIABLES
  step,      \* header, write, buffered or done
  ct,        \* the Content-Type header
  form,      \* what the client wrote: parts or fields
  whole,     \* the body is complete
  chain,     \* the buffered chain
  result     \* what parse_body_req leaves for the WAF

vars == <<step, ct, form, whole, chain, result, jsonVars>>

-----------------------------------------------------------------------------
(* HttpContentType::for_string *)
Delims == {"/", ";", "=", DQ, "\\", ","} \cup Ws

RECURSIVE consume_ows(_)
consume_ows(sv) == IF sv # <<>> /\ Head(sv) \in Ws THEN consume_ows(Tail(sv)) ELSE sv

(* consume_wg_token: the length of the longest token, 0 if there is none *)
TokenLen(sv) ==
  IF \E i \in DOMAIN sv : sv[i] \in Delims THEN IndexOf(sv, Delims) - 1 ELSE Len(sv)

(* consume_9110_quoted_string, of a text that starts with a quote *)
consume_quoted(sv) ==
  LET RECURSIVE chars(_, _)
      chars(s, value) ==
        IF s = <<>> \/ s = <<"\\">> THEN [ok |-> FALSE, value |-> <<>>, rest |-> <<>>]
        ELSE IF Head(s) = DQ THEN [ok |-> TRUE, value |-> value, rest |-> Tail(s)]
        ELSE IF Head(s) = "\\" THEN chars(SubSeq(s, 3, Len(s)), Append(value, s[2]))
        ELSE chars(Tail(s), Append(value, Head(s)))
  IN chars(Tail(sv), <<>>)

NoContentType == [ok |-> FALSE, boundary |-> <<>>]

consume_token(sv) ==
  LET n == TokenLen(sv)
  IN [ok |-> n # 0, value |-> SubSeq(sv, 1, n), rest |-> From(sv, n + 1)]

consume_value(sv) == IF Head(sv) = DQ THEN consume_quoted(sv) ELSE consume_token(sv)

RECURSIVE Parameters(_, _)
Parameters(header, boundary) ==
  LET sv == consume_ows(header)
      param == consume_ows(Tail(sv))
      name == consume_token(param)
      value == consume_value(Tail(name.rest))
  IN IF sv = <<>> THEN [ok |-> TRUE, boundary |-> boundary]
     ELSE IF Head(sv) # ";" THEN NoContentType
     ELSE IF param = <<>> THEN [ok |-> TRUE, boundary |-> boundary]
     ELSE IF ~name.ok THEN Parameters(param, boundary)
     ELSE IF Len(name.rest) < 2 \/ Head(name.rest) # "=" THEN NoContentType
     ELSE IF ~value.ok THEN NoContentType
     ELSE Parameters(value.rest,
                     IF name.value = <<"boundary">> THEN value.value ELSE boundary)

for_string(header) ==
  LET sv == consume_ows(header)
      type == consume_token(sv)
      subtype == consume_token(Tail(type.rest))
  IN IF ~type.ok \/ type.rest = <<>> \/ Head(type.rest) # "/" THEN NoContentType
     ELSE IF ~subtype.ok THEN NoContentType
     ELSE Parameters(subtype.rest, <<>>)

(* is_content_type: the media type, followed by a delimiter or nothing *)
is_content_type(header, type, subtype) ==
  LET sv == consume_ows(header)
  IN /\ Len(sv) >= 3 /\ SubSeq(sv, 1, 3) = <<type, "/", subtype>>
     /\ \A i \in {4} \cap DOMAIN sv : sv[i] \in Ws \cup {";"}

-----------------------------------------------------------------------------
(* The readers of a chain: linearize_chain, by NgxChainInputStream::read,  *)
(* and the stream given to RapidJSON, which looks at its limit only when   *)
(* it moves to the next buffer                                             *)
linearize_chain(bufs_, size) == SubSeq(FlattenSeq(bufs_), 1, size)

Advances(read, size, limit) == read < limit

RECURSIVE Rapid(_, _, _)
Rapid(bufs_, limit, taken) ==
  IF bufs_ = <<>> THEN taken
  ELSE LET now == taken \o Head(bufs_)
       IN IF Tail(bufs_) # <<>> /\ Advances(Len(now), Len(Head(bufs_)), limit)
          THEN Rapid(Tail(bufs_), limit, now) ELSE now

SizeOf(bufs_) == Len(FlattenSeq(bufs_))

-----------------------------------------------------------------------------
Nothing == [kind |-> "nothing", values |-> <<>>, past |-> FALSE]

MapOf(m) ==
  [kind   |-> IF m.data = <<>> THEN "nothing" ELSE "map",
   values |-> Grouped(m.data), past |-> m.past]

(* parse_body_req, but for JSON *)
parse_body_req ==
  IF is_content_type(ct, "multipart", "form-data")
  THEN IF for_string(ct).ok THEN MapOf(parse_multipart(chain)) ELSE Nothing
  ELSE IF is_content_type(ct, "text", "plain")
  THEN [kind |-> "text", values |-> linearize_chain(chain, SizeOf(chain)), past |-> FALSE]
  ELSE IF is_content_type(ct, "application", "urlencoded")
  THEN [kind   |-> "map",
        values |-> FormValues(parse_urlencoded(linearize_chain(chain, SizeOf(chain)))),
        past   |-> FALSE]
  ELSE Nothing

-----------------------------------------------------------------------------
(* The client: how a form is written *)
CRLF == <<CR, LF>>

HeaderOf(part) ==
  LET name == CASE part.style = "token"  -> <<"name=">> \o part.name
                [] part.style \in {"quoted", "other", "folded"} ->
                     <<"name=", DQ>> \o part.name \o <<DQ>>
                [] part.style = "file" ->
                     <<"f", "=", DQ, ";", DQ, ";", "name=", DQ>> \o part.name \o <<DQ>>
      cd == <<"cd:", Space, "f", ";">>
  IN CASE part.style = "folded" -> cd \o CRLF \o <<Space>> \o name \o CRLF
       [] part.style = "other" -> <<"x", "=", ";">> \o CRLF \o cd \o name \o CRLF
       [] OTHER -> cd \o <<Space>> \o name \o CRLF

WrittenParts ==
  FlattenSeq([i \in DOMAIN form |->
                Delimiter \o CRLF \o HeaderOf(form[i]) \o CRLF
                \o form[i].content \o CRLF])
  \o Delimiter \o <<"-", "-">> \o CRLF

Escape(c) ==
  CASE c = "&" -> <<"%", "2", "6">> [] c = "%" -> <<"%", "2", "5">>
    [] c = Space -> <<"+">> [] OTHER -> <<c>>

Escaped(text) == FlattenSeq([i \in DOMAIN text |-> Escape(text[i])])

WrittenPairs ==
  LET field(i) == Escaped(form[i].key) \o <<"=">> \o Escaped(form[i].value)
  IN FlattenSeq([i \in DOMAIN form |->
                   IF i = 1 THEN field(i) ELSE <<"&">> \o field(i)])

IsMultipart == is_content_type(ct, "multipart", "form-data")

IsForm == is_content_type(ct, "application", "urlencoded")

Init ==
  /\ step = "header" /\ ct \in Headers
  /\ form = <<>> /\ whole = TRUE /\ chain = <<>> /\ result = Nothing
  /\ JsonInit

(* external: the client adds to its form; only one spelling of the header  *)
(* goes on to a body                                                       *)
WritePart ==
  /\ step \in {"header", "write"} /\ IsMultipart /\ for_string(ct).ok
  /\ ct = <<"multipart", "/", "form-data", ";", "boundary", "=">> \o Boundary
  /\ Len(form) < MaxParts
  /\ \E p \in PartSet : form' = Append(form, p)
  /\ step' = "write"
  /\ UNCHANGED <<ct, whole, chain, result, jsonVars>>

WriteField ==
  /\ step \in {"header", "write"} /\ IsForm
  /\ Len(form) < MaxPairs
  /\ \E p \in PairSet : form' = Append(form, p)
  /\ step' = "write"
  /\ UNCHANGED <<ct, whole, chain, result, jsonVars>>

(* A chain of two buffers at most, of which the last may be empty *)
Split(body, i) == IF i = 0 THEN <<body>> ELSE <<SubSeq(body, 1, i), From(body, i + 1)>>

(* external: a complete body arrives, in any buffers *)
Arrive ==
  /\ step = "write"
  /\ LET body == IF IsMultipart THEN WrittenParts ELSE WrittenPairs
     IN \E i \in 0..Len(body) : chain' = Split(body, i)
  /\ step' = "buffered"
  /\ UNCHANGED <<ct, form, whole, result, jsonVars>>

(* external: the filter has enough of a body before its end *)
ArriveCut ==
  /\ step = "write" /\ IsMultipart
  /\ \E n \in 1..(Len(WrittenParts) - 1) : chain' = <<SubSeq(WrittenParts, 1, n)>>
  /\ whole' = FALSE /\ step' = "buffered"
  /\ UNCHANGED <<ct, form, result, jsonVars>>

(* external: some other body; one stands for all those that are no form *)
ArriveRaw ==
  /\ step = "header" /\ ~IsMultipart
  /\ \E body \in IF IsForm THEN Raws ELSE {<<"a", "b">>} :
       \E i \in 0..1 : i <= Len(body) /\ chain' = Split(body, i)
  /\ step' = "buffered"
  /\ UNCHANGED <<ct, form, whole, result, jsonVars>>

(* parse_body_req in the WAF thread *)
Parse ==
  /\ step = "buffered"
  /\ IF is_content_type(ct, "application", "json")
     THEN json' = "reading" /\ UNCHANGED result
     ELSE result' = parse_body_req /\ UNCHANGED json
  /\ step' = "done"
  /\ UNCHANGED <<ct, form, whole, chain, heap, free, bufs, open, events>>

JsonNext ==
  /\ JsonEvent \/ JsonFinish
  /\ UNCHANGED <<step, ct, form, whole, chain, result>>

Next ==
  \/ WritePart \/ WriteField
  \/ Arrive \/ ArriveCut \/ ArriveRaw
  \/ Parse
  \/ JsonNext

Spec == Init /\ [][Next]_vars

-----------------------------------------------------------------------------
(* However a Content-Type is written (spaces, empty and other parameters,  *)
(* a quoted boundary with escapes), the boundary that is found is the      *)
(* boundary of the client.                                                 *)
BoundaryFound == IsMultipart => for_string(ct) = [ok |-> TRUE, boundary |-> Boundary]

(* A parser of a chain never reads a byte that is in none of its buffers,  *)
(* although an end of the chain may be an empty buffer.                    *)
ReadsOnlyTheBody == ~result.past

(* The three ways to read a chain deliver the same body, whatever its      *)
(* buffers: the stream of RapidJSON has all that a limit allows, and no    *)
(* buffer that starts after it.                                            *)
ReadersAgree ==
  step = "buffered" =>
    \A limit \in 1..SizeOf(chain) :
      LET rapid == Rapid(chain, limit, <<>>)
      IN /\ IsPrefix(linearize_chain(chain, limit), rapid)
         /\ IsPrefix(rapid, FlattenSeq(chain))
         /\ Len(chain[1]) >= limit => rapid = chain[1]

ItemsOf(parts) ==
  [i \in DOMAIN parts |-> [key |-> parts[i].name, value |-> parts[i].content]]

(* The WAF sees the parts of a complete multipart body as the client wrote *)
(* them: every value under its name, in order, whatever the buffers, the   *)
(* form of the part headers, and however similar to a boundary a content   *)
(* is.                                                                     *)
PartsRecovered ==
  step = "done" /\ IsMultipart /\ whole => result.values = Grouped(ItemsOf(form))

(* A body that was cut shows the WAF nothing that the client did not       *)
(* write: of every name the first values, the last of them perhaps         *)
(* shortened.                                                              *)
CutIsPrefix ==
  step = "done" /\ IsMultipart /\ ~whole =>
    LET sent == Grouped(ItemsOf(form))
    IN \A name \in DOMAIN result.values :
         /\ name \in DOMAIN sent
         /\ LET seen == result.values[name]
            IN /\ Len(seen) <= Len(sent[name])
               /\ IsPrefix(Front(seen), sent[name])
               /\ IsPrefix(Last(seen), sent[name][Len(seen)])

(* The fields of a form are the ones the client wrote, decoded, with the   *)
(* values of a repeated key in their order.                                *)
FormRecovered ==
  step = "done" /\ IsForm /\ form # <<>> => result.values = Grouped(form)

(* Any text is seen as the same parameters in a body as in a query: the    *)
(* two implementations of the two-pass grouping agree, fill every object   *)
(* they allocate and write no other.                                       *)
QueryAgreesWithBody ==
  step = "done" /\ IsForm =>
    LET items == QueryStringIter(FlattenSeq(chain), "&", FALSE)
    IN /\ EntryValues(set_value_from_iter(items)) = result.values
       /\ result.values = Grouped(items)

(* The WAF sees a multipart body or a form as the client wrote it,         *)
(* whatever the buffers it arrives in: the boundary, every name and value, *)
(* of a cut body a prefix, and no byte that is not of the body.            *)
BodySeen ==
  /\ BoundaryFound /\ ReadsOnlyTheBody /\ ReadersAgree
  /\ PartsRecovered /\ CutIsPrefix
  /\ FormRecovered /\ QueryAgreesWithBody
=============================================================================
