--------------------------- MODULE MCRequestData ----------------------------
(* Values for TLC.  Bodies: parts and fields whose contents are empty,     *)
(* look like a boundary, or need an escape, and all form bodies of up to   *)
(* MaxRaw characters.  Requests: one field of two addresses in any form,   *)
(* two fields of one, cookies, and Accept headers of up to three ranges.   *)
EXTENDS RequestData

CONSTANT MaxRaw

MCBoundary == <<"B", "c">>

Media == <<"multipart", "/", "form-data">>

Param == {<<";", "boundary", "=", "B", "c">>, <<";", Space, "boundary", "=", DQ, "B", "\\", "c", DQ>>}

Filler == {<<>>, <<Space>>, <<";">>, <<";", Space, "charset", "=", DQ, ";", DQ>>,
           <<Space, ";", "x", "=", "boundary">>}

MCHeaders ==
  {a \o Media \o f \o p \o g : a \in {<<>>, <<Space>>}, p \in Param,
                               f \in Filler \ {<<Space>>}, g \in Filler}
  \cup {<<"application", "/", "json">>, <<"application", "/", "urlencoded">>,
        <<Space, "text", "/", "plain", ";">>, <<"text", "/", "html">>}

Contents == {<<>>, <<"x">>, <<"-", "-">>, <<"-", "-", "B">>, CRLF,
             <<LF, "-", "-", "x">>, <<CR>>}

MCPartSet ==
  [name : {<<"a">>, <<"a", "b">>}, style : {"quoted"}, content : Contents]
  \cup [name : {<<"a">>}, style : {"file", "folded", "other", "token"},
        content : {<<"x">>, <<"-", "-", "B">>}]

Texts == {<<>>, <<"a">>, <<Space>>, <<"&">>, <<"%", "2">>}

MCPairSet == [key : Texts, value : Texts]

MCRaws == BoundedSeq({"a", "=", "&", "+", "%", "2", "6"}, MaxRaw)

-----------------------------------------------------------------------------
Addr(af, hi) == [af |-> af, hi |-> hi, loop |-> FALSE, mapped |-> FALSE]

MCPton ==
  (<<"8", ".">> :> Addr("v4", 2056)) @@ (<<"1", ".">> :> Addr("v4", 2560)) @@
  (<<"3", ".">> :> Addr("v4", 44063)) @@ (<<"4", ".">> :> Addr("v4", 44064)) @@
  (<<"2", ":", ":">> :> Addr("v6", 8193)) @@ (<<"f", ":", ":">> :> Addr("v6", 65216)) @@
  (<<":", ":", "1">> :> [Addr("v6", 0) EXCEPT !.loop = TRUE]) @@
  (<<":", ":", "m">> :> [Addr("v6", 49320) EXCEPT !.mapped = TRUE])

Elem(text, style) == [text |-> text, style |-> style]

Elems == {Elem(t, s) : t \in DOMAIN MCPton \cup {<<"?">>, <<>>},
                       s \in {"plain", "port", "spaced", "bracket"}}

Field(key, elems) == [key |-> key, elems |-> elems, pairs |-> <<>>]

Host == Field("host", <<Elem(<<"h">>, "plain")>>)

MCPlainRequest ==
  [fields |-> <<Host>>, args |-> <<"a", "=", "%", "2", "5">>, configured |-> "none",
   remote |-> MCPton[<<"1", ".">>], accept |-> <<"absent">>, head |-> FALSE]

Request(fields) == [MCPlainRequest EXCEPT !.fields = fields]

OneField == {Request(<<Field(n, e)>>) : n \in {"x-forwarded-for", "forwarded"},
                                        e \in BoundedSeq(Elems, 1) \cup
                                              {<<a, b>> : a \in Elems, b \in {Elem(t, "plain") : t \in DOMAIN MCPton}}}

TwoFields ==
  {[Request(<<Field(n, <<Elem(s, "plain")>>), Field(m, <<Elem(t, "plain")>>)>>)
      EXCEPT !.configured = c, !.remote = r] :
     n \in {"x-real-ip", "forwarded", "x-forwarded-for"}, m \in {"x-real-ip", "forwarded", "x-forwarded-for"},
     s \in {<<"8", ".">>, <<"1", ".">>, <<"f", ":", ":">>, <<"?">>},
     t \in {<<"4", ".">>, <<"3", ".">>, <<"?">>},
     c \in {"none", "x-real-ip"},
     r \in {NoAddr, Addr("v4", 2057), Addr("v6", 64769)}}

Pair(k, v) == [key |-> k, value |-> v]

Jar(pairs) == [key |-> "cookie", elems |-> <<>>, pairs |-> pairs]

CookieFields ==
  {Request(<<Host>> \o fs) :
     fs \in BoundedSeq({Jar(<<Pair(<<"a">>, <<"x">>)>>),
                        Jar(<<Pair(<<"a">>, <<"&">>), Pair(<<"b">>, <<>>)>>),
                        Host, Field("via", <<Elem(<<"v">>, "plain")>>)}, 3)}

MediaRange(type, subtype, params) == <<type, "/", subtype>> \o params

Ranges == {MediaRange("text", "html", <<>>), MediaRange("text", "*", <<Space, ";", "q=", "9">>),
           MediaRange("*", "*", <<";", "q=", "5">>), MediaRange("application", "json", <<";", "q=", "9">>),
           MediaRange("application", "*", <<";", Space, "q=", "5">>), MediaRange("image", "*", <<>>),
           MediaRange("text", "html", <<";", "q=", "x">>)}

AcceptHeaders ==
  {[Request(<<Host, Field("accept", <<Elem(<<"*">>, "plain")>>)>>)
      EXCEPT !.accept = Joined(rs), !.head = h] :
     rs \in BoundedSeq(Ranges, 3), h \in BOOLEAN}

MCRequests == OneField \cup TwoFields \cup CookieFields \cup AcceptHeaders \cup {MCPlainRequest}

MCQValues == ("5" :> 5) @@ ("9" :> 9) @@ ("0" :> 0)

-----------------------------------------------------------------------------
MCPlainResult == [match |-> FALSE, keep |-> "no", events |-> 0, attrs |-> <<>>, actions |-> <<>>]

Action(key, status, type, location) ==
  [key |-> key, status |-> status, type |-> type, location |-> location]

Stack == Action("generate_stack", 0, "none", "none")

Block(status, type) == Action("block_request", status, type, "none")

Redirect == Action("redirect_request", 303, "none", "/x")

Attr(key, kind, size) == [key |-> key, kind |-> kind, size |-> size]

MCAutoResult == [MCPlainResult EXCEPT !.match = TRUE, !.events = 1, !.actions = <<Block(403, "auto")>>]

MCResults ==
  {[MCPlainResult EXCEPT !.keep = k, !.attrs = a] :
     k \in {"yes", "no"}, a \in {<<>>, <<Attr("s", "schema", "large"), Attr("n", "number", "small")>>}}
  \cup
  {[MCPlainResult EXCEPT !.match = TRUE, !.keep = "yes", !.events = e, !.actions = a,
                         !.attrs = <<Attr("s", "schema", "small"), Attr("t", "string", "small"),
                                     Attr("u", "schema", "huge")>>] :
     e \in {0, 1},
     a \in {<<>>, <<Stack>>, <<Stack, Block(403, "html"), Redirect>>, <<Redirect, Stack>>,
            <<Block(200, "none")>>, <<Block(0, "auto")>>}}

Out(key, value, deleted) == [key |-> key, value |-> value, deleted |-> deleted]

MCPlainResponse == [status |-> 200, headers |-> <<>>, body |-> FALSE, type |-> <<>>, length |-> -1]

OutFields == {Out("content-language", <<"1">>, FALSE), Out("content-language", <<"2">>, TRUE),
              Out("link", <<"3">>, FALSE), Out("set-cookie", <<"4">>, FALSE)}

(* A header that comes twice is not deleted the first time *)
MCResponses ==
  {[MCPlainResponse EXCEPT !.headers = <<Out("content-language", <<"0">>, FALSE)>> \o hs] :
     hs \in BoundedSeq(OutFields, 3)}
  \cup [status : {0, 99, 100, 404, 599, 600}, headers : {<<>>}, body : BOOLEAN,
        type : {<<>>, <<"text">>}, length : {-1, 7}]
=============================================================================
