------------------------------ MODULE ClientIp ------------------------------
(***************************************************************************)
(* The address of the client (security/client_ip.cpp): from the header the *)
(* configuration names, or from the first of eleven headers that has a     *)
(* public address, or from the connection.                                 *)
(*                                                                         *)
(* A header value is a sequence of characters; "for" stands for the three  *)
(* letters, in any case.  Pton is what inet_pton makes of a text.  An      *)
(* address has a family, its first sixteen bits, and whether the rest is   *)
(* that of the loopback address.                                           *)
(***************************************************************************)
EXTENDS UrlEncoded, Bitwise

CONSTANT Pton     \* function from the texts that are addresses to addresses

NoAddr == [af |-> "none", hi |-> 0, loop |-> FALSE, mapped |-> FALSE]

(* IpAddr::from_string: an IPv4 address mapped to IPv6 is an IPv4 address *)
from_string(text, af) ==
  IF text \notin DOMAIN Pton \/ af \notin {"any", Pton[text].af} THEN NoAddr
  ELSE IF Pton[text].mapped THEN [Pton[text] EXCEPT !.af = "v4", !.mapped = FALSE]
  ELSE Pton[text]

In16(hi, base, mask) == (hi & mask) = base

is_private_v4(a) ==
  \E range \in {<<2560, 65280>>, <<44048, 65520>>, <<49320, 65535>>,
                <<32512, 65280>>, <<43518, 65535>>, <<25664, 65472>>} :
    In16(a.hi, range[1], range[2])

is_private_v6(a) ==
  \/ a.loop
  \/ \E range \in {<<65152, 65472>>, <<65216, 65472>>, <<64768, 65280>>, <<64512, 65024>>} :
       In16(a.hi, range[1], range[2])

is_private(a) == IF a.af = "v4" THEN is_private_v4(a) ELSE is_private_v6(a)

Positions(text, c) == {i \in DOMAIN text : text[i] = c}

(* A bracket is read up to and with its closing one, which no address has *)
parse_ip_address_maybe_port_pair(text) ==
  IF text = <<>> THEN NoAddr
  ELSE IF text[1] = "["
  THEN IF Contains(text, "]")
       THEN from_string(Append(Before(Tail(text), "]"), "]"), "v6") ELSE NoAddr
  ELSE IF Cardinality(Positions(text, ":")) = 1 THEN from_string(Before(text, ":"), "v4")
  ELSE from_string(text, "any")

-----------------------------------------------------------------------------
(* The result of a parser is an address or none; of several results the    *)
(* first public one is taken, or else the first private one                *)
Public(a) == a.af # "none" /\ ~is_private(a)

FirstWhere(addrs, public) ==
  LET of == SelectSeq(addrs, LAMBDA a : a.af # "none" /\ Public(a) = public)
  IN IF of = <<>> THEN NoAddr ELSE of[1]

(* Mutant: the first address is taken *)
Pick_First(addrs) ==
  LET of == SelectSeq(addrs, LAMBDA a : a.af # "none")
  IN IF of = <<>> THEN NoAddr ELSE of[1]

Pick(addrs) ==
  LET public == FirstWhere(addrs, TRUE)
  IN IF public # NoAddr THEN public ELSE FirstWhere(addrs, FALSE)

parse_multiple_maybe_port_sv(value) ==
  LET elems == IF value = <<>> THEN <<<<>>>> ELSE Segments(value, ",")
  IN Pick([i \in DOMAIN elems |-> parse_ip_address_maybe_port_pair(TrimLeft(elems[i]))])

Separators == {Space, ";", ","}

Quote == "\""

RECURSIVE Forwarded(_, _, _, _, _)
(* The loop of parse_forwarded_sv: the values of the for parameters.  A    *)
(* token that ends the value is read at its last character.                *)
Forwarded(value, r, state, start, considered) ==
  LET c == value[r]
      next(s, from, vals) == Forwarded(value, r + 1, s, from, vals)
      isFor == considered.key = <<"for">>
      add(to) == IF isFor
                 THEN [considered EXCEPT !.vals = Append(@, SubSeq(value, start, to))]
                 ELSE considered
  IN IF r > Len(value) THEN considered.vals
     ELSE CASE state = "between" ->
                 IF c \in Separators THEN next("between", start, considered)
                 ELSE next("key", r, considered)
            [] state = "key" ->
                 IF c # "=" THEN next("key", start, considered)
                 ELSE next("before", start,
                           [considered EXCEPT !.key = SubSeq(value, start, r - 1)])
            [] state = "before" ->
                 IF c = Quote THEN next("quoted", r + 1, considered)
                 ELSE IF c \in Separators THEN next("between", start, considered)
                 ELSE next("token", r, considered)
            [] state = "token" ->
                 IF c \in Separators THEN next("between", start, add(r - 1))
                 ELSE IF r = Len(value) THEN next("between", start, add(r))
                 ELSE next("token", start, considered)
            [] state = "quoted" ->
                 IF c = Quote THEN next("between", start, add(r - 1))
                 ELSE IF c = "\\" THEN Forwarded(value, r + 2, "quoted", start, considered)
                 ELSE next("quoted", start, considered)

parse_forwarded_sv(value) ==
  LET texts == Forwarded(value, 1, "between", 1, [key |-> <<>>, vals |-> <<>>])
  IN Pick([i \in DOMAIN texts |-> parse_ip_address_maybe_port_pair(texts[i])])

(* parse_multiple, over the occurrences of a header *)
ParseValue(parser, value) ==
  IF parser = "forwarded" THEN parse_forwarded_sv(value)
  ELSE parse_multiple_maybe_port_sv(value)

parse_multiple(parser, values) ==
  Pick([i \in DOMAIN values |-> ParseValue(parser, values[i])])

kPriorityHeaderArr ==
  <<"x-forwarded-for", "x-real-ip", "true-client-ip", "x-client-ip", "x-forwarded",
    "forwarded", "forwarded-for", "x-cluster-client-ip", "fastly-client-ip",
    "cf-connecting-ip", "cf-connecting-ipv6">>

ParserOf(name) == IF name \in {"x-forwarded", "forwarded"} THEN "forwarded" ELSE "multiple"

(* index_headers: the values of a header, in their order *)
ValuesOf(headers, name) ==
  LET of == SelectSeq(headers, LAMBDA h : h.key = name)
  IN [i \in DOMAIN of |-> of[i].value]

(* The header of the configuration: only its first occurrence counts *)
ResolveConfigured(headers, name) ==
  LET values == ValuesOf(headers, name)
      first == SubSeq(values, 1, 1)
      forwarded == parse_multiple("forwarded", first)
  IN IF values = <<>> THEN NoAddr
     ELSE IF forwarded # NoAddr THEN forwarded
     ELSE parse_multiple("multiple", first)

(* No header has a public address *)
Fallback(header, remote) ==
  IF remote # NoAddr /\ (Public(remote) \/ header = NoAddr) THEN remote ELSE header

resolve(headers, configured, remote) ==
  LET found == Pick([i \in DOMAIN kPriorityHeaderArr |->
                       LET name == kPriorityHeaderArr[i]
                       IN parse_multiple(ParserOf(name), ValuesOf(headers, name))])
  IN IF configured # "none" THEN ResolveConfigured(headers, configured)
     ELSE IF Public(found) THEN found
     ELSE Fallback(found, remote)
=============================================================================
