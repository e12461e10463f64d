----------------------------- MODULE Collection -----------------------------
(***************************************************************************)
(* What the WAF is given of a request and of its response                  *)
(* (security/collection.cpp, with the iterators of security/decode.h): the *)
(* query, the headers without the cookies, the cookies, and at the end the *)
(* status, the response headers and the body.                              *)
(*                                                                         *)
(* A header has a lowercase key, a value, and deleted, which is hash = 0   *)
(* of a response header.                                                   *)
(***************************************************************************)
EXTENDS UrlEncoded

Excluded(header, exclude) == header.key = exclude

(* HeaderKeyValueIter: operator++ goes over the excluded header, the       *)
(* constructor and reset() stay at the first header whatever it is         *)
HeaderItems(headers, exclude) ==
  LET at == SelectSeq([i \in DOMAIN headers |-> i],
                      LAMBDA i : i = 1 \/ ~Excluded(headers[i], exclude))
  IN [j \in DOMAIN at |-> [key   |-> headers[at[j]].key,
                           value |-> headers[at[j]].value,
                           del   |-> headers[at[j]].deleted]]

set_request_headers_nocookies(headers) ==
  set_value_from_iter(HeaderItems(headers, "cookie"))

set_response_headers_no_cookies(headers) ==
  set_value_from_iter(HeaderItems(headers, "set-cookie"))

set_request_query(args) ==
  IF args = <<>> THEN <<>> ELSE set_value_from_iter(QueryStringIter(args, "&", FALSE))

(* Mutant: only the first Cookie header is read *)
CookieItems_First(values) ==
  IF values = <<>> THEN <<>> ELSE QueryStringIter(values[1], ";", TRUE)

(* qs_iter_agg after reset(): the pairs of all Cookie headers *)
CookieItems(values) ==
  FlattenSeq([i \in DOMAIN values |-> QueryStringIter(values[i], ";", TRUE)])

(* In the first pass an empty first header has a pair: add() does not go   *)
(* over it.  Its entry is allocated and never written.                     *)
SpareEntry(values) ==
  IF values # <<>> /\ values[1] = <<>>
     /\ ~\E i \in DOMAIN CookieItems(values) : CookieItems(values)[i].key = <<>>
  THEN <<Object(<<>>, 1, 0)>> ELSE <<>>

set_request_cookie(values) ==
  set_value_from_iter(CookieItems(values)) \o SpareEntry(values)

(* The digits of the status *)
set_response_status(status) ==
  IF status < 100 \/ status > 599 THEN <<0>>
  ELSE <<status \div 100, (status \div 10) % 10, status % 10>>

(* serialize_end: the addresses *)
serialize_end(body, schema) ==
  <<"server.response.status", "server.response.headers.no_cookies">>
  \o (IF body THEN <<"server.response.body">> ELSE <<>>)
  \o (IF schema THEN <<"waf.context.processor">> ELSE <<>>)
=============================================================================
