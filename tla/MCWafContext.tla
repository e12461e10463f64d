---------------------------- MODULE MCWafContext ----------------------------
EXTENDS WafExchange

(* With a thread pool: an upstream or a static file, bodies that are empty *)
(* or longer than kMaxFilterData, HEAD, and a handler that returns 204.    *)
(* Without one, the filters only pass everything on.                       *)
MCConfigs ==
  {c \in [pool : {TRUE}, upstream : BOOLEAN, head : BOOLEAN,
          noContent : BOOLEAN, http2 : BOOLEAN, parse : BOOLEAN,
          reqBody : {<< >>, <<0>>, <<1, 1, 1, 1>>},
          respBody : {<<0>>, <<1, 1, 1>>}] :
     /\ c.noContent => ~c.upstream /\ ~c.head
     /\ c.noContent \/ (c.head /\ c.upstream) => c.respBody = <<0>>}
  \cup
  [pool : {FALSE}, upstream : BOOLEAN, head : {FALSE}, noContent : {FALSE},
   http2 : {FALSE}, parse : {TRUE}, reqBody : {<<1, 1>>},
   respBody : {<<1, 1>>}]

=============================================================================
