------------------------------ MODULE Blocking ------------------------------
(***************************************************************************)
(* The blocking response: what the actions of the WAF ask for              *)
(* (resolve_block_spec, security/ddwaf_req.cpp) and how it is answered     *)
(* (security/blocking.cpp).  An Accept header is a sequence of words and   *)
(* delimiters; a q-value is a word for tenths of one.                      *)
(***************************************************************************)
EXTENDS UrlEncoded, Integers

CONSTANT QValues     \* function from the words that are numbers to tenths

NoSpec == [status |-> 0, ct |-> "nothing", location |-> "none"]

Failed == [status |-> -1, ct |-> "thrown", location |-> "none"]

(* Action: its parameters; a status is a number, a numeral or neither *)
create_block_request_action(act) ==
  IF act.status = 0 THEN Failed
  ELSE [status |-> act.status, location |-> "none",
        ct |-> IF act.type \in {"auto", "html", "json", "none"} THEN act.type ELSE "auto"]

create_redirect_request_action(act) ==
  IF act.status = 0 THEN Failed
  ELSE [status |-> act.status, ct |-> "none", location |-> act.location]

(* Mutant: the last action decides *)
Deciding_Last(actions) ==
  IF actions = <<>> THEN <<>>
  ELSE SelectSeq(<<Last(actions)>>, LAMBDA a : a.key \in {"block_request", "redirect_request"})

(* The actions that can decide, in their order *)
Deciding(actions) ==
  SelectSeq(actions, LAMBDA a : a.key \in {"block_request", "redirect_request"})

resolve_block_spec(actions) ==
  LET of == Deciding(actions)
  IN IF of = <<>> THEN NoSpec
     ELSE IF of[1].key = "block_request" THEN create_block_request_action(of[1])
     ELSE create_redirect_request_action(of[1])

-----------------------------------------------------------------------------
Trim(sv) == Reverse(TrimLeft(Reverse(TrimLeft(sv))))

(* AcceptEntryIter::operator*: the q parameter is found only as the first, *)
(* or after a space; a value that is not in (0, 1] counts as one           *)
QOf(params) ==
  LET q == SelectInSeq(params, LAMBDA c : c = "q=")
      word == SubSeq(params, q + 1, q + 1)
  IN IF q = 0 \/ (q > 1 /\ params[IF q > 1 THEN q - 1 ELSE 1] # Space) THEN 10
     ELSE IF word # <<>> /\ word[1] \in DOMAIN QValues /\ QValues[word[1]] \in 1..10
     THEN QValues[word[1]] ELSE 10

AcceptEntry(text) ==
  IF ~Contains(text, "/") THEN [type |-> <<>>, subtype |-> <<>>, q |-> 10]
  ELSE LET rest == After(text, "/")
       IN [type |-> Trim(Before(text, "/")), subtype |-> Trim(Before(rest, ";")),
           q |-> QOf(After(rest, ";"))]

Entries(accept) == [i \in DOMAIN Segments(accept, ",") |->
                      AcceptEntry(Segments(accept, ",")[i])]

(* How well a media range fits the type: 0 not at all, 3 it is the type *)
Specificity(e, type, subtype) ==
  CASE e.type = <<"*">> /\ e.subtype = <<"*">> -> 1
    [] e.type = <<type>> /\ e.subtype = <<"*">> -> 2
    [] e.type = <<type>> /\ e.subtype = <<subtype>> -> 3
    [] OTHER -> 0

first_is_more_specific(a, b) == a > b

(* The loop of determine_ct, for one of the two types *)
Best(entries, type, subtype) ==
  LET step(best, pos) ==
        LET spec == Specificity(entries[pos], type, subtype)
        IN IF spec > 0 /\ first_is_more_specific(spec, best.spec)
           THEN [spec |-> spec, q |-> entries[pos].q, pos |-> pos] ELSE best
  IN FoldLeft(step, [spec |-> 0, q |-> 0, pos |-> 1], [pos \in DOMAIN entries |-> pos])

determine_ct(accept) ==
  LET entries == Entries(accept)
      json == Best(entries, "application", "json")
      html == Best(entries, "text", "html")
  IN IF accept = <<"absent">> THEN "json"
     ELSE IF html.q # json.q THEN (IF html.q > json.q THEN "html" ELSE "json")
     ELSE IF html.pos < json.pos THEN "html" ELSE "json"

resolve_content_type(spec, accept) ==
  IF spec.ct = "auto" THEN determine_ct(accept) ELSE spec.ct

NoResponse == [status |-> 0, ct |-> "nothing", location |-> "none", body |-> "none",
               length |-> FALSE]

(* req.header_only, which nginx sets for a HEAD request *)
Bodyless(ct, head) == ct = "none" \/ head

(* block(): the response that goes to the next filters *)
block(spec, accept, head) ==
  LET ct == resolve_content_type(spec, accept)
      only == Bodyless(ct, head)
  IN [status |-> spec.status, ct |-> ct, location |-> spec.location,
      body |-> IF only THEN "none" ELSE ct, length |-> only]
=============================================================================
