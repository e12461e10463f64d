---------------------------- MODULE RequestData -----------------------------
(***************************************************************************)
(* The data of one request through the WAF: what the three tasks collect   *)
(* (run_waf_start, run_waf_req_post and run_waf_end, context.cpp), the     *)
(* runs and what they leave in the DdwafContext (ddwaf_req.cpp), the       *)
(* blocking response, and the report at the end (do_on_main_log_request,   *)
(* header_tags.cpp).  It composes ClientIp, Collection, BodyParsing and    *)
(* Blocking; when the tasks run, and on which thread, is WafContext's.     *)
(*                                                                         *)
(* The WAF itself, libddwaf, is external: a run returns any of Results.    *)
(* Only one of the three inputs (the request, the body, the results) takes *)
(* all its values in a behaviour: focus says which, and bounds the model.  *)
(***************************************************************************)
EXTENDS BodyParsing, ClientIp, Collection, Blocking

CONSTANTS
  Requests,      \* requests: header fields as written, args, remote address
  Results,       \* what a run of the WAF may return
  Responses,     \* header fields, status
  PlainRequest, PlainResult, PlainResponse,    \* one of each
  AutoResult     \* a result that blocks, for every Accept header

VARIABLES
  focus,
  at,        \* access, body, response, log, end
  request, response,
  data,      \* what the WAF was given, by address
  waf,       \* the DdwafContext
  ran,       \* history: the results of the runs
  reply,     \* the blocking response, if there is one
  span       \* what was reported

ownVars == <<focus, at, request, response, data, waf, ran, reply, span>>

dataVars == <<ownVars, vars>>

-----------------------------------------------------------------------------
(* How the fields of a request are written: a header field is a key and a  *)
(* sequence of elements, whose form depends on the header                  *)
Listed(elem) ==
  CASE elem.style = "port"    -> elem.text \o <<":", "8">>
    [] elem.style = "bracket" -> <<"[">> \o elem.text \o <<"]", ":", "8">>
    [] elem.style = "spaced"  -> <<Space>> \o elem.text
    [] OTHER -> elem.text

ForwardedElem(elem) ==
  CASE elem.style = "port"    -> <<"for", "=", Quote>> \o elem.text \o <<":", "8", Quote>>
    [] elem.style = "bracket" -> <<"for", "=", Quote, "[">> \o elem.text \o <<"]", Quote>>
    [] elem.style = "spaced"  -> <<"by", "=", Quote, "\\", Quote, ";", Quote, ";",
                                   Space, "for", "=">> \o elem.text
    [] OTHER -> <<"for", "=">> \o elem.text \o <<";", "by", "=", "x">>

Joined(parts) ==
  FlattenSeq([i \in DOMAIN parts |-> IF i = 1 THEN parts[i] ELSE <<",">> \o parts[i]])

WrittenCookie(pairs) ==
  FlattenSeq([i \in DOMAIN pairs |->
                (IF i = 1 THEN <<>> ELSE <<";", Space>>)
                \o pairs[i].key \o <<"=">> \o Escaped(pairs[i].value)])

Written(field) ==
  [key |-> field.key, deleted |-> FALSE,
   value |-> IF field.pairs # <<>> THEN WrittenCookie(field.pairs)
             ELSE Joined([i \in DOMAIN field.elems |->
                            IF ParserOf(field.key) = "forwarded"
                            THEN ForwardedElem(field.elems[i])
                            ELSE Listed(field.elems[i])])]

HeadersIn == [i \in DOMAIN request.fields |-> Written(request.fields[i])]

Cookies == ValuesOf(HeadersIn, "cookie")

-----------------------------------------------------------------------------
(* DdwafContext.  The keys of the collected tags point into the result     *)
(* they come from: of is its number.                                       *)
NewWaf == [results |-> <<>>, keep |-> FALSE, tags |-> <<>>]

(* handle_schema and handle_non_schema_attribute: the attributes that give *)
(* a tag, and the form of its value                                        *)
TagOf(attr) ==
  CASE attr.kind = "schema" /\ attr.size = "small" -> "plain"
    [] attr.kind = "schema" /\ attr.size = "large" -> "base64"
    [] attr.kind \in {"string", "number"} -> attr.kind
    [] OTHER -> "none"

(* collected_tags_.emplace and collected_metrics_.emplace *)
Emplace(tags, tag) ==
  IF \E i \in DOMAIN tags : tags[i].key = tag.key THEN tags ELSE Append(tags, tag)

Collect(tags, attrs, n) ==
  LET add(acc, attr) ==
        IF TagOf(attr) = "none" THEN acc
        ELSE Emplace(acc, [key |-> attr.key, form |-> TagOf(attr), of |-> n])
  IN FoldLeft(add, tags, attrs)

Keep(keep, r) == IF r.keep = "missing" THEN r.match ELSE keep \/ r.keep = "yes"

(* DdwafContext::run, up to the actions *)
run(r) ==
  [results |-> Append(waf.results, r),
   keep    |-> Keep(waf.keep, r),
   tags    |-> Collect(waf.tags, r.attrs, Len(waf.results) + 1)]

SpecOf(r) == IF r.match THEN resolve_block_spec(r.actions) ELSE NoSpec

RunResults ==
  CASE focus = "results" -> Results
    [] focus = "request" -> {PlainResult, AutoResult}
    [] OTHER -> {PlainResult}

-----------------------------------------------------------------------------
(* A task's run and its completion.  If the run throws nothing is blocked. *)
Blocks(spec) == spec \notin {NoSpec, Failed}

Complete(r, thrown, next) ==
  LET spec == SpecOf(r)
  IN /\ waf' = run(r)
     /\ ran' = Append(ran, r)
     /\ reply' = IF Blocks(spec) THEN block(spec, request.accept, request.head) ELSE reply
     /\ at' = IF Blocks(spec) THEN "log" ELSE IF spec = Failed THEN thrown ELSE next

(* run_waf_start: if it throws the request stays in ENTERED_ON_START, and  *)
(* neither the WAF nor the report runs again                               *)
run_waf_start ==
  /\ at = "access"
  /\ data' = [client_ip |-> resolve(HeadersIn, request.configured, request.remote),
              query     |-> set_request_query(request.args),
              headers   |-> set_request_headers_nocookies(HeadersIn),
              cookies   |-> set_request_cookie(Cookies),
              status    |-> <<>>, addresses |-> <<>>, resp |-> <<>>]
  /\ \E r \in RunResults : Complete(r, "failed", "body")
  /\ UNCHANGED <<focus, request, response, span, vars>>

(* The request body: the steps of BodyParsing *)
ParseBody ==
  /\ at = "body" /\ Next
  /\ UNCHANGED ownVars

Parsed == step = "done" /\ json # "reading"

(* run_waf_req_post: a body that gives nothing is not shown to the WAF *)
run_waf_req_post ==
  /\ at = "body" /\ focus # "body" /\ Parsed
  /\ IF result.kind # "nothing" \/ json = "parsed"
     THEN \E r \in RunResults : Complete(r, "response", "response")
     ELSE at' = "response" /\ UNCHANGED <<waf, ran, reply>>
  /\ UNCHANGED <<focus, request, response, data, span, vars>>

(* external: the content handler responds *)
Respond ==
  /\ at = "response"
  /\ \E r \in (IF focus = "request" /\ request = PlainRequest THEN Responses
               ELSE {PlainResponse}) : response' = r
  /\ at' = "collect"
  /\ UNCHANGED <<focus, request, data, waf, ran, reply, span, vars>>

(* run_waf_end *)
run_waf_end ==
  /\ at = "collect"
  /\ \E schema \in BOOLEAN :
       data' = [data EXCEPT !.status = set_response_status(response.status),
                            !.resp = set_response_headers_no_cookies(response.headers),
                            !.addresses = serialize_end(response.body, schema)]
  /\ \E r \in RunResults : Complete(r, "log", "log")
  /\ UNCHANGED <<focus, request, response, span, vars>>

-----------------------------------------------------------------------------
(* do_on_main_log_request *)
has_matches(results) == \E i \in DOMAIN results : results[i].events > 0

(* report_matches: the events of all runs, then the results are dropped *)
Triggers(results) ==
  FlattenSeq([i \in DOMAIN results |-> [e \in 1..results[i].events |-> i]])

Dropped(results) == IF has_matches(results) THEN <<>> ELSE results

(* The argument of set_header_tags *)
HasAttack(results) == has_matches(results)

(* Mutant: the matches are reported before the tags *)
Backed_Late(results) == DOMAIN Dropped(results)

(* The results that are there when the collected tags are read *)
Backed(results) == DOMAIN results

(* Request headers: tagged always, and tagged only for an attack *)
kAlwaysTagged ==
  {"content-type", "user-agent", "accept", "x-amzn-trace-id",
   "cloudfront-viewer-ja3-fingerprint", "cf-ray", "x-cloud-trace-context",
   "x-appgw-trace-id", "x-sigsci-requestid", "x-sigsci-tags", "akamai-user-risk"}

kAttackTagged ==
  ToSet(kPriorityHeaderArr)
  \cup {"via", "content-length", "content-encoding", "content-language", "host",
        "accept-encoding", "accept-language"}

kResponseTagged == {"content-length", "content-type", "content-encoding", "content-language"}

(* The tags that set_tag and remove_tag leave: the last field of a name *)
(* decides, and a deleted one removes the tag                           *)
Tagged(headers, names) ==
  LET of == SelectSeq(headers, LAMBDA h : h.key \in names)
      last(name) == of[SelectLastInSeq(of, LAMBDA h : h.key = name)]
  IN [name \in {n \in KeysOf(of) : ~last(n).deleted} |-> last(name).value]

each_req_header(attack) ==
  Tagged(HeadersIn, kAlwaysTagged \cup (IF attack THEN kAttackTagged ELSE {}))

(* r->headers_out: block() clears what the content handler had set *)
HeadersOut ==
  IF reply = NoResponse THEN response
  ELSE [response EXCEPT !.type = IF reply.ct = "none" THEN <<>> ELSE <<reply.ct>>,
                        !.length = IF reply.length THEN 0 ELSE -1,
                        !.headers = <<>>]

(* each_resp_header, and handle_special_resp_headers after it *)
ResponseTags ==
  (IF HeadersOut.type = <<>> THEN <<>> ELSE "content-type" :> HeadersOut.type)
  @@ (IF HeadersOut.length = -1 THEN <<>> ELSE "content-length" :> <<HeadersOut.length>>)
  @@ Tagged(HeadersOut.headers, kResponseTagged)

on_main_log_request ==
  /\ at = "log"
  /\ span' = [headers  |-> each_req_header(HasAttack(waf.results)),
              resp     |-> ResponseTags,
              tags     |-> waf.tags,
              backed   |-> Backed(waf.results),
              triggers |-> Triggers(waf.results),
              keep     |-> waf.keep,
              ip       |-> data.client_ip]
  /\ waf' = [waf EXCEPT !.results = Dropped(@)]
  /\ at' = "end"
  /\ UNCHANGED <<focus, request, response, data, ran, reply, vars>>

-----------------------------------------------------------------------------
DataInit ==
  /\ Init
  /\ focus \in {"request", "body", "results"} /\ at = "access"
  /\ request \in IF focus = "request" THEN Requests ELSE {PlainRequest}
  /\ focus = "request" => ct = <<"text", "/", "html">>
  /\ focus = "results" => ct = <<Space, "text", "/", "plain", ";">>
  /\ response = PlainResponse
  /\ data = <<>> /\ waf = NewWaf /\ ran = <<>> /\ reply = NoResponse /\ span = <<>>

DataNext ==
  \/ run_waf_start
  \/ ParseBody
  \/ run_waf_req_post
  \/ Respond
  \/ run_waf_end
  \/ on_main_log_request

DataSpec == DataInit /\ [][DataNext]_dataVars

-----------------------------------------------------------------------------
(* The addresses a field names, as the client wrote them: one in brackets  *)
(* is not recognised, and a port is only with an IPv4 address              *)
Recognised(elem) ==
  /\ elem.text \in DOMAIN Pton /\ elem.style # "bracket"
  /\ elem.style = "port" => Pton[elem.text].af = "v4"

Named(field) ==
  LET of == SelectSeq(field.elems, LAMBDA e : Recognised(e))
  IN [i \in DOMAIN of |-> [Pton[of[i].text] EXCEPT
                             !.af = IF Pton[of[i].text].mapped THEN "v4" ELSE @,
                             !.mapped = FALSE]]

FieldsOf(name) == SelectSeq(request.fields, LAMBDA f : f.key = name)

AllNamed(fields) == FlattenSeq([i \in DOMAIN fields |-> Named(fields[i])])

(* The client address is, of all addresses in the order of the headers'    *)
(* priority, the first public one; without one, that of the connection if  *)
(* it is public; else the first private one, and the connection's only if  *)
(* there is none.  A configured header is the only source, and only its    *)
(* first occurrence.                                                       *)
ClientIpChosen ==
  focus = "request" /\ at # "access" =>
    LET all == FlattenSeq([i \in DOMAIN kPriorityHeaderArr |->
                             AllNamed(FieldsOf(kPriorityHeaderArr[i]))])
        own == LET of == FieldsOf(request.configured)
               IN IF of = <<>> THEN <<>> ELSE Named(of[1])
        remote == IF request.remote = NoAddr THEN <<>> ELSE <<request.remote>>
        public(addrs) == SelectSeq(addrs, LAMBDA a : ~is_private(a))
        order == IF request.configured # "none" THEN public(own) \o own
                 ELSE public(all) \o public(remote) \o all \o remote
    IN data.client_ip = IF order = <<>> THEN NoAddr ELSE order[1]

(* The WAF sees every header except Cookie, and every cookie, with all     *)
(* values of a name in their order, however many fields they come in.  (A  *)
(* Cookie field that is the first of all is among the headers too.)        *)
RequestSeen ==
  focus = "request" /\ at # "access" /\ Head(request.fields).key # "cookie" =>
    LET others == SelectSeq(HeadersIn, LAMBDA h : h.key # "cookie")
        jars == FieldsOf("cookie")
    IN /\ EntryValues(data.headers) = Grouped(others)
       /\ EntryValues(data.cookies)
            = Grouped(FlattenSeq([i \in DOMAIN jars |-> jars[i].pairs]))
       /\ Len(data.cookies) = Cardinality(DOMAIN EntryValues(data.cookies))

(* The values of a response header are those after its last deletion, and  *)
(* no Set-Cookie is among them; the status is shown as its digits, or as 0 *)
(* if it is none.                                                          *)
ResponseSeen ==
  at = "end" /\ Len(ran) > 1 /\ data.status # <<>> =>
    LET others == SelectSeq(response.headers, LAMBDA h : h.key # "set-cookie")
        kept(key) ==
          LET of == SelectSeq(others, LAMBDA h : h.key = key)
              last == SelectLastInSeq(of, LAMBDA h : h.deleted)
              after == SubSeq(of, last + 1, Len(of))
          IN IF Len(of) = 1 THEN <<of[1].value>>
             ELSE [i \in DOMAIN after |-> after[i].value]
    IN /\ EntryValues(data.resp) = [key \in KeysOf(others) |-> kept(key)]
       /\ data.status = IF response.status \notin 100..599 THEN <<0>>
                        ELSE CHOOSE d \in [1..3 -> 0..9] :
                               100 * d[1] + 10 * d[2] + d[3] = response.status

(* The WAF is given the header fields, cookies and status that were sent,  *)
(* in both directions.                                                     *)
CollectedIsSent == RequestSeen /\ ResponseSeen

(* The reference for Accept: the range that fits a type best, the first of *)
(* those that fit as well, gives its weight and its place                  *)
Fit(entries, type, subtype) ==
  LET spec(i) == Specificity(entries[i], type, subtype)
      fits == {i \in DOMAIN entries : spec(i) > 0}
      best == {i \in fits : \A j \in fits :
                 spec(i) > spec(j) \/ (spec(i) = spec(j) /\ i <= j)}
  IN IF fits = {} THEN [q |-> 0, pos |-> 1]
     ELSE CHOOSE f \in {[q |-> entries[i].q, pos |-> i] : i \in best} : TRUE

Prefers(a, b) == a.q > b.q \/ (a.q = b.q /\ a.pos < b.pos)

(* An answer of the WAF's own choosing is in the type that the client      *)
(* prefers: JSON unless HTML has a greater weight, or the same and an      *)
(* earlier place.                                                          *)
AcceptHonoured ==
  reply # NoResponse /\ focus = "request" =>
    reply.ct = IF /\ request.accept # <<"absent">>
                  /\ Prefers(Fit(Entries(request.accept), "text", "html"),
                             Fit(Entries(request.accept), "application", "json"))
               THEN "html" ELSE "json"

(* The actions of a result that ask for an answer; the first one counts *)
Asking(r) ==
  SelectSeq(r.actions, LAMBDA a : a.key \in {"block_request", "redirect_request"})

AsksToBlock(r) == r.match /\ Asking(r) # <<>> /\ Head(Asking(r)).status # 0

Answers(a) ==
  /\ reply.status = a.status
  /\ reply.location = IF a.key = "redirect_request" THEN a.location ELSE "none"
  /\ reply.body \in {"none", reply.ct}
  /\ reply.body = "none" <=> request.head \/ a.key = "redirect_request"
                             \/ a.type = "none"

(* The client gets what the first run that asks for it, by its first       *)
(* action that can, asks for: status, target and no other body than a page *)
(* of the announced type, and none for HEAD or a redirection.  After that  *)
(* the WAF is not run again.                                               *)
FirstActionDecides ==
  /\ reply = NoResponse <=> ~\E i \in DOMAIN ran : AsksToBlock(ran[i])
  /\ \A i \in DOMAIN ran :
       AsksToBlock(ran[i]) => i = Len(ran) /\ Answers(Head(Asking(ran[i])))

(* A blocked client gets the answer that the WAF asked for, in the type    *)
(* the client asked for.                                                   *)
BlockedAsAsked == FirstActionDecides /\ AcceptHonoured

(* The trace is kept if any run asked for it, not only the last *)
KeptIfAsked ==
  at = "end" => span.keep = \E i \in DOMAIN ran : ran[i].keep = "yes"

(* A tag has the value of the first run that gave it one *)
FirstValueTagged ==
  at = "end" =>
    \A i \in DOMAIN span.tags :
      \A k \in 1..(span.tags[i].of - 1) :
        ~\E attr \in ToSet(ran[k].attrs) :
           attr.key = span.tags[i].key /\ TagOf(attr) # "none"

(* The collected tags are read while the results that hold their keys are  *)
(* there.                                                                  *)
TagsBacked == at = "end" => \A i \in DOMAIN span.tags : span.tags[i].of \in span.backed

(* The headers that are reported only for an attack are there exactly if   *)
(* events are, and the events are those of all runs.                       *)
AttackReported ==
  at = "end" =>
    LET attacks == \E i \in DOMAIN ran : ran[i].events > 0
    IN /\ (span.triggers # <<>>) <=> attacks
       /\ \A i \in DOMAIN ran : ran[i].events =
             Cardinality({k \in DOMAIN span.triggers : span.triggers[k] = i})
       /\ \A h \in ToSet(HeadersIn) : h.key \in kAttackTagged =>
             (h.key \in DOMAIN span.headers <=> attacks)

(* The report describes the response that was sent: of a response that was *)
(* replaced by a blocking one nothing is left, neither fields nor length,  *)
(* and a field that was deleted, or replaced by a later one, is not shown. *)
SentIsReported ==
  at = "end" =>
    LET shown(name) == \E i \in DOMAIN response.headers :
          /\ response.headers[i].key = name /\ ~response.headers[i].deleted
          /\ \A j \in (i + 1)..Len(response.headers) : response.headers[j].key # name
          /\ span.resp[name] = response.headers[i].value
    IN IF reply # NoResponse
       THEN /\ DOMAIN span.resp \subseteq {"content-type", "content-length"}
            /\ "content-type" \in DOMAIN span.resp => span.resp["content-type"] = <<reply.ct>>
            /\ "content-length" \in DOMAIN span.resp
               <=> reply.body = "none"
       ELSE \A name \in DOMAIN span.resp \ {"content-type", "content-length"} : shown(name)

(* What is reported with the span when a request is logged follows from    *)
(* all its WAF runs and from the response that was really sent.            *)
ReportFollowsRuns ==
  /\ KeptIfAsked /\ FirstValueTagged /\ TagsBacked
  /\ AttackReported /\ SentIsReported
=============================================================================
