---------------------------- MODULE RumInjection ----------------------------
(***************************************************************************)
(* The injection of the RUM browser SDK into HTML responses: how a         *)
(* location gets its snippet and its switch (src/rum/config.cpp), and the  *)
(* handler that announces a longer response in the header filter and then  *)
(* looks for the injection point while the body passes, buffer by buffer   *)
(* (src/rum/injection.cpp, called by src/datadog_context.cpp).             *)
(*                                                                         *)
(* A body is a sequence of buffers of bytes.  The two bytes "<" and ">"    *)
(* stand for the closing head tag; "s" is the snippet, one byte long, and  *)
(* "p" is the padding that takes its place.                                *)
(***************************************************************************)
EXTENDS Naturals, Sequences, SequencesExt, FiniteSets, FiniteSetsExt

CONSTANTS
  Switches,      \* what datadog_rum may say at a level of the configuration
  Bytes,         \* bytes of a response
  BufferLen,     \* bytes of a buffer, at least those of the tag
  MaxBuffers,    \* buffers of a response, without an empty last one
  Responses,     \* headers of the response, see Response
  SubResponses,  \* responses of subrequests that share the handler
  Failures       \* allocations that may fail: "header", "link"

(* What on_header_filter looks at: the content type, the encoding, whether *)
(* there is a body, and x-datadog-rum-injected in the request              *)
Response == [html : BOOLEAN, encoded : BOOLEAN, empty : BOOLEAN,
             already : BOOLEAN]

ASSUME RumAssumption ==
  /\ Switches \subseteq {"unset", "on", "off"}
  /\ Bytes \subseteq {"x", "<", ">"}
  /\ BufferLen \in Nat /\ BufferLen > 1 /\ MaxBuffers \in Nat
  /\ Responses \cup SubResponses \subseteq Response
  /\ Failures \subseteq {"header", "link"}

VARIABLES
  step,      \* configure, merged, respond, header, body or done
  levels,    \* the http, server and location blocks as they are written
  env,       \* DD_RUM_ENABLED and whether there is a stable configuration
  conf,      \* the location's configuration after the merge
  resp,      \* what the header filter sees of the response
  handler,   \* state_, output_padding_, injector_
  length,    \* Content-Length as it is sent, or Chunked
  body,      \* the buffers still to come
  given,     \* bytes of the body that were passed to the filter
  out,       \* bytes that were passed to the next filter
  counted,   \* telemetry counters that were incremented
  failed     \* history: an allocation failed

vars == <<step, levels, env, conf, resp, handler, length, body, given, out,
          counted, failed>>

-----------------------------------------------------------------------------
(* Configuration *)

Block == [rum : Switches, snippet : BOOLEAN]

Environment == [enabled : {"unset", "true", "false", "other"}, stable : BOOLEAN]

Unset == [rum |-> "unset", snippet |-> FALSE]

(* resolve_rum_enable_from_env; before, the merge has left the switch off *)
FromEnv(snippet, e) ==
  CASE e.enabled = "unset" -> IF snippet THEN "on" ELSE "off"
    [] e.enabled = "true"  -> IF snippet THEN "on" ELSE "off"
    [] OTHER -> "off"

(* datadog_rum_merge_loc_config *)
MergeRum(parent, child, e) ==
  LET snippet == child.snippet \/ parent.snippet \/ e.stable
  IN [snippet |-> snippet,
      rum |-> CASE child.rum # "unset"  -> child.rum
                [] parent.rum # "unset" -> parent.rum
                [] OTHER -> FromEnv(snippet, e)]

(* nginx merges http into server, and the result into location *)
Merge ==
  /\ step = "configure"
  /\ conf' = MergeRum(MergeRum(levels.http, levels.server, env),
                      levels.location, env)
  /\ step' = "merged"
  /\ UNCHANGED <<levels, env, resp, handler, length, body, given, out, counted,
                 failed>>

-----------------------------------------------------------------------------
(* The SDK's injector, external: how injection.cpp uses it *)

Tag == <<"<", ">">>

Snippet == <<"s">>

Padding == <<"p">>

(* Positions at which the tag begins in s *)
TagAt(s) == {i \in 1 .. Len(s) - 1 : SubSeq(s, i, i + 1) = Tag}

(* A byte at the end that may begin the tag is held back *)
Held(s) == IF s # <<>> /\ Last(s) = "<" THEN <<"<">> ELSE <<>>

(* injector_write: the bytes to send for this buffer, if they differ       *)
InjectorWrite(held, buffer) ==
  LET s == held \o buffer
  IN IF TagAt(s) # {}
     THEN LET i == Min(TagAt(s))
          IN [injected |-> TRUE, held |-> <<>>,
              bytes |-> SubSeq(s, 1, i - 1) \o Snippet \o SubSeq(s, i, Len(s))]
     ELSE [injected |-> FALSE, held |-> IF buffer = <<>> THEN held ELSE Held(s),
           bytes |-> IF buffer = <<>> THEN <<>>
                     ELSE SubSeq(s, 1, Len(s) - Len(Held(s)))]

(* injector_end: what is held back, and padding in place of the snippet *)
InjectorEnd(held) == held \o Padding

-----------------------------------------------------------------------------
(* InjectionHandler *)

NewHandler == [state |-> "init", padding |-> FALSE, held |-> <<>>]

Chunked == 1000   \* content_length_n is -1

Html == [html |-> TRUE, encoded |-> FALSE, empty |-> FALSE, already |-> FALSE]

Buffer == [1 .. BufferLen -> Bytes]

BodyLen(b) == Len(FlattenSeq(b))

(* "datadog_rum on" without a snippet: assert(cfg->rum_snippet) fails *)
Undefined == step = "merged" /\ conf.rum = "on" /\ ~conf.snippet

(* nginx, external: the configuration is read and its text forgotten *)
Serve ==
  /\ step = "merged" /\ ~Undefined
  /\ levels' = [http |-> Unset, server |-> Unset, location |-> Unset]
  /\ env' = [enabled |-> "unset", stable |-> FALSE]
  /\ step' = "respond"
  /\ UNCHANGED <<conf, resp, handler, length, body, given, out, counted, failed>>

(* External: a response arrives, its header, then its buffers *)
Respond(r, b, chunked) ==
  /\ step = "respond"
  /\ r.empty <=> BodyLen(b) = 0
  /\ resp' = r
  /\ body' = b
  /\ length' = IF chunked THEN Chunked ELSE BodyLen(b)
  /\ step' = "header"
  /\ UNCHANGED <<levels, env, conf, handler, given, out, counted, failed>>

(* Mutant: compressed bodies are searched too *)
Skips_Encoded(r) == r.already \/ r.empty \/ ~r.html

(* The early returns of on_header_filter *)
Skips(r) == r.already \/ r.empty \/ ~r.html \/ r.encoded

(* Mutant: the header is not corrected *)
Announced_Same(n) == n

(* content_length_n += cfg->rum_snippet->length *)
Announced(n) == IF n = Chunked THEN n ELSE n + Len(Snippet)

(* DatadogContext::on_header_filter and the handler's: what it returns is  *)
(* ignored and the header goes on to the next filter                       *)
HeaderFilter(nomem) ==
  /\ step = "header"
  /\ nomem => "header" \in Failures
  /\ IF conf.rum # "on" \/ Skips(resp)
     THEN /\ counted' = IF conf.rum = "on" THEN counted \cup {"skipped"}
                        ELSE counted
          /\ UNCHANGED <<handler, length, failed>>
     ELSE /\ length' = Announced(length)
          /\ handler' = [state |-> IF nomem THEN "error" ELSE "searching",
                         padding |-> length # Chunked, held |-> <<>>]
          /\ failed' = nomem
          /\ UNCHANGED counted
  /\ step' = "body"
  /\ UNCHANGED <<levels, env, conf, resp, body, given, out>>

(* A subrequest's header passes: the handler belongs to the context that   *)
(* the request shares with its subrequests, whose bodies it never sees     *)
SubHeaderFilter(r, chunked) ==
  /\ step = "body" /\ conf.rum = "on"
  /\ IF Skips(r)
     THEN /\ counted' = counted \cup {"skipped"}
          /\ UNCHANGED handler
     ELSE /\ handler' = [state |-> "searching", padding |-> ~chunked,
                         held |-> <<>>]
          /\ UNCHANGED counted
  /\ UNCHANGED <<step, levels, env, conf, resp, length, body, given, out,
                 failed>>

(* inject(): the buffer is sent as it is if there is nothing to change or  *)
(* no memory for a new one                                                 *)
Inject(buffer, bytes, nomem) ==
  IF bytes = <<>> \/ nomem THEN buffer ELSE bytes

(* Mutant: the search goes on after the injection *)
Searching_Injected(h) == h.state \in {"searching", "injected"}

(* The condition to look at the body at all *)
Searching(h) == h.state = "searching"

(* At the last buffer the announced length is made up for *)
PadsAtEnd(h) == h.padding

(* on_body_filter for a chain of one buffer.  The buffers of a longer      *)
(* chain are handled one after the other in the same way; those behind the *)
(* injection point stay in the chain.                                      *)
BodyFilter(nomem) ==
  /\ step = "body" /\ body # <<>>
  /\ nomem => "link" \in Failures
  /\ LET buffer == Head(body)
         last == Len(body) = 1
         w == InjectorWrite(handler.held, buffer)
         sent == Inject(buffer, w.bytes, nomem)
     IN IF ~Searching(handler)
        THEN /\ out' = out \o buffer
             /\ UNCHANGED <<handler, counted, failed>>
        ELSE IF w.injected
        THEN /\ out' = out \o sent
             /\ handler' = [handler EXCEPT !.state = "injected", !.held = <<>>]
             /\ counted' = counted \cup {"succeeded"}
             /\ failed' = (failed \/ nomem)
        ELSE IF last /\ PadsAtEnd(handler)
        THEN /\ out' = out \o sent \o Inject(buffer, InjectorEnd(w.held), nomem)
             /\ handler' = [handler EXCEPT !.state = "failed", !.held = <<>>]
             /\ counted' = counted \cup {"failed"}
             /\ failed' = (failed \/ nomem)
        ELSE /\ out' = out \o sent
             /\ handler' = [handler EXCEPT !.held = w.held]
             /\ failed' = (failed \/ nomem)
             /\ UNCHANGED counted
  /\ given' = given \o Head(body)
  /\ body' = Tail(body)
  /\ step' = IF Len(body) = 1 THEN "done" ELSE "body"
  /\ UNCHANGED <<levels, env, conf, resp, length>>

Init ==
  /\ step = "configure"
  /\ levels \in [http : Block, server : Block, location : Block]
  /\ env \in Environment
  /\ conf = Unset /\ resp = Html /\ handler = NewHandler /\ length = 0
  /\ body = <<>> /\ given = <<>> /\ out = <<>> /\ counted = {}
  /\ failed = FALSE

Bodies ==
  LET whole == UNION {[1 .. n -> Buffer] : n \in 1 .. MaxBuffers}
  IN whole \cup {Append(b, <<>>) : b \in whole \cup {<<>>}}

Done == (step = "done" \/ Undefined) /\ UNCHANGED vars

Next ==
  \/ Merge \/ Serve
  \/ /\ step = "respond"
     /\ \E r \in Responses, b \in Bodies, chunked \in BOOLEAN :
          Respond(r, b, chunked)
  \/ \E nomem \in BOOLEAN : HeaderFilter(nomem) \/ BodyFilter(nomem)
  \/ \E r \in SubResponses, chunked \in BOOLEAN : SubHeaderFilter(r, chunked)
  \/ Done

Spec == Init /\ [][Next]_vars

-----------------------------------------------------------------------------
(* Properties *)

Directive == \E l \in DOMAIN levels : levels[l].rum # "unset"

(* Where no datadog_rum directive decides, injection is enabled only with  *)
(* a snippet: DD_RUM_ENABLED=true does not enable it without one, at any   *)
(* level of the configuration.                                             *)
EnabledHasSnippet ==
  step = "merged" /\ ~Directive /\ conf.rum = "on" => conf.snippet

Original(s) == SelectSeq(s, LAMBDA b : b \in Bytes)

(* The header filter promises a length before anyone knows whether there   *)
(* is an injection point; the body has that length, however it is cut into *)
(* buffers and wherever the tag is.                                        *)
LengthKept ==
  step = "done" /\ ~failed /\ length # Chunked => Len(out) = length

(* At any time, what was sent is what was received, but for the snippet,   *)
(* the padding and the beginning of a tag that the injector holds back.    *)
BodyIntact == ~failed => Original(out) \o handler.held = given

(* There is one snippet, before the first tag, or padding at the end; and  *)
(* telemetry says which.                                                   *)
InjectedOnce ==
  LET at(b) == {i \in DOMAIN out : out[i] = b}
  IN ~failed =>
       /\ Cardinality(at("s") \cup at("p")) <= 1
       /\ \A i \in at("s") : TagAt(SubSeq(out, 1, i - 1)) = {} /\ i + 1 \in TagAt(out)
       /\ \A i \in at("p") : i = Len(out) /\ TagAt(out) = {}
       /\ "succeeded" \in counted <=> at("s") # {}
       /\ "failed" \in counted <=> at("p") # {}

(* A response that is no uncompressed HTML, or in a location without RUM,  *)
(* leaves as it came.                                                      *)
OthersUntouched ==
  step = "done" /\ (conf.rum # "on" \/ ~resp.html \/ resp.encoded \/ resp.already)
    => out = given /\ (length # Chunked => length = Len(given))

(* The client gets the upstream's body and one snippet at most, at any     *)
(* time and wherever buffers end: the injector loses, repeats and reorders *)
(* nothing, and telemetry says what it did.                                *)
SnippetIsAllAdded == BodyIntact /\ InjectedOnce

(* Injection happens only where the configuration, with a snippet to       *)
(* inject, and the response call for it.                                   *)
OnlyWhereAsked == EnabledHasSnippet /\ OthersUntouched

=============================================================================
