--------------------------- MODULE RequestTracing ---------------------------
(***************************************************************************)
(* The tracing of a request and of its subrequests: the DatadogContext     *)
(* they share (src/datadog_context.cpp), the spans of each one             *)
(* (src/request_tracing.cpp) and the handlers that nginx calls in its      *)
(* phases and filters (src/datadog_handler.cpp), over internal redirects,  *)
(* rewrites and exceptions, while WAF tasks hold a reference to a span.    *)
(*                                                                         *)
(* nginx runs one handler at a time; the handlers of a request and of its  *)
(* subrequests interleave.  A subrequest has a module context of its own,  *)
(* and shares the pool, in whose cleanup list the DatadogContext is kept.  *)
(***************************************************************************)
EXTENDS Naturals, Sequences, Functions

CONSTANTS
  Main, Subs,         \* the request and its subrequests
  MainLocs, SubLocs,  \* locations they are sent to, see Location
  SubPhases,          \* phases of the request in which subrequests start
  MaxMoves,           \* redirects and rewrites of one request
  Waf,                \* built WITH_WAF and active; otherwise WITH_RUM
  Throws              \* when allocations fail: never, alone (no other
                      \* request will use the context) or any

Reqs == {Main} \cup Subs

Locs == MainLocs \cup SubLocs

Location == [tracing   : BOOLEAN,   \* datadog_tracing
             locations : BOOLEAN,   \* datadog_trace_locations
             rum       : BOOLEAN]   \* datadog_rum

ASSUME TracingAssumption ==
  /\ Main \notin Subs
  /\ MainLocs \subseteq Location /\ SubLocs \subseteq Location
  /\ SubPhases \subseteq {"auth", "content", "output"}
  /\ MaxMoves \in Nat /\ Waf \in BOOLEAN
  /\ Throws \in {"never", "alone", "any"}

VARIABLES
  req,        \* nginx: phase, location, internal flag, module context
  logSub,     \* nginx: log_subrequest
  cleanups,   \* nginx: data of the pool's cleanup_datadog_context entries
  contexts,   \* every DatadogContext ever created
  task,       \* the WAF task in flight, and the vector its span_ is in
  broken,     \* history: requests for which a filter returned NGX_ERROR
  undefined   \* history: undefined behaviour was executed

vars == <<req, logSub, cleanups, contexts, task, broken, undefined>>

None == 0     \* a null pointer to a context

NoTask == [ctx |-> None, gen |-> 0]

(* A phase is named for the handler that comes next; between on_access and *)
(* on_precontent_phase run the access handlers of other modules            *)
Phases == {"none", "rewrite", "access", "auth", "precontent", "content",
           "output", "log", "done"}

-----------------------------------------------------------------------------
(* RequestTracing: the request span and the span of the current location *)

NewTrace(r, l, parent) ==
  [req |-> r, loc |-> l, parent |-> parent, requestSpan |-> "open",
   span |-> IF l.locations THEN "open" ELSE "none"]

OnExitBlock(t) ==
  IF t.loc.locations THEN [t EXCEPT !.span = "ended"] ELSE t

(* The span of the previous location is replaced *)
OnChangeBlock(t, l) ==
  [OnExitBlock(t) EXCEPT !.loc = l,
                         !.span = IF l.locations THEN "open" ELSE @]

OnLogRequest(t) == [OnExitBlock(t) EXCEPT !.requestSpan = "ended"]

-----------------------------------------------------------------------------
(* DatadogContext *)

NewContext(r, l) ==
  [live     |-> TRUE,
   traces   |-> IF l.tracing THEN <<NewTrace(r, l, None)>> ELSE <<>>,
   gen      |-> 0,                    \* allocations of the vector since
   sec      |-> IF Waf THEN "start" ELSE "none",    \* sec_ctx_, its stage
   reported |-> FALSE]

HasTrace(c, r) == \E i \in DOMAIN c.traces : c.traces[i].req = r

TraceOf(c, r) == CHOOSE i \in DOMAIN c.traces : c.traces[i].req = r

(* emplace_back() moves the elements when size() is at capacity(), which   *)
(* doubles                                                                 *)
Grows(c) == \E k \in 0..Len(c.traces) : 2^k = Len(c.traces)

AddTrace(c, r, l) ==
  [c EXCEPT !.traces = Append(@, NewTrace(r, l, c.traces[1].req)),
            !.gen = IF Grows(c) THEN @ + 1 ELSE @]

(* DatadogContext::on_change_block: traces_[0] need not exist *)
ContextChange(c, r, l) ==
  IF ~l.tracing THEN c
  ELSE IF HasTrace(c, r)
       THEN [c EXCEPT !.traces[TraceOf(c, r)] = OnChangeBlock(@, l)]
       ELSE IF c.traces = <<>> THEN c ELSE AddTrace(c, r, l)

(* DatadogContext::on_log_request; without a trace it throws *)
ContextLog(c, r, l) ==
  IF ~l.tracing \/ ~HasTrace(c, r) THEN c
  ELSE [c EXCEPT !.traces[TraceOf(c, r)] = OnLogRequest(@),
                 !.reported = @ \/ (c.sec # "none" /\ r = Main)]

(* get_datadog_context: an internal redirect has cleared the module        *)
(* context; the first cleanup entry still has it                           *)
ContextOf(r) ==
  IF req[r].ctx # None \/ ~req[r].internal \/ cleanups = <<>>
  THEN req[r].ctx
  ELSE cleanups[1]

(* nginx goes on with the request in phase p, and the handler has attached *)
(* the context it found                                                    *)
Enter(r, p) ==
  req' = [req EXCEPT ![r].ctx = ContextOf(r), ![r].phase = p]

Ctx(r) == contexts[ContextOf(r)]

-----------------------------------------------------------------------------
(* nginx, external *)

(* Mutant: on_access does not suspend the request *)
Idle_Declined(r) == TRUE

(* The main request is suspended while a WAF task runs: on_access returns  *)
(* NGX_AGAIN, and at the end the task holds a reference to the request     *)
Idle(r) == task.ctx = None \/ r # Main

AllDone == \A s \in Subs : req[s].phase \in {"none", "done"}

Init ==
  /\ \E l \in MainLocs, used \in SUBSET Subs :
       req = [r \in Reqs |->
                [phase |-> IF r = Main THEN "rewrite"
                           ELSE IF r \in used THEN "none" ELSE "done",
                 loc |-> l, internal |-> FALSE, ctx |-> None, moves |-> 0]]
  /\ logSub \in BOOLEAN
  /\ cleanups = <<>> /\ contexts = <<>> /\ task = NoTask
  /\ broken = {} /\ undefined = FALSE

(* ngx_http_subrequest: by auth_request, mirror or a filter *)
StartSub(s, l) ==
  /\ req[s].phase = "none" /\ req[Main].phase \in SubPhases /\ l \in SubLocs
  /\ req[Main].phase = "auth" => Idle(Main)
  /\ req' = [req EXCEPT ![s] = [phase |-> "rewrite", loc |-> l,
                                internal |-> TRUE, ctx |-> None, moves |-> 0]]
  /\ UNCHANGED <<logSub, cleanups, contexts, task, broken, undefined>>

(* error_page, try_files, X-Accel-Redirect: ngx_http_internal_redirect     *)
(* clears the module contexts.  A rewrite keeps them.                      *)
Move(r, l) ==
  /\ Idle(r) /\ req[r].moves < MaxMoves
  /\ l \in IF r = Main THEN MainLocs ELSE SubLocs
  /\ r = Main /\ req[r].phase = "auth" => AllDone
  /\ \/ /\ req[r].phase \in {"access", "auth", "content"}
        /\ req' = [req EXCEPT ![r] = [phase |-> "rewrite", loc |-> l,
                     internal |-> TRUE, ctx |-> None, moves |-> @.moves + 1]]
     \/ /\ req[r].phase = "access"
        /\ req' = [req EXCEPT ![r] = [phase |-> "rewrite", loc |-> l,
                     internal |-> TRUE, ctx |-> @.ctx, moves |-> @.moves + 1]]
  /\ UNCHANGED <<logSub, cleanups, contexts, task, broken, undefined>>

-----------------------------------------------------------------------------
(* Handlers *)

(* Mutant: untraced subrequests get spans that nobody finishes *)
Traced_Always(r) == req[r].loc.tracing

(* is_datadog_tracing_enabled *)
Traced(r) == req[r].loc.tracing /\ (r = Main \/ logSub)

(* External: a failed allocation, in C++ or of a cleanup entry *)
MayThrow(r) ==
  \/ Throws = "any"
  \/ Throws = "alone" /\ \A s \in Reqs \ {r} : req[s].phase = "done"

(* Mutant: the pointer is stored before the constructor, which may throw *)
CreateContext_Early(r) ==
  \/ /\ contexts' = Append(contexts, NewContext(r, req[r].loc))
     /\ cleanups' = <<Len(contexts')>> \o cleanups
     /\ req' = [req EXCEPT ![r].ctx = Len(contexts'), ![r].phase = "access"]
  \/ /\ MayThrow(r)
     /\ cleanups' = <<Len(contexts) + 1>> \o cleanups
     /\ Enter(r, "access")
     /\ UNCHANGED contexts

(* new DatadogContext and set_datadog_context, whose allocation may fail *)
CreateContext(r) ==
  \/ /\ contexts' = Append(contexts, NewContext(r, req[r].loc))
     /\ cleanups' = <<Len(contexts')>> \o cleanups
     /\ req' = [req EXCEPT ![r].ctx = Len(contexts'), ![r].phase = "access"]
  \/ /\ MayThrow(r)
     /\ contexts' = Append(contexts,
                       [NewContext(r, req[r].loc) EXCEPT !.live = FALSE])
     /\ Enter(r, "access")
     /\ UNCHANGED cleanups

(* Mutant: the cleanup entry keeps its pointer *)
DestroyContext_Kept(r) ==
  /\ contexts' = [contexts EXCEPT ![cleanups[1]].live = FALSE]
  /\ req' = [req EXCEPT ![r].ctx = None, ![r].phase = "access"]
  /\ UNCHANGED cleanups

(* destroy_datadog_context *)
DestroyContext(r) ==
  /\ contexts' = [contexts EXCEPT ![cleanups[1]].live = FALSE]
  /\ cleanups' = [cleanups EXCEPT ![1] = None]
  /\ req' = [req EXCEPT ![r].ctx = None, ![r].phase = "access"]

(* on_enter_block, in the rewrite phase *)
EnterBlock(r) ==
  /\ req[r].phase = "rewrite"
  /\ LET enabled == Traced(r) \/ (~Waf /\ req[r].loc.rum)
         c == ContextOf(r)
     IN \/ /\ ~enabled
           /\ req' = [req EXCEPT ![r].phase = "access"]
           /\ UNCHANGED <<cleanups, contexts, undefined>>
        \/ /\ enabled /\ c = None
           /\ CreateContext(r)
           /\ UNCHANGED undefined
        \/ /\ enabled /\ c # None
           /\ contexts' = [contexts EXCEPT ![c] = ContextChange(@, r, req[r].loc)]
           /\ undefined' = \/ undefined
                           \/ req[r].loc.tracing /\ contexts[c].traces = <<>>
           /\ Enter(r, "access")
           /\ UNCHANGED cleanups
        \/ /\ enabled /\ c # None /\ MayThrow(r)
           /\ DestroyContext(r)
           /\ UNCHANGED undefined
  /\ UNCHANGED <<logSub, task, broken>>

(* A task of security::Context takes the active span of the request's      *)
(* trace by reference                                                      *)
StartTask(c) == task' = [ctx |-> c, gen |-> contexts[c].gen]

(* single_trace() throws unless there is exactly one trace *)
SingleTrace(c) == Len(c.traces) = 1

(* Mutant: a redirected request is not examined *)
Examines_External(r) ==
  /\ r = Main /\ ContextOf(r) # None /\ ~req[r].internal
  /\ Ctx(r).sec = "start" /\ SingleTrace(Ctx(r))

(* Context::on_request_start runs the WAF once *)
Examines(r) ==
  /\ r = Main /\ ContextOf(r) # None
  /\ Ctx(r).sec = "start" /\ SingleTrace(Ctx(r))

(* on_access *)
Access(r) ==
  /\ req[r].phase = "access" /\ Idle(r)
  /\ IF Examines(r)
     THEN /\ contexts' = [contexts EXCEPT ![ContextOf(r)].sec = "begun"]
          /\ StartTask(ContextOf(r))
     ELSE UNCHANGED <<contexts, task>>
  /\ IF r = Main THEN Enter(r, "auth")
                 ELSE req' = [req EXCEPT ![r].phase = "auth"]
  /\ UNCHANGED <<logSub, cleanups, broken, undefined>>

(* nginx, external: the other access handlers let the request pass *)
Allow(r) ==
  /\ req[r].phase = "auth" /\ Idle(r) /\ (r = Main => AllDone)
  /\ req' = [req EXCEPT ![r].phase = "precontent"]
  /\ UNCHANGED <<logSub, cleanups, contexts, task, broken, undefined>>

(* on_precontent_phase: the first trace's span is injected in the headers *)
Precontent(r) ==
  /\ req[r].phase = "precontent" /\ Idle(r)
  /\ Enter(r, "content")
  /\ UNCHANGED <<logSub, cleanups, contexts, task, broken, undefined>>

(* request_body_filter of the main request; a run may be submitted, or not *)
RequestBodyFilter ==
  /\ req[Main].phase = "content" /\ Idle(Main)
  /\ ContextOf(Main) # None /\ Ctx(Main).sec # "none"
  /\ IF HasTrace(Ctx(Main), Main)
     THEN /\ Ctx(Main).sec = "begun"
          /\ StartTask(ContextOf(Main)) /\ UNCHANGED broken
          /\ Enter(Main, "content")
     ELSE /\ broken' = broken \cup {Main} /\ UNCHANGED task
          /\ Enter(Main, "output")
  /\ UNCHANGED <<logSub, cleanups, contexts, undefined>>

(* The final run is submitted for the main request only *)
FinalRun(r) ==
  HasTrace(Ctx(r), r) /\ r = Main /\ Ctx(r).sec = "begun"

(* on_header_filter *)
HeaderFilter(r) ==
  /\ req[r].phase \in {"access", "auth", "content"} /\ Idle(r)
  /\ r = Main /\ req[r].phase = "auth" => AllDone
  /\ IF ContextOf(r) # None /\ FinalRun(r)
     THEN /\ contexts' = [contexts EXCEPT ![ContextOf(r)].sec = "ended"]
          /\ StartTask(ContextOf(r))
     ELSE UNCHANGED <<contexts, task>>
  /\ Enter(r, "output")
  /\ UNCHANGED <<logSub, cleanups, broken, undefined>>

(* on_output_body_filter throws if the main request has no trace *)
BodyFails(r) ==
  /\ r = Main /\ ContextOf(r) # None
  /\ Ctx(r).sec # "none" /\ ~HasTrace(Ctx(r), r)

OutputBodyFilter(r) ==
  /\ req[r].phase = "output"
  /\ broken' = IF BodyFails(r) THEN broken \cup {r} ELSE broken
  /\ IF r = Main THEN Enter(r, "log")
                 ELSE req' = [req EXCEPT ![r].phase = "log"]
  /\ UNCHANGED <<logSub, cleanups, contexts, task, undefined>>

TaskDone ==
  /\ task.ctx # None
  /\ task' = NoTask
  /\ UNCHANGED <<req, logSub, cleanups, contexts, broken, undefined>>

(* on_log_request: nginx logs a subrequest if log_subrequest is on.  With  *)
(* the main request the pool goes away, and its cleanups run.              *)
Log(r) ==
  /\ req[r].phase = "log" /\ Idle(r) /\ (r = Main => AllDone)
  /\ LET c == ContextOf(r)
         logged == IF c = None \/ ~(r = Main \/ logSub) THEN contexts
                   ELSE [contexts EXCEPT ![c] = ContextLog(@, r, req[r].loc)]
     IN contexts' = IF r # Main THEN logged
                    ELSE [i \in DOMAIN logged |->
                            IF i \in Range(cleanups)
                            THEN [logged[i] EXCEPT !.live = FALSE]
                            ELSE logged[i]]
  /\ undefined' = \/ undefined
                  \/ r = Main /\ \E i \in Range(cleanups) \ {None} :
                                         ~contexts[i].live
  /\ req' = [req EXCEPT ![r].phase = "done", ![r].ctx = None]
  /\ UNCHANGED <<logSub, cleanups, task, broken>>

Terminated == req[Main].phase = "done" /\ UNCHANGED vars

Next ==
  \/ \E r \in Reqs :
       \/ EnterBlock(r) \/ Access(r) \/ Allow(r) \/ Precontent(r)
       \/ HeaderFilter(r) \/ OutputBodyFilter(r) \/ Log(r)
       \/ \E l \in Locs : Move(r, l)
  \/ \E s \in Subs : \E l \in Locs : StartSub(s, l)
  \/ RequestBodyFilter \/ TaskDone
  \/ Terminated

Spec == Init /\ [][Next]_vars

-----------------------------------------------------------------------------
(* Properties *)

(* Every variable has the type of what it stands for. *)
TypeOK ==
  /\ req \in [Reqs -> [phase : Phases, loc : Locs, internal : BOOLEAN,
                       ctx : 0..Len(contexts), moves : 0..MaxMoves]]
  /\ logSub \in BOOLEAN /\ undefined \in BOOLEAN
  /\ \A i \in DOMAIN cleanups : cleanups[i] \in 0..Len(contexts)
  /\ \A i \in DOMAIN contexts :
       contexts[i].sec \in {"none", "start", "begun", "ended"}
  /\ task.ctx \in 0..Len(contexts)
  /\ broken \subseteq Reqs

(* The reference to a span that a WAF task holds (PolTaskCtx::span_) stays *)
(* valid until its completion: the context is not destroyed and its vector *)
(* of traces is not moved by another request.                              *)
SpanLive ==
  task.ctx # None => /\ contexts[task.ctx].live
                     /\ contexts[task.ctx].gen = task.gen

(* A handler never gets a context that was destroyed, and every context is *)
(* destroyed once: by destroy_datadog_context after an exception, or with  *)
(* the pool.                                                               *)
ContextLive ==
  /\ \A r \in Reqs : ContextOf(r) # None /\ req[r].phase \notin {"none", "done"}
                       => contexts[ContextOf(r)].live
  /\ ~undefined
  /\ req[Main].phase = "done" => \A i \in DOMAIN contexts : ~contexts[i].live

(* The traces of a context form one tree: the main request's comes first   *)
(* and every subrequest's hangs below it.                                  *)
OneRoot ==
  \A i \in DOMAIN contexts : \A j \in DOMAIN contexts[i].traces :
    LET t == contexts[i].traces[j]
    IN (t.req = Main <=> j = 1) /\ (j # 1 => t.parent = Main)

(* However a request gets to its content, over redirects, rewrites and a   *)
(* context that was destroyed, the WAF has examined it in the access phase *)
(* of its present context.                                                 *)
AccessExamined ==
  req[Main].phase \in {"precontent", "content"} /\ ContextOf(Main) # None
    => Ctx(Main).sec # "start"

(* ... and what the WAF found is reported when the request is logged,      *)
(* unless the context was destroyed on the way.                            *)
ExaminedIsReported ==
  \A i \in DOMAIN contexts :
    req[Main].phase = "done" /\ i \in Range(cleanups)
      => (contexts[i].sec \in {"begun", "ended"} => contexts[i].reported)

(* Only the request whose response it is uses up the final run: when the   *)
(* run is over or in flight, the main request has sent its header.         *)
FinalIsMain ==
  \A i \in DOMAIN contexts :
    contexts[i].live /\ contexts[i].sec = "ended"
      => req[Main].phase \in {"output", "log"}

(* "Only trace subrequests if `log_subrequest` is enabled; otherwise the   *)
(* spans won't be finished" (datadog_handler.cpp:29): a request that ends  *)
(* in a location with tracing leaves no open span behind.                  *)
SpansFinished ==
  \A i \in DOMAIN contexts : \A j \in DOMAIN contexts[i].traces :
    LET t == contexts[i].traces[j]
    IN req[t.req].phase = "done" /\ req[t.req].loc.tracing
          /\ i \in Range(cleanups)
         => t.requestSpan = "ended" /\ t.span # "open"

(* The module's filters do not fail a request that has no exception of     *)
(* its own.                                                                *)
FiltersPass == broken = {}

(* Every handler works on a context that is there, however nginx moves the *)
(* requests between locations, and so no filter fails one of them.         *)
HandlersServe == ContextLive /\ FiltersPass

(* The spans of a request are one tree, all of it finished with the        *)
(* requests it is about.                                                   *)
OneTree == OneRoot /\ SpansFinished

(* The WAF has its say on every request once: in the access phase of the   *)
(* context that reaches the content, in the final run of the main request  *)
(* only, and in the report when the request is logged.                     *)
ExaminedOnce == AccessExamined /\ FinalIsMain /\ ExaminedIsReported

(* "avoid undefined behavior from calling traces_.front() on an empty      *)
(* vector" (datadog_context.cpp:347): there is a first trace whenever the  *)
(* code takes one.                                                         *)
NoUndefined == ~undefined

=============================================================================
