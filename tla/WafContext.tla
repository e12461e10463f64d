----------------------------- MODULE WafContext -----------------------------
(***************************************************************************)
(* The security context of one request (src/security/context.{h,cpp}):     *)
(* the stage machine, the three WAF tasks that leave nginx's event loop    *)
(* for the thread pool and come back through a completion handler, and     *)
(* the filters that hold back the request and the response meanwhile.      *)
(*                                                                         *)
(* Three kinds of actor interleave: the worker's main thread, which runs   *)
(* one handler at a time to its end (an action is such a run, and while a  *)
(* run that takes several filter calls is in progress nothing else of the  *)
(* main thread happens); the thread pool; and the client, which may go     *)
(* away at any time.                                                       *)
(***************************************************************************)
EXTENDS NginxRequest, Integers, Sequences, Sums

CONSTANTS
  Configs,         \* the requests considered, see Config
  kMaxFilterData,  \* body bytes shown to the WAF at most
  MaxSaved,        \* max_saved_output_data_
  Faults           \* which failures are considered, see below

(* post    ngx_thread_task_post fails        abort   the request is terminated
   alloc   an allocation fails               throw   the WAF run throws
   revent  ngx_handle_read_event fails       wevent  ngx_handle_write_event fails
   again   the socket takes no more data     senderr sending fails
   eager   nginx calls the body filter with data while it is suspended and
           the request has not been given up                               *)
FaultKinds == {"post", "abort", "alloc", "throw", "revent", "wevent",
               "again", "senderr", "eager"}

Config == [pool     : BOOLEAN,   \* the location has a WAF thread pool
           upstream : BOOLEAN,   \* the content comes from an upstream
           head     : BOOLEAN,   \* a HEAD request
           noContent : BOOLEAN,  \* the content handler sets header_only (204)
           http2    : BOOLEAN,
           parse    : BOOLEAN,   \* waf_send_resp_body_ and a parseable type
           reqBody  : Seq(Nat),  \* sizes of the pieces of the request body
           respBody : Seq(Nat)]  \* sizes of the pieces of the response body

ASSUME ConstantsAssumption ==
  /\ \A c \in Configs :
       /\ c \in Config /\ c.respBody # << >>
       /\ c.noContent \/ (c.head /\ c.upstream) => c.respBody = <<0>>
  /\ kMaxFilterData \in Nat /\ MaxSaved \in Nat
  /\ Faults \subseteq FaultKinds

Kinds == {"start", "reqbody", "final"}

Stages == {"DISABLED", "START", "ENTERED_ON_START", "AFTER_BEGIN_WAF",
           "AFTER_BEGIN_WAF_BLOCK", "COLLECTING_ON_REQ_DATA_PREREAD",
           "COLLECTING_ON_REQ_DATA", "SUSPENDED_ON_REQ_WAF",
           "AFTER_ON_REQ_WAF", "AFTER_ON_REQ_WAF_BLOCK",
           "COLLECTING_ON_RESP_DATA", "PENDING_WAF_END",
           "WAF_END_BLOCK_COMMIT", "AFTER_RUN_WAF_END"}

VARIABLES
  conf,      \* the request's configuration, fixed
  req,       \* nginx's request
  stage,     \* stage_
  task,      \* the three PolTaskCtx
  rb,        \* filter_ctx_: the buffered request body
  hdr,       \* header_filter_ctx_.out: the buffered response header
  out,       \* out_filter_ctx_: the buffered response body
  ctx,       \* the other members of Context, and history: the request got
             \* the appsec.blocked tag; its client, or upstream, is gone
  reqIn,     \* pieces of the request body given to the filter so far
  reqDown,   \* pieces passed to the next request body filter
  respIn,    \* pieces of the response body produced so far
  down       \* what was passed to the next output filters

vars == <<conf, req, stage, task, rb, hdr, out, ctx, reqIn, reqDown, respIn,
          down>>

-----------------------------------------------------------------------------
(* Data: a buffer is a piece of the request body or of one of the three    *)
(* responses (the original one, nginx's error page, the blocking page).    *)

Piece(of, n, size, last) == [of |-> of, n |-> n, size |-> size, last |-> last]

Pieces(of, sizes) ==
  [i \in DOMAIN sizes |-> Piece(of, i, sizes[i], i = Len(sizes))]

Header(of) == Piece(of, 0, 0, FALSE)

ReqPieces == Pieces("req", conf.reqBody)

RespPieces(page) ==
  IF page = "orig" THEN Pieces("orig", conf.respBody) ELSE Pieces(page, <<1>>)

SizeOf(chain) == SumTo([i \in DOMAIN chain |-> chain[i].size], Len(chain))

HasLast(chain) == \E i \in DOMAIN chain : chain[i].last

EmptyFilterCtx ==
  [out |-> << >>, out_total |-> 0, copied_total |-> 0, found_last |-> FALSE]

(* Context::buffer_chain, when it succeeds *)
BufferChain(f, in, consume) ==
  [out          |-> f.out \o in,
   out_total    |-> f.out_total + SizeOf(in),
   copied_total |-> f.copied_total + (IF consume THEN SizeOf(in) ELSE 0),
   found_last   |-> f.found_last \/ HasLast(in)]

(* ... and what it leaves behind when it returns NGX_ERROR: a buffer came  *)
(* after the last one, or an allocation failed in the middle of the chain. *)
BufferChainFailures(f, in, consume) ==
  IF in # << >> /\ f.found_last
  THEN {f}
  ELSE {BufferChain(f, SubSeq(in, 1, n), consume) :
          n \in IF "alloc" \in Faults THEN 0 .. Len(in) - 1 ELSE {}}

BufferChainSucceeds(f, in) == in = << >> \/ ~f.found_last

(* FilterCtx::clear; found_last is retained *)
Clear(f) == [EmptyFilterCtx EXCEPT !.found_last = f.found_last]

-----------------------------------------------------------------------------
(* PolTaskCtx: one task of each kind at most.  It is created with the      *)
(* request's handlers of the moment, queued for the pool, run by one of    *)
(* its threads, and posted back to the main thread.                        *)

NoTask == [st |-> "none", ran |-> FALSE, block |-> FALSE, loaded |-> "START",
           seen |-> 0, due |-> 0, prevRead |-> "block_reading",
           prevWrite |-> "empty", prevConn |-> "request_handler"]

TaskStates == {"none", "queued", "running", "posted", "destroyed"}

Task == [st        : TaskStates,
         ran       : BOOLEAN,         \* ran_on_thread_
         block     : BOOLEAN,         \* block_spec_ is set
         loaded    : Stages,          \* the stage the thread read
         seen      : Nat,             \* body bytes the WAF was shown
         due       : Nat,             \* body bytes it was submitted for
         prevRead  : ReadHandlers,    \* prev_read_evt_handler_
         prevWrite : WriteHandlers,   \* prev_write_evt_handler_
         prevConn  : {"request_handler", "empty"}]  \* orig_conn_*_handler_

InFlight(k) == task[k].st \in {"queued", "running", "posted"}

NewTask(r, due) ==
  [NoTask EXCEPT !.st = "queued", !.due = due, !.prevRead = r.readH,
                 !.prevWrite = r.writeH, !.prevConn = r.connH]

(* replace_handlers: the final task swaps the connection's handlers, the   *)
(* other two the request's.                                                *)
ReplaceHandlers(r, k) ==
  IF k = "final" THEN [r EXCEPT !.connH = "empty"]
  ELSE [r EXCEPT !.readH = "block_reading", !.writeH = "task_empty"]

(* Mutant: the write event handler is forgotten *)
RestoreHandlers_ReadOnly(r, k, t) ==
  IF k = "final" THEN [r EXCEPT !.connH = t.prevConn]
  ELSE [r EXCEPT !.readH = IF @ = "block_reading" THEN t.prevRead ELSE @]

RestoreHandlers(r, k, t) ==
  IF k = "final" THEN [r EXCEPT !.connH = t.prevConn]
  ELSE [r EXCEPT
          !.readH  = IF @ = "block_reading" THEN t.prevRead ELSE @,
          !.writeH = IF @ = "task_empty" THEN t.prevWrite ELSE @]

(* Mutant: a reference is taken, but nothing defers the termination *)
Submitted_NotBlocked(r, k) ==
  [ReplaceHandlers(r, k) EXCEPT !.count = @ + 1]

(* The request after submit() *)
Submitted(r, k) ==
  [ReplaceHandlers(r, k) EXCEPT !.count = @ + 1, !.blocked = @ + 1]

(* Mutants: the reference is kept; main->blocked is decremented twice *)
NotSubmitted_Referenced(r, k) ==
  LET t == NewTask(r, 0)
  IN  RestoreHandlers([Submitted(r, k) EXCEPT !.blocked = @ - 1], k, t)

NotSubmitted_Twice(r, k) ==
  LET t == NewTask(r, 0)
      p == Submitted(r, k)
  IN  RestoreHandlers([p EXCEPT !.count = @ - 1, !.blocked = @ - 2], k, t)

(* ... and after a submit() whose post failed: everything is undone *)
NotSubmitted(r, k) ==
  LET t == NewTask(r, 0)
      p == Submitted(r, k)
  IN  RestoreHandlers([p EXCEPT !.count = @ - 1, !.blocked = @ - 1], k, t)

(* Mutant: header_only is not suppressed *)
BeforeFinal_HeaderOnly(r, fromHeader) == [r EXCEPT !.headerSent = TRUE]

(* PolFinalWafCtx::submit, before it calls the above *)
BeforeFinal(r, fromHeader) ==
  [r EXCEPT !.headerOnly = @ /\ ~fromHeader, !.headerSent = TRUE]

(* prepare_drain_buffered_header, called when the content is an upstream's *)
PrepareDrain(r, header) ==
  IF conf.upstream /\ header # << >> THEN [r EXCEPT !.writeH = "drain"] ELSE r

SavedWriteHandler(r, header) ==
  IF conf.upstream /\ header # << >> THEN r.writeH ELSE ctx.prevWrite

(* Mutant: no write event is posted *)
Unblocked_NoEvent(r, header) == PrepareDrain(r, header)

(* waf_final_done(false) and the drain of the header, for a final task     *)
(* that could not be submitted or did not block                            *)
Unblocked(r, header) == PrepareDrain([r EXCEPT !.wev = TRUE], header)

-----------------------------------------------------------------------------
(* nginx around the filters.                                               *)

Init ==
  /\ conf \in Configs
  /\ req = NewRequest
  /\ stage = "START"
  /\ task = [k \in Kinds |-> NoTask]
  /\ rb = EmptyFilterCtx
  /\ hdr = << >>
  /\ out = EmptyFilterCtx
  /\ ctx = [sendBody |-> TRUE, headerOnly |-> FALSE, prevWrite |-> "empty",
            tagged |-> FALSE, gone |-> FALSE]
  /\ reqIn = 0 /\ reqDown = << >> /\ respIn = 0 /\ down = << >>

(* The main thread is inside a handler that calls the filters again before *)
(* it returns: the second call of the body filter after the preread one, a *)
(* content handler that is not an upstream, a special response.            *)
Busy(r) ==
  \/ r.phase \in {"preread", "special"}
  \/ r.phase = "content" /\ ~conf.upstream
  \/ r.phase = "sending" /\ (~conf.upstream \/ conf.head
                             \/ r.page = "special")

MainThreadFree == req.live /\ ~Busy(req)

(* A read event ends with ngx_http_run_posted_requests. *)
EventEnds(r) == IF Busy(r) THEN r ELSE RunPostedRequests(r)

StartContent(r) ==
  [r EXCEPT !.phase  = "content",
            !.readH  = IF conf.upstream THEN "upstream" ELSE "block_reading",
            !.writeH = IF conf.upstream THEN "upstream" ELSE "run_phases"]

AfterAccess(r) ==
  IF conf.reqBody = << >> THEN StartContent(r)
  ELSE [r EXCEPT !.phase = "body_start"]

ReadBodyHandlers(r) == [r EXCEPT !.readH = "read_body", !.writeH = "empty"]

-----------------------------------------------------------------------------
(* The access phase: do_on_request_start *)

OnRequestStart ==
  /\ req.live /\ req.phase = "access" /\ stage = "START"
  /\ \/ /\ ~conf.pool
        /\ stage' = "DISABLED"
        /\ req' = AfterAccess(req)
        /\ UNCHANGED task
     \/ /\ conf.pool
        /\ stage' = "ENTERED_ON_START"
        /\ task' = [task EXCEPT !["start"] = NewTask(req, 0)]
        /\ req' = [Submitted(req, "start") EXCEPT !.phase = "suspended"]
     \/ /\ conf.pool /\ "post" \in Faults
        /\ stage' = "ENTERED_ON_START"
        /\ req' = AfterAccess(NotSubmitted(req, "start"))
        /\ UNCHANGED task
     \/ /\ conf.pool /\ "alloc" \in Faults       \* create() throws
        /\ stage' = "ENTERED_ON_START"
        /\ req' = AfterAccess(req)
        /\ UNCHANGED task
  /\ UNCHANGED <<conf, rb, hdr, out, ctx, reqIn, reqDown, respIn, down>>

-----------------------------------------------------------------------------
(* What nginx does after a call of the request body filter that returned   *)
(* rc, having passed that much of the body to the next filter.  NGX_ERROR  *)
(* is not a special response: ngx_http_read_client_request_body ignores it.*)

AfterBodyCall(r, rc, passed) ==
  EventEnds(IF rc = "internal_error" THEN FinalizeRequest(r, rc)
            ELSE IF Len(passed) = Len(conf.reqBody) THEN StartContent(r)
            ELSE [r EXCEPT !.phase = "body"])

AfterPrereadCall(r, rc, passed) ==
  IF rc = "internal_error" \/ Len(passed) = Len(conf.reqBody)
  THEN AfterBodyCall(r, rc, passed)
  ELSE [ReadBodyHandlers(r) EXCEPT !.phase = "preread"]

AfterRequestFilter(preread, r, rc, passed) ==
  IF preread THEN AfterPrereadCall(r, rc, passed)
  ELSE AfterBodyCall(r, rc, passed)

-----------------------------------------------------------------------------
(* do_request_body_filter, on the chain in: the part of the body that came *)
(* with the header (preread), or what was read since.                      *)

Enough(f, in) ==
  f.found_last \/ HasLast(in) \/ f.out_total + SizeOf(in) >= kMaxFilterData

(* The buffering failed: NGX_HTTP_INTERNAL_SERVER_ERROR *)
ReqBufferFails(st, in, consume, preread) ==
  /\ stage' = st
  /\ rb' \in BufferChainFailures(rb, in, consume)
  /\ req' = AfterRequestFilter(preread, req, "internal_error", reqDown)
  /\ UNCHANGED <<reqDown, task>>

(* Buffered; the next filter is called without data *)
ReqBuffer(st, in, consume, preread) ==
  /\ BufferChainSucceeds(rb, in)
  /\ stage' = st
  /\ rb' = BufferChain(rb, in, consume)
  /\ req' = AfterRequestFilter(preread, req, "ok", reqDown)
  /\ UNCHANGED <<reqDown, task>>

(* Mutant: the new pieces overtake the buffered ones *)
ReqPassDownstream_Reordered(r, st, in, preread) ==
  LET f == BufferChain(rb, in, FALSE)
  IN  /\ BufferChainSucceeds(rb, in)
      /\ stage' = st
      /\ rb' = Clear(f)
      /\ reqDown' = reqDown \o in \o rb.out
      /\ req' = AfterRequestFilter(preread, r, "ok", reqDown \o in \o rb.out)
      /\ UNCHANGED task

(* label pass_downstream: the buffered pieces and in go down together *)
ReqPassDownstream(r, st, in, preread) ==
  LET f == BufferChain(rb, in, FALSE)
  IN  /\ BufferChainSucceeds(rb, in)
      /\ stage' = st
      /\ rb' = Clear(f)
      /\ reqDown' = reqDown \o f.out
      /\ req' = AfterRequestFilter(preread, r, "ok", reqDown \o f.out)
      /\ UNCHANGED task

ReqPass(in, preread) ==
  /\ reqDown' = reqDown \o in
  /\ req' = AfterRequestFilter(preread, req, "ok", reqDown \o in)
  /\ UNCHANGED <<stage, rb, task>>

(* Enough data was collected: run the WAF on it *)
ReqRunWaf(in, preread) ==
  LET f == BufferChain(rb, in, FALSE)
  IN  /\ BufferChainSucceeds(rb, in)
      /\ f.out_total > 0
      /\ \/ /\ stage' = "SUSPENDED_ON_REQ_WAF"
            /\ rb' = f
            /\ task' = [task EXCEPT !["reqbody"] = NewTask(req, f.out_total)]
            /\ req' = AfterRequestFilter(preread, Submitted(req, "reqbody"),
                                         "ok", reqDown)
            /\ UNCHANGED reqDown
         \/ /\ "post" \in Faults
            /\ ReqPassDownstream(NotSubmitted(req, "reqbody"),
                                 "AFTER_ON_REQ_WAF", in, preread)
         \/ /\ "alloc" \in Faults               \* create() throws
            /\ stage' = "COLLECTING_ON_REQ_DATA"
            /\ rb' = f
            /\ req' = AfterRequestFilter(preread, req, "error", reqDown)
            /\ UNCHANGED <<reqDown, task>>

AfterReqWaf == stage \in {"AFTER_ON_REQ_WAF", "AFTER_ON_REQ_WAF_BLOCK"}

RequestBodyFilter(in, preread) ==
  LET collecting == \/ stage = "AFTER_BEGIN_WAF" /\ ~preread
                    \/ stage = "COLLECTING_ON_REQ_DATA"
  IN  \/ /\ stage = "AFTER_BEGIN_WAF" /\ preread
         /\ \/ ReqBuffer("COLLECTING_ON_REQ_DATA", in, TRUE, preread)
            \/ ReqBufferFails("COLLECTING_ON_REQ_DATA_PREREAD", in, TRUE,
                              preread)
      \/ /\ collecting /\ ~Enough(rb, in)
         /\ \/ ReqBuffer("COLLECTING_ON_REQ_DATA", in, TRUE, preread)
            \/ ReqBufferFails("COLLECTING_ON_REQ_DATA", in, TRUE, preread)
      \/ /\ collecting /\ Enough(rb, in)
         /\ \/ ReqRunWaf(in, preread)
            \/ /\ rb.out_total + SizeOf(in) = 0
               /\ ReqPassDownstream(req, "AFTER_ON_REQ_WAF", in, preread)
            \/ ReqBufferFails("COLLECTING_ON_REQ_DATA", in, FALSE, preread)
      \/ /\ AfterReqWaf /\ rb.out # << >>
         /\ \/ ReqPassDownstream(req, stage, in, preread)
            \/ ReqBufferFails(stage, in, FALSE, preread)
      \/ AfterReqWaf /\ rb.out = << >> /\ ReqPass(in, preread)
      \/ /\ stage = "SUSPENDED_ON_REQ_WAF"
         /\ \/ ReqBuffer(stage, in, FALSE, preread)
            \/ ReqBufferFails(stage, in, FALSE, preread)
      \/ /\ ~collecting /\ ~AfterReqWaf
         /\ stage \notin {"AFTER_BEGIN_WAF", "SUSPENDED_ON_REQ_WAF"}
         /\ ReqPass(in, preread)

NextReqPieces(n) == SubSeq(ReqPieces, reqIn + 1, reqIn + n)

(* The part of the body that arrived with the header *)
PrereadBody ==
  /\ MainThreadFree /\ req.phase = "body_start"
  /\ \E n \in 1 .. Len(conf.reqBody) :
       /\ RequestBodyFilter(NextReqPieces(n), TRUE)
       /\ reqIn' = n
  /\ UNCHANGED <<conf, hdr, out, ctx, respIn, down>>

NoPreread ==
  /\ MainThreadFree /\ req.phase = "body_start"
  /\ req' = [ReadBodyHandlers(req) EXCEPT !.phase = "body"]
  /\ UNCHANGED <<conf, stage, task, rb, hdr, out, ctx, reqIn, reqDown, respIn,
                 down>>

(* A read event, or the synchronous call that follows the preread one *)
ReadBody ==
  /\ req.live
  /\ \/ req.phase = "preread"
     \/ req.phase = "body" /\ req.readH = "read_body"
     \/ req.phase = "body" /\ stage = "SUSPENDED_ON_REQ_WAF"
        /\ "eager" \in Faults /\ ~req.error
  /\ \E n \in 0 .. Len(conf.reqBody) - reqIn :
       /\ RequestBodyFilter(NextReqPieces(n), FALSE)
       /\ reqIn' = reqIn + n
  /\ UNCHANGED <<conf, hdr, out, ctx, respIn, down>>

-----------------------------------------------------------------------------
(* do_header_filter *)

(* nginx's error pages are HTML, which is_body_resp_parseable refuses *)
Parseable(r) == conf.parse /\ ~r.headerOnly /\ r.page = "orig"

(* The request as the content handler sends its header *)
AtHeader ==
  [req EXCEPT !.headerOnly = @ \/ (conf.noContent /\ req.page = "orig")]

(* ngx_http_header_filter, the last one, finds out that it is a HEAD       *)
(* request; only then is header_only set for it.                           *)
LastHeaderFilter(r) ==
  [r EXCEPT !.headerSent = TRUE, !.headerOnly = @ \/ conf.head]

(* Connection handlers end with ngx_http_run_posted_requests; the thread   *)
(* pool's notification, from which a special response may be sent, doesn't.*)
Return(r) == IF r.page = "special" THEN r ELSE RunPostedRequests(r)

(* A content handler whose header filters returned NGX_OK goes on with the *)
(* body, unless the request is header_only; otherwise it gives up.         *)
AfterHeader(r, rc) ==
  IF rc # "ok" \/ r.headerOnly THEN Return(FinalizeRequest(r, rc))
  ELSE [r EXCEPT !.phase = "sending"]

(* An upstream's response arrives piece by piece; a static file or an      *)
(* error page is sent with one call.                                       *)
Portion ==
  IF conf.upstream /\ req.page = "orig" THEN 1
  ELSE Len(RespPieces(req.page)) - respIn

(* The producer gives up on an error and is done after the last piece *)
AfterBody(r, rc) ==
  IF rc \in {"error", "internal_error"} THEN Return(FinalizeRequest(r, rc))
  ELSE IF respIn + Portion = Len(RespPieces(req.page))
  THEN FinalizeRequest(r, rc)
  ELSE r

(* ngx_http_writer *)
AfterWriter(r, rc) ==
  RunPostedRequests(IF rc # "error" /\ r.buffered THEN r
                    ELSE FinalizeRequest(r, rc))

(* drain_buffered_data_write_handler: only NGX_ERROR counts as a failure *)
AfterDrain(r, rc) ==
  IF rc = "error" THEN RunPostedRequests(FinalizeRequest(r, "internal_error"))
  ELSE IF rc = "again" \/ r.buffered THEN r
  ELSE [r EXCEPT !.writeH = ctx.prevWrite, !.wev = TRUE]

(* What the caller of a response filter does when it returned rc *)
AfterFilter(caller, r, rc) ==
  CASE caller = "header"   -> AfterHeader(r, rc)
    [] caller = "producer" -> AfterBody(r, rc)
    [] caller = "writer"   -> AfterWriter(r, rc)
    [] caller = "drain"    -> AfterDrain(r, rc)

(* Submit the final task: the request is r and Context's members are c by  *)
(* then.  If it fails, waf_final_done(false) is called at once.  Either    *)
(* way the filter returns rc.                                              *)
SubmitFinal(c, r, header, due, caller, rc) ==
  \/ /\ stage' = "PENDING_WAF_END"
     /\ task' = [task EXCEPT !["final"] = NewTask(r, due)]
     /\ req' = AfterFilter(caller, Submitted(r, "final"), rc)
     /\ ctx' = c
  \/ /\ "post" \in Faults
     /\ stage' = "AFTER_RUN_WAF_END"
     /\ req' = AfterFilter(caller,
                           Unblocked(NotSubmitted(r, "final"), header), rc)
     /\ ctx' = [c EXCEPT !.prevWrite = SavedWriteHandler(r, header)]
     /\ UNCHANGED task

FinalRunDue == stage \in {"AFTER_BEGIN_WAF", "AFTER_ON_REQ_WAF"}

(* No WAF run is due: the header goes straight down *)
HeaderPasses ==
  LET r == LastHeaderFilter(AtHeader)
  IN  /\ ~FinalRunDue
      /\ \/ /\ req' = AfterHeader(r, "ok")
            /\ down' = Append(down, Header(req.page))
         \/ /\ "senderr" \in Faults
            /\ req' = AfterHeader(r, "error")
            /\ UNCHANGED down
      /\ UNCHANGED <<stage, task, hdr, ctx>>

(* The header is buffered; without a body to wait for, the task is started *)
HeaderBuffered ==
  LET h == <<Header(req.page)>>
      r == LastHeaderFilter(AtHeader)
      c == [ctx EXCEPT !.headerOnly = @ \/ AtHeader.headerOnly,
                       !.sendBody = @ /\ Parseable(r)]
  IN  /\ FinalRunDue
      /\ \/ /\ c.sendBody
            /\ stage' = "COLLECTING_ON_RESP_DATA"
            /\ hdr' = h /\ ctx' = c /\ req' = AfterHeader(r, "ok")
            /\ UNCHANGED task
         \/ /\ ~c.sendBody
            /\ hdr' = h
            /\ SubmitFinal(c, BeforeFinal(r, TRUE), h, 0, "header", "ok")
         \/ /\ ~c.sendBody /\ "alloc" \in Faults     \* create() throws
            /\ hdr' = h /\ ctx' = c /\ req' = AfterHeader(r, "error")
            /\ UNCHANGED <<stage, task>>
         \/ /\ "alloc" \in Faults     \* the header could not be buffered
            /\ stage' = "AFTER_RUN_WAF_END"
            /\ ctx' = [ctx EXCEPT !.headerOnly = c.headerOnly]
            /\ req' = AfterHeader(r, "error")
            /\ UNCHANGED <<hdr, task>>
      /\ UNCHANGED down

(* ngx_http_send_header: it is an error to send two headers *)
HeaderRefused ==
  /\ req' = AfterHeader(req, "error")
  /\ UNCHANGED <<stage, task, hdr, ctx, down>>

HeaderFilter ==
  /\ req.live
  /\ req.phase \in {"content", "special"}
  /\ \/ ~req.headerSent /\ (HeaderPasses \/ HeaderBuffered)
     \/ req.headerSent /\ HeaderRefused
  /\ UNCHANGED <<conf, rb, out, reqIn, reqDown, respIn>>

-----------------------------------------------------------------------------
(* do_output_body_filter, for request r0 and chain in *)

Buffering == stage \in {"PENDING_WAF_END", "COLLECTING_ON_RESP_DATA"}

(* Mutant: the limit is not applied *)
Consume_Always == TRUE

(* Copy the data, or leave it to nginx (NGX_AGAIN) *)
Consume == out.copied_total < MaxSaved

StartWaf(f, in) ==
  /\ stage = "COLLECTING_ON_RESP_DATA"
  /\ f.out_total >= kMaxFilterData \/ HasLast(in)

(* The response is still held back *)
BodyBuffered(r0, in, caller) ==
  LET r       == [r0 EXCEPT !.buffered = TRUE]
      f       == BufferChain(out, in, Consume)
      rc      == IF Consume THEN "ok" ELSE "again"
      c       == [ctx EXCEPT !.sendBody = @ /\ f.out_total > 0]
      due     == IF f.out_total > kMaxFilterData THEN kMaxFilterData
                 ELSE f.out_total
  IN  /\ Buffering
      /\ \/ /\ out' \in BufferChainFailures(out, in, Consume)
            /\ req' = AfterFilter(caller, r, "internal_error")
            /\ UNCHANGED <<stage, task, ctx>>
         \/ /\ BufferChainSucceeds(out, in) /\ ~StartWaf(f, in)
            /\ out' = f /\ req' = AfterFilter(caller, r, rc)
            /\ UNCHANGED <<stage, task, ctx>>
         \/ /\ BufferChainSucceeds(out, in) /\ StartWaf(f, in)
            /\ out' = f
            /\ \/ SubmitFinal(c, BeforeFinal(r, FALSE), hdr, due, caller, rc)
               \/ /\ "alloc" \in Faults               \* create() throws
                  /\ ctx' = c /\ req' = AfterFilter(caller, r, "error")
                  /\ UNCHANGED <<stage, task>>
      /\ UNCHANGED <<hdr, down>>

(* The blocking response replaces what was held back *)
BodyCommitted(r, in, caller) ==
  /\ stage = "WAF_END_BLOCK_COMMIT"
  /\ stage' = "AFTER_RUN_WAF_END"
  /\ hdr' = << >> /\ out' = Clear(out)
  /\ down' = down \o in
  /\ req' = AfterFilter(caller, [r EXCEPT !.buffered = FALSE], "ok")
  /\ UNCHANGED <<task, ctx>>

(* What was held back, then in, goes down; send_buffered_header can fail,  *)
(* or return NGX_AGAIN: over HTTP/1 the header is then in nginx's hands,   *)
(* over HTTP/2 it is still buffered.                                       *)
BodyReleased(r0, in, caller) ==
  LET r    == [r0 EXCEPT !.buffered = FALSE]
      both == out.out # << >>
  IN  /\ ~Buffering /\ stage # "WAF_END_BLOCK_COMMIT"
      /\ \/ /\ hdr # << >> /\ "again" \in Faults
            /\ req' = AfterFilter(caller, [r EXCEPT !.buffered = TRUE],
                                  "again")
            /\ hdr' = IF conf.http2 THEN hdr ELSE << >>
            /\ down' = IF conf.http2 THEN down ELSE down \o hdr
            /\ UNCHANGED out
         \/ /\ hdr # << >> /\ "senderr" \in Faults
            /\ req' = AfterFilter(caller, [r EXCEPT !.error = @ \/ ~conf.http2],
                                  "error")
            /\ hdr' = IF conf.http2 THEN hdr ELSE << >>
            /\ UNCHANGED <<out, down>>
         \/ /\ both /\ out' \in BufferChainFailures(out, in, FALSE)
            /\ req' = AfterFilter(caller, r, "internal_error")
            /\ hdr' = << >> /\ down' = down \o hdr
         \/ /\ both => BufferChainSucceeds(out, in)
            /\ req' = AfterFilter(caller, r, "ok")
            /\ hdr' = << >> /\ down' = down \o hdr \o out.out \o in
            /\ out' = IF both THEN Clear(BufferChain(out, in, FALSE)) ELSE out
      /\ UNCHANGED <<stage, task, ctx>>

OutputBodyFilter(r0, in, caller) ==
  LET r == [r0 EXCEPT !.headerOnly = @ \/ ctx.headerOnly]
  IN  \/ BodyBuffered(r, in, caller)
      \/ BodyCommitted(r, in, caller)
      \/ BodyReleased(r, in, caller)

(* A content handler, or nginx's special response, calls the filters *)
ProduceBody ==
  /\ req.live /\ req.phase = "sending" /\ respIn < Len(RespPieces(req.page))
  /\ OutputBodyFilter(req, SubSeq(RespPieces(req.page), respIn + 1,
                                  respIn + Portion), "producer")
  /\ respIn' = respIn + Portion
  /\ UNCHANGED <<conf, rb, reqIn, reqDown>>

-----------------------------------------------------------------------------
(* The thread pool: handle(), that is run_waf_start, run_waf_req_post and  *)
(* run_waf_end.  The stage, and the size of the body, are read when the    *)
(* run starts; its outcome is published when it ends.                      *)

(* Mutant: the limit is not applied to the response body *)
Shown_Unlimited(k) ==
  CASE k = "start"   -> 0
    [] k = "reqbody" -> rb.out_total
    [] k = "final"   -> IF ctx.sendBody THEN out.out_total ELSE 0

Shown(k) ==
  CASE k = "start"   -> 0
    [] k = "reqbody" -> rb.out_total
    [] k = "final"   -> IF ~ctx.sendBody THEN 0
                        ELSE IF out.out_total > kMaxFilterData
                        THEN kMaxFilterData ELSE out.out_total

Expected == [start |-> {"ENTERED_ON_START"}, reqbody |-> Stages,
             final |-> {"PENDING_WAF_END"}]

ThreadStart(k) ==
  /\ task[k].st = "queued"
  /\ task' = [task EXCEPT ![k].st = "running", ![k].loaded = stage,
                          ![k].seen = Shown(k)]
  /\ UNCHANGED <<conf, req, stage, rb, hdr, out, ctx, reqIn, reqDown, respIn,
                 down>>

ThreadFinish(k) ==
  /\ task[k].st = "running"
  /\ \/ \E b \in IF task[k].loaded \in Expected[k] THEN BOOLEAN ELSE {FALSE} :
          /\ task' = [task EXCEPT ![k].st = "posted", ![k].ran = TRUE,
                                  ![k].block = b]
          /\ stage' = IF k = "start" /\ task[k].loaded \in Expected[k]
                      THEN IF b THEN "AFTER_BEGIN_WAF_BLOCK"
                           ELSE "AFTER_BEGIN_WAF"
                      ELSE stage
     \/ /\ "throw" \in Faults
        /\ task' = [task EXCEPT ![k].st = "posted"]
        /\ UNCHANGED stage
  /\ UNCHANGED <<conf, req, rb, hdr, out, ctx, reqIn, reqDown, respIn, down>>

-----------------------------------------------------------------------------
(* The completion handler, on the main thread *)

(* Mutant: the blocked request stays suspended *)
BlockStage_Suspended(k) ==
  IF k = "final" /\ stage = "PENDING_WAF_END" THEN "WAF_END_BLOCK_COMMIT"
  ELSE stage

(* The stage in which complete() sends the blocking response *)
BlockStage(k) ==
  CASE k = "start" -> stage
    [] k = "reqbody" -> IF stage = "SUSPENDED_ON_REQ_WAF"
                        THEN "AFTER_ON_REQ_WAF_BLOCK" ELSE stage
    [] k = "final" -> IF stage = "PENDING_WAF_END"
                      THEN "WAF_END_BLOCK_COMMIT" ELSE stage

(* PolFinalWafCtx::complete posts a write event if the request survives *)
AfterBlock(k, r, rc) ==
  LET f == FinalizeRequest(r, rc)
  IN  IF k = "final" /\ r.count > 1 THEN [f EXCEPT !.wev = TRUE] ELSE f

(* BlockingService::block, then ngx_http_finalize_request.  A response     *)
(* without template has no body.  The header is passed down in BlockStage, *)
(* and the body (or NULL) through the output filter, which leaves          *)
(* WAF_END_BLOCK_COMMIT and drops what was held back (in other stages it   *)
(* would release it); unless sending the header did not return NGX_OK.     *)
Block(k, r0) ==
  \E bodyless \in BOOLEAN :
    LET r    == LastHeaderFilter([r0 EXCEPT !.headerOnly = @ \/ bodyless])
        h    == <<Header("block")>>
        body == IF r.headerOnly THEN << >> ELSE RespPieces("block")
        commit == BlockStage(k) = "WAF_END_BLOCK_COMMIT"
    IN  \/ /\ req' = AfterBlock(k, [r EXCEPT !.buffered = FALSE], "ok")
           /\ down' = down \o h \o (IF commit THEN << >> ELSE hdr \o out.out)
                           \o body
           /\ stage' = IF commit THEN "AFTER_RUN_WAF_END" ELSE BlockStage(k)
           /\ hdr' = << >> /\ out' = Clear(out)
        \/ /\ "senderr" \in Faults
           /\ req' = AfterBlock(k, r, "error")
           /\ stage' = BlockStage(k)
           /\ UNCHANGED <<hdr, out, down>>
        \/ /\ "again" \in Faults
           /\ req' = AfterBlock(k, [r EXCEPT !.buffered = TRUE], "again")
           /\ down' = down \o h
           /\ stage' = BlockStage(k)
           /\ UNCHANGED <<hdr, out>>
        \/ /\ "alloc" \in Faults /\ body # << >>
           /\ req' = AfterBlock(k, r, "error")
           /\ down' = down \o h
           /\ stage' = BlockStage(k)
           /\ UNCHANGED <<hdr, out>>

(* complete() of a task that does not block *)
Resume(k, r) ==
  /\ CASE k = "start" ->
            /\ req' = [r EXCEPT !.wev = TRUE,
                         !.phase = IF @ = "suspended" THEN "resume" ELSE @]
            /\ UNCHANGED <<stage, ctx>>
       [] k = "reqbody" ->
            /\ req' = r
            /\ stage' = IF stage = "SUSPENDED_ON_REQ_WAF"
                        THEN "AFTER_ON_REQ_WAF" ELSE stage
            /\ UNCHANGED ctx
       [] k = "final" ->
            /\ req' = Unblocked(r, hdr)
            /\ stage' = IF stage = "PENDING_WAF_END"
                        THEN "AFTER_RUN_WAF_END" ELSE stage
            /\ ctx' = [ctx EXCEPT !.prevWrite = SavedWriteHandler(r, hdr)]
  /\ UNCHANGED <<hdr, out, down>>

(* Mutant: a run on the request body that asks to block is ignored *)
Complete_Body(k, r) ==
  IF task[k].ran /\ task[k].block /\ k # "reqbody"
  THEN Block(k, r) /\ ctx' = [ctx EXCEPT !.tagged = TRUE]
  ELSE Resume(k, r)

Complete(k, r) ==
  IF task[k].ran /\ task[k].block
  THEN Block(k, r) /\ ctx' = [ctx EXCEPT !.tagged = TRUE]
  ELSE Resume(k, r)

(* The request's write event handlers that call no filter *)
PlainWriteHandler(r) ==
  CASE r.writeH = "run_phases" /\ r.phase = "resume" -> AfterAccess(r)
    [] r.writeH = "finalizer" -> RunPostedRequests(FinalizeRequest(r, "ok"))
    [] OTHER -> RunPostedRequests(r)

ConnectionWriteHandler(r) ==
  IF r.connH = "request_handler" THEN PlainWriteHandler(r) ELSE r

(* completion_handler_impl's request, before its branches *)
Unblock(k) ==
  RestoreHandlers([req EXCEPT !.blocked = @ - 1], k, task[k])

Dereferenced(r) == [r EXCEPT !.count = @ - 1]

Completion(k) ==
  LET r == Unblock(k)
  IN  /\ MainThreadFree /\ task[k].st = "posted"
      /\ task' = [task EXCEPT ![k].st = "destroyed"]
      /\ \/ /\ r.terminated
            /\ req' = ConnectionWriteHandler(Dereferenced(r))
            /\ UNCHANGED <<stage, hdr, out, ctx, down>>
         \/ /\ ~r.terminated /\ r.count > 1
            /\ Complete(k, Dereferenced(r))
         \/ /\ ~r.terminated /\ r.count > 1 /\ "revent" \in Faults
            /\ req' = FinalizeRequest(r, "internal_error")
            /\ UNCHANGED <<stage, hdr, out, ctx, down>>
         \/ /\ ~r.terminated /\ r.count <= 1
            /\ req' = FinalizeRequest(r, "done")
            /\ UNCHANGED <<stage, hdr, out, ctx, down>>
      /\ UNCHANGED <<conf, rb, reqIn, reqDown, respIn>>

-----------------------------------------------------------------------------
(* Connection events *)

WriteEvent ==
  LET r       == [req EXCEPT !.wev = FALSE]
      filters == r.connH = "request_handler" /\ r.writeH \in {"writer", "drain"}
  IN  /\ MainThreadFree
      /\ \/ /\ ~filters
            /\ req' = ConnectionWriteHandler(r)
            /\ UNCHANGED <<stage, task, hdr, out, ctx, down>>
         \/ /\ r.connH = "request_handler" /\ r.writeH = "task_empty"
            /\ "wevent" \in Faults
            /\ req' = FinalizeRequest(r, "internal_error")
            /\ UNCHANGED <<stage, task, hdr, out, ctx, down>>
         \/ /\ filters /\ r.writeH = "writer"
            /\ OutputBodyFilter(r, << >>, "writer")
         \/ /\ filters /\ r.writeH = "drain"
            /\ OutputBodyFilter(r, << >>, "drain")
      /\ UNCHANGED <<conf, rb, reqIn, reqDown, respIn>>

(* The client goes away, a timer expires, an upstream fails: nginx         *)
(* finalizes the request with an error.                                    *)
Abort ==
  /\ MainThreadFree /\ "abort" \in Faults
  /\ req' = RunPostedRequests(FinalizeRequest(req, "error"))
  /\ ctx' = [ctx EXCEPT !.gone = TRUE]
  /\ UNCHANGED <<conf, stage, task, rb, hdr, out, reqIn, reqDown, respIn, down>>

(* The request is gone *)
Terminated == ~req.live /\ UNCHANGED vars

Next ==
  \/ OnRequestStart
  \/ PrereadBody \/ NoPreread \/ ReadBody
  \/ HeaderFilter \/ ProduceBody
  \/ \E k \in Kinds : ThreadStart(k) \/ ThreadFinish(k) \/ Completion(k)
  \/ WriteEvent
  \/ Abort
  \/ Terminated

Spec == Init /\ [][Next]_vars

(* The pool runs queued tasks and notifies the main thread; posted events  *)
(* are handled; the client sends its body and the upstream its response.   *)
(* Nothing is assumed about events that nobody posted.                     *)
Fairness ==
  /\ WF_vars(OnRequestStart)
  /\ WF_vars(PrereadBody \/ NoPreread) /\ WF_vars(ReadBody)
  /\ WF_vars(HeaderFilter) /\ WF_vars(ProduceBody)
  /\ \A k \in Kinds : /\ WF_vars(ThreadStart(k)) /\ WF_vars(ThreadFinish(k))
                      /\ WF_vars(Completion(k))
  /\ WF_vars(req.wev /\ WriteEvent)

FairSpec == Spec /\ Fairness

-----------------------------------------------------------------------------
(* Properties *)

FilterCtx == [out : Seq([of : {"req", "orig", "special", "block"}, n : Nat,
                         size : Nat, last : BOOLEAN]),
              out_total : Nat, copied_total : Nat, found_last : BOOLEAN]

(* Every variable has the type of the member or argument it stands for. *)
TypeOK ==
  /\ conf \in Configs
  /\ req \in Request
  /\ stage \in Stages
  /\ task \in [Kinds -> Task]
  /\ rb \in FilterCtx /\ out \in FilterCtx
  /\ ctx \in [sendBody : BOOLEAN, headerOnly : BOOLEAN,
              prevWrite : WriteHandlers, tagged : BOOLEAN, gone : BOOLEAN]
  /\ reqIn \in Nat /\ respIn \in Nat

B(k) == IF InFlight(k) THEN 1 ELSE 0

Tasks == B("start") + B("reqbody") + B("final")

(* A task that was submitted, and whose completion handler has not run,    *)
(* lies in the request pool together with the context, the span and the    *)
(* buffers it uses: the pool must not be destroyed, whatever terminates    *)
(* the request meanwhile (main->blocked in submit()).                      *)
PoolOutlivesTask == \A k \in Kinds : InFlight(k) => req.live

(* The request is referenced once for its content handler, until this is   *)
(* finished, and once for each task in flight: no submission, failed       *)
(* submission, completion or termination loses or leaks a reference.       *)
RefcountExact ==
  /\ req.blocked = Tasks
  /\ req.live /\ ~req.posted =>
       req.count = Tasks + (IF req.closed THEN 0 ELSE 1)

(* s is how t begins *)
Begins(s, t) == \E n \in 0 .. Len(t) : s = SubSeq(t, 1, n)

FullResponse(page) == <<Header(page)>> \o RespPieces(page)

(* The client gets (a prefix of) exactly one response: the original one in *)
(* order and without gaps, nginx's error page, or the blocking page; never *)
(* parts of two of them.                                                   *)
OneResponse ==
  \E page \in {"orig", "special", "block"} : Begins(down, FullResponse(page))

(* A request whose client stays ends with a whole response sent, although  *)
(* submissions, WAF runs or the watch on the socket may fail.              *)
ResponseComplete ==
  ~req.live /\ ~ctx.gone =>
    \/ \E page \in {"orig", "special", "block"} :
         \/ down = FullResponse(page)
         \/ (conf.head \/ conf.noContent) /\ down = <<Header(page)>>
    \/ down = <<Header("block")>>      \* a block without template

(* The request body reaches the next filter in order and without gaps, and *)
(* completely before any content is produced.                              *)
RequestIntact ==
  /\ Begins(reqDown, ReqPieces)
  /\ req.phase \in {"content", "sending"} /\ req.page = "orig" =>
       reqDown = ReqPieces

(* What a WAF run is shown of a body is what had been collected when it    *)
(* was submitted, although the main thread may go on buffering the         *)
(* response while the run reads the buffer.                                *)
WafSeesSubmitted ==
  \A k \in Kinds :
    task[k].st \in {"running", "posted", "destroyed"} =>
      task[k].seen = task[k].due

(* The sizes of the chains the output filter is called with *)
CallSizes ==
  IF conf.upstream /\ req.page = "orig"
  THEN {conf.respBody[i] : i \in DOMAIN conf.respBody}
  ELSE {SizeOf(RespPieces(req.page))}

(* doc/configuration.md: max_saved_output_data is the approximate maximum  *)
(* of memory used to save the response.  It is exceeded by less than what  *)
(* one call of the output filter brings.                                   *)
SavedOutputBounded ==
  out.copied_total > 0 =>
    \E n \in CallSizes : out.copied_total < MaxSaved + n

(* A request that got the appsec.blocked tag is reported when it is logged *)
(* (do_on_main_log_request returns early in the other stages).             *)
BlockedIsReported ==
  ~req.live /\ ctx.tagged =>
    stage \in {"AFTER_RUN_WAF_END", "AFTER_BEGIN_WAF_BLOCK",
               "AFTER_ON_REQ_WAF_BLOCK"}

(* Handlers swapped for a task are back in place once it has completed,    *)
(* and while the first or the second task is in flight no read event can   *)
(* reach the request's body reader.                                        *)
HandlersRestored ==
  req.live =>
    /\ req.writeH = "task_empty" => InFlight("start") \/ InFlight("reqbody")
    /\ req.connH = "empty" => InFlight("final")
    /\ InFlight("start") \/ InFlight("reqbody") => req.readH # "read_body"

Executing(k) == task[k].st \in {"queued", "running"}

(* libddwaf's context, the span and the buffers are used by one thread at  *)
(* a time: no two WAF runs of a request are queued or running together,    *)
(* whatever responses nginx produces while a run is in flight.             *)
WafRunsAlone == \A j, k \in Kinds : Executing(j) /\ Executing(k) => j = k

(* The request ends, whatever the order of events: no suspended request    *)
(* waits for an event that nobody posts.                                   *)
RequestEnds == <>(~req.live)

=============================================================================
