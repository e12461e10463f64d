-------------------------- MODULE WafContextProofs --------------------------
(***************************************************************************)
(* Two theorems about WafContext, for every set of configurations, every   *)
(* limit and every set of faults: the request pool outlives the tasks that *)
(* lie in it, and the WAF runs of a request never overlap.                 *)
(*                                                                         *)
(* Neither is inductive.  The pool is destroyed when no reference and no   *)
(* pending operation is left, so the first one needs main->blocked to be   *)
(* exactly the number of tasks in flight; and that needs every task to be  *)
(* submitted once, which the stage guarantees: StageFacts says which       *)
(* stages a task that was submitted, or is being executed, is compatible   *)
(* with.  StageFacts also gives the second theorem, since the three stages *)
(* in which a task may be executing are different.                         *)
(***************************************************************************)
EXTENDS WafInvariants, TLAPS

-----------------------------------------------------------------------------
(* What handlers do to the request, as far as the pool is concerned.       *)

(* From r to q no pending operation is added or removed, and the pool is   *)
(* not destroyed while there is one.                                       *)
Keeps(r, q) ==
  /\ Counted(q)
  /\ q.blocked = r.blocked
  /\ r.live /\ r.blocked > 0 => q.live

(* ngx_http_close_request keeps the pool while an operation is pending. *)
LEMMA CloseKeeps ==
  ASSUME NEW r, Counted(r) PROVE Keeps(r, CloseRequest(r))
  BY Zenon DEF Keeps, CloseRequest, Counted

(* So does ngx_http_terminate_request, which never destroys it at once. *)
LEMMA TerminateKeeps ==
  ASSUME NEW r, Counted(r) PROVE Keeps(r, TerminateRequest(r))
  BY DEF Keeps, TerminateRequest, Counted

(* So does the terminate handler, run as a posted request. *)
LEMMA RunPostedKeeps ==
  ASSUME NEW r, Counted(r) PROVE Keeps(r, RunPostedRequests(r))
  BY Zenon DEF RunPostedRequests, CloseRequest, Keeps, Counted

(* So does ngx_http_finalize_request, for any return code. *)
LEMMA FinalizeKeeps ==
  ASSUME NEW r, NEW rc, Counted(r) PROVE Keeps(r, FinalizeRequest(r, rc))
  BY ZenonT(30) DEF FinalizeRequest, CloseRequest, TerminateRequest, Keeps,
                    Counted

(* Leaving the access phase, also after a submission that failed *)
LEMMA AccessKeeps ==
  ASSUME NEW r, Counted(r)
  PROVE  /\ Keeps(r, AfterAccess(r))
         /\ Keeps(r, AfterAccess(NotSubmitted(r, "start")))
<1>1. \A q : Counted(q) => Keeps(q, AfterAccess(q))
  BY ZenonT(30) DEF AfterAccess, StartContent, Keeps, Counted
<1>2. Keeps(r, NotSubmitted(r, "start"))
  BY SMTT(30)
     DEF NotSubmitted, Submitted, ReplaceHandlers, RestoreHandlers, Keeps,
         Counted
<1> QED BY ZenonT(30), <1>1, <1>2 DEF Keeps

(* submit() undoes its changes when the task could not be posted. *)
LEMMA NotSubmittedKeeps ==
  ASSUME NEW r, NEW k, Counted(r) PROVE Keeps(r, NotSubmitted(r, k))
  BY DEF NotSubmitted, Submitted, ReplaceHandlers, RestoreHandlers, Keeps,
         Counted

(* What nginx does after a call of the request body filter *)
LEMMA BodyCallKeeps ==
  ASSUME NEW r, NEW rc, NEW passed, Counted(r)
  PROVE  /\ Keeps(r, AfterBodyCall(r, rc, passed))
         /\ Keeps(r, AfterPrereadCall(r, rc, passed))
<1> DEFINE q == IF rc = "internal_error" THEN FinalizeRequest(r, rc)
                ELSE IF Len(passed) = Len(conf.reqBody) THEN StartContent(r)
                ELSE [r EXCEPT !.phase = "body"]
<1>1. Keeps(r, q)
  BY ZenonT(30), FinalizeKeeps DEF StartContent, Keeps, Counted
<1>2. AfterBodyCall(r, rc, passed) = EventEnds(q)
  BY Zenon DEF AfterBodyCall
<1> HIDE DEF q
<1>3. Keeps(r, AfterBodyCall(r, rc, passed))
  BY ZenonT(30), <1>1, <1>2, RunPostedKeeps DEF EventEnds, Keeps
<1> QED BY ZenonT(30), <1>3
           DEF AfterPrereadCall, ReadBodyHandlers, Keeps, Counted

(* ... after a call of the header filter *)
LEMMA HeaderKeeps ==
  ASSUME NEW r, NEW rc, Counted(r) PROVE Keeps(r, AfterHeader(r, rc))
<1>1. Keeps(r, FinalizeRequest(r, rc))
  BY ZenonT(30), FinalizeKeeps
<1>2. Keeps(r, Return(FinalizeRequest(r, rc)))
  BY ZenonT(30), <1>1, RunPostedKeeps DEF Return, Keeps
<1> QED BY ZenonT(30), <1>2 DEF AfterHeader, Keeps, Counted

(* waf_final_done(false), with the preparation of the header drain *)
LEMMA UnblockedKeeps ==
  ASSUME NEW r, NEW header, Counted(r) PROVE Keeps(r, Unblocked(r, header))
  BY DEF Unblocked, PrepareDrain, Keeps, Counted

(* What the callers of the response filters do after a call *)
FilterCallers == {"header", "producer", "writer", "drain"}

(* A caller of a response filter gives the request at most what finalizing  *)
(* does                                                                     *)
LEMMA FilterKeeps ==
  ASSUME NEW caller \in FilterCallers, NEW r, NEW rc, Counted(r)
  PROVE  Keeps(r, AfterFilter(caller, r, rc))
<1>1. \A q : Keeps(r, FinalizeRequest(r, q))
  BY ZenonT(30), FinalizeKeeps
<1>2. \A q : /\ Keeps(r, Return(FinalizeRequest(r, q)))
             /\ Keeps(r, RunPostedRequests(FinalizeRequest(r, q)))
  BY ZenonT(30), <1>1, RunPostedKeeps DEF Return, Keeps
<1>3. Keeps(r, AfterBody(r, rc))
  BY ZenonT(30), <1>1, <1>2 DEF AfterBody, Keeps
<1>4. Keeps(r, AfterWriter(r, rc))
  BY ZenonT(30), <1>2, RunPostedKeeps DEF AfterWriter
<1>5. Keeps(r, AfterDrain(r, rc))
  BY ZenonT(30), <1>2 DEF AfterDrain, Keeps, Counted
<1> QED BY ZenonT(30), <1>3, <1>4, <1>5, HeaderKeeps
           DEF AfterFilter, FilterCallers

(* The connection's write handler, when it calls no filter *)
LEMMA ConnectionKeeps ==
  ASSUME NEW r, Counted(r) PROVE Keeps(r, ConnectionWriteHandler(r))
<1>1. Keeps(r, RunPostedRequests(r)) /\ Keeps(r, AfterAccess(r))
  BY ZenonT(30), RunPostedKeeps, AccessKeeps
<1>2. Keeps(r, RunPostedRequests(FinalizeRequest(r, "ok")))
  BY ZenonT(30), FinalizeKeeps, RunPostedKeeps DEF Keeps
<1> QED BY ZenonT(30), <1>1, <1>2
           DEF ConnectionWriteHandler, PlainWriteHandler, Keeps

(* The end of a blocking response *)
LEMMA BlockKeeps ==
  ASSUME NEW r, NEW k, NEW rc, Counted(r) PROVE Keeps(r, AfterBlock(k, r, rc))
<1>1. Keeps(r, FinalizeRequest(r, rc))
  BY FinalizeKeeps
<1> QED BY ZenonT(30), <1>1 DEF AfterBlock, Keeps, Counted

-----------------------------------------------------------------------------
(* A handler that leaves the tasks alone *)
Quiet ==
  /\ req.live
  /\ task' = task
  /\ Keeps(req, req')
  /\ StageFacts'

(* A task of kind k is made *)
Queued(k) == \E r, due : task' = [task EXCEPT ![k] = NewTask(r, due)]

(* A new task is queued, the others are as before. *)
LEMMA QueuedTask ==
  ASSUME NEW k \in Kinds, DOMAIN task = Kinds, Queued(k)
  PROVE  /\ DOMAIN task' = Kinds
         /\ task'[k].st = "queued"
         /\ Shaped(task'[k])
         /\ \A j \in Kinds \ {k} : task'[j] = task[j]
<1>1. PICK r, due : task' = [task EXCEPT ![k] = NewTask(r, due)]
  BY ZenonT(30) DEF Queued
<1>2. DOMAIN NewTask(r, due) = DOMAIN NoTask /\ NewTask(r, due).st = "queued"
  BY DEF NewTask, NoTask
<1>3. Shaped(NewTask(r, due))
  BY ZenonT(30), <1>2 DEF NoTask, Shaped
<1> QED BY ZenonT(30), <1>1, <1>2, <1>3

(* A handler that submits a task of kind k *)
Submits(k) ==
  /\ req.live
  /\ ~InFlight(k)
  /\ Queued(k)
  /\ \E r : Counted(r) /\ r.blocked = req.blocked /\ r.live = req.live
            /\ Keeps(Submitted(r, k), req')
  /\ StageFacts'

(* The invariant survives a handler that leaves the tasks alone ... *)
LEMMA QuietStep == IInv /\ Quiet => IInv'
  BY DEF IInv, Quiet, Keeps, Counted, Tasks, B, InFlight, Kinds

(* submit() adds one pending operation. *)
LEMMA SubmittedCounted ==
  ASSUME NEW r, NEW k \in Kinds, Counted(r)
  PROVE  /\ Counted(Submitted(r, k)) /\ Submitted(r, k).blocked = r.blocked + 1
         /\ Submitted(r, k).live = r.live
  BY DEF Submitted, ReplaceHandlers, Counted

(* ... and one that submits a task. *)
LEMMA SubmitStep == ASSUME NEW k \in Kinds, IInv, Submits(k) PROVE IInv'
<1>1. PICK r : Counted(r) /\ r.blocked = req.blocked /\ r.live = req.live
            /\ Keeps(Submitted(r, k), req')
  BY ZenonT(30) DEF Submits
<1>2. /\ DOMAIN task' = Kinds
      /\ task'[k].st = "queued"
      /\ Shaped(task'[k])
      /\ \A j \in Kinds \ {k} : task'[j] = task[j]
  BY ZenonT(30), QueuedTask DEF IInv, Submits
<1>3. Counted(req') /\ req'.blocked = req.blocked + 1
  <2>1. Submitted(r, k).blocked = r.blocked + 1
    BY ZenonT(30), <1>1, SubmittedCounted
  <2> QED BY ZenonT(30), <1>1, <2>1 DEF Keeps
<1>9. req.blocked + 1 > 0 => req'.live
  <2>1. /\ Submitted(r, k).blocked = r.blocked + 1
        /\ Submitted(r, k).live = r.live
    BY ZenonT(30), <1>1, SubmittedCounted
  <2> QED BY ZenonT(30), <1>1, <2>1 DEF Keeps, Submits
<1>7. Tasks' = Tasks + 1
  BY SMTT(30), <1>2 DEF Tasks, B, InFlight, Kinds, Submits
<1>8. Tasks \in Nat
  BY DEF Tasks, B
<1> QED BY SMTT(30), <1>2, <1>3, <1>7, <1>8, <1>9 DEF IInv, Submits

(* The stage changes of the request body filter without a submission *)
ReqStage ==
  \/ stage' = stage
  \/ /\ stage \in {"AFTER_BEGIN_WAF", "COLLECTING_ON_REQ_DATA"}
     /\ stage' \in {"COLLECTING_ON_REQ_DATA_PREREAD", "COLLECTING_ON_REQ_DATA",
                    "AFTER_ON_REQ_WAF"}

(* do_request_body_filter: nothing is submitted, or the task on the        *)
(* request body is, from a collecting stage.                               *)
LEMMA BodyFilterCall ==
  ASSUME NEW in, NEW preread, RequestBodyFilter(in, preread)
  PROVE  \/ /\ ReqStage /\ task' = task
            /\ \E q, rc, passed :
                 /\ q = req \/ q = NotSubmitted(req, "reqbody")
                 /\ req' = AfterRequestFilter(preread, q, rc, passed)
         \/ /\ stage \in {"AFTER_BEGIN_WAF", "COLLECTING_ON_REQ_DATA"}
            /\ stage' = "SUSPENDED_ON_REQ_WAF"
            /\ Queued("reqbody")
            /\ \E rc, passed :
                 req' = AfterRequestFilter(preread, Submitted(req, "reqbody"),
                                           rc, passed)
  BY ZenonT(30) DEF RequestBodyFilter, ReqBuffer, ReqBufferFails, ReqPass,
         ReqPassDownstream, ReqRunWaf, AfterReqWaf, ReqStage, Queued

(* r and q agree on the two fields *)
Same(r, q) == Counted(q) /\ q.blocked = r.blocked /\ q.live = r.live

(* The stage changes of the header and output filters without a submission *)
RespStage ==
  \/ stage' = stage
  \/ /\ stage \in {"AFTER_BEGIN_WAF", "AFTER_ON_REQ_WAF"}
     /\ stage' \in {"COLLECTING_ON_RESP_DATA", "AFTER_RUN_WAF_END"}
  \/ /\ stage \in {"COLLECTING_ON_RESP_DATA", "WAF_END_BLOCK_COMMIT"}
     /\ stage' = "AFTER_RUN_WAF_END"

(* What a call of the output filter comes to: Settled if the final task is *)
(* not submitted, Started if it is.                                        *)
Settled(q) == RespStage /\ task' = task /\ Keeps(req, q)

Started(q) ==
  /\ stage \in {"AFTER_BEGIN_WAF", "AFTER_ON_REQ_WAF",
                "COLLECTING_ON_RESP_DATA"}
  /\ stage' = "PENDING_WAF_END"
  /\ Queued("final")
  /\ \E r : Same(req, r) /\ q = Submitted(r, "final")

(* The requests the output filter hands back to its caller *)
LEMMA OutputRequests ==
  ASSUME NEW r0, Same(req, r0)
  PROVE  LET r == [r0 EXCEPT !.headerOnly = @ \/ ctx.headerOnly]
             b == [r EXCEPT !.buffered = TRUE]
             c == [r EXCEPT !.buffered = FALSE]
             g == BeforeFinal(b, FALSE)
         IN  /\ Same(req, b) /\ Same(req, g)
             /\ Keeps(req, b) /\ Keeps(req, c)
             /\ Keeps(req, [c EXCEPT !.buffered = TRUE])
             /\ Keeps(req, [c EXCEPT !.error = @ \/ ~conf.http2])
             /\ Keeps(req, Unblocked(NotSubmitted(g, "final"), hdr))
<1> DEFINE r == [r0 EXCEPT !.headerOnly = @ \/ ctx.headerOnly]
           b == [r EXCEPT !.buffered = TRUE]
           c == [r EXCEPT !.buffered = FALSE]
           g == BeforeFinal(b, FALSE)
<1>1. Same(req, r)
  BY DEF Same, Counted
<1> HIDE DEF r
<1>2. Same(req, b) /\ Same(req, c) /\ Same(req, g)
  BY ZenonT(30), <1>1 DEF Same, Counted, BeforeFinal
<1>3. /\ Same(req, [c EXCEPT !.buffered = TRUE])
      /\ Same(req, [c EXCEPT !.error = @ \/ ~conf.http2])
  BY ZenonT(30), <1>1 DEF Same, Counted
<1>4. Keeps(g, NotSubmitted(g, "final"))
  BY Zenon, <1>2, NotSubmittedKeeps DEF Same
<1>5. Keeps(NotSubmitted(g, "final"), Unblocked(NotSubmitted(g, "final"), hdr))
  BY ZenonT(30), <1>4, UnblockedKeeps DEF Keeps
<1>6. Keeps(req, Unblocked(NotSubmitted(g, "final"), hdr))
  <2> HIDE DEF g
  <2> QED BY ZenonT(30), <1>2, <1>4, <1>5 DEF Same, Keeps
<1>7. /\ Keeps(req, b) /\ Keeps(req, c)
      /\ Keeps(req, [c EXCEPT !.buffered = TRUE])
      /\ Keeps(req, [c EXCEPT !.error = @ \/ ~conf.http2])
  <2> HIDE DEF b, c
  <2> QED BY ZenonT(30), <1>2, <1>3 DEF Same, Keeps
<1> QED BY Zenon, <1>2, <1>6, <1>7 DEF r

(* do_output_body_filter *)
LEMMA FilterOutput ==
  ASSUME NEW r0, NEW in, NEW caller, Same(req, r0),
         OutputBodyFilter(r0, in, caller)
  PROVE  \E q, rc : /\ Settled(q) \/ Started(q)
                    /\ req' = AfterFilter(caller, q, rc)
<1> DEFINE r == [r0 EXCEPT !.headerOnly = @ \/ ctx.headerOnly]
<1>1. CASE BodyBuffered(r, in, caller)
  <2> DEFINE b == [r EXCEPT !.buffered = TRUE]
             g == BeforeFinal(b, FALSE)
             u == Unblocked(NotSubmitted(g, "final"), hdr)
  <2>1. \/ /\ stage' = stage /\ task' = task
           /\ \E rc : req' = AfterFilter(caller, b, rc)
        \/ /\ stage = "COLLECTING_ON_RESP_DATA" /\ stage' = "PENDING_WAF_END"
           /\ Queued("final")
           /\ \E rc : req' = AfterFilter(caller, Submitted(g, "final"), rc)
        \/ /\ stage = "COLLECTING_ON_RESP_DATA" /\ stage' = "AFTER_RUN_WAF_END"
           /\ task' = task /\ \E rc : req' = AfterFilter(caller, u, rc)
    BY ZenonT(30), <1>1
       DEF BodyBuffered, SubmitFinal, Buffering, StartWaf, Queued
  <2>2. Keeps(req, b) /\ Keeps(req, u) /\ Same(req, g)
    BY Zenon, OutputRequests
  <2> HIDE DEF b, g, u
  <2> QED BY ZenonT(30), <2>1, <2>2 DEF Settled, Started, RespStage
<1>2. CASE BodyCommitted(r, in, caller)
  BY ZenonT(30), <1>2, OutputRequests DEF BodyCommitted, Settled, RespStage
<1>3. CASE BodyReleased(r, in, caller)
  BY ZenonT(30), <1>3, OutputRequests DEF BodyReleased, Settled, RespStage
<1> QED BY ZenonT(30), <1>1, <1>2, <1>3 DEF OutputBodyFilter

(* The stage facts survive these changes of the stage, *)
LEMMA StageStep ==
  ASSUME IInv, task' = task, ReqStage \/ RespStage PROVE StageFacts'
  BY DEF IInv, StageFacts, Executing, ReqStage, RespStage

(* the submission of the task on the request body, which is the first, *)
LEMMA ReqBodySubmitted ==
  ASSUME IInv,
         stage \in {"AFTER_BEGIN_WAF", "COLLECTING_ON_REQ_DATA"},
         stage' = "SUSPENDED_ON_REQ_WAF",
         Queued("reqbody")
  PROVE  StageFacts' /\ ~InFlight("reqbody")
<1>1. /\ task'["reqbody"].st = "queued"
      /\ \A j \in Kinds \ {"reqbody"} : task'[j] = task[j]
  BY ZenonT(30), QueuedTask DEF IInv, Kinds
<1> QED BY ZenonT(30), <1>1 DEF IInv, StageFacts, Executing, InFlight, Kinds

(* and that of the final task, which is the first. *)
LEMMA FinalSubmitted ==
  ASSUME IInv,
         stage \in {"AFTER_BEGIN_WAF", "AFTER_ON_REQ_WAF",
                    "COLLECTING_ON_RESP_DATA"},
         stage' = "PENDING_WAF_END",
         Queued("final")
  PROVE  StageFacts' /\ ~InFlight("final")
<1>1. /\ task'["final"].st = "queued"
      /\ \A j \in Kinds \ {"final"} : task'[j] = task[j]
  BY ZenonT(30), QueuedTask DEF IInv, Kinds
<1> QED BY ZenonT(30), <1>1 DEF IInv, StageFacts, Executing, InFlight, Kinds

(* The access phase handler *)
LEMMA OnRequestStartStep == IInv /\ OnRequestStart => IInv'
<1> SUFFICES ASSUME IInv, OnRequestStart PROVE Quiet \/ Submits("start")
  BY ZenonT(30), QuietStep, SubmitStep DEF Kinds
<1>0. Counted(req) BY DEF IInv
<1>1. CASE /\ task' = task /\ stage' \in {"DISABLED", "ENTERED_ON_START"}
           /\ \/ req' = AfterAccess(req)
              \/ req' = AfterAccess(NotSubmitted(req, "start"))
  <2>1. Keeps(req, req')
    BY ZenonT(30), <1>0, <1>1, AccessKeeps
  <2>2. StageFacts'
    BY ZenonT(30), <1>1 DEF IInv, StageFacts, Executing, OnRequestStart
  <2> QED BY ZenonT(30), <1>1, <2>1, <2>2 DEF Quiet, OnRequestStart
<1>2. CASE /\ Queued("start") /\ stage' = "ENTERED_ON_START"
           /\ req' = [Submitted(req, "start") EXCEPT !.phase = "suspended"]
  <2>1. /\ task'["start"].st = "queued"
        /\ \A j \in Kinds \ {"start"} : task'[j] = task[j]
    BY ZenonT(30), <1>2, QueuedTask DEF IInv, Kinds
  <2>2. StageFacts' /\ ~InFlight("start")
    BY ZenonT(30), <1>2, <2>1
       DEF IInv, StageFacts, Executing, OnRequestStart, InFlight, Kinds
  <2>3. Counted(Submitted(req, "start"))
    BY ZenonT(30), <1>0, SubmittedCounted DEF Kinds
  <2>4. Keeps(Submitted(req, "start"), req')
    BY ZenonT(30), <1>2, <2>3 DEF Keeps, Counted
  <2> QED BY ZenonT(30), <1>0, <1>2, <2>2, <2>4 DEF Submits, OnRequestStart
<1> QED BY ZenonT(30), <1>1, <1>2 DEF OnRequestStart, Queued

(* The request body filter *)
LEMMA ReadBodyStep == IInv /\ (PrereadBody \/ ReadBody) => IInv'
<1> SUFFICES ASSUME IInv, PrereadBody \/ ReadBody
             PROVE  Quiet \/ Submits("reqbody")
  BY ZenonT(30), QuietStep, SubmitStep DEF Kinds
<1>0. Counted(req) /\ req.live
  BY Zenon DEF IInv, PrereadBody, ReadBody, MainThreadFree
<1>1. PICK in, preread : RequestBodyFilter(in, preread)
  BY ZenonT(30) DEF PrereadBody, ReadBody
<1>2. Keeps(req, req) /\ Keeps(req, NotSubmitted(req, "reqbody"))
  BY ZenonT(30), <1>0, NotSubmittedKeeps DEF Keeps
<1>3. \A r, rc, passed :
        Counted(r) => Keeps(r, AfterRequestFilter(preread, r, rc, passed))
  BY ZenonT(30), BodyCallKeeps DEF AfterRequestFilter
<1>4. CASE ReqStage /\ task' = task /\ \E q, rc, passed :
             /\ q = req \/ q = NotSubmitted(req, "reqbody")
             /\ req' = AfterRequestFilter(preread, q, rc, passed)
  <2>1. Keeps(req, req')
    BY SMTT(30), <1>2, <1>3, <1>4 DEF Keeps
  <2> QED BY ZenonT(30), <1>0, <1>4, <2>1, StageStep DEF Quiet
<1>5. CASE /\ stage \in {"AFTER_BEGIN_WAF", "COLLECTING_ON_REQ_DATA"}
           /\ stage' = "SUSPENDED_ON_REQ_WAF"
           /\ Queued("reqbody")
           /\ \E rc, passed :
                req' = AfterRequestFilter(preread, Submitted(req, "reqbody"),
                                          rc, passed)
  <2>1. Counted(Submitted(req, "reqbody"))
    BY ZenonT(30), <1>0, SubmittedCounted DEF Kinds
  <2>2. Keeps(Submitted(req, "reqbody"), req')
    BY ZenonT(30), <1>3, <1>5, <2>1
  <2>3. StageFacts' /\ ~InFlight("reqbody")
    BY ZenonT(30), <1>5, ReqBodySubmitted
  <2> QED BY ZenonT(30), <1>0, <1>5, <2>2, <2>3 DEF Submits
<1> QED BY ZenonT(30), <1>1, <1>4, <1>5, BodyFilterCall

(* A request whose body did not come with its header *)
LEMMA NoPrereadStep == IInv /\ NoPreread => IInv'
<1> SUFFICES ASSUME IInv, NoPreread PROVE Quiet
  BY ZenonT(30), QuietStep
<1>1. Keeps(req, req')
  BY DEF IInv, NoPreread, ReadBodyHandlers, Keeps, Counted
<1>2. StageFacts'
  BY ZenonT(30), StageStep DEF NoPreread, ReqStage
<1> QED BY ZenonT(30), <1>1, <1>2 DEF Quiet, NoPreread, MainThreadFree

(* A handler that settles, or starts the final run and then hands the      *)
(* request to a caller that keeps the pool                                 *)
LEMMA OutputStep ==
  ASSUME IInv, req.live, NEW q, Settled(q) \/ Started(q),
         Counted(q) => Keeps(q, req')
  PROVE  IInv'
<1> SUFFICES Quiet \/ Submits("final")
  BY ZenonT(30), QuietStep, SubmitStep DEF Kinds
<1>1. CASE Settled(q)
  <2>1. Keeps(req, req')
    BY ZenonT(30), <1>1 DEF Settled, Keeps
  <2> QED BY ZenonT(30), <1>1, <2>1, StageStep DEF Quiet, Settled
<1>2. CASE Started(q)
  <2>1. PICK r : Same(req, r) /\ q = Submitted(r, "final")
    BY ZenonT(30), <1>2 DEF Started
  <2>2. Keeps(Submitted(r, "final"), req')
    BY ZenonT(30), <2>1, SubmittedCounted DEF Same, Kinds
  <2>3. StageFacts' /\ ~InFlight("final")
    BY ZenonT(30), <1>2, FinalSubmitted DEF Started
  <2> QED BY ZenonT(30), <1>2, <2>1, <2>2, <2>3 DEF Submits, Same, Started
<1> QED BY ZenonT(30), <1>1, <1>2

(* The header filter *)
LEMMA HeaderFilterStep == IInv /\ HeaderFilter => IInv'
<1> SUFFICES ASSUME IInv, HeaderFilter PROVE IInv'
  OBVIOUS
<1> DEFINE r == LastHeaderFilter(AtHeader)
           g == BeforeFinal(r, TRUE)
           u == Unblocked(NotSubmitted(g, "final"), <<Header(req.page)>>)
<1>0. Counted(req) /\ req.live
  BY DEF IInv, HeaderFilter
<1>1. Same(req, r) /\ Same(req, g)
  BY Zenon, <1>0 DEF Same, Counted, BeforeFinal, LastHeaderFilter, AtHeader
<1>2. Keeps(req, u)
  <2>1. Keeps(g, NotSubmitted(g, "final"))
    BY Zenon, <1>1, NotSubmittedKeeps DEF Same
  <2>2. Keeps(NotSubmitted(g, "final"), u)
    BY ZenonT(30), <2>1, UnblockedKeeps DEF Keeps
  <2> HIDE DEF g, u
  <2> QED BY ZenonT(30), <1>1, <2>1, <2>2 DEF Same, Keeps
<1>3. Keeps(req, req) /\ Keeps(req, r)
  BY ZenonT(30), <1>0, <1>1 DEF Same, Keeps
<1>4. CASE HeaderPasses
  <2>1. task' = task /\ stage' = stage /\ \E rc : req' = AfterHeader(r, rc)
    BY ZenonT(30), <1>4 DEF HeaderPasses
  <2> HIDE DEF r
  <2>2. \E rc : Settled(r) /\ req' = AfterHeader(r, rc)
    BY ZenonT(30), <1>3, <2>1 DEF Settled, RespStage
  <2> QED BY ZenonT(30), <1>0, <2>2, HeaderKeeps, OutputStep
<1>5. CASE HeaderRefused
  <2>1. Settled(req) /\ req' = AfterHeader(req, "error")
    BY ZenonT(30), <1>3, <1>5 DEF HeaderRefused, Settled, RespStage
  <2> QED BY ZenonT(30), <1>0, <2>1, HeaderKeeps, OutputStep
<1>6. CASE HeaderBuffered
  <2>1. /\ stage \in {"AFTER_BEGIN_WAF", "AFTER_ON_REQ_WAF"}
        /\ \/ /\ stage' \in {stage, "COLLECTING_ON_RESP_DATA",
                              "AFTER_RUN_WAF_END"}
              /\ task' = task /\ \E rc : req' = AfterHeader(r, rc)
           \/ /\ stage' = "AFTER_RUN_WAF_END" /\ task' = task
              /\ req' = AfterHeader(u, "ok")
           \/ /\ stage' = "PENDING_WAF_END" /\ Queued("final")
              /\ req' = AfterHeader(Submitted(g, "final"), "ok")
    BY ZenonT(30), <1>6
       DEF HeaderBuffered, SubmitFinal, AfterFilter, FinalRunDue, Queued
  <2> HIDE DEF r, g, u
  <2>2. \E q, rc : (Settled(q) \/ Started(q)) /\ req' = AfterHeader(q, rc)
    BY ZenonT(30), <1>1, <1>2, <1>3, <2>1 DEF Settled, Started, RespStage
  <2>3. PICK q, rc : (Settled(q) \/ Started(q)) /\ req' = AfterHeader(q, rc)
    BY ZenonT(30), <2>2
  <2>4. Counted(q) => Keeps(q, req')
    BY ZenonT(30), <2>3, HeaderKeeps
  <2> QED BY ZenonT(30), <1>0, <2>3, <2>4, OutputStep
<1> QED BY ZenonT(30), <1>4, <1>5, <1>6 DEF HeaderFilter

(* The output filter, called with a part of the response *)
LEMMA ProduceBodyStep == IInv /\ ProduceBody => IInv'
<1> SUFFICES ASSUME IInv, ProduceBody PROVE IInv'
  OBVIOUS
<1>0. req.live /\ Same(req, req)
  BY DEF IInv, ProduceBody, Same
<1>1. PICK in : OutputBodyFilter(req, in, "producer")
  BY ZenonT(30) DEF ProduceBody
<1>2. PICK q, rc : /\ Settled(q) \/ Started(q)
                   /\ req' = AfterFilter("producer", q, rc)
  BY ZenonT(30), <1>0, <1>1, FilterOutput
<1>3. Counted(q) => Keeps(q, req')
  BY ZenonT(30), <1>2, FilterKeeps DEF FilterCallers
<1> QED BY ZenonT(30), <1>0, <1>2, <1>3, OutputStep

(* A thread of the pool takes a task: no count changes. *)
LEMMA ThreadStartStep ==
  ASSUME IInv, NEW k \in Kinds, ThreadStart(k) PROVE IInv'
<1>1. /\ task'[k].st = "running" /\ task[k].st = "queued"
      /\ DOMAIN task' = Kinds
      /\ Shaped(task'[k])
      /\ \A j \in Kinds \ {k} : task'[j] = task[j]
      /\ req' = req /\ stage' = stage
  BY ZenonT(30) DEF IInv, ThreadStart, Shaped
<1>2. \A j \in Kinds : /\ InFlight(j)' = InFlight(j)
                       /\ Executing(j)' = Executing(j)
                       /\ task'[j].st # "none" => task[j].st # "none"
  BY SMTT(30), <1>1 DEF InFlight, Executing
<1>3. Tasks' = Tasks
  BY ZenonT(30), <1>2 DEF Tasks, B, Kinds
<1>4. StageFacts'
  BY ZenonT(30), <1>1, <1>2 DEF IInv, StageFacts, Kinds
<1> QED BY ZenonT(30), <1>1, <1>3, <1>4 DEF IInv

(* It finishes: the task is still pending, and no longer executing.  Only  *)
(* the first task publishes a stage from the pool.                         *)
LEMMA ThreadFinishStep ==
  ASSUME IInv, NEW k \in Kinds, ThreadFinish(k) PROVE IInv'
<1>1. /\ task'[k].st = "posted" /\ task[k].st = "running"
      /\ DOMAIN task' = Kinds
      /\ Shaped(task'[k])
      /\ \A j \in Kinds \ {k} : task'[j] = task[j]
      /\ req' = req
      /\ \/ stage' = stage
         \/ /\ k = "start"
            /\ stage' \in {"AFTER_BEGIN_WAF", "AFTER_BEGIN_WAF_BLOCK"}
  <2>1. /\ task[k].st = "running" /\ req' = req
        /\ \/ stage' = stage
           \/ /\ k = "start"
              /\ stage' \in {"AFTER_BEGIN_WAF", "AFTER_BEGIN_WAF_BLOCK"}
    BY Zenon DEF ThreadFinish
  <2>2. \/ \E b : task' = [task EXCEPT ![k].st = "posted", ![k].ran = TRUE,
                                       ![k].block = b]
        \/ task' = [task EXCEPT ![k].st = "posted"]
    BY ZenonT(30) DEF ThreadFinish
  <2>3. /\ task'[k].st = "posted" /\ DOMAIN task' = Kinds
        /\ Shaped(task'[k])
        /\ \A j \in Kinds \ {k} : task'[j] = task[j]
    BY ZenonT(30), <2>2 DEF IInv, Shaped
  <2> QED BY ZenonT(30), <2>1, <2>3
<1>2. \A j \in Kinds : /\ InFlight(j)' = InFlight(j)
                       /\ Executing(j)' => Executing(j) /\ j # k
                       /\ task'[j].st # "none" => task[j].st # "none"
  BY SMTT(30), <1>1 DEF InFlight, Executing
<1>3. Tasks' = Tasks
  BY ZenonT(30), <1>2 DEF Tasks, B, Kinds
<1>4. StageFacts'
  BY ZenonT(30), <1>1, <1>2 DEF IInv, StageFacts, Kinds, Executing
<1> QED BY ZenonT(30), <1>1, <1>3, <1>4 DEF IInv

(* A write event of the connection *)
LEMMA WriteEventStep == IInv /\ WriteEvent => IInv'
<1> SUFFICES ASSUME IInv, WriteEvent PROVE IInv'
  OBVIOUS
<1> DEFINE r == [req EXCEPT !.wev = FALSE]
<1>0. req.live /\ Same(req, r) /\ Keeps(req, r)
  BY ZenonT(30) DEF IInv, WriteEvent, MainThreadFree, Same, Keeps, Counted
<1>1. \/ /\ task' = task /\ stage' = stage
         /\ \/ req' = ConnectionWriteHandler(r)
            \/ req' = FinalizeRequest(r, "internal_error")
      \/ \E caller \in FilterCallers : OutputBodyFilter(r, << >>, caller)
  BY DEF WriteEvent, FilterCallers
<1> HIDE DEF r
<1>2. CASE /\ task' = task /\ stage' = stage
           /\ \/ req' = ConnectionWriteHandler(r)
              \/ req' = FinalizeRequest(r, "internal_error")
  <2>1. Settled(r)
    BY ZenonT(30), <1>0, <1>2 DEF Settled, RespStage
  <2>2. Counted(r) => Keeps(r, req')
    BY ZenonT(30), <1>2, ConnectionKeeps, FinalizeKeeps
  <2> QED BY ZenonT(30), <1>0, <2>1, <2>2, OutputStep
<1>3. ASSUME NEW caller \in FilterCallers, OutputBodyFilter(r, << >>, caller)
      PROVE  IInv'
  <2>1. PICK q, rc : /\ Settled(q) \/ Started(q)
                     /\ req' = AfterFilter(caller, q, rc)
    BY ZenonT(30), <1>0, <1>3, FilterOutput
  <2>2. Counted(q) => Keeps(q, req')
    BY ZenonT(30), <2>1, FilterKeeps
  <2> QED BY ZenonT(30), <1>0, <2>1, <2>2, OutputStep
<1> QED BY ZenonT(30), <1>1, <1>2, <1>3

(* The request is terminated from outside. *)
LEMMA AbortStep == IInv /\ Abort => IInv'
<1> SUFFICES ASSUME IInv, Abort PROVE IInv'
  OBVIOUS
<1>1. req.live /\ Counted(req) /\ Settled(req)
  BY DEF IInv, Abort, MainThreadFree, Settled, RespStage, Keeps
<1>2. Keeps(req, FinalizeRequest(req, "error"))
  BY ZenonT(30), <1>1, FinalizeKeeps
<1>3. Keeps(req, req')
  BY ZenonT(30), <1>2, RunPostedKeeps DEF Abort, Keeps
<1> QED BY ZenonT(30), <1>1, <1>3, OutputStep

(* The completion handler moves the stage only if it is the one its task   *)
(* was submitted in, or commits a blocking response.                       *)
LEMMA CompletionStage ==
  ASSUME NEW k \in Kinds, Completion(k)
  PROVE  \/ stage' = stage
         \/ stage = "WAF_END_BLOCK_COMMIT" /\ stage' = "AFTER_RUN_WAF_END"
         \/ /\ k = "reqbody" /\ stage = "SUSPENDED_ON_REQ_WAF"
            /\ stage' \in {"AFTER_ON_REQ_WAF", "AFTER_ON_REQ_WAF_BLOCK"}
         \/ /\ k = "final" /\ stage = "PENDING_WAF_END"
            /\ stage' \in {"WAF_END_BLOCK_COMMIT", "AFTER_RUN_WAF_END"}
<1>1. CASE stage' = stage
  BY ZenonT(30), <1>1
<1>2. CASE \E r : Block(k, r)
  <2>1. \/ stage' = BlockStage(k)
        \/ /\ BlockStage(k) = "WAF_END_BLOCK_COMMIT"
           /\ stage' = "AFTER_RUN_WAF_END"
    BY Zenon, <1>2 DEF Block
  <2> QED BY ZenonT(30), <2>1 DEF BlockStage, Kinds
<1>3. CASE \E r : Resume(k, r)
  BY ZenonT(30), <1>3 DEF Resume, Kinds
<1> QED BY ZenonT(30), <1>1, <1>2, <1>3 DEF Completion, Complete

(* main->blocked is decremented; *)
LEMMA UnblockedOnce ==
  ASSUME NEW r, Counted(r)
  PROVE  LET p == [r EXCEPT !.blocked = @ - 1]
         IN  Counted(p) /\ p.live = r.live /\ p.blocked = r.blocked - 1
  BY DEF Counted

(* after which the handler keeps the pool, whichever way it ends. *)
LEMMA CompletionRequest ==
  ASSUME IInv, NEW k \in Kinds, Completion(k)
  PROVE  \E q : /\ Counted(q) /\ q.live /\ q.blocked = req.blocked - 1
                /\ Keeps(q, req')
<1> DEFINE r == Unblock(k)
           d == Dereferenced(r)
<1>0. Counted(req) /\ req.live
  BY ZenonT(30) DEF IInv, Completion, MainThreadFree
<1>1. Counted(r) /\ r.live /\ r.blocked = req.blocked - 1
  <2> DEFINE p == [req EXCEPT !.blocked = @ - 1]
  <2>1. Counted(p) /\ p.live = req.live /\ p.blocked = req.blocked - 1
    BY Zenon, <1>0, UnblockedOnce
  <2>2. r = RestoreHandlers(p, k, task[k])
    BY DEF Unblock
  <2> HIDE DEF p, r
  <2>3. Same(p, RestoreHandlers(p, k, task[k]))
    BY ZenonT(30), <2>1 DEF RestoreHandlers, Same, Counted
  <2> QED BY ZenonT(30), <1>0, <2>1, <2>2, <2>3 DEF Same
<1>2. Same(r, d)
  <2> HIDE DEF r
  <2> QED BY Zenon, <1>1 DEF Same, Dereferenced, Counted
<1>3. \/ req' = ConnectionWriteHandler(d)
      \/ \E rc : req' = FinalizeRequest(r, rc)
      \/ Block(k, d)
      \/ Resume(k, d)
  BY DEF Completion, Complete
<1> HIDE DEF r, d
<1>4. CASE req' = ConnectionWriteHandler(d)
  BY ZenonT(30), <1>1, <1>2, <1>4, ConnectionKeeps DEF Same
<1>5. CASE \E rc : req' = FinalizeRequest(r, rc)
  BY ZenonT(30), <1>1, <1>5, FinalizeKeeps
<1>6. CASE Block(k, d)
  <2>1. PICK bodyless \in BOOLEAN :
          LET b == LastHeaderFilter([d EXCEPT !.headerOnly = @ \/ bodyless])
          IN  \/ \E rc : req' = AfterBlock(k, b, rc)
              \/ \E rc, e : req' = AfterBlock(k, [b EXCEPT !.buffered = e], rc)
    BY Zenon, <1>6 DEF Block
  <2> DEFINE b == LastHeaderFilter([d EXCEPT !.headerOnly = @ \/ bodyless])
  <2>2. Same(d, b) /\ \A e : Same(d, [b EXCEPT !.buffered = e])
    BY ZenonT(30), <1>2 DEF Same, Counted, LastHeaderFilter
  <2>3. \/ \E rc : req' = AfterBlock(k, b, rc)
        \/ \E rc, e : req' = AfterBlock(k, [b EXCEPT !.buffered = e], rc)
    BY Zenon, <2>1
  <2> HIDE DEF b
  <2>4. PICK q : Same(d, q) /\ \E rc : req' = AfterBlock(k, q, rc)
    BY ZenonT(30), <2>2, <2>3, <1>2 DEF Same
  <2>5. Keeps(q, req')
    BY ZenonT(30), <2>4, BlockKeeps DEF Same
  <2> QED BY Zenon, <1>1, <1>2, <2>4, <2>5 DEF Same
<1>7. CASE Resume(k, d)
  <2> DEFINE w == [d EXCEPT !.wev = TRUE,
                     !.phase = IF @ = "suspended" THEN "resume" ELSE @]
  <2>1. \/ req' = w \/ req' = d \/ req' = Unblocked(d, hdr)
    BY ZenonT(30), <1>7 DEF Resume, Kinds
  <2>2. Keeps(d, req')
    <3>1. Keeps(d, d) /\ Keeps(d, Unblocked(d, hdr))
      BY ZenonT(30), <1>2, UnblockedKeeps DEF Same, Keeps
    <3>2. Keeps(d, w)
      BY ZenonT(30), <1>2 DEF Same, Keeps, Counted
    <3> QED BY ZenonT(30), <2>1, <3>1, <3>2
  <2> QED BY Zenon, <1>1, <1>2, <2>2 DEF Same
<1> QED BY ZenonT(30), <1>3, <1>4, <1>5, <1>6, <1>7

(* So the completion handler removes one task and one pending operation. *)
LEMMA CompletionStep ==
  ASSUME IInv, NEW k \in Kinds, Completion(k) PROVE IInv'
<1>1. /\ task'[k].st = "destroyed" /\ task[k].st = "posted"
      /\ DOMAIN task' = Kinds
      /\ Shaped(task'[k])
      /\ \A j \in Kinds \ {k} : task'[j] = task[j]
  BY ZenonT(30) DEF IInv, Completion, Shaped
<1>2. \A j \in Kinds : /\ Executing(j)' => Executing(j) /\ j # k
                       /\ task'[j].st # "none" => task[j].st # "none"
  BY ZenonT(30), <1>1 DEF Executing
<1>3. Tasks' = Tasks - 1 /\ Tasks' \in Nat
  BY SMTT(30), <1>1 DEF Tasks, B, InFlight, Kinds
<1>4. StageFacts'
  BY ZenonT(30), <1>1, <1>2, CompletionStage DEF IInv, StageFacts, Kinds
<1>5. Counted(req') /\ req'.blocked = req.blocked - 1
      /\ (req.blocked - 1 > 0 => req'.live)
  <2>1. PICK q : /\ Counted(q) /\ q.live /\ q.blocked = req.blocked - 1
                 /\ Keeps(q, req')
    BY ZenonT(30), CompletionRequest
  <2> QED BY ZenonT(30), <2>1 DEF Keeps
<1>6. req'.blocked = Tasks'
  BY ZenonT(30), <1>3, <1>5 DEF IInv
<1>7. req'.live \/ Tasks' = 0
  <2>1. Tasks' = req.blocked - 1
    BY ZenonT(30), <1>3 DEF IInv
  <2>2. Tasks' > 0 => req'.live
    BY ZenonT(30), <1>5, <2>1
  <2>3. Tasks' > 0 \/ Tasks' = 0
    BY SMTT(30) DEF Tasks, B
  <2> QED BY ZenonT(30), <2>2, <2>3
<1>8. \A j \in Kinds : Shaped(task'[j])
  BY ZenonT(30), <1>1 DEF IInv
<1> QED BY ZenonT(30), <1>1, <1>4, <1>5, <1>6, <1>7, <1>8 DEF IInv

(* A new request has no task. *)
LEMMA IInvInit == Init => IInv
<1> SUFFICES ASSUME Init PROVE IInv
  OBVIOUS
<1>1. Counted(req) /\ req.blocked = 0 /\ req.live
  BY SMTT(30) DEF Init, NewRequest, Counted
<1>2. DOMAIN task = Kinds /\ \A k \in Kinds : task[k] = NoTask
  BY ZenonT(30) DEF Init
<1>3. NoTask.st = "none" /\ Shaped(NoTask)
  BY DEF NoTask, Shaped
<1>4. Tasks = 0
  BY SMTT(30), <1>2, <1>3 DEF Tasks, B, InFlight, Kinds
<1>5. StageFacts
  BY ZenonT(30), <1>2, <1>3 DEF StageFacts, Executing, Kinds
<1> QED BY ZenonT(30), <1>1, <1>2, <1>3, <1>4, <1>5 DEF IInv

(* Every step preserves the invariant. *)
LEMMA IInvNext == IInv /\ [Next]_vars => IInv'
<1> SUFFICES ASSUME IInv, [Next]_vars PROVE IInv'
  OBVIOUS
<1>1. CASE UNCHANGED vars
  BY ZenonT(30), <1>1 DEF vars, IInv, StageFacts, Executing, Tasks, B, InFlight
<1>2. CASE OnRequestStart
  BY ZenonT(30), <1>2, OnRequestStartStep
<1>3. CASE PrereadBody \/ ReadBody
  BY ZenonT(30), <1>3, ReadBodyStep
<1>4. CASE NoPreread
  BY <1>4, NoPrereadStep
<1>5. CASE HeaderFilter
  BY <1>5, HeaderFilterStep
<1>6. CASE ProduceBody
  BY <1>6, ProduceBodyStep
<1>7. CASE \E k \in Kinds : ThreadStart(k) \/ ThreadFinish(k) \/ Completion(k)
  BY ZenonT(30), <1>7, ThreadStartStep, ThreadFinishStep, CompletionStep
<1>8. CASE WriteEvent
  BY <1>8, WriteEventStep
<1>9. CASE Abort
  BY <1>9, AbortStep
<1>10. CASE Terminated
  BY ZenonT(30), <1>1, <1>10 DEF Terminated
<1> QED
  BY ZenonT(30), <1>1, <1>2, <1>3, <1>4, <1>5, <1>6, <1>7, <1>8, <1>9, <1>10
     DEF Next

(* The request pool outlives every task that was submitted and has not     *)
(* completed (main->blocked in PolTaskCtx::submit and completion_handler). *)
THEOREM PoolSafe == Spec => []PoolOutlivesTask
<1>1. IInv => PoolOutlivesTask
  BY SMTT(30) DEF IInv, PoolOutlivesTask, Tasks, B, Kinds
<1> QED BY <1>1, IInvInit, IInvNext, PTL DEF Spec

(* No two WAF runs of a request are queued or running at the same time     *)
(* (the stage machine of Context).                                         *)
THEOREM RunsAlone == Spec => []WafRunsAlone
<1>1. IInv => WafRunsAlone
  BY DEF IInv, StageFacts, WafRunsAlone, Kinds
<1> QED BY <1>1, IInvInit, IInvNext, PTL DEF Spec

-----------------------------------------------------------------------------
(* Facts that the proofs about the request and about the buffers share. *)

(* What a part of a sequence consists of *)
LEMMA PartFacts ==
  ASSUME NEW S, NEW s \in Seq(S), NEW m \in 0 .. Len(s),
         NEW n \in 0 .. Len(s) - m
  PROVE  /\ SubSeq(s, m + 1, m + n) \in Seq(S)
         /\ Len(SubSeq(s, m + 1, m + n)) = n
         /\ \A i \in 1 .. n : SubSeq(s, m + 1, m + n)[i] = s[m + i]
<1>1. \A i \in m + 1 .. m + n : s[i] \in S
  OBVIOUS
<1>2. SubSeq(s, m + 1, m + n) \in Seq(S)
  BY <1>1
<1>3. Len(SubSeq(s, m + 1, m + n)) = n
  OBVIOUS
<1>4. \A i \in 1 .. n : SubSeq(s, m + 1, m + n)[i] = s[m + i]
  OBVIOUS
<1> QED BY <1>2, <1>3, <1>4

(* What the request depends on *)
LEMMA NowFields ==
  /\ Now.stage = stage /\ Now.start = InFlight("start")
  /\ Now.reqbody = InFlight("reqbody") /\ Now.final = InFlight("final")
  /\ Now.startR = task["start"].prevRead
  /\ Now.startW = task["start"].prevWrite
  /\ Now.bodyW = task["reqbody"].prevWrite
  /\ Now.conn = task["final"].prevConn
  /\ Now.blocks = (task["start"].ran /\ task["start"].block)
  /\ Now.prev = ctx.prevWrite /\ Now.held = BodyHeld
  /\ Now.fresh = (reqIn = 0 /\ reqDown = << >> /\ rb.out = << >>)
  /\ Now.passed = (reqDown = ReqPieces)
  BY Zenon DEF Now

(* What it may do to the request before its caller goes on                 *)
Variant(r, q) ==
  /\ Only(r, q, {"headerOnly", "buffered", "error", "headerSent"})
  /\ q.headerSent
  /\ r.error => q.error

(* The requests that the output filter passes to its caller *)
LEMMA VariantsOf ==
  ASSUME NEW r0, Shape(r0), r0.headerSent
  PROVE  LET r == [r0 EXCEPT !.headerOnly = @ \/ ctx.headerOnly]
             b == [r EXCEPT !.buffered = TRUE]
             c == [r EXCEPT !.buffered = FALSE]
         IN  /\ Variant(r0, b) /\ Variant(r0, c)
             /\ Variant(r0, BeforeFinal(b, FALSE))
             /\ Variant(r0, [c EXCEPT !.buffered = TRUE])
             /\ Variant(r0, [c EXCEPT !.error = @ \/ ~conf.http2])
<1> DEFINE r == [r0 EXCEPT !.headerOnly = @ \/ ctx.headerOnly]
           b == [r EXCEPT !.buffered = TRUE]
           c == [r EXCEPT !.buffered = FALSE]
<1>1. Variant(r0, r) /\ r.error = r0.error
  BY Zenon DEF Variant, Only, Shape, Fields
<1> HIDE DEF r
<1>2. Variant(r0, b) /\ Variant(r0, c) /\ c.error = r0.error
  BY Zenon, <1>1 DEF Variant, Only, Shape, Fields
<1> HIDE DEF b, c
<1>3. Variant(r0, BeforeFinal(b, FALSE))
  BY Zenon, <1>2 DEF Variant, Only, Shape, Fields, BeforeFinal
<1>4. Variant(r0, [c EXCEPT !.buffered = TRUE])
  BY Zenon, <1>2 DEF Variant, Only, Shape, Fields
<1>5. Variant(r0, [c EXCEPT !.error = @ \/ ~conf.http2])
  BY Zenon, <1>2 DEF Variant, Only, Shape, Fields
<1> QED BY Zenon, <1>2, <1>3, <1>4, <1>5 DEF b, c, r

(* Context's members but those that waf_final_done and the tags change     *)
Keep(c) ==
  /\ DOMAIN c = ContextFields
  /\ c.prevWrite = ctx.prevWrite /\ c.tagged = ctx.tagged

(* do_output_body_filter leaves the tasks alone, and the stage too unless  *)
(* the blocking response is committed; or it is time for the final run.    *)
Passed(r0, caller) ==
  /\ stage' = stage /\ task' = task /\ Keep(ctx')
  /\ \E q, rc : Variant(r0, q) /\ req' = AfterFilter(caller, q, rc)

Committed(r0, caller) ==
  /\ stage = "WAF_END_BLOCK_COMMIT" /\ stage' = "AFTER_RUN_WAF_END"
  /\ task' = task /\ Keep(ctx')
  /\ \E q : Variant(r0, q) /\ req' = AfterFilter(caller, q, "ok")

Collected(r0, caller) ==
  /\ stage = "COLLECTING_ON_RESP_DATA"
  /\ \E q, c, due, rc : /\ Variant(r0, q) /\ Keep(c)
                        /\ SubmitFinal(c, q, hdr, due, caller, rc)

(* do_output_body_filter has three ways to end. *)
LEMMA OutputCases ==
  ASSUME NEW r0, NEW in, NEW caller, Shape(r0), r0.headerSent, Keep(ctx),
         OutputBodyFilter(r0, in, caller)
  PROVE  Passed(r0, caller) \/ Committed(r0, caller) \/ Collected(r0, caller)
<1> DEFINE r == [r0 EXCEPT !.headerOnly = @ \/ ctx.headerOnly]
<1>1. CASE BodyBuffered(r, in, caller)
  <2> DEFINE b == [r EXCEPT !.buffered = TRUE]
             f == BufferChain(out, in, Consume)
             c == [ctx EXCEPT !.sendBody = @ /\ f.out_total > 0]
             g == BeforeFinal(b, FALSE)
  <2>1. \/ /\ stage' = stage /\ task' = task /\ ctx' = ctx
           /\ \E rc : req' = AfterFilter(caller, b, rc)
        \/ /\ stage' = stage /\ task' = task /\ ctx' = c
           /\ \E rc : req' = AfterFilter(caller, b, rc)
        \/ /\ stage = "COLLECTING_ON_RESP_DATA"
           /\ \E due, rc : SubmitFinal(c, g, hdr, due, caller, rc)
    BY ZenonT(30), <1>1 DEF BodyBuffered, StartWaf
  <2>2. Variant(r0, b) /\ Variant(r0, g)
    BY Zenon, VariantsOf
  <2>3. Keep(c)
    BY Zenon DEF Keep, ContextFields
  <2> HIDE DEF b, g, c
  <2> QED BY ZenonT(30), <2>1, <2>2, <2>3 DEF Passed, Collected
<1>2. CASE BodyCommitted(r, in, caller)
  BY ZenonT(30), <1>2, VariantsOf DEF BodyCommitted, Committed, Keep
<1>3. CASE BodyReleased(r, in, caller)
  BY ZenonT(30), <1>3, VariantsOf DEF BodyReleased, Passed, Keep
<1> QED BY ZenonT(30), <1>1, <1>2, <1>3 DEF OutputBodyFilter

=============================================================================
