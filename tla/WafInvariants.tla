--------------------------- MODULE WafInvariants ----------------------------
(***************************************************************************)
(* The inductive invariants of WafContext.  Each one is the strengthening  *)
(* that some safety property of that module needs; WafContextProofs,       *)
(* WafRequestProofs and WafBufferProofs show that every step keeps them.   *)
(*                                                                         *)
(*   IInv      the pool and the tasks in it     PoolOutlivesTask,          *)
(*                                              WafRunsAlone               *)
(*   RInv      the request, its handlers, its   HandlersRestored,          *)
(*             body                             RequestIntact              *)
(*   ShownInv  what the WAF is shown            WafSeesSubmitted           *)
(*   SavedInv  the response that is saved       SavedOutputBounded         *)
(***************************************************************************)
EXTENDS WafContext

-----------------------------------------------------------------------------
(* The pool. *)

(* The two fields that decide about the pool *)
Counted(r) ==
  /\ {"blocked", "live"} \subseteq DOMAIN r
  /\ r.blocked \in Int /\ r.live \in BOOLEAN

(* A task that is executing fixes the stage; one that was submitted        *)
(* excludes the stages before its submission.                              *)
StageFacts ==
  /\ Executing("start") => stage = "ENTERED_ON_START"
  /\ Executing("reqbody") => stage = "SUSPENDED_ON_REQ_WAF"
  /\ Executing("final") => stage = "PENDING_WAF_END"
  /\ task["start"].st # "none" => stage # "START"
  /\ task["reqbody"].st # "none" =>
       stage \in {"SUSPENDED_ON_REQ_WAF", "AFTER_ON_REQ_WAF",
                  "AFTER_ON_REQ_WAF_BLOCK", "COLLECTING_ON_RESP_DATA",
                  "PENDING_WAF_END", "WAF_END_BLOCK_COMMIT",
                  "AFTER_RUN_WAF_END"}
  /\ task["final"].st # "none" =>
       stage \in {"PENDING_WAF_END", "WAF_END_BLOCK_COMMIT",
                  "AFTER_RUN_WAF_END"}

(* The fields of a task that the handlers change *)
Shaped(t) == {"st", "ran", "block", "loaded", "seen"} \subseteq DOMAIN t

(* The inductive invariant *)
IInv ==
  /\ Counted(req)
  /\ DOMAIN task = Kinds
  /\ \A k \in Kinds : Shaped(task[k])
  /\ req.blocked = Tasks
  /\ req.live \/ Tasks = 0
  /\ StageFacts

-----------------------------------------------------------------------------
(* The request: what it and the rest of the state have to do with each     *)
(* other.                                                                  *)

(* The fields of a request *)
Fields ==
  {"count", "blocked", "terminated", "error", "posted", "live", "closed",
   "phase", "page", "readH", "writeH", "connH", "wev", "buffered",
   "headerSent", "headerOnly"}

Shape(r) == DOMAIN r = Fields /\ r.count \in Int /\ r.blocked \in Int

(* q is r, but for the fields F *)
Only(r, q, F) == Shape(q) /\ \A f \in Fields \ F : q[f] = r[f]

(* The request has left the phases of the original request *)
Aside(r) ==
  \/ r.phase \in {"special", "finalized"}
  \/ r.phase = "sending" /\ r.page = "special"

EarlyPhases == {"access", "suspended", "resume", "body_start"}

BodyPhases == {"body_start", "preread", "body"}

LatePhases == {"content", "sending", "special", "finalized"}

(* The stages in which a request may be in a phase *)
StagesOf(phase) ==
  CASE phase = "access"     -> {"START"}
    [] phase = "suspended"  -> {"ENTERED_ON_START", "AFTER_BEGIN_WAF",
                                "AFTER_BEGIN_WAF_BLOCK"}
    [] phase = "resume"     -> {"DISABLED", "ENTERED_ON_START",
                                "AFTER_BEGIN_WAF"}
    [] phase = "body_start" -> {"DISABLED", "ENTERED_ON_START",
                                "AFTER_BEGIN_WAF"}
    [] phase = "preread"    -> {"DISABLED", "ENTERED_ON_START",
                                "COLLECTING_ON_REQ_DATA"}
    [] phase = "body"       -> {"DISABLED", "ENTERED_ON_START",
                                "AFTER_BEGIN_WAF", "COLLECTING_ON_REQ_DATA",
                                "SUSPENDED_ON_REQ_WAF", "AFTER_ON_REQ_WAF",
                                "AFTER_ON_REQ_WAF_BLOCK"}
    [] OTHER                -> Stages

(* The request body while it is read: what was given to the filter has     *)
(* been passed on or is buffered; nothing is passed on before the WAF ran. *)
BodyHeld ==
  /\ conf.reqBody # << >>
  /\ reqIn \in 0 .. Len(conf.reqBody)
  /\ reqDown \o rb.out = SubSeq(ReqPieces, 1, reqIn)
  /\ rb.out # << >> =>
       stage \in {"COLLECTING_ON_REQ_DATA", "SUSPENDED_ON_REQ_WAF",
                  "AFTER_ON_REQ_WAF", "AFTER_ON_REQ_WAF_BLOCK"}
  /\ stage \in {"AFTER_BEGIN_WAF", "COLLECTING_ON_REQ_DATA",
                "SUSPENDED_ON_REQ_WAF"} => reqDown = << >>

(* What the request depends on: the stage, the tasks in flight and the     *)
(* handlers they saved, whether the first one is to block, the handler     *)
(* saved by prepare_drain_buffered_header, and the request body.           *)
Now ==
  [stage |-> stage, start |-> InFlight("start"),
   reqbody |-> InFlight("reqbody"), final |-> InFlight("final"),
   startR |-> task["start"].prevRead, startW |-> task["start"].prevWrite,
   bodyW |-> task["reqbody"].prevWrite, conn |-> task["final"].prevConn,
   blocks |-> task["start"].ran /\ task["start"].block,
   prev |-> ctx.prevWrite,
   fresh |-> reqIn = 0 /\ reqDown = << >> /\ rb.out = << >>,
   held |-> BodyHeld, passed |-> reqDown = ReqPieces]

(* Where the request is, ... *)
Placed(r, e) ==
  /\ e.stage \in StagesOf(r.phase)
  /\ r.phase \in EarlyPhases => e.fresh
  /\ r.phase \in BodyPhases => e.held
  /\ r.phase \in {"content", "sending"} /\ r.page = "orig" => e.passed
  /\ r.phase \in EarlyPhases \cup BodyPhases \cup {"content"} =>
       r.page = "orig"
  /\ r.phase = "special" => r.page = "special"
  /\ r.phase = "sending" \/ r.buffered => r.headerSent
  /\ r.phase \in EarlyPhases \cup BodyPhases /\ r.headerSent =>
       e.stage \in {"AFTER_BEGIN_WAF_BLOCK", "AFTER_ON_REQ_WAF_BLOCK"}

(* ... which tasks may be in flight there, ... *)
Flying(r, e) ==
  /\ e.start => r.phase = "suspended" \/ Aside(r)
  /\ e.start => (e.blocks <=> e.stage = "AFTER_BEGIN_WAF_BLOCK")
  /\ e.reqbody => /\ e.stage = "SUSPENDED_ON_REQ_WAF"
                  /\ r.phase = "body" \/ Aside(r)
  /\ e.final => /\ e.stage = "PENDING_WAF_END" /\ r.headerSent
                /\ r.phase \in LatePhases
  /\ ~(e.start /\ e.reqbody)

(* ... which handlers are in place (the handler saved for the drain is the *)
(* one of a task only while an error page is being sent), ...              *)
Handled(r, e) ==
  /\ r.phase = "access" =>
       r.readH = "block_reading" /\ r.writeH = "run_phases"
  /\ r.writeH = "task_empty" =>
       /\ e.start \/ e.reqbody
       /\ \/ r.phase \in {"suspended", "body", "special"}
          \/ r.phase = "sending" /\ r.page = "special"
  /\ r.writeH = "drain" =>
       /\ r.headerSent /\ e.stage = "AFTER_RUN_WAF_END"
       /\ e.prev = "task_empty" =>
            r.phase \in {"special", "sending"} /\ r.page = "special"
       /\ e.prev = "finalizer" => r.error
       /\ e.prev = "writer" => r.phase = "finalized"
  /\ r.writeH = "finalizer" => r.error
  /\ r.writeH = "writer" => r.phase = "finalized" /\ r.headerSent
  /\ r.connH \in {"request_handler", "empty"}
  /\ r.connH = "empty" => e.final
  /\ e.start \/ e.reqbody => r.readH # "read_body"

(* ... and which ones the tasks will put back.                             *)
Saved(r, e) ==
  /\ e.start => e.startR = "block_reading" /\ e.startW = "run_phases"
  /\ e.reqbody => /\ e.bodyW \notin {"task_empty", "drain", "writer"}
                  /\ e.bodyW = "finalizer" => r.error
  /\ e.final => e.conn = "request_handler"

(* Of a request that is gone only this remains: when it ended while its    *)
(* own page was produced or sent, its body had been passed on.             *)
Ended(r, e) ==
  r.phase \in {"content", "sending"} /\ r.page = "orig" => e.passed

Fit(r, e) ==
  /\ Shape(r)
  /\ r.live => Placed(r, e) /\ Flying(r, e) /\ Handled(r, e) /\ Saved(r, e)
  /\ ~r.live => Ended(r, e)

(* The members of Context *)
ContextFields == {"sendBody", "headerOnly", "prevWrite", "tagged", "gone"}

(* The pieces of a body *)
Buffer == [of : {"req", "orig", "special", "block"}, n : Nat, size : Nat,
           last : BOOLEAN]

(* The handlers that a task puts back *)
SavedFields == {"prevRead", "prevWrite", "prevConn"}

(* The types that matter, and the first half of RequestIntact *)
Frame ==
  /\ conf \in Configs /\ stage \in Stages
  /\ DOMAIN ctx = ContextFields
  /\ \A k \in Kinds : SavedFields \subseteq DOMAIN task[k]
  /\ reqDown \in Seq(Buffer) /\ rb.out \in Seq(Buffer)
  /\ Begins(reqDown, ReqPieces)

RInv == IInv /\ Frame /\ Fit(req, Now)

-----------------------------------------------------------------------------
(* The buffers. *)

(* What a task was submitted for is what its run would be shown, as long   *)
(* as it has not begun, and what the run was shown once it has.            *)
Fixed(k) ==
  /\ "due" \in DOMAIN task[k]
  /\ task[k].st = "queued" => task[k].due = Shown(k)
  /\ task[k].st \in {"running", "posted", "destroyed"} =>
       task[k].seen = task[k].due

(* The response body is complete, or there is more than the WAF is shown.  *)
Sufficient(f) == f.found_last \/ f.out_total >= kMaxFilterData

(* If the body is not to be shown although it is being collected, then an  *)
(* attempt to submit the task has failed when it was complete and empty.   *)
ShownInv ==
  /\ out.out_total \in Nat /\ out.found_last \in BOOLEAN
  /\ respIn \in Nat
  /\ \A k \in Kinds : Fixed(k)
  /\ task["final"].st = "queued" /\ ctx.sendBody => Sufficient(out)
  /\ stage = "COLLECTING_ON_RESP_DATA" =>
       \/ ctx.sendBody \/ kMaxFilterData = 0
       \/ out.found_last /\ out.out_total = 0

(* The response that is saved is the one whose header was sent; it comes   *)
(* piece by piece or all at once.                                          *)
SavedInv ==
  /\ out.copied_total \in Nat /\ respIn \in Nat
  /\ respIn > 0 \/ out.copied_total > 0 => req.headerSent
  /\ \/ respIn = 0 \/ (conf.upstream /\ req.page = "orig")
     \/ respIn = Len(RespPieces(req.page))
  /\ SavedOutputBounded

=============================================================================
