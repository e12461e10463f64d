---------------------------- MODULE NginxRequest ----------------------------
(***************************************************************************)
(* The part of nginx's request life cycle that the WAF task code in        *)
(* src/security/context.cpp relies on.  nginx is not part of the           *)
(* repository: every operator here is external, and says what the calls    *)
(* made by context.cpp and blocking.cpp do to the request.                 *)
(*                                                                         *)
(* A request is a record; the operators are pure, so that a handler that   *)
(* makes several calls is the composition of their operators.              *)
(***************************************************************************)
EXTENDS Naturals

CONSTANT TerminatedFlag   \* nginx >= 1.25.4: ngx_http_request_s.terminated

ASSUME TerminatedFlagAssumption == TerminatedFlag \in BOOLEAN

ReadHandlers == {"block_reading", "read_body", "upstream", "test_reading"}

WriteHandlers == {"run_phases", "empty", "upstream", "task_empty", "writer",
                  "drain", "finalizer", "terminate"}

(* Where nginx's main thread is with the request.                          *)
(*   access       the access phase handler is about to run                 *)
(*   suspended    it returned NGX_AGAIN                                     *)
(*   resume       phase_handler was moved past it                          *)
(*   body_start   the request body is about to be read                     *)
(*   preread      the body filter was given the preread part of the body   *)
(*   body         the request body is being read, on read events           *)
(*   content      the content handler is about to send the header          *)
(*   sending      the header filters have returned, the body follows       *)
(*   special      ngx_http_special_response_handler is running             *)
(*   finalized    the content handler is finished                          *)
Phases == {"access", "suspended", "resume", "body_start", "preread", "body",
           "content", "sending", "special", "finalized"}

Request ==
  [count      : Nat,       \* main->count
   blocked    : Nat,       \* main->blocked
   terminated : BOOLEAN,   \* main->terminated
   error      : BOOLEAN,   \* connection->error
   posted     : BOOLEAN,   \* the terminate handler is a posted request
   live       : BOOLEAN,   \* the request pool has not been destroyed
   closed     : BOOLEAN,   \* the content handler's reference was dropped
   phase      : Phases,
   page       : {"orig", "special"},   \* response being produced
   readH      : ReadHandlers,          \* read_event_handler
   writeH     : WriteHandlers,         \* write_event_handler
   connH      : {"request_handler", "empty"},  \* connection event handlers
   wev        : BOOLEAN,   \* the connection's write event is posted
   buffered   : BOOLEAN,   \* r->buffered, c->buffered: output is pending
   headerSent : BOOLEAN,   \* r->header_sent
   headerOnly : BOOLEAN]   \* r->header_only

NewRequest ==
  [count |-> 1, blocked |-> 0, terminated |-> FALSE, error |-> FALSE,
   posted |-> FALSE, live |-> TRUE, closed |-> FALSE, phase |-> "access",
   page |-> "orig", readH |-> "block_reading", writeH |-> "run_phases",
   connH |-> "request_handler", wev |-> FALSE, buffered |-> FALSE,
   headerSent |-> FALSE, headerOnly |-> FALSE]

(* ngx_http_close_request: drop one reference; the pool is destroyed, and  *)
(* the log phase run, when none is left and no operation is pending.       *)
CloseRequest(r) ==
  LET c == [r EXCEPT !.count = @ - 1]
  IN  IF c.count > 0 \/ c.blocked > 0 THEN c ELSE [c EXCEPT !.live = FALSE]

(* ngx_http_terminate_request: the request's cleanup handlers end whatever *)
(* produces content, but not the reading of the body; a pending operation  *)
(* defers the rest to the finalizer, otherwise the terminate handler is    *)
(* posted.                                                                 *)
TerminateRequest(r) ==
  LET t == [r EXCEPT !.terminated = TerminatedFlag,
                     !.phase = IF @ = "body" THEN @ ELSE "finalized"]
  IN  IF r.blocked > 0
      THEN [t EXCEPT !.error = TRUE, !.writeH = "finalizer"]
      ELSE [t EXCEPT !.writeH = "terminate", !.posted = TRUE]

(* ngx_http_run_posted_requests, for the posted ngx_http_terminate_handler *)
RunPostedRequests(r) ==
  IF r.posted
  THEN CloseRequest([r EXCEPT !.posted = FALSE, !.count = 1])
  ELSE r

(* ngx_http_finalize_request.  "again" stands for NGX_AGAIN, "done" for    *)
(* NGX_DONE and "internal_error" for NGX_HTTP_INTERNAL_SERVER_ERROR, whose *)
(* response is produced by nginx through the same filters ("special").     *)
FinalizeRequest(r, rc) ==
  IF rc = "done"
  THEN CloseRequest(r)
  ELSE IF rc = "error" \/ r.error
  THEN TerminateRequest(r)
  ELSE IF rc = "internal_error"
  THEN LET h == [r EXCEPT !.connH = "request_handler"]
       IN  IF r.headerSent THEN TerminateRequest(h)
           ELSE [h EXCEPT !.phase = "special", !.page = "special"]
  ELSE IF r.buffered
  THEN [r EXCEPT !.phase = "finalized", !.readH = "test_reading",
                 !.writeH = "writer"]
  ELSE CloseRequest([r EXCEPT !.phase = "finalized", !.closed = TRUE,
                              !.readH = "block_reading", !.writeH = "empty"])

=============================================================================
