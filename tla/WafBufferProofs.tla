-------------------------- MODULE WafBufferProofs --------------------------
(***************************************************************************)
(* The response and the request body while they are held back: every step  *)
(* keeps ShownInv (a WAF run is shown what it was submitted for, although  *)
(* the main thread may go on buffering meanwhile) and SavedInv (the memory *)
(* used to save the response is bounded).  What follows for every          *)
(* behaviour is in WafTheorems.                                            *)
(***************************************************************************)
EXTENDS WafContextProofs, SumTheorems

-----------------------------------------------------------------------------
(* Buffers.                                                                *)

Sized(S) == \A b \in S : b.size \in Nat

(* The size of a chain, and of how it begins                               *)
LEMMA ChainSizes ==
  ASSUME NEW S, Sized(S), NEW chain \in Seq(S)
  PROVE  /\ SizeOf(chain) \in Nat
         /\ \A n \in 0 .. Len(chain) :
              /\ SizeOf(SubSeq(chain, 1, n)) \in Nat
              /\ SizeOf(SubSeq(chain, 1, n)) <= SizeOf(chain)
<1> DEFINE a == [i \in DOMAIN chain |-> chain[i].size]
<1>1. Len(chain) \in Nat /\ \A i \in 1 .. Len(chain) : a[i] \in Nat
  BY DEF Sized
<1>2. \A j \in 0 .. Len(chain) :
        SumTo(a, j) \in Nat /\ SumTo(a, j) <= SumTo(a, Len(chain))
  BY Zenon, <1>1, SumToNat
<1>3. SizeOf(chain) = SumTo(a, Len(chain))
  BY Zenon DEF SizeOf
<1>4. ASSUME NEW n \in 0 .. Len(chain)
      PROVE  SizeOf(SubSeq(chain, 1, n)) = SumTo(a, n)
  <2> DEFINE s == SubSeq(chain, 1, n)
             b == [i \in DOMAIN s |-> s[i].size]
  <2>1. n \in Nat /\ Len(s) = n /\ \A i \in 1 .. n : b[i] = a[i]
    BY <1>1
  <2>2. SumTo(b, n) = SumTo(a, n)
    BY Zenon, <2>1, SumToSame
  <2> QED BY Zenon, <2>1, <2>2 DEF SizeOf
<1>5. Len(chain) \in 0 .. Len(chain)
  BY <1>1
<1> HIDE DEF a
<1> QED BY Zenon, <1>2, <1>3, <1>4, <1>5

(* The empty chain *)
LEMMA EmptySize == SizeOf(<< >>) = 0
<1>1. Len(<< >>) = 0
  OBVIOUS
<1> QED BY Zenon, <1>1, SumToStep DEF SizeOf

(* Buffers that are added to a chain after the last one are refused.       *)
Grown(f, g) ==
  /\ g.out_total \in Nat /\ g.found_last \in BOOLEAN
  /\ f.out_total <= g.out_total
  /\ f.found_last => g.found_last /\ g.out_total = f.out_total

(* Context::buffer_chain, whether it succeeds or fails                     *)
LEMMA BufferGrows ==
  ASSUME NEW f, f.out_total \in Nat, f.found_last \in BOOLEAN,
         NEW S, Sized(S), NEW in \in Seq(S), NEW consume
  PROVE  /\ BufferChainSucceeds(f, in) => Grown(f, BufferChain(f, in, consume))
         /\ \A g \in BufferChainFailures(f, in, consume) : Grown(f, g)
<1>1. ASSUME NEW s, SizeOf(s) \in Nat, f.found_last => s = << >>
      PROVE  Grown(f, BufferChain(f, s, consume))
  <2> DEFINE g == BufferChain(f, s, consume)
  <2>1. /\ g.out_total = f.out_total + SizeOf(s)
        /\ g.found_last = (f.found_last \/ HasLast(s))
    BY Zenon DEF BufferChain
  <2>2. f.found_last => SizeOf(s) = 0
    BY Zenon, <1>1, EmptySize
  <2>3. g.found_last \in BOOLEAN /\ (f.found_last => g.found_last)
    BY Zenon, <2>1
  <2> HIDE DEF g
  <2>4. /\ g.out_total \in Nat /\ f.out_total <= g.out_total
        /\ f.found_last => g.out_total = f.out_total
    BY <1>1, <2>1, <2>2
  <2> QED BY Zenon, <2>3, <2>4 DEF Grown, g
<1>2. /\ SizeOf(in) \in Nat
      /\ \A n \in 0 .. Len(in) - 1 : SizeOf(SubSeq(in, 1, n)) \in Nat
  <2>1. \A n \in 0 .. Len(in) - 1 : n \in 0 .. Len(in)
    OBVIOUS
  <2> QED BY Zenon, <2>1, ChainSizes
<1>3. Grown(f, f)
  BY DEF Grown
<1>4. ASSUME NEW g \in BufferChainFailures(f, in, consume) PROVE Grown(f, g)
  <2>1. CASE in # << >> /\ f.found_last
    BY Zenon, <1>3, <1>4, <2>1 DEF BufferChainFailures
  <2>2. CASE ~(in # << >> /\ f.found_last)
    <3>1. PICK n \in 0 .. Len(in) - 1 : g = BufferChain(f, SubSeq(in, 1, n), consume)
      BY Zenon, <1>4, <2>2 DEF BufferChainFailures
    <3>2. in # << >>
      BY <3>1
    <3> QED BY Zenon, <1>1, <1>2, <2>2, <3>1, <3>2
  <2> QED BY Zenon, <2>1, <2>2
<1>5. BufferChainSucceeds(f, in) => Grown(f, BufferChain(f, in, consume))
  BY Zenon, <1>1, <1>2 DEF BufferChainSucceeds
<1> QED BY Zenon, <1>4, <1>5

-----------------------------------------------------------------------------
(* What the WAF is shown.                                                  *)

Limited(send, total) ==
  IF ~send THEN 0 ELSE IF total > kMaxFilterData THEN kMaxFilterData ELSE total

(* What each task would be given now ...                                    *)
LEMMA ShownIs ==
  /\ Shown("start") = 0 /\ Shown("reqbody") = rb.out_total
  /\ Shown("final") = Limited(ctx.sendBody, out.out_total)
  BY Zenon DEF Shown, Limited

(* ... and after a step                                                     *)
LEMMA ShownNext ==
  /\ Shown("start")' = 0 /\ Shown("reqbody")' = rb'.out_total
  /\ Shown("final")' = Limited(ctx'.sendBody, out'.out_total)
  BY Zenon DEF Shown, Limited

(* More of a response body that is sufficient changes nothing.             *)
LEMMA MoreIsSame ==
  ASSUME NEW f, NEW g, NEW send, f.out_total \in Nat, Grown(f, g),
         send => Sufficient(f)
  PROVE  /\ Limited(send, g.out_total) = Limited(send, f.out_total)
         /\ send => Sufficient(g)
<1>1. kMaxFilterData \in Nat
  BY Zenon, ConstantsAssumption
<1> QED BY <1>1 DEF Grown, Sufficient, Limited

(* A task that nobody touches *)
LEMMA FixedStays ==
  ASSUME NEW k, Fixed(k), task'[k] = task[k],
         task[k].st = "queued" => Shown(k)' = Shown(k)
  PROVE  Fixed(k)'
  BY Zenon DEF Fixed

(* The pool outlives the tasks in flight                                    *)
LEMMA PoolNow == IInv => PoolOutlivesTask
  BY SMTT(30) DEF IInv, PoolOutlivesTask, Tasks, B, Kinds

(* The body of the request is not read while the task that inspects it     *)
(* waits, and the response filter is not called in vain.                   *)
LEMMA QueuedStage ==
  ASSUME RInv
  PROVE  /\ task["reqbody"].st = "queued" =>
              /\ stage = "SUSPENDED_ON_REQ_WAF"
              /\ req.phase \notin {"body_start", "preread"}
              /\ req.readH # "read_body"
         /\ task["final"].st = "queued" => stage = "PENDING_WAF_END"
<1>1. \A k \in Kinds : task[k].st = "queued" => Executing(k) /\ InFlight(k)
  BY DEF Executing, InFlight
<1>2. \A k \in Kinds : task[k].st = "queued" => req.live
  BY Zenon, <1>1, PoolNow DEF RInv, PoolOutlivesTask
<1>3. "reqbody" \in Kinds /\ "final" \in Kinds
  BY DEF Kinds
<1>4. task["reqbody"].st = "queued" =>
        /\ req.phase = "body" \/ Aside(req)
        /\ req.readH # "read_body"
  BY Zenon, <1>1, <1>2, <1>3, NowFields DEF RInv, Fit, Flying, Handled
<1>5. req.phase = "body" \/ Aside(req) =>
        req.phase \notin {"body_start", "preread"}
  BY DEF Aside
<1>6. RInv => StageFacts
  BY Zenon DEF RInv, IInv
<1> QED BY Zenon, <1>1, <1>3, <1>4, <1>5, <1>6 DEF StageFacts

(* An action that leaves what the WAF is shown alone                       *)
LEMMA StillShown ==
  ASSUME ShownInv, task' = task, rb'.out_total = rb.out_total, out' = out,
         ctx'.sendBody = ctx.sendBody, respIn' = respIn,
         stage' = "COLLECTING_ON_RESP_DATA" => stage' = stage
  PROVE  ShownInv'
<1>1. \A k \in Kinds : Shown(k)' = Shown(k)
  BY Zenon, ShownIs, ShownNext DEF Kinds
<1>2. \A k \in Kinds : Fixed(k)'
  BY Zenon, <1>1, FixedStays DEF ShownInv
<1> QED BY Zenon, <1>2 DEF ShownInv, Sufficient

(* A task is submitted for what its run would be shown.                    *)
LEMMA NewFixed ==
  ASSUME RInv, NEW k \in Kinds, NEW r, NEW due, due = Shown(k)',
         task' = [task EXCEPT ![k] = NewTask(r, due)]
  PROVE  /\ Fixed(k)' /\ task'[k].st = "queued"
         /\ \A j \in Kinds \ {k} : task'[j] = task[j]
<1> DEFINE t == NewTask(r, due)
<1>1. t.st = "queued" /\ t.due = due /\ "due" \in DOMAIN t
  BY Zenon DEF NewTask, NoTask
<1>2. task'[k] = t /\ \A j \in Kinds \ {k} : task'[j] = task[j]
  BY Zenon DEF RInv, IInv
<1> HIDE DEF t
<1>3. ~(t.st \in {"running", "posted", "destroyed"})
  BY <1>1
<1> QED BY Zenon, <1>1, <1>2, <1>3 DEF Fixed

(* do_on_request_start *)
LEMMA StartShown == RInv /\ ShownInv /\ OnRequestStart => ShownInv'
<1> SUFFICES ASSUME RInv, ShownInv, OnRequestStart PROVE ShownInv'
  OBVIOUS
<1>1. /\ rb' = rb /\ out' = out /\ ctx' = ctx /\ respIn' = respIn
      /\ stage' \in {"DISABLED", "ENTERED_ON_START"}
      /\ task' = task \/ task' = [task EXCEPT !["start"] = NewTask(req, 0)]
  BY Zenon DEF OnRequestStart
<1>2. stage' # "COLLECTING_ON_RESP_DATA"
  BY <1>1
<1>3. CASE task' = task
  BY Zenon, <1>1, <1>2, <1>3, StillShown
<1>4. CASE task' = [task EXCEPT !["start"] = NewTask(req, 0)]
  <2>1. /\ Fixed("start")'
        /\ task'["reqbody"] = task["reqbody"] /\ task'["final"] = task["final"]
    BY Zenon, <1>4, NewFixed, ShownNext DEF Kinds
  <2>2. Fixed("reqbody")' /\ Fixed("final")'
    BY Zenon, <1>1, <2>1, FixedStays, ShownIs, ShownNext DEF ShownInv, Kinds
  <2> QED BY Zenon, <1>1, <1>2, <2>1, <2>2 DEF ShownInv, Sufficient, Kinds
<1> QED BY Zenon, <1>1, <1>3, <1>4

(* The run begins: it reads what there is.                                 *)
LEMMA RunShown ==
  ASSUME RInv, ShownInv, NEW k \in Kinds, ThreadStart(k) \/ ThreadFinish(k)
  PROVE  ShownInv'
<1>1. /\ rb' = rb /\ out' = out /\ ctx' = ctx /\ respIn' = respIn
      /\ \A j \in Kinds : Shown(j)' = Shown(j)
  <2>1. rb' = rb /\ out' = out /\ ctx' = ctx /\ respIn' = respIn
    BY Zenon DEF ThreadStart, ThreadFinish
  <2> QED BY Zenon, <2>1, ShownIs, ShownNext DEF Kinds
<1>2. /\ \A j \in Kinds \ {k} : task'[j] = task[j]
      /\ task'[k].due = task[k].due /\ "due" \in DOMAIN task'[k]
      /\ \/ /\ task[k].st = "queued" /\ task'[k].st = "running"
            /\ task'[k].seen = Shown(k)
         \/ /\ task[k].st = "running" /\ task'[k].st = "posted"
            /\ task'[k].seen = task[k].seen
  <2>1. DOMAIN task = Kinds /\ Shaped(task[k]) /\ "due" \in DOMAIN task[k]
    BY Zenon DEF RInv, IInv, ShownInv, Fixed
  <2>2. CASE ThreadStart(k)
    BY Zenon, <2>1, <2>2 DEF ThreadStart, Shaped
  <2>3. CASE ThreadFinish(k)
    <3>1. /\ task[k].st = "running"
          /\ \/ \E b : task' = [task EXCEPT ![k].st = "posted", ![k].ran = TRUE,
                                           ![k].block = b]
             \/ task' = [task EXCEPT ![k].st = "posted"]
      BY Zenon, <2>3 DEF ThreadFinish
    <3>2. CASE task' = [task EXCEPT ![k].st = "posted"]
      BY Zenon, <2>1, <3>1, <3>2 DEF Shaped
    <3>3. CASE \E b : task' = [task EXCEPT ![k].st = "posted",
                                          ![k].ran = TRUE, ![k].block = b]
      <4>1. PICK b : task' = [task EXCEPT ![k].st = "posted", ![k].ran = TRUE,
                                          ![k].block = b]
        BY Zenon, <3>3
      <4> QED BY Zenon, <2>1, <3>1, <4>1 DEF Shaped
    <3> QED BY Zenon, <3>1, <3>2, <3>3
  <2> QED BY Zenon, <2>2, <2>3
<1>3. Fixed(k)'
  <2>1. Fixed(k)
    BY Zenon DEF ShownInv
  <2> QED BY <1>2, <2>1 DEF Fixed
<1>4. \A j \in Kinds : Fixed(j)'
  BY Zenon, <1>1, <1>2, <1>3, FixedStays DEF ShownInv
<1>5. stage' = "COLLECTING_ON_RESP_DATA" => stage' = stage
  <2>1. \/ stage' = stage
        \/ stage' = "AFTER_BEGIN_WAF_BLOCK" \/ stage' = "AFTER_BEGIN_WAF"
    BY Zenon DEF ThreadStart, ThreadFinish
  <2> QED BY <2>1
<1>6. task'["final"].st = "queued" => task["final"].st = "queued"
  BY <1>2 DEF Kinds
<1> QED BY Zenon, <1>1, <1>4, <1>5, <1>6 DEF ShownInv, Sufficient

(* do_request_body_filter, while the task on the body does not wait        *)
LEMMA BodyFilterShown ==
  ASSUME RInv, ShownInv, NEW in, NEW preread, RequestBodyFilter(in, preread),
         task["reqbody"].st # "queued", UNCHANGED <<out, ctx, respIn>>
  PROVE  ShownInv'
<1>1. \/ ReqStage /\ task' = task
      \/ /\ stage' = "SUSPENDED_ON_REQ_WAF"
         /\ task' = [task EXCEPT !["reqbody"] = NewTask(req, rb'.out_total)]
  BY ZenonT(30) DEF RequestBodyFilter, ReqBuffer, ReqBufferFails, ReqPass,
         ReqPassDownstream, ReqRunWaf, AfterReqWaf, ReqStage
<1>2. /\ stage' = "COLLECTING_ON_RESP_DATA" => stage' = stage
      /\ out' = out /\ ctx' = ctx /\ respIn' = respIn
  BY <1>1 DEF ReqStage
<1>3. Shown("start")' = Shown("start") /\ Shown("final")' = Shown("final")
  BY Zenon, <1>2, ShownIs, ShownNext
<1>4. CASE task' = task
  <2>1. \A k \in Kinds : Fixed(k)'
    BY Zenon, <1>3, <1>4, FixedStays DEF ShownInv, Kinds
  <2> QED BY Zenon, <1>2, <1>4, <2>1 DEF ShownInv, Sufficient
<1>5. CASE task' = [task EXCEPT !["reqbody"] = NewTask(req, rb'.out_total)]
  <2>1. /\ Fixed("reqbody")'
        /\ task'["start"] = task["start"] /\ task'["final"] = task["final"]
    BY Zenon, <1>5, NewFixed, ShownNext DEF Kinds
  <2>2. Fixed("start")' /\ Fixed("final")'
    BY Zenon, <1>3, <2>1, FixedStays DEF ShownInv, Kinds
  <2> QED BY Zenon, <1>2, <2>1, <2>2 DEF ShownInv, Sufficient, Kinds
<1> QED BY Zenon, <1>1, <1>4, <1>5

(* The request body is read.  While the task that inspects it waits, only  *)
(* an eager nginx would do so.                                             *)
LEMMA ReadShown ==
  ASSUME RInv, ShownInv, "eager" \notin Faults,
         PrereadBody \/ NoPreread \/ ReadBody
  PROVE  ShownInv'
<1>1. CASE NoPreread
  <2>1. /\ task' = task /\ rb' = rb /\ out' = out /\ ctx' = ctx
        /\ respIn' = respIn /\ stage' = stage
    BY Zenon, <1>1 DEF NoPreread
  <2> QED BY Zenon, <2>1, StillShown
<1>2. CASE PrereadBody \/ ReadBody
  <2>1. /\ \E in, preread : RequestBodyFilter(in, preread)
        /\ UNCHANGED <<out, ctx, respIn>>
        /\ \/ req.phase = "body_start" \/ req.phase = "preread"
           \/ req.readH = "read_body"
    BY Zenon, <1>2 DEF PrereadBody, ReadBody
  <2>2. task["reqbody"].st # "queued"
    BY <2>1, QueuedStage
  <2> QED BY Zenon, <2>1, <2>2, BodyFilterShown
<1> QED BY Zenon, <1>1, <1>2

-----------------------------------------------------------------------------
(* The response filters and what the WAF is shown.                         *)

(* What an action that touches the response leaves alone                   *)
Bodied ==
  /\ rb' = rb /\ respIn' \in Nat
  /\ out'.out_total \in Nat /\ out'.found_last \in BOOLEAN

(* The body is to be shown, or will not count.                             *)
Collectable(c, f) ==
  c.sendBody \/ kMaxFilterData = 0 \/ (f.found_last /\ f.out_total = 0)

(* No final task waits. *)
LEMMA FinalFree ==
  ASSUME ShownInv, Bodied, task' = task, task["final"].st # "queued",
         stage' = "COLLECTING_ON_RESP_DATA" => Collectable(ctx', out')
  PROVE  ShownInv'
<1>1. /\ Shown("start")' = Shown("start") /\ Shown("reqbody")' = Shown("reqbody")
  BY Zenon, ShownIs, ShownNext DEF Bodied
<1>2. \A k \in Kinds : Fixed(k)'
  BY Zenon, <1>1, FixedStays DEF ShownInv, Kinds
<1> QED BY Zenon, <1>2 DEF ShownInv, Bodied, Collectable

(* The final task is submitted. *)
LEMMA FinalMade ==
  ASSUME RInv, ShownInv, Bodied, NEW r, NEW due,
         task' = [task EXCEPT !["final"] = NewTask(r, due)],
         due = Limited(ctx'.sendBody, out'.out_total),
         ctx'.sendBody => Sufficient(out'),
         stage' = "PENDING_WAF_END"
  PROVE  ShownInv'
<1>1. /\ Shown("start")' = Shown("start") /\ Shown("reqbody")' = Shown("reqbody")
      /\ Shown("final")' = due
  BY Zenon, ShownIs, ShownNext DEF Bodied
<1>2. /\ Fixed("final")'
      /\ task'["start"] = task["start"] /\ task'["reqbody"] = task["reqbody"]
  BY Zenon, <1>1, NewFixed DEF Kinds
<1>3. Fixed("start")' /\ Fixed("reqbody")'
  BY Zenon, <1>1, <1>2, FixedStays DEF ShownInv, Kinds
<1>4. stage' # "COLLECTING_ON_RESP_DATA"
  OBVIOUS
<1> QED BY Zenon, <1>2, <1>3, <1>4 DEF ShownInv, Bodied, Sufficient, Kinds

(* More of the response is held back. *)
LEMMA MoreShown ==
  ASSUME ShownInv, Bodied, Grown(out, out'), task' = task, stage' = stage,
         ctx'.sendBody = ctx.sendBody
  PROVE  ShownInv'
<1>1. /\ Shown("start")' = Shown("start") /\ Shown("reqbody")' = Shown("reqbody")
  BY Zenon, ShownIs, ShownNext DEF Bodied
<1>2. task["final"].st = "queued" =>
        /\ Shown("final")' = Shown("final")
        /\ ctx.sendBody => Sufficient(out')
  <2> DEFINE g == out'
  <2>1. out.out_total \in Nat /\ Grown(out, g)
    BY Zenon DEF ShownInv
  <2>2. ASSUME ctx.sendBody => Sufficient(out)
        PROVE  /\ Limited(ctx.sendBody, g.out_total) =
                    Limited(ctx.sendBody, out.out_total)
               /\ ctx.sendBody => Sufficient(g)
    <3> HIDE DEF g
    <3> QED BY Zenon, <2>1, <2>2, MoreIsSame
  <2> QED BY Zenon, <2>2, ShownIs, ShownNext DEF ShownInv
<1>3. \A k \in Kinds : Fixed(k)'
  BY Zenon, <1>1, <1>2, FixedStays DEF ShownInv, Kinds
<1> QED BY Zenon, <1>2, <1>3 DEF ShownInv, Bodied, Sufficient, Grown

(* do_header_filter: when it is called and the WAF has not run, no final   *)
(* task exists; the one it may submit is for a response without body.      *)
LEMMA HeaderShown == RInv /\ ShownInv /\ HeaderFilter => ShownInv'
<1> SUFFICES ASSUME RInv, ShownInv, HeaderFilter PROVE ShownInv'
  OBVIOUS
<1>1. rb' = rb /\ out' = out /\ respIn' = respIn
  BY Zenon DEF HeaderFilter
<1>2. CASE UNCHANGED <<stage, task, ctx>>
  BY Zenon, <1>1, <1>2, StillShown
<1>3. CASE HeaderBuffered
  <2> DEFINE c == [ctx EXCEPT
                     !.headerOnly = @ \/ AtHeader.headerOnly,
                     !.sendBody = @ /\ Parseable(LastHeaderFilter(AtHeader))]
  <2>1. /\ FinalRunDue
        /\ \/ c.sendBody /\ ctx' = c /\ task' = task
           \/ /\ ~c.sendBody /\ ctx'.sendBody = c.sendBody
              /\ stage' = "PENDING_WAF_END"
              /\ \E r : task' = [task EXCEPT !["final"] = NewTask(r, 0)]
           \/ stage' = "AFTER_RUN_WAF_END" /\ task' = task
           \/ stage' = stage /\ task' = task
    BY ZenonT(30), <1>3 DEF HeaderBuffered, SubmitFinal
  <2>2. /\ task["final"].st # "queued" /\ stage # "COLLECTING_ON_RESP_DATA"
        /\ Bodied
    BY <1>1, <2>1, QueuedStage DEF FinalRunDue, ShownInv, Bodied
  <2> HIDE DEF c
  <2>3. CASE c.sendBody /\ ctx' = c /\ task' = task
    BY Zenon, <2>2, <2>3, FinalFree DEF Collectable
  <2>4. CASE /\ ~c.sendBody /\ ctx'.sendBody = c.sendBody
             /\ stage' = "PENDING_WAF_END"
             /\ \E r : task' = [task EXCEPT !["final"] = NewTask(r, 0)]
    <3>1. Limited(ctx'.sendBody, out'.out_total) = 0 /\ ~ctx'.sendBody
      BY Zenon, <2>4 DEF Limited
    <3> QED BY Zenon, <2>2, <2>4, <3>1, FinalMade
  <2>5. CASE /\ stage' = "AFTER_RUN_WAF_END" \/ stage' = stage
             /\ task' = task
    <3>1. stage' # "COLLECTING_ON_RESP_DATA"
      BY <2>2, <2>5
    <3> QED BY Zenon, <2>2, <2>5, <3>1, FinalFree
  <2> QED BY Zenon, <2>1, <2>3, <2>4, <2>5
<1> QED BY Zenon, <1>2, <1>3 DEF HeaderFilter, HeaderPasses, HeaderRefused

(* do_output_body_filter while the response is held back                   *)
LEMMA BufferedShown ==
  ASSUME RInv, ShownInv, NEW S, Sized(S), NEW in \in Seq(S), NEW r0, NEW caller,
         BodyBuffered(r0, in, caller), rb' = rb, respIn' \in Nat
  PROVE  ShownInv'
<1> DEFINE f == BufferChain(out, in, Consume)
           c == [ctx EXCEPT !.sendBody = @ /\ f.out_total > 0]
           due == IF f.out_total > kMaxFilterData THEN kMaxFilterData
                  ELSE f.out_total
           Waits == stage' = stage /\ task' = task
<1>1. \/ /\ out' \in BufferChainFailures(out, in, Consume)
         /\ Waits /\ ctx' = ctx
      \/ BufferChainSucceeds(out, in) /\ out' = f /\ Waits /\ ctx' = ctx
      \/ /\ BufferChainSucceeds(out, in) /\ out' = f /\ StartWaf(f, in)
         /\ \/ Waits /\ ctx' = c
            \/ /\ stage' = "PENDING_WAF_END" /\ ctx' = c
               /\ \E r : task' = [task EXCEPT !["final"] = NewTask(r, due)]
            \/ stage' = "AFTER_RUN_WAF_END" /\ task' = task
  BY ZenonT(30) DEF BodyBuffered, SubmitFinal
<1>2. /\ BufferChainSucceeds(out, in) => Grown(out, f)
      /\ \A g \in BufferChainFailures(out, in, Consume) : Grown(out, g)
  BY Zenon, BufferGrows DEF ShownInv
<1>3. Grown(out, out') /\ Bodied
  <2>1. Grown(out, out')
    BY Zenon, <1>1, <1>2
  <2> QED BY Zenon, <2>1 DEF Grown, Bodied
<1>4. CASE Waits /\ ctx' = ctx
  BY Zenon, <1>3, <1>4, MoreShown
<1>5. CASE BufferChainSucceeds(out, in) /\ out' = f /\ StartWaf(f, in)
  <2>1. /\ stage = "COLLECTING_ON_RESP_DATA"
        /\ f.out_total >= kMaxFilterData \/ HasLast(in)
        /\ f.found_last = (out.found_last \/ HasLast(in))
    BY Zenon, <1>5 DEF StartWaf, BufferChain
  <2>2. task["final"].st # "queued"
    <3>1. stage # "PENDING_WAF_END"
      BY <2>1
    <3> QED BY Zenon, <3>1, QueuedStage
  <2>3. c.sendBody = (ctx.sendBody /\ f.out_total > 0)
    BY Zenon DEF RInv, Frame, ContextFields
  <2>4. Grown(out, f)
    BY Zenon, <1>2, <1>5
  <2>5. Collectable(ctx, out) /\ out.out_total \in Nat
    BY Zenon, <2>1 DEF ShownInv, Collectable
  <2>6. kMaxFilterData \in Nat
    BY Zenon, ConstantsAssumption
  <2> HIDE DEF f, c
  <2>7. /\ Collectable(c, f) /\ due = Limited(c.sendBody, f.out_total)
        /\ Sufficient(f)
    <3>1. /\ f.out_total \in Nat
          /\ out.found_last => f.found_last /\ f.out_total = out.out_total
      BY Zenon, <2>4 DEF Grown
    <3>2. /\ ~(f.out_total > 0) => f.out_total = 0
          /\ f.out_total = 0 /\ f.out_total >= kMaxFilterData =>
               kMaxFilterData = 0
          /\ f.out_total = 0 \/ kMaxFilterData = 0 => due = 0
      BY <2>6, <3>1
    <3>3. Collectable(c, f)
      BY Zenon, <2>1, <2>3, <2>5, <3>1, <3>2 DEF Collectable
    <3>4. due = Limited(c.sendBody, f.out_total)
      <4> HIDE DEF due
      <4>1. CASE ~c.sendBody
        BY Zenon, <3>2, <3>3, <4>1 DEF Collectable, Limited
      <4>2. CASE c.sendBody
        BY Zenon, <4>2 DEF due, Limited
      <4> QED BY Zenon, <4>1, <4>2
    <3> QED BY Zenon, <2>1, <3>3, <3>4 DEF Sufficient
  <2> HIDE DEF due
  <2>8. CASE Waits /\ ctx' = c
    BY Zenon, <1>3, <1>5, <2>2, <2>7, <2>8, FinalFree
  <2>9. CASE /\ stage' = "PENDING_WAF_END" /\ ctx' = c
             /\ \E r : task' = [task EXCEPT !["final"] = NewTask(r, due)]
    BY Zenon, <1>3, <1>5, <2>7, <2>9, FinalMade
  <2>10. CASE stage' = "AFTER_RUN_WAF_END" /\ task' = task
    <3>1. stage' # "COLLECTING_ON_RESP_DATA"
      BY <2>10
    <3> QED BY Zenon, <1>3, <2>2, <2>10, <3>1, FinalFree
  <2> QED BY Zenon, <1>1, <1>4, <2>8, <2>9, <2>10
<1> QED BY Zenon, <1>1, <1>4, <1>5

(* do_output_body_filter once it is decided about the response             *)
LEMMA ReleasedShown ==
  ASSUME RInv, ShownInv, NEW S, Sized(S), NEW in \in Seq(S), NEW r0, NEW caller,
         BodyCommitted(r0, in, caller) \/ BodyReleased(r0, in, caller),
         rb' = rb, respIn' \in Nat
  PROVE  ShownInv'
<1>1. /\ task' = task
      /\ \/ stage = "WAF_END_BLOCK_COMMIT" /\ stage' = "AFTER_RUN_WAF_END"
         \/ ~Buffering /\ stage' = stage
      /\ \/ out' = out \/ out' \in BufferChainFailures(out, in, FALSE)
         \/ \E f : /\ f = out \/ (/\ f = BufferChain(out, in, FALSE)
                                  /\ BufferChainSucceeds(out, in))
                   /\ out' = Clear(f)
  BY ZenonT(30) DEF BodyCommitted, BodyReleased
<1>2. /\ task["final"].st # "queued"
      /\ stage' # "COLLECTING_ON_RESP_DATA"
  BY <1>1, QueuedStage DEF Buffering
<1>3. 0 \in Nat
  OBVIOUS
<1>4. Bodied
  <2>1. out.out_total \in Nat /\ out.found_last \in BOOLEAN
    BY Zenon DEF ShownInv
  <2>2. /\ BufferChainSucceeds(out, in) =>
             BufferChain(out, in, FALSE).found_last \in BOOLEAN
        /\ \A g \in BufferChainFailures(out, in, FALSE) :
             g.out_total \in Nat /\ g.found_last \in BOOLEAN
    BY Zenon, <2>1, BufferGrows DEF Grown
  <2>3. out'.out_total \in Nat /\ out'.found_last \in BOOLEAN
    <3>1. CASE out' = out \/ out' \in BufferChainFailures(out, in, FALSE)
      BY Zenon, <2>1, <2>2, <3>1
    <3>2. CASE \E f : /\ \/ f = out
                         \/ /\ f = BufferChain(out, in, FALSE)
                            /\ BufferChainSucceeds(out, in)
                      /\ out' = Clear(f)
      <4>1. PICK f : /\ \/ f = out
                        \/ /\ f = BufferChain(out, in, FALSE)
                           /\ BufferChainSucceeds(out, in)
                     /\ out' = Clear(f)
        BY Zenon, <3>2
      <4>2. f.found_last \in BOOLEAN
        BY Zenon, <2>1, <2>2, <4>1
      <4>3. Clear(f).out_total \in Nat /\ Clear(f).found_last \in BOOLEAN
        BY Zenon, <1>3, <4>2 DEF Clear, EmptyFilterCtx
      <4> QED BY Zenon, <4>1, <4>3
    <3> QED BY Zenon, <1>1, <3>1, <3>2
  <2> QED BY Zenon, <2>3 DEF Bodied
<1> QED BY Zenon, <1>1, <1>2, <1>4, FinalFree

(* The output filter, whatever it does with the call                        *)
LEMMA OutputShown ==
  ASSUME RInv, ShownInv, NEW S, Sized(S), NEW in \in Seq(S), NEW r0, NEW caller,
         OutputBodyFilter(r0, in, caller), rb' = rb, respIn' \in Nat
  PROVE  ShownInv'
  BY Zenon, BufferedShown, ReleasedShown DEF OutputBodyFilter

(* The pieces of a response *)
PieceOf(page) == [of : {page}, n : Nat, size : Nat, last : BOOLEAN]

(* A response consists of its pieces                                        *)
LEMMA RespPiecesType ==
  ASSUME conf \in Configs, NEW page
  PROVE  RespPieces(page) \in Seq(PieceOf(page)) /\ Sized(PieceOf(page))
<1>1. ASSUME NEW b \in Seq(Nat) PROVE Pieces(page, b) \in Seq(PieceOf(page))
  <2>1. \A i \in 1 .. Len(b) :
          Piece(page, i, b[i], i = Len(b)) \in PieceOf(page)
    BY DEF Piece, PieceOf
  <2>2. Pieces(page, b) =
          [i \in 1 .. Len(b) |-> Piece(page, i, b[i], i = Len(b))]
    BY DEF Pieces
  <2> QED BY <2>1, <2>2
<1>2. conf.respBody \in Seq(Nat)
  BY ConstantsAssumption DEF Config
<1>3. <<1>> \in Seq(Nat)
  OBVIOUS
<1>4. Sized(PieceOf(page))
  BY DEF Sized, PieceOf
<1> QED BY Zenon, <1>1, <1>2, <1>3, <1>4 DEF RespPieces

(* What a producer hands to the output filter *)
LEMMA PortionType ==
  ASSUME conf \in Configs, respIn \in Nat, respIn < Len(RespPieces(req.page))
  PROVE  /\ SubSeq(RespPieces(req.page), respIn + 1, respIn + Portion)
              \in Seq(PieceOf(req.page))
         /\ respIn + Portion \in Nat
<1> DEFINE s == RespPieces(req.page)
<1>1. s \in Seq(PieceOf(req.page))
  BY Zenon, RespPiecesType
<1>2. Portion = 1 \/ Portion = Len(s) - respIn
  BY Zenon DEF Portion
<1>3. respIn < Len(s)
  OBVIOUS
<1> HIDE DEF s
<1>4. respIn \in 0 .. Len(s) /\ Portion \in 0 .. Len(s) - respIn
  BY <1>1, <1>2, <1>3
<1>5. SubSeq(s, respIn + 1, respIn + Portion) \in Seq(PieceOf(req.page))
  BY Zenon, <1>1, <1>4, PartFacts
<1>6. respIn + Portion \in Nat
  BY <1>4
<1> QED BY Zenon, <1>5, <1>6 DEF s

(* A content handler or a special response produces the body. *)
LEMMA ProduceShown == RInv /\ ShownInv /\ ProduceBody => ShownInv'
<1> SUFFICES ASSUME RInv, ShownInv, ProduceBody PROVE ShownInv'
  OBVIOUS
<1> DEFINE in == SubSeq(RespPieces(req.page), respIn + 1, respIn + Portion)
<1>1. /\ OutputBodyFilter(req, in, "producer")
      /\ respIn' = respIn + Portion /\ rb' = rb
      /\ respIn < Len(RespPieces(req.page))
  BY Zenon DEF ProduceBody
<1>2. /\ in \in Seq(PieceOf(req.page)) /\ respIn + Portion \in Nat
      /\ Sized(PieceOf(req.page))
  BY Zenon, <1>1, PortionType, RespPiecesType DEF ShownInv, RInv, Frame
<1> HIDE DEF in
<1> QED BY Zenon, <1>1, <1>2, OutputShown

(* A write event *)
LEMMA WriteShown == RInv /\ ShownInv /\ WriteEvent => ShownInv'
<1> SUFFICES ASSUME RInv, ShownInv, WriteEvent PROVE ShownInv'
  OBVIOUS
<1>1. /\ rb' = rb /\ respIn' = respIn
      /\ \/ UNCHANGED <<stage, task, out, ctx>>
         \/ \E r0, caller : OutputBodyFilter(r0, << >>, caller)
  BY Zenon DEF WriteEvent
<1>2. CASE UNCHANGED <<stage, task, out, ctx>>
  BY Zenon, <1>1, <1>2, StillShown
<1>3. CASE \E r0, caller : OutputBodyFilter(r0, << >>, caller)
  <2>1. << >> \in Seq({}) /\ Sized({})
    BY DEF Sized
  <2> QED BY Zenon, <1>1, <1>3, <2>1, OutputShown DEF ShownInv
<1> QED BY Zenon, <1>1, <1>2, <1>3

(* The completion handler of a task.  What was held back of the response   *)
(* is dropped or released for a blocking page only while no other run is   *)
(* waiting to read it.                                                     *)
LEMMA CompletionShown ==
  ASSUME RInv, ShownInv, NEW k \in Kinds, Completion(k)
  PROVE  ShownInv'
<1>1. /\ task[k].st = "posted" /\ req.live
      /\ task' = [task EXCEPT ![k].st = "destroyed"]
      /\ rb' = rb /\ respIn' = respIn
  BY Zenon DEF Completion, MainThreadFree
<1>2. /\ ctx'.sendBody = ctx.sendBody
      /\ out' = out \/ (out' = Clear(out) /\ task[k].ran /\ task[k].block)
      /\ \/ stage' = stage
         \/ stage' \in {"AFTER_RUN_WAF_END", "AFTER_ON_REQ_WAF",
                       "AFTER_ON_REQ_WAF_BLOCK", "WAF_END_BLOCK_COMMIT"}
  <2>1. DOMAIN ctx = ContextFields
    BY Zenon DEF RInv, Frame
  <2>2. CASE UNCHANGED <<stage, out, ctx>>
    BY Zenon, <2>2
  <2>3. CASE \E r : Complete(k, r)
    <3>1. PICK r : Complete(k, r)
      BY Zenon, <2>3
    <3>2. CASE /\ task[k].ran /\ task[k].block /\ Block(k, r)
               /\ ctx' = [ctx EXCEPT !.tagged = TRUE]
      <4>1. \/ BlockStage(k) = stage
            \/ BlockStage(k) \in {"AFTER_ON_REQ_WAF_BLOCK",
                                  "WAF_END_BLOCK_COMMIT"}
        BY Zenon DEF BlockStage, Kinds
      <4>2. /\ out' = out \/ out' = Clear(out)
            /\ stage' = BlockStage(k) \/ stage' = "AFTER_RUN_WAF_END"
        BY Zenon, <3>2 DEF Block
      <4> QED BY Zenon, <2>1, <3>2, <4>1, <4>2 DEF ContextFields
    <3>3. CASE Resume(k, r)
      <4>1. /\ out' = out
            /\ \/ ctx' = ctx \/ \E h : ctx' = [ctx EXCEPT !.prevWrite = h]
            /\ \/ stage' = stage
               \/ stage' \in {"AFTER_RUN_WAF_END", "AFTER_ON_REQ_WAF"}
        BY Zenon, <3>3 DEF Resume, Kinds
      <4> QED BY Zenon, <2>1, <4>1 DEF ContextFields
    <3> QED BY Zenon, <3>1, <3>2, <3>3 DEF Complete
  <2> QED BY Zenon, <2>2, <2>3 DEF Completion
<1>3. /\ \A j \in Kinds \ {k} : task'[j] = task[j]
      /\ task'[k].st = "destroyed" /\ task'[k].due = task[k].due
      /\ task'[k].seen = task[k].seen /\ "due" \in DOMAIN task'[k]
  <2>1. DOMAIN task = Kinds /\ Shaped(task[k]) /\ "due" \in DOMAIN task[k]
    BY Zenon DEF RInv, IInv, ShownInv, Fixed
  <2> QED BY Zenon, <1>1, <2>1 DEF Shaped
<1>4. Fixed(k)'
  <2>1. Fixed(k)
    BY Zenon DEF ShownInv
  <2> QED BY <1>1, <1>3, <2>1 DEF Fixed
<1>5. task'["final"].st = "queued" => task["final"].st = "queued" /\ out' = out
  <2>1. ASSUME task["final"].st = "queued", k # "final",
               task[k].ran, task[k].block
        PROVE  FALSE
    <3>1. Now.stage = "PENDING_WAF_END"
      BY Zenon, <2>1, QueuedStage, NowFields
    <3>2. k \in {"start", "reqbody"} /\ InFlight(k)
      BY <1>1, <2>1 DEF Kinds, InFlight
    <3>3. Flying(req, Now)
      BY Zenon, <1>1 DEF RInv, Fit
    <3>4. /\ Now.start => (Now.blocks <=> Now.stage = "AFTER_BEGIN_WAF_BLOCK")
          /\ Now.reqbody => Now.stage = "SUSPENDED_ON_REQ_WAF"
      BY Zenon, <3>3 DEF Flying
    <3>5. CASE k = "start"
      BY Zenon, <2>1, <3>1, <3>2, <3>4, <3>5, NowFields
    <3>6. CASE k = "reqbody"
      BY Zenon, <3>1, <3>2, <3>4, <3>6, NowFields
    <3> QED BY Zenon, <3>2, <3>5, <3>6
  <2>2. task'["final"].st = "queued" =>
          k # "final" /\ task["final"].st = "queued"
    BY <1>3 DEF Kinds
  <2> QED BY Zenon, <1>2, <2>1, <2>2
<1>6. \A j \in Kinds : Fixed(j)'
  <2>1. \A j \in Kinds : task'[j].st = "queued" => Shown(j)' = Shown(j)
    BY Zenon, <1>1, <1>2, <1>5, ShownIs, ShownNext DEF Kinds
  <2> QED BY Zenon, <1>3, <1>4, <2>1, FixedStays DEF ShownInv
<1>7. /\ stage' = "COLLECTING_ON_RESP_DATA" => stage' = stage
  BY <1>2
<1>8. /\ out'.out_total \in Nat /\ out'.found_last = out.found_last
      /\ out'.out_total = out.out_total \/ out'.out_total = 0
  <2>1. 0 \in Nat
    OBVIOUS
  <2> QED BY Zenon, <1>2, <2>1 DEF ShownInv, Clear, EmptyFilterCtx
<1> QED BY Zenon, <1>1, <1>2, <1>5, <1>6, <1>7, <1>8 DEF ShownInv, Sufficient

-----------------------------------------------------------------------------
(* What the WAF sees: the theorem.                                         *)

(* Before the request nothing has been submitted                            *)
LEMMA ShownInit == Init => ShownInv
<1> SUFFICES ASSUME Init PROVE ShownInv
  OBVIOUS
<1>1. /\ \A k \in Kinds : task[k] = NoTask
      /\ out = EmptyFilterCtx /\ respIn = 0 /\ stage = "START"
  BY Zenon DEF Init
<1>2. NoTask.st = "none" /\ "due" \in DOMAIN NoTask
  BY Zenon DEF NoTask
<1>3. out.out_total = 0 /\ out.found_last = FALSE
  BY Zenon, <1>1 DEF EmptyFilterCtx
<1>4. "final" \in Kinds
  BY DEF Kinds
<1>5. \A k \in Kinds : Fixed(k)
  BY <1>1, <1>2 DEF Fixed
<1>6. 0 \in Nat
  OBVIOUS
<1> QED BY Zenon, <1>1, <1>2, <1>3, <1>4, <1>5, <1>6 DEF ShownInv

(* Every step leaves what a task was given, or will be given, as it was     *)
LEMMA ShownStep ==
  ASSUME "eager" \notin Faults, RInv, ShownInv, [Next]_vars PROVE ShownInv'
<1>1. CASE OnRequestStart
  BY Zenon, <1>1, StartShown
<1>2. CASE PrereadBody \/ NoPreread \/ ReadBody
  BY Zenon, <1>2, ReadShown
<1>3. CASE HeaderFilter
  BY Zenon, <1>3, HeaderShown
<1>4. CASE ProduceBody
  BY Zenon, <1>4, ProduceShown
<1>5. CASE \E k \in Kinds : ThreadStart(k) \/ ThreadFinish(k) \/ Completion(k)
  BY Zenon, <1>5, RunShown, CompletionShown
<1>6. CASE WriteEvent
  BY Zenon, <1>6, WriteShown
<1>7. CASE Abort
  <2>1. /\ task' = task /\ rb' = rb /\ out' = out /\ respIn' = respIn
        /\ stage' = stage /\ ctx' = [ctx EXCEPT !.gone = TRUE]
    BY Zenon, <1>7 DEF Abort
  <2>2. ctx'.sendBody = ctx.sendBody
    BY Zenon, <2>1 DEF RInv, Frame, ContextFields
  <2> QED BY Zenon, <2>1, <2>2, StillShown
<1>8. CASE UNCHANGED vars
  <2>1. /\ task' = task /\ rb' = rb /\ out' = out /\ respIn' = respIn
        /\ stage' = stage /\ ctx' = ctx
    BY Zenon, <1>8 DEF vars
  <2> QED BY Zenon, <2>1, StillShown
<1> QED BY Zenon, <1>1, <1>2, <1>3, <1>4, <1>5, <1>6, <1>7, <1>8
           DEF Next, Terminated

-----------------------------------------------------------------------------
(* Once the header of a response is sent, this is the response of the      *)
(* request: nothing produces another page through the filters.             *)

Headed(r) == {"headerSent", "page"} \subseteq DOMAIN r

Onward(r, q) ==
  Headed(q) /\ (r.headerSent => q.headerSent /\ q.page = r.page)

(* Two steps onward are one                                                 *)
LEMMA OnwardTwice ==
  ASSUME NEW r, NEW q, NEW p, Onward(r, q), Onward(q, p) PROVE Onward(r, p)
  BY Zenon DEF Onward

(* nginx's operations: an error after the header ends the request.         *)
LEMMA NginxOnward ==
  ASSUME NEW r, Headed(r)
  PROVE  /\ Onward(r, r) /\ Onward(r, CloseRequest(r))
         /\ Onward(r, TerminateRequest(r)) /\ Onward(r, RunPostedRequests(r))
<1>1. Onward(r, r)
  BY Zenon DEF Onward
<1>2. Onward(r, CloseRequest(r))
  BY Zenon DEF Onward, Headed, CloseRequest
<1>3. Onward(r, TerminateRequest(r))
  BY Zenon DEF Onward, Headed, TerminateRequest
<1>4. Onward(r, RunPostedRequests(r))
  BY Zenon DEF Onward, Headed, RunPostedRequests, CloseRequest
<1> QED BY Zenon, <1>1, <1>2, <1>3, <1>4

(* ngx_http_finalize_request: an error page replaces only a response that   *)
(* has not been sent                                                        *)
LEMMA FinalizeOnward ==
  ASSUME NEW r, NEW rc, Headed(r)
  PROVE  /\ Onward(r, FinalizeRequest(r, rc))
         /\ Onward(r, RunPostedRequests(FinalizeRequest(r, rc)))
         /\ Onward(r, Return(FinalizeRequest(r, rc)))
<1> DEFINE h == [r EXCEPT !.connH = "request_handler"]
           c == [r EXCEPT !.phase = "finalized", !.closed = TRUE,
                          !.readH = "block_reading", !.writeH = "empty"]
           w == [r EXCEPT !.phase = "finalized", !.readH = "test_reading",
                          !.writeH = "writer"]
           s == [h EXCEPT !.phase = "special", !.page = "special"]
<1>1. /\ Onward(r, h) /\ Onward(r, c) /\ Onward(r, w)
      /\ ~r.headerSent => Onward(r, s)
  BY Zenon DEF Onward, Headed
<1>2. \/ FinalizeRequest(r, rc) \in
           {CloseRequest(r), TerminateRequest(r), TerminateRequest(h), w,
            CloseRequest(c)}
      \/ ~r.headerSent /\ FinalizeRequest(r, rc) = s
  BY Zenon DEF FinalizeRequest
<1> HIDE DEF h, c, w, s
<1>3. /\ Onward(r, CloseRequest(r)) /\ Onward(r, TerminateRequest(r))
      /\ Onward(r, TerminateRequest(h)) /\ Onward(r, CloseRequest(c))
  BY Zenon, <1>1, NginxOnward, OnwardTwice DEF Onward
<1>4. Onward(r, FinalizeRequest(r, rc))
  BY Zenon, <1>1, <1>2, <1>3
<1>5. Onward(r, RunPostedRequests(FinalizeRequest(r, rc)))
  BY Zenon, <1>4, NginxOnward, OnwardTwice DEF Onward
<1> QED BY Zenon, <1>4, <1>5 DEF Return

(* submit(), and what follows the access phase                             *)
LEMMA SubmitOnward ==
  ASSUME NEW r, NEW k, Headed(r)
  PROVE  /\ Onward(r, Submitted(r, k)) /\ Onward(r, NotSubmitted(r, k))
         /\ Onward(r, AfterAccess(r)) /\ Onward(r, StartContent(r))
<1>1. Onward(r, Submitted(r, k))
  BY Zenon DEF Onward, Headed, Submitted, ReplaceHandlers
<1>2. Onward(r, NotSubmitted(r, k))
  <2> DEFINE p == Submitted(r, k)
             u == [p EXCEPT !.count = @ - 1, !.blocked = @ - 1]
  <2>1. Onward(r, u)
    <3> HIDE DEF p
    <3> QED BY Zenon, <1>1 DEF Onward, Headed, p
  <2> HIDE DEF u
  <2>2. Onward(u, RestoreHandlers(u, k, NewTask(r, 0)))
    BY Zenon, <2>1 DEF Onward, Headed, RestoreHandlers
  <2>3. NotSubmitted(r, k) = RestoreHandlers(u, k, NewTask(r, 0))
    BY Zenon DEF NotSubmitted, u
  <2> QED BY Zenon, <2>1, <2>2, <2>3, OnwardTwice
<1>3. Onward(r, StartContent(r))
  BY Zenon DEF Onward, Headed, StartContent
<1>4. Onward(r, AfterAccess(r))
  BY Zenon, <1>3 DEF Onward, Headed, AfterAccess
<1> QED BY Zenon, <1>1, <1>2, <1>3, <1>4

(* What follows a call of the request body filter                          *)
LEMMA BodyCallOnward ==
  ASSUME NEW r, NEW preread, NEW rc, NEW passed, Headed(r)
  PROVE  Onward(r, AfterRequestFilter(preread, r, rc, passed))
<1> DEFINE q == IF rc = "internal_error" THEN FinalizeRequest(r, rc)
                ELSE IF Len(passed) = Len(conf.reqBody) THEN StartContent(r)
                ELSE [r EXCEPT !.phase = "body"]
<1>1. Onward(r, [r EXCEPT !.phase = "body"])
  BY Zenon DEF Onward, Headed
<1>2. Onward(r, q)
  BY Zenon, <1>1, FinalizeOnward, SubmitOnward
<1>3. AfterBodyCall(r, rc, passed) = EventEnds(q)
  BY Zenon DEF AfterBodyCall
<1> HIDE DEF q
<1>4. Onward(r, AfterBodyCall(r, rc, passed))
  <2>1. Onward(q, RunPostedRequests(q))
    BY Zenon, <1>2, NginxOnward DEF Onward
  <2>2. Onward(r, RunPostedRequests(q))
    BY Zenon, <1>2, <2>1, OnwardTwice
  <2> QED BY Zenon, <1>2, <1>3, <2>2 DEF EventEnds
<1>5. Onward(r, [ReadBodyHandlers(r) EXCEPT !.phase = "preread"])
  BY Zenon DEF Onward, Headed, ReadBodyHandlers
<1> QED BY Zenon, <1>4, <1>5 DEF AfterRequestFilter, AfterPrereadCall

(* What follows a call of a response filter                                *)
LEMMA FilterOnward ==
  ASSUME NEW r, NEW caller \in FilterCallers, NEW rc, Headed(r)
  PROVE  Onward(r, AfterFilter(caller, r, rc))
<1>1. Onward(r, AfterHeader(r, rc))
  <2>1. Onward(r, [r EXCEPT !.phase = "sending"])
    BY Zenon DEF Onward, Headed
  <2> QED BY Zenon, <2>1, FinalizeOnward DEF AfterHeader
<1>2. Onward(r, AfterBody(r, rc))
  BY Zenon, FinalizeOnward, NginxOnward DEF AfterBody
<1>3. Onward(r, AfterWriter(r, rc))
  BY Zenon, FinalizeOnward, NginxOnward DEF AfterWriter
<1>4. Onward(r, AfterDrain(r, rc))
  <2>1. Onward(r, [r EXCEPT !.writeH = ctx.prevWrite, !.wev = TRUE])
    BY Zenon DEF Onward, Headed
  <2> QED BY Zenon, <2>1, FinalizeOnward, NginxOnward DEF AfterDrain
<1> QED BY Zenon, <1>1, <1>2, <1>3, <1>4 DEF AfterFilter, FilterCallers

(* The connection's write handler, waf_final_done                          *)
LEMMA EventOnward ==
  ASSUME NEW r, Headed(r), NEW header
  PROVE  /\ Onward(r, ConnectionWriteHandler(r))
         /\ Onward(r, Unblocked(r, header))
<1>1. Onward(r, ConnectionWriteHandler(r))
  BY Zenon, FinalizeOnward, NginxOnward, SubmitOnward
     DEF ConnectionWriteHandler, PlainWriteHandler
<1>2. Onward(r, Unblocked(r, header))
  BY Zenon DEF Onward, Headed, Unblocked, PrepareDrain
<1> QED BY Zenon, <1>1, <1>2

(* The blocking response                                                   *)
LEMMA BlockOnward ==
  ASSUME NEW r, NEW k, Headed(r), Block(k, r)
  PROVE  Onward(r, req')
<1>1. \A q, rc : Headed(q) => Onward(q, AfterBlock(k, q, rc))
  <2> TAKE q, rc
  <2> DEFINE f == FinalizeRequest(q, rc)
  <2>1. Headed(q) => Onward(q, f)
    BY Zenon, FinalizeOnward
  <2> HIDE DEF f
  <2>2. Headed(q) => Onward(q, [f EXCEPT !.wev = TRUE])
    BY Zenon, <2>1 DEF Onward, Headed
  <2> QED BY Zenon, <2>1, <2>2 DEF AfterBlock, f
<1>2. PICK bodyless \in BOOLEAN :
        LET l == LastHeaderFilter([r EXCEPT !.headerOnly = @ \/ bodyless])
        IN  \E rc : req' \in {AfterBlock(k, l, rc),
                              AfterBlock(k, [l EXCEPT !.buffered = FALSE], rc),
                              AfterBlock(k, [l EXCEPT !.buffered = TRUE], rc)}
  BY ZenonT(30) DEF Block
<1> DEFINE l == LastHeaderFilter([r EXCEPT !.headerOnly = @ \/ bodyless])
<1>3. Onward(r, l)
  BY Zenon DEF Onward, Headed, LastHeaderFilter
<1>4. PICK rc : req' \in {AfterBlock(k, l, rc),
                          AfterBlock(k, [l EXCEPT !.buffered = FALSE], rc),
                          AfterBlock(k, [l EXCEPT !.buffered = TRUE], rc)}
  BY Zenon, <1>2
<1> HIDE DEF l
<1>5. /\ Onward(r, [l EXCEPT !.buffered = FALSE])
      /\ Onward(r, [l EXCEPT !.buffered = TRUE])
  BY Zenon, <1>3 DEF Onward, Headed
<1>6. ASSUME NEW q, Onward(r, q) PROVE Onward(r, AfterBlock(k, q, rc))
  <2>1. Onward(q, AfterBlock(k, q, rc))
    BY Zenon, <1>1, <1>6 DEF Onward
  <2> QED BY Zenon, <1>6, <2>1, OnwardTwice
<1> QED BY Zenon, <1>3, <1>4, <1>5, <1>6

(* The two requests with which the response filters go on                  *)
LEMMA FinalOnward ==
  ASSUME NEW r, Headed(r), NEW c, NEW header, NEW due,
         NEW caller \in FilterCallers, NEW rc,
         SubmitFinal(c, r, header, due, caller, rc)
  PROVE  Onward(r, req')
<1> DEFINE s == Submitted(r, "final")
           u == Unblocked(NotSubmitted(r, "final"), header)
<1>1. Onward(r, s)
  BY Zenon, SubmitOnward
<1>2. Onward(r, u)
  <2>1. Onward(r, NotSubmitted(r, "final"))
    BY Zenon, SubmitOnward
  <2>2. Onward(NotSubmitted(r, "final"), u)
    BY Zenon, <2>1, EventOnward DEF Onward
  <2> HIDE DEF u
  <2> QED BY Zenon, <2>1, <2>2, OnwardTwice
<1>3. \/ req' = AfterFilter(caller, s, rc) \/ req' = AfterFilter(caller, u, rc)
  BY Zenon DEF SubmitFinal
<1> HIDE DEF s, u
<1>4. ASSUME NEW q, Onward(r, q) PROVE Onward(r, AfterFilter(caller, q, rc))
  <2>1. Onward(q, AfterFilter(caller, q, rc))
    BY Zenon, <1>4, FilterOnward DEF Onward
  <2> QED BY Zenon, <1>4, <2>1, OnwardTwice
<1> QED BY Zenon, <1>1, <1>2, <1>3, <1>4

(* The output filter takes a response on                                    *)
LEMMA OutputOnward ==
  ASSUME NEW r0, Shape(r0), r0.headerSent, DOMAIN ctx = ContextFields, NEW in,
         NEW caller \in FilterCallers, OutputBodyFilter(r0, in, caller)
  PROVE  Onward(r0, req')
<1>1. Passed(r0, caller) \/ Committed(r0, caller) \/ Collected(r0, caller)
  BY Zenon, OutputCases DEF Keep
<1>2. \A q : Variant(r0, q) => Onward(r0, q)
  BY Zenon DEF Variant, Only, Shape, Fields, Onward, Headed
<1>3. ASSUME NEW q, NEW rc, Variant(r0, q), req' = AfterFilter(caller, q, rc)
      PROVE  Onward(r0, req')
  <2>1. Onward(r0, q)
    BY Zenon, <1>2, <1>3
  <2>2. Onward(q, req')
    BY Zenon, <1>3, <2>1, FilterOnward DEF Onward
  <2> QED BY Zenon, <2>1, <2>2, OnwardTwice
<1>4. CASE Passed(r0, caller) \/ Committed(r0, caller)
  BY Zenon, <1>3, <1>4 DEF Passed, Committed
<1>5. CASE Collected(r0, caller)
  <2>1. PICK q, c, due, rc : /\ Variant(r0, q)
                             /\ SubmitFinal(c, q, hdr, due, caller, rc)
    BY Zenon, <1>5 DEF Collected
  <2>2. Onward(r0, q)
    BY Zenon, <1>2, <2>1
  <2>3. Onward(q, req')
    BY Zenon, <2>1, <2>2, FinalOnward DEF Onward
  <2> QED BY Zenon, <2>2, <2>3, OnwardTwice
<1> QED BY Zenon, <1>1, <1>4, <1>5

(* do_header_filter is called before the header is sent, or refuses.       *)
LEMMA HeaderOnward == RInv /\ HeaderFilter => Onward(req, req')
<1> SUFFICES ASSUME RInv, HeaderFilter PROVE Onward(req, req')
  OBVIOUS
<1>1. Headed(req)
  BY Zenon DEF RInv, Fit, Shape, Fields, Headed
<1> DEFINE r == LastHeaderFilter(AtHeader)
           b == BeforeFinal(r, TRUE)
<1>2. Headed(r) /\ Headed(b)
  BY Zenon, <1>1 DEF Headed, LastHeaderFilter, AtHeader, BeforeFinal
<1>3. \/ req.headerSent /\ \E rc : req' = AfterHeader(req, rc)
      \/ ~req.headerSent /\ \E rc : req' = AfterHeader(r, rc)
      \/ ~req.headerSent /\ \E c, h : SubmitFinal(c, b, h, 0, "header", "ok")
  BY ZenonT(30) DEF HeaderFilter, HeaderRefused, HeaderPasses, HeaderBuffered
<1> HIDE DEF r, b
<1>4. "header" \in FilterCallers
  BY DEF FilterCallers
<1>5. \A q, rc : AfterFilter("header", q, rc) = AfterHeader(q, rc)
  BY Zenon DEF AfterFilter
<1>6. \A q, rc : Headed(q) => Onward(q, AfterHeader(q, rc))
  BY Zenon, <1>4, <1>5, FilterOnward
<1>7. CASE ~req.headerSent /\ \E c, h : SubmitFinal(c, b, h, 0, "header", "ok")
  BY Zenon, <1>2, <1>4, <1>7, FinalOnward DEF Onward
<1>8. CASE ~req.headerSent /\ \E rc : req' = AfterHeader(r, rc)
  <2>1. Headed(req')
    <3>1. PICK rc : req' = AfterHeader(r, rc)
      BY Zenon, <1>8
    <3>2. Onward(r, AfterHeader(r, rc))
      BY Zenon, <1>2, <1>6
    <3> QED BY Zenon, <3>1, <3>2 DEF Onward
  <2> QED BY Zenon, <1>8, <2>1 DEF Onward
<1>9. CASE \E rc : req' = AfterHeader(req, rc)
  BY Zenon, <1>1, <1>6, <1>9
<1> QED BY Zenon, <1>3, <1>7, <1>8, <1>9

(* completion_handler_impl *)
LEMMA CompletionOnward ==
  ASSUME RInv, NEW k \in Kinds, Completion(k) PROVE Onward(req, req')
<1>1. Headed(req)
  BY Zenon DEF RInv, Fit, Shape, Fields, Headed
<1> DEFINE u == Unblock(k)
           d == Dereferenced(u)
<1>2. Onward(req, u)
  BY Zenon, <1>1 DEF Onward, Headed, Unblock, RestoreHandlers
<1>3. Onward(req, d)
  <2> HIDE DEF u
  <2> QED BY Zenon, <1>2 DEF Onward, Headed, Dereferenced
<1>4. \/ req' = ConnectionWriteHandler(d)
      \/ Complete(k, d)
      \/ \E rc : req' = FinalizeRequest(u, rc)
  BY Zenon DEF Completion
<1> HIDE DEF u, d
<1>5. CASE req' = ConnectionWriteHandler(d)
  <2>1. Onward(d, req')
    BY Zenon, <1>3, <1>5, EventOnward DEF Onward
  <2> QED BY Zenon, <1>3, <2>1, OnwardTwice
<1>6. CASE \E rc : req' = FinalizeRequest(u, rc)
  <2>1. Onward(u, req')
    <3>1. PICK rc : req' = FinalizeRequest(u, rc)
      BY Zenon, <1>6
    <3>2. Onward(u, FinalizeRequest(u, rc))
      BY Zenon, <1>2, FinalizeOnward DEF Onward
    <3> QED BY Zenon, <3>1, <3>2
  <2> QED BY Zenon, <1>2, <2>1, OnwardTwice
<1>7. CASE Complete(k, d)
  <2>1. CASE Block(k, d)
    <3>1. Onward(d, req')
      BY Zenon, <1>3, <2>1, BlockOnward DEF Onward
    <3> QED BY Zenon, <1>3, <3>1, OnwardTwice
  <2>2. CASE Resume(k, d)
    <3> DEFINE w == [d EXCEPT !.wev = TRUE,
                        !.phase = IF @ = "suspended" THEN "resume" ELSE @]
    <3>1. req' = w \/ req' = d \/ req' = Unblocked(d, hdr)
      BY Zenon, <2>2 DEF Resume, Kinds
    <3>2. Onward(d, w) /\ Onward(d, d)
      BY Zenon, <1>3 DEF Onward, Headed
    <3>3. Onward(d, Unblocked(d, hdr))
      BY Zenon, <1>3, EventOnward DEF Onward
    <3> HIDE DEF w
    <3>4. Onward(d, req')
      BY Zenon, <3>1, <3>2, <3>3
    <3> QED BY Zenon, <1>3, <3>4, OnwardTwice
  <2> QED BY Zenon, <1>7, <2>1, <2>2 DEF Complete
<1> QED BY Zenon, <1>4, <1>5, <1>6, <1>7

(* No step takes a sent header back or changes the response it began        *)
LEMMA SentOnward == RInv /\ [Next]_vars => Onward(req, req')
<1> SUFFICES ASSUME RInv, [Next]_vars PROVE Onward(req, req')
  OBVIOUS
<1>0. Headed(req) /\ Shape(req) /\ DOMAIN ctx = ContextFields
  BY Zenon DEF RInv, Frame, Fit, Shape, Fields, Headed
<1>1. CASE OnRequestStart
  <2> DEFINE s == Submitted(req, "start")
             n == NotSubmitted(req, "start")
  <2>1. req' \in {AfterAccess(req), AfterAccess(n),
                  [s EXCEPT !.phase = "suspended"]}
    BY Zenon, <1>1 DEF OnRequestStart
  <2>2. Onward(req, AfterAccess(req)) /\ Onward(req, s) /\ Onward(req, n)
    BY Zenon, <1>0, SubmitOnward
  <2> HIDE DEF s, n
  <2>3. Onward(req, AfterAccess(n))
    <3>1. Onward(n, AfterAccess(n))
      BY Zenon, <2>2, SubmitOnward DEF Onward
    <3> QED BY Zenon, <2>2, <3>1, OnwardTwice
  <2>4. Onward(req, [s EXCEPT !.phase = "suspended"])
    BY Zenon, <2>2 DEF Onward, Headed
  <2> QED BY Zenon, <2>1, <2>2, <2>3, <2>4
<1>2. CASE PrereadBody \/ ReadBody
  <2>1. PICK in, preread : RequestBodyFilter(in, preread)
    BY Zenon, <1>2 DEF PrereadBody, ReadBody
  <2>2. PICK q, rc, passed :
          /\ \/ q = req \/ q = NotSubmitted(req, "reqbody")
             \/ q = Submitted(req, "reqbody")
          /\ req' = AfterRequestFilter(preread, q, rc, passed)
    BY Zenon, <2>1, BodyFilterCall
  <2>3. Onward(req, q)
    BY Zenon, <1>0, <2>2, SubmitOnward, NginxOnward
  <2>4. Onward(q, AfterRequestFilter(preread, q, rc, passed))
    BY Zenon, <2>3, BodyCallOnward DEF Onward
  <2> QED BY Zenon, <2>2, <2>3, <2>4, OnwardTwice
<1>3. CASE NoPreread
  <2>1. req' = [ReadBodyHandlers(req) EXCEPT !.phase = "body"]
    BY Zenon, <1>3 DEF NoPreread
  <2> QED BY Zenon, <1>0, <2>1 DEF ReadBodyHandlers, Onward, Headed
<1>4. CASE HeaderFilter
  BY Zenon, <1>4, HeaderOnward
<1>5. CASE ProduceBody
  <2>1. /\ req.live /\ req.phase = "sending"
        /\ \E in : OutputBodyFilter(req, in, "producer")
    BY Zenon, <1>5 DEF ProduceBody
  <2>2. req.headerSent
    BY Zenon, <2>1 DEF RInv, Fit, Placed
  <2>3. "producer" \in FilterCallers
    BY DEF FilterCallers
  <2> QED BY Zenon, <1>0, <2>1, <2>2, <2>3, OutputOnward
<1>6. CASE \E k \in Kinds : ThreadStart(k) \/ ThreadFinish(k) \/ Completion(k)
  <2>1. CASE \E k \in Kinds : Completion(k)
    BY Zenon, <2>1, CompletionOnward
  <2>2. CASE \E k \in Kinds : ThreadStart(k) \/ ThreadFinish(k)
    BY Zenon, <1>0, <2>2, NginxOnward DEF ThreadStart, ThreadFinish
  <2> QED BY Zenon, <1>6, <2>1, <2>2
<1>7. CASE WriteEvent
  <2> DEFINE r == [req EXCEPT !.wev = FALSE]
  <2>1. /\ req.live
        /\ \/ req' = ConnectionWriteHandler(r)
           \/ req' = FinalizeRequest(r, "internal_error")
           \/ /\ r.writeH \in {"writer", "drain"}
              /\ \E caller \in {"writer", "drain"} :
                   OutputBodyFilter(r, << >>, caller)
    BY Zenon, <1>7 DEF WriteEvent, MainThreadFree
  <2>2. Onward(req, r) /\ Headed(r)
    BY Zenon, <1>0 DEF Onward, Headed
  <2>3. /\ Shape(r) /\ r.headerSent = req.headerSent
        /\ r.writeH = req.writeH
    BY Zenon, <1>0 DEF Shape, Fields
  <2> HIDE DEF r
  <2>4. Onward(r, req')
    <3>1. CASE req' = ConnectionWriteHandler(r)
      BY Zenon, <2>2, <3>1, EventOnward
    <3>2. CASE req' = FinalizeRequest(r, "internal_error")
      BY Zenon, <2>2, <3>2, FinalizeOnward
    <3>3. CASE /\ r.writeH \in {"writer", "drain"}
               /\ \E caller \in {"writer", "drain"} :
                    OutputBodyFilter(r, << >>, caller)
      <4>1. req.headerSent
        BY Zenon, <2>1, <2>3, <3>3 DEF RInv, Fit, Handled
      <4>2. {"writer", "drain"} \subseteq FilterCallers
        BY DEF FilterCallers
      <4> QED BY Zenon, <1>0, <2>3, <3>3, <4>1, <4>2, OutputOnward
    <3> QED BY Zenon, <2>1, <3>1, <3>2, <3>3
  <2> QED BY Zenon, <2>2, <2>4, OnwardTwice
<1>8. CASE Abort
  BY Zenon, <1>0, <1>8, FinalizeOnward DEF Abort
<1>9. CASE UNCHANGED vars
  BY Zenon, <1>0, <1>9, NginxOnward DEF vars
<1> QED BY Zenon, <1>1, <1>2, <1>3, <1>4, <1>5, <1>6, <1>7, <1>8, <1>9
           DEF Next, Terminated

-----------------------------------------------------------------------------
(* How much of the response is saved.                                      *)

(* Context::buffer_chain copies what it is given, or less, or nothing.     *)
LEMMA BufferCopies ==
  ASSUME NEW f, f.copied_total \in Nat, NEW S, Sized(S), NEW in \in Seq(S),
         NEW consume, NEW g,
         \/ g = BufferChain(f, in, consume)
         \/ g \in BufferChainFailures(f, in, consume)
  PROVE  /\ g.copied_total \in Nat
         /\ g.copied_total <= f.copied_total + SizeOf(in)
         /\ ~consume \/ in = << >> => g.copied_total = f.copied_total
<1>1. /\ SizeOf(in) \in Nat
      /\ \A n \in 0 .. Len(in) : /\ SizeOf(SubSeq(in, 1, n)) \in Nat
                                  /\ SizeOf(SubSeq(in, 1, n)) <= SizeOf(in)
  BY Zenon, ChainSizes
<1>2. ASSUME NEW s, SizeOf(s) \in Nat, SizeOf(s) <= SizeOf(in),
             g = BufferChain(f, s, consume), in = << >> => s = << >>
      PROVE  /\ g.copied_total \in Nat
             /\ g.copied_total <= f.copied_total + SizeOf(in)
             /\ ~consume \/ in = << >> => g.copied_total = f.copied_total
  <2>1. g.copied_total = f.copied_total + (IF consume THEN SizeOf(s) ELSE 0)
    BY Zenon, <1>2 DEF BufferChain
  <2>2. in = << >> => SizeOf(s) = 0
    BY Zenon, <1>2, EmptySize
  <2> QED BY <1>1, <1>2, <2>1, <2>2
<1>3. CASE g = BufferChain(f, in, consume)
  <2>1. SizeOf(in) <= SizeOf(in)
    BY <1>1
  <2> QED BY Zenon, <1>1, <1>2, <1>3, <2>1
<1>4. CASE g = f
  BY <1>1, <1>4
<1>5. CASE \E n \in 0 .. Len(in) - 1 :
             g = BufferChain(f, SubSeq(in, 1, n), consume)
  <2>1. PICK n \in 0 .. Len(in) - 1 :
               g = BufferChain(f, SubSeq(in, 1, n), consume)
    BY Zenon, <1>5
  <2>2. n \in 0 .. Len(in) /\ in # << >>
    BY <2>1
  <2> QED BY Zenon, <1>1, <1>2, <2>1, <2>2
<1>6. g \in BufferChainFailures(f, in, consume) =>
        \/ g = f
        \/ \E n \in 0 .. Len(in) - 1 :
             g = BufferChain(f, SubSeq(in, 1, n), consume)
  BY Zenon DEF BufferChainFailures
<1> QED BY Zenon, <1>3, <1>4, <1>5, <1>6

(* do_output_body_filter *)
LEMMA OutputCopies ==
  ASSUME NEW r0, NEW S, Sized(S), NEW in \in Seq(S), NEW caller,
         out.copied_total \in Nat, OutputBodyFilter(r0, in, caller)
  PROVE  /\ out'.copied_total \in Nat
         /\ \/ out'.copied_total \in {out.copied_total, 0}
            \/ /\ Consume /\ in # << >>
               /\ out'.copied_total <= out.copied_total + SizeOf(in)
<1>1. \/ out' = out \/ \E f : out' = Clear(f)
      \/ out' \in BufferChainFailures(out, in, FALSE)
      \/ out' = BufferChain(out, in, Consume)
      \/ out' \in BufferChainFailures(out, in, Consume)
  BY ZenonT(30) DEF OutputBodyFilter, BodyBuffered, BodyCommitted, BodyReleased
<1>2. CASE out' = out
  BY Zenon, <1>2
<1>3. CASE \E f : out' = Clear(f)
  <2>1. out'.copied_total = 0
    BY Zenon, <1>3 DEF Clear, EmptyFilterCtx
  <2> QED BY <2>1
<1>4. CASE out' \in BufferChainFailures(out, in, FALSE)
  <2>1. out'.copied_total \in Nat /\ out'.copied_total = out.copied_total
    BY Zenon, <1>4, BufferCopies
  <2> QED BY Zenon, <2>1
<1>5. CASE \/ out' = BufferChain(out, in, Consume)
           \/ out' \in BufferChainFailures(out, in, Consume)
  <2>1. /\ out'.copied_total \in Nat
        /\ out'.copied_total <= out.copied_total + SizeOf(in)
        /\ ~Consume \/ in = << >> => out'.copied_total = out.copied_total
    BY Zenon, <1>5, BufferCopies
  <2> QED BY Zenon, <2>1
<1> QED BY Zenon, <1>1, <1>2, <1>3, <1>4, <1>5

(* The response that is saved is the same before and after a step.         *)
LEMMA SameSizes ==
  ASSUME conf' = conf, req'.page = req.page
  PROVE  CallSizes' = CallSizes /\ RespPieces(req.page)' = RespPieces(req.page)
  BY Zenon DEF CallSizes, RespPieces

(* Nothing more is saved *)
LEMMA SavedStays ==
  ASSUME SavedInv, Onward(req, req'), conf' = conf, respIn' = respIn,
         out'.copied_total \in {out.copied_total, 0}
  PROVE  SavedInv'
<1>1. out'.copied_total \in Nat
  BY DEF SavedInv
<1>2. ASSUME respIn > 0 \/ out.copied_total > 0
      PROVE  /\ req'.headerSent /\ req'.page = req.page
             /\ CallSizes' = CallSizes
             /\ RespPieces(req.page)' = RespPieces(req.page)
  BY Zenon, <1>2, SameSizes DEF SavedInv, Onward
<1>3. out'.copied_total > 0 =>
        out'.copied_total = out.copied_total /\ out.copied_total > 0
  OBVIOUS
<1>4. respIn = 0 \/ respIn > 0
  BY DEF SavedInv
<1>5. SavedOutputBounded'
  BY Zenon, <1>2, <1>3 DEF SavedInv, SavedOutputBounded
<1>6. (\/ respIn = 0 \/ (conf.upstream /\ req.page = "orig")
       \/ respIn = Len(RespPieces(req.page)))'
  BY Zenon, <1>2, <1>4 DEF SavedInv
<1>7. respIn' > 0 \/ out'.copied_total > 0 => req'.headerSent
  BY Zenon, <1>2, <1>3
<1> QED BY Zenon, <1>1, <1>5, <1>6, <1>7 DEF SavedInv

(* The size of one buffer *)
LEMMA OneSize ==
  ASSUME NEW S, Sized(S), NEW s \in Seq(S), NEW i \in 1 .. Len(s)
  PROVE  SizeOf(SubSeq(s, i, i)) = s[i].size
<1> DEFINE p == SubSeq(s, i, i)
           a == [j \in DOMAIN p |-> p[j].size]
<1>1. Len(p) = 1 /\ a[1] = s[i].size /\ s[i].size \in Nat
  BY DEF Sized
<1>2. SumTo(a, 0) = 0 /\ SumTo(a, 0 + 1) = SumTo(a, 0) + a[0 + 1]
  <2>1. 0 \in Nat
    OBVIOUS
  <2> QED BY Zenon, <2>1, SumToStep
<1>3. SizeOf(p) = SumTo(a, 1)
  BY Zenon, <1>1 DEF SizeOf
<1> HIDE DEF p, a
<1>4. SizeOf(p) = s[i].size
  BY <1>1, <1>2, <1>3
<1> QED BY Zenon, <1>4 DEF p

(* A producer hands one buffer or the whole response to the filter.        *)
LEMMA PortionSize ==
  ASSUME conf \in Configs, respIn \in Nat,
         respIn < Len(RespPieces(req.page)),
         \/ respIn = 0 \/ (conf.upstream /\ req.page = "orig")
         \/ respIn = Len(RespPieces(req.page))
  PROVE  /\ SizeOf(SubSeq(RespPieces(req.page), respIn + 1, respIn + Portion))
              \in CallSizes
         /\ \/ conf.upstream /\ req.page = "orig"
            \/ respIn + Portion = Len(RespPieces(req.page))
<1> DEFINE s == RespPieces(req.page)
           P == PieceOf(req.page)
<1>1. s \in Seq(P) /\ Sized(P)
  BY Zenon, RespPiecesType
<1>2. CASE conf.upstream /\ req.page = "orig"
  <2>1. Portion = 1 /\ CallSizes = {conf.respBody[i] : i \in DOMAIN conf.respBody}
    BY Zenon, <1>2 DEF Portion, CallSizes
  <2>2. s = Pieces("orig", conf.respBody)
    BY Zenon, <1>2 DEF RespPieces
  <2>3. conf.respBody \in Seq(Nat)
    BY ConstantsAssumption DEF Config
  <2>4. /\ respIn + 1 \in DOMAIN conf.respBody
        /\ s[respIn + 1].size = conf.respBody[respIn + 1]
        /\ respIn + 1 \in 1 .. Len(s)
    BY <2>2, <2>3 DEF Pieces, Piece
  <2> HIDE DEF s, P
  <2>5. SizeOf(SubSeq(s, respIn + 1, respIn + 1)) = conf.respBody[respIn + 1]
    BY Zenon, <1>1, <2>4, OneSize
  <2> QED BY Zenon, <1>2, <2>1, <2>4, <2>5 DEF s
<1>3. CASE ~(conf.upstream /\ req.page = "orig")
  <2>1. /\ Portion = Len(s) - respIn
        /\ CallSizes = {SizeOf(s)}
    BY Zenon, <1>3 DEF Portion, CallSizes
  <2>2. respIn < Len(s) /\ (respIn = 0 \/ respIn = Len(s))
    BY Zenon, <1>3
  <2> HIDE DEF s, P
  <2>3. respIn = 0 /\ respIn + 1 = 1 /\ respIn + Portion = Len(s)
    BY <1>1, <2>1, <2>2
  <2>4. SubSeq(s, 1, Len(s)) = s
    BY <1>1
  <2> QED BY Zenon, <2>1, <2>3, <2>4 DEF s
<1> QED BY Zenon, <1>2, <1>3

(* The body is produced: if it is copied at all, the limit was not reached *)
(* before.                                                                 *)
LEMMA ProduceSaved == RInv /\ SavedInv /\ ProduceBody => SavedInv'
<1> SUFFICES ASSUME RInv, SavedInv, ProduceBody PROVE SavedInv'
  OBVIOUS
<1> DEFINE in == SubSeq(RespPieces(req.page), respIn + 1, respIn + Portion)
           P == PieceOf(req.page)
<1>1. /\ OutputBodyFilter(req, in, "producer")
      /\ respIn' = respIn + Portion /\ conf' = conf
      /\ req.live /\ req.phase = "sending"
      /\ respIn < Len(RespPieces(req.page))
  BY Zenon DEF ProduceBody
<1>2. /\ conf \in Configs /\ req.headerSent /\ respIn \in Nat
      /\ out.copied_total \in Nat
  BY Zenon, <1>1 DEF RInv, Frame, Fit, Placed, SavedInv
<1>3. req'.headerSent /\ req'.page = req.page
  <2>1. Onward(req, req')
    BY Zenon, SentOnward DEF Next
  <2> QED BY Zenon, <1>2, <2>1 DEF Onward
<1>4. CallSizes' = CallSizes /\ RespPieces(req.page)' = RespPieces(req.page)
  BY Zenon, <1>1, <1>3, SameSizes
<1>5. /\ in \in Seq(P) /\ Sized(P) /\ respIn + Portion \in Nat
  BY Zenon, <1>1, <1>2, PortionType, RespPiecesType
<1>6. /\ SizeOf(in) \in CallSizes
      /\ \/ conf.upstream /\ req.page = "orig"
         \/ respIn + Portion = Len(RespPieces(req.page))
  BY Zenon, <1>1, <1>2, PortionSize DEF SavedInv
<1> HIDE DEF in, P
<1>7. SizeOf(in) \in Nat
  BY Zenon, <1>5, ChainSizes
<1>8. /\ out'.copied_total \in Nat
      /\ \/ out'.copied_total \in {out.copied_total, 0}
         \/ /\ out.copied_total < MaxSaved
            /\ out'.copied_total <= out.copied_total + SizeOf(in)
  BY Zenon, <1>1, <1>2, <1>5, OutputCopies DEF Consume
<1>9. SavedOutputBounded'
  <2>1. MaxSaved \in Nat
    BY Zenon, ConstantsAssumption
  <2>2. CASE out'.copied_total \in {out.copied_total, 0}
    <3>1. out'.copied_total > 0 =>
            out'.copied_total = out.copied_total /\ out.copied_total > 0
      BY <2>2
    <3> QED BY Zenon, <1>4, <3>1 DEF SavedInv, SavedOutputBounded
  <2>3. CASE /\ out.copied_total < MaxSaved
             /\ out'.copied_total <= out.copied_total + SizeOf(in)
    <3>1. out'.copied_total < MaxSaved + SizeOf(in)
      BY <1>2, <1>7, <1>8, <2>1, <2>3
    <3> QED BY Zenon, <1>4, <1>6, <3>1 DEF SavedOutputBounded
  <2> QED BY Zenon, <1>8, <2>2, <2>3
<1> QED BY Zenon, <1>1, <1>3, <1>4, <1>5, <1>6, <1>8, <1>9 DEF SavedInv

(* Every step keeps the bound on what is saved                              *)
LEMMA SavedStep == RInv /\ SavedInv /\ [Next]_vars => SavedInv'
<1> SUFFICES ASSUME RInv, SavedInv, [Next]_vars PROVE SavedInv'
  OBVIOUS
<1>1. Onward(req, req')
  BY Zenon, SentOnward
<1>2. CASE ProduceBody
  BY Zenon, <1>2, ProduceSaved
<1>3. CASE out' = out /\ conf' = conf /\ respIn' = respIn
  BY Zenon, <1>1, <1>3, SavedStays
<1>4. CASE WriteEvent
  <2>1. /\ conf' = conf /\ respIn' = respIn
        /\ \/ out' = out
           \/ \E r0, caller : OutputBodyFilter(r0, << >>, caller)
    BY Zenon, <1>4 DEF WriteEvent
  <2>2. << >> \in Seq({}) /\ Sized({})
    BY DEF Sized
  <2>3. out'.copied_total \in {out.copied_total, 0}
    BY Zenon, <2>1, <2>2, OutputCopies DEF SavedInv
  <2> QED BY Zenon, <1>1, <2>1, <2>3, SavedStays
<1>5. CASE \E k \in Kinds : Completion(k)
  <2>1. conf' = conf /\ respIn' = respIn /\ (out' = out \/ out' = Clear(out))
    BY ZenonT(30), <1>5 DEF Completion, Complete, Block, Resume
  <2>2. out'.copied_total \in {out.copied_total, 0}
    BY Zenon, <2>1 DEF Clear, EmptyFilterCtx
  <2> QED BY Zenon, <1>1, <2>1, <2>2, SavedStays
<1>6. CASE \/ OnRequestStart \/ PrereadBody \/ NoPreread \/ ReadBody
           \/ HeaderFilter \/ Abort \/ UNCHANGED vars
           \/ \E k \in Kinds : ThreadStart(k) \/ ThreadFinish(k)
  BY Zenon, <1>3, <1>6
     DEF OnRequestStart, PrereadBody, NoPreread, ReadBody, HeaderFilter, Abort,
         ThreadStart, ThreadFinish, vars
<1> QED BY Zenon, <1>2, <1>4, <1>5, <1>6 DEF Next, Terminated

=============================================================================
