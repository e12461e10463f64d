---------------------------- MODULE WafExchange ----------------------------
(***************************************************************************)
(* The security context implements the inspected exchange: its tasks are   *)
(* the inspections, what it passed to the next filters is what went out.   *)
(***************************************************************************)
EXTENDS WafContext

InspectionState(k) ==
  CASE task[k].st = "none" -> "idle"
    [] task[k].st \in {"queued", "running"} -> "running"
    [] task[k].st = "posted" -> "decided"
    [] task[k].st = "destroyed" -> "applied"

Exchange == INSTANCE InspectedExchange
  WITH state   <- [k \in Kinds |-> InspectionState(k)],
       refused <- {k \in Kinds : task[k].ran /\ task[k].block},
       sent    <- [i \in DOMAIN down |-> <<down[i].of, down[i].n>>],
       passed  <- Len(reqDown),
       over    <- ~req.live

(* Every behaviour of the security context is one of the inspected         *)
(* exchange: WAF runs do not overlap and are not repeated (submit), their  *)
(* decision is taken once (PolTaskCtx::handle) and applied once            *)
(* (completion_handler_impl), the response goes out in order, not while    *)
(* the final run is pending, and after a refusal was applied it is not the *)
(* original one (Context::on_header_filter, on_output_body_filter).        *)
ImplementsExchange == Exchange!Spec

=============================================================================
