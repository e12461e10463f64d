---------------------------- MODULE WafTheorems -----------------------------
(***************************************************************************)
(* What every behaviour of WafContext satisfies: the theorems that rest on *)
(* the invariant of the request (RInv, WafRequestProofs) and on the steps  *)
(* of the buffers (WafBufferProofs).                                       *)
(***************************************************************************)
EXTENDS WafRequestProofs, WafBufferProofs

(* A WAF run is shown exactly what it was submitted for (run_waf_req_post  *)
(* and run_waf_end read the buffers that the filters fill), provided that  *)
(* nginx does not hand more of the body to a filter that is suspended.     *)
THEOREM WafSeesWhatWasSubmitted ==
  "eager" \notin Faults => (Spec => []WafSeesSubmitted)
<1> SUFFICES ASSUME "eager" \notin Faults PROVE Spec => []WafSeesSubmitted
  OBVIOUS
<1>1. ShownInv => WafSeesSubmitted
  BY Zenon DEF ShownInv, Fixed, WafSeesSubmitted
<1>2. RInv /\ ShownInv /\ [Next]_vars => RInv' /\ ShownInv'
  BY Zenon, RInvNext, ShownStep
<1> QED BY <1>1, <1>2, RInvInit, ShownInit, PTL DEF Spec

(* The memory used to save the response exceeds max_saved_output_data by   *)
(* less than one call of the output filter brings (the check of            *)
(* copied_total in do_output_body_filter), whatever fails.                 *)
THEOREM SavedOutputIsBounded == Spec => []SavedOutputBounded
<1>1. Init => SavedInv
  <2> SUFFICES ASSUME Init PROVE SavedInv
    OBVIOUS
  <2>1. out.copied_total = 0 /\ respIn = 0
    BY Zenon DEF Init, EmptyFilterCtx
  <2> QED BY <2>1 DEF SavedInv, SavedOutputBounded
<1>2. SavedInv => SavedOutputBounded
  BY Zenon DEF SavedInv
<1> QED BY <1>1, <1>2, SavedStep, RInvInit, RInvNext, PTL DEF Spec

=============================================================================
