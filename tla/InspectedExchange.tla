------------------------- MODULE InspectedExchange -------------------------
(***************************************************************************)
(* What the security context of a request promises to nginx and to the     *)
(* client, without stages, buffers, tasks or handlers: an exchange that is *)
(* inspected up to three times, one inspection at a time and each at most  *)
(* once, whose one response goes out in order, not while the last          *)
(* inspection is pending, and is the original one only if no inspection    *)
(* refused it.                                                             *)
(***************************************************************************)
EXTENDS Naturals, Sequences

Inspections == {"start", "reqbody", "final"}

(* The original response, nginx's error page, the blocking page *)
Pages == {"orig", "special", "block"}

VARIABLES
  state,    \* of each inspection: idle, running, decided or applied
  refused,  \* inspections that decided to block
  sent,     \* the pieces of the response that went out: <<page, number>>
  passed,   \* number of pieces of the request body that were let through
  over      \* the exchange has ended

vars == <<state, refused, sent, passed, over>>

Init ==
  /\ state = [i \in Inspections |-> "idle"]
  /\ refused = {} /\ sent = << >> /\ passed = 0 /\ over = FALSE

Pending(s, i) == s[i] \in {"running", "decided"}

Advance(i, from, to) ==
  state[i] = from /\ state' = [state EXCEPT ![i] = to]

Begin(i) ==
  /\ \A j \in Inspections : state[j] # "running"
  /\ Advance(i, "idle", "running")
  /\ UNCHANGED refused

Decide(i) ==
  /\ Advance(i, "running", "decided")
  /\ refused' \in {refused, refused \cup {i}}

Apply(i) == Advance(i, "decided", "applied") /\ UNCHANGED refused

(* The response goes on, in order and all of one page.  The blocking page  *)
(* needs a refusal; the original page is not begun after one.              *)
Send ==
  /\ Len(sent') > Len(sent) /\ SubSeq(sent', 1, Len(sent)) = sent
  /\ \E p \in Pages :
       /\ \A n \in DOMAIN sent' : sent'[n] = <<p, n - 1>>
       /\ p = "block" => refused # {}
       /\ p = "orig" => \A i \in refused : state[i] # "applied"

(* An inspection may move, and with it or without it pieces may go out and *)
(* the request body be let through, unless the inspection of it is pending *)
Step ==
  /\ ~over
  /\ \/ \E i \in Inspections : Begin(i) \/ Decide(i) \/ Apply(i)
     \/ UNCHANGED <<state, refused>>
  /\ \/ UNCHANGED sent
     \/ Send /\ ~(Pending(state, "final") /\ Pending(state', "final"))
  /\ \/ UNCHANGED passed
     \/ passed' > passed /\ ~(Pending(state, "reqbody") /\ Pending(state', "reqbody"))
  /\ over' \in BOOLEAN

Spec == Init /\ [][Step]_vars
=============================================================================
