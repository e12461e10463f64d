-------------------------- MODULE WafRequestProofs --------------------------
EXTENDS WafContextProofs

(***************************************************************************)
(* The request that the WAF inspects, of WafContext: its handlers are      *)
(* restored and its body passes whole.  The invariant RInv relates the     *)
(* request to the stage of the context and to the tasks in flight; the     *)
(* proof that a step keeps it has one lemma per action.                    *)
(***************************************************************************)

(* Facts about sequences, for the bodies that the filters hold back and    *)
(* pass on: what a prefix ...                                              *)
LEMMA PrefixFacts ==
  ASSUME NEW S, NEW s \in Seq(S), NEW n \in 0 .. Len(s)
  PROVE  /\ SubSeq(s, 1, n) \in Seq(S) /\ Len(SubSeq(s, 1, n)) = n
         /\ \A i \in 1 .. n : SubSeq(s, 1, n)[i] = s[i]
<1>1. \A i \in 1 .. n : s[i] \in S
  OBVIOUS
<1>2. SubSeq(s, 1, n) \in Seq(S)
  BY <1>1
<1>3. Len(SubSeq(s, 1, n)) = n
  OBVIOUS
<1>4. \A i \in 1 .. n : SubSeq(s, 1, n)[i] = s[i]
  OBVIOUS
<1> QED BY Zenon, <1>2, <1>3, <1>4

(* ... and a concatenation consist of, ...                                 *)
LEMMA ConcatFacts ==
  ASSUME NEW S, NEW a \in Seq(S), NEW b \in Seq(S)
  PROVE  a \o b \in Seq(S) /\ Len(a \o b) = Len(a) + Len(b)
  OBVIOUS

(* ... at the positions of the first one ...                                *)
LEMMA ConcatLeft ==
  ASSUME NEW S, NEW a \in Seq(S), NEW b \in Seq(S), NEW i \in 1 .. Len(a)
  PROVE  (a \o b)[i] = a[i]
  OBVIOUS

(* ... and of the second one, ...                                           *)
LEMMA ConcatRight ==
  ASSUME NEW S, NEW a \in Seq(S), NEW b \in Seq(S), NEW i \in 1 .. Len(b)
  PROVE  (a \o b)[Len(a) + i] = b[i]
  OBVIOUS

(* ... and when two are equal.                                             *)
LEMMA SameElements ==
  ASSUME NEW S, NEW a \in Seq(S), NEW b \in Seq(S), Len(a) = Len(b),
         \A i \in 1 .. Len(a) : a[i] = b[i]
  PROVE  a = b
  OBVIOUS

(* The positions in a sequence of three parts *)
LEMMA Positions ==
  ASSUME NEW x \in Nat, NEW y \in Nat, NEW n \in Nat
  PROVE  /\ x + (y + n) = (x + y) + n
         /\ \A i \in 1 .. (x + y) + n :
              \/ i \in 1 .. x
              \/ /\ i - x \in 1 .. y /\ i - x \in 1 .. y + n
                 /\ x + (i - x) = i
              \/ /\ i - (x + y) \in 1 .. n /\ i - x \in 1 .. y + n
                 /\ x + (i - x) = i /\ y + (i - (x + y)) = i - x
                 /\ (x + y) + (i - (x + y)) = i
  OBVIOUS

(* The first m elements of s are those of a, then those of b. *)
Split(S, s, a, b, m) ==
  /\ s \in Seq(S) /\ a \in Seq(S) /\ b \in Seq(S)
  /\ m \in 0 .. Len(s) /\ a \o b = SubSeq(s, 1, m)

(* More elements follow those of b. *)
LEMMA MorePieces ==
  ASSUME NEW S, NEW s, NEW a, NEW b, NEW m, NEW n, Split(S, s, a, b, m),
         n \in 0 .. Len(s) - m
  PROVE  /\ SubSeq(s, m + 1, m + n) \in Seq(S)
         /\ Split(S, s, a, b \o SubSeq(s, m + 1, m + n), m + n)
<1>0. /\ s \in Seq(S) /\ a \in Seq(S) /\ b \in Seq(S)
      /\ m \in 0 .. Len(s) /\ a \o b = SubSeq(s, 1, m)
  BY Zenon DEF Split
<1> USE <1>0
<1> DEFINE in == SubSeq(s, m + 1, m + n)
           u  == b \o in
           v  == a \o u
           w  == SubSeq(s, 1, m + n)
<1>1. in \in Seq(S) /\ Len(in) = n /\ \A i \in 1 .. n : in[i] = s[m + i]
  BY Zenon, PartFacts
<1>2. /\ Len(a \o b) = Len(a) + Len(b)
      /\ \A i \in 1 .. Len(a) : (a \o b)[i] = a[i]
      /\ \A i \in 1 .. Len(b) : (a \o b)[Len(a) + i] = b[i]
  <2>1. \A i \in 1 .. Len(b) : (a \o b)[Len(a) + i] = b[i]
    BY ConcatRight
  <2> QED BY Zenon, <2>1, ConcatFacts, ConcatLeft
<1>3. Len(a \o b) = m /\ \A i \in 1 .. m : (a \o b)[i] = s[i]
  BY Zenon, PrefixFacts
<1>4. /\ w \in Seq(S) /\ Len(w) = m + n /\ \A i \in 1 .. m + n : w[i] = s[i]
  <2>1. m + n \in 0 .. Len(s)
    OBVIOUS
  <2> QED BY Zenon, <2>1, PrefixFacts
<1> HIDE DEF in
<1>5. /\ u \in Seq(S) /\ Len(u) = Len(b) + Len(in)
      /\ \A i \in 1 .. Len(b) : u[i] = b[i]
      /\ \A i \in 1 .. Len(in) : u[Len(b) + i] = in[i]
  <2>1. in \in Seq(S)
    BY Zenon, <1>1
  <2>2. \A i \in 1 .. Len(in) : u[Len(b) + i] = in[i]
    BY <2>1, ConcatRight
  <2> QED BY Zenon, <2>1, <2>2, ConcatFacts, ConcatLeft
<1> HIDE DEF u, w
<1>6. /\ v \in Seq(S) /\ Len(v) = Len(a) + Len(u)
      /\ \A i \in 1 .. Len(a) : v[i] = a[i]
      /\ \A i \in 1 .. Len(u) : v[Len(a) + i] = u[i]
  <2>1. u \in Seq(S)
    BY Zenon, <1>5
  <2>2. \A i \in 1 .. Len(u) : v[Len(a) + i] = u[i]
    BY <2>1, ConcatRight
  <2> QED BY Zenon, <2>1, <2>2, ConcatFacts, ConcatLeft
<1> HIDE DEF v
<1>7. Len(a) \in Nat /\ Len(b) \in Nat /\ n \in Nat
  OBVIOUS
<1>8. Len(a) + (Len(b) + n) = (Len(a) + Len(b)) + n
  BY Zenon, <1>7, Positions
<1>9. Len(v) = Len(w)
  BY Zenon, <1>1, <1>2, <1>3, <1>4, <1>5, <1>6, <1>8
<1>10. ASSUME NEW i \in 1 .. Len(v) PROVE v[i] = w[i]
  <2>0. i \in 1 .. (Len(a) + Len(b)) + n /\ w[i] = s[i]
    BY Zenon, <1>2, <1>3, <1>4, <1>9
  <2>1. CASE i \in 1 .. Len(a)
    <3>1. i \in 1 .. m
      BY <1>2, <1>3, <1>7, <2>1
    <3> QED BY Zenon, <1>2, <1>3, <1>6, <2>0, <2>1, <3>1
  <2>2. CASE /\ i - Len(a) \in 1 .. Len(b)
             /\ i - Len(a) \in 1 .. Len(b) + n
             /\ Len(a) + (i - Len(a)) = i
    <3>1. i \in 1 .. m
      BY <1>2, <1>3, <1>7, <2>2
    <3>2. v[i] = u[i - Len(a)] /\ u[i - Len(a)] = b[i - Len(a)]
      BY Zenon, <1>1, <1>5, <1>6, <2>2
    <3>3. b[i - Len(a)] = (a \o b)[i]
      BY Zenon, <1>2, <2>2
    <3> QED BY Zenon, <1>3, <2>0, <3>1, <3>2, <3>3
  <2>3. CASE /\ i - m \in 1 .. n /\ i - Len(a) \in 1 .. Len(b) + n
             /\ Len(a) + (i - Len(a)) = i /\ Len(b) + (i - m) = i - Len(a)
             /\ m + (i - m) = i
    <3>1. v[i] = u[i - Len(a)] /\ u[i - Len(a)] = in[i - m]
          /\ in[i - m] = s[i]
      BY Zenon, <1>1, <1>5, <1>6, <2>3
    <3> QED BY Zenon, <2>0, <3>1
  <2>4. \/ i \in 1 .. Len(a)
        \/ /\ i - Len(a) \in 1 .. Len(b)
           /\ i - Len(a) \in 1 .. Len(b) + n
           /\ Len(a) + (i - Len(a)) = i
        \/ /\ i - (Len(a) + Len(b)) \in 1 .. n
           /\ i - Len(a) \in 1 .. Len(b) + n
           /\ Len(a) + (i - Len(a)) = i
           /\ Len(b) + (i - (Len(a) + Len(b))) = i - Len(a)
           /\ (Len(a) + Len(b)) + (i - (Len(a) + Len(b))) = i
    BY <1>7, <2>0, Positions
  <2> QED BY Zenon, <1>2, <1>3, <2>1, <2>2, <2>3, <2>4
<1>11. v = w
  BY Zenon, <1>4, <1>6, <1>9, <1>10, SameElements
<1>12. m + n \in 0 .. Len(s)
  OBVIOUS
<1> QED BY Zenon, <1>1, <1>5, <1>11, <1>12 DEF Split, in, u, v, w

(* What was passed on is how the body begins. *)
LEMMA PassedBegins ==
  ASSUME NEW S, NEW s, NEW a, NEW b, NEW m, Split(S, s, a, b, m)
  PROVE  /\ Len(a) \in 0 .. Len(s) /\ a = SubSeq(s, 1, Len(a))
         /\ Len(a) = Len(s) => a = s
<1>0. /\ s \in Seq(S) /\ a \in Seq(S) /\ b \in Seq(S)
      /\ m \in 0 .. Len(s) /\ a \o b = SubSeq(s, 1, m)
  BY Zenon DEF Split
<1> USE <1>0
<1>1. /\ Len(a \o b) = Len(a) + Len(b)
      /\ \A i \in 1 .. Len(a) : (a \o b)[i] = a[i]
  BY Zenon, ConcatFacts, ConcatLeft
<1>2. Len(a \o b) = m /\ \A i \in 1 .. m : (a \o b)[i] = s[i]
  BY Zenon, PrefixFacts
<1>3. Len(a) \in 0 .. Len(s) /\ \A i \in 1 .. Len(a) : i \in 1 .. m
  <2>1. Len(a) \in Nat /\ Len(b) \in Nat /\ Len(s) \in Nat
    OBVIOUS
  <2> QED BY <1>1, <1>2, <2>1
<1>4. \A i \in 1 .. Len(a) : a[i] = s[i]
  BY Zenon, <1>1, <1>2, <1>3
<1>5. a = SubSeq(s, 1, Len(a))
  <2> DEFINE p == SubSeq(s, 1, Len(a))
  <2>1. /\ p \in Seq(S) /\ Len(p) = Len(a)
        /\ \A i \in 1 .. Len(a) : p[i] = s[i]
    BY Zenon, <1>3, PrefixFacts
  <2> HIDE DEF p
  <2>2. a = p
    BY Zenon, <1>4, <2>1, SameElements
  <2> QED BY Zenon, <2>2 DEF p
<1>6. Len(a) = Len(s) => a = s
  BY Zenon, <1>4, SameElements
<1> QED BY Zenon, <1>3, <1>5, <1>6

-----------------------------------------------------------------------------
(* nginx's operations keep a request fit. *)

(* Changes of the other fields keep a request fit, and so do an error, the *)
(* end, and output that is pending after the header was sent.              *)
FreeFields ==
  {"count", "blocked", "terminated", "posted", "closed", "wev", "headerOnly"}

Milder(r, q) ==
  /\ Only(r, q, FreeFields \cup {"live", "error", "buffered"})
  /\ q.live => r.live
  /\ r.error => q.error
  /\ q.buffered => r.buffered \/ r.headerSent

(* Fit survives a change that does not reach what it relates                *)
LEMMA MilderFit ==
  ASSUME NEW r, NEW q, NEW e, Fit(r, e), Milder(r, q) PROVE Fit(q, e)
<1>1. /\ q.phase = r.phase /\ q.page = r.page /\ q.readH = r.readH
      /\ q.writeH = r.writeH /\ q.connH = r.connH /\ Shape(q)
      /\ q.headerSent = r.headerSent
  BY Zenon DEF Milder, Only, Fields, FreeFields
<1>2. CASE r.live
  <2>1. Placed(q, e)
    BY Zenon, <1>1, <1>2 DEF Fit, Milder, Placed
  <2>2. Flying(q, e)
    BY Zenon, <1>1, <1>2 DEF Fit, Milder, Flying, Aside
  <2>3. Handled(q, e)
    BY Zenon, <1>1, <1>2 DEF Fit, Milder, Handled
  <2>4. Saved(q, e)
    BY Zenon, <1>1, <1>2 DEF Fit, Milder, Saved
  <2> QED BY Zenon, <1>1, <2>1, <2>2, <2>3, <2>4 DEF Fit, Placed, Ended
<1> QED BY Zenon, <1>1, <1>2 DEF Fit, Milder, Placed, Ended

(* ngx_http_close_request *)
LEMMA CloseEffect ==
  ASSUME NEW r, Shape(r)
  PROVE  LET q == CloseRequest(r)
         IN  /\ Only(r, q, {"count", "live"})
             /\ q.count = r.count - 1
             /\ q.live = IF r.count - 1 > 0 \/ r.blocked > 0 THEN r.live
                         ELSE FALSE
<1>1. r.count - 1 \in Int
  BY DEF Shape
<1> QED BY Zenon, <1>1 DEF CloseRequest, Only, Shape, Fields

(* ngx_http_close_request changes the count and the life of a request only  *)
LEMMA CloseFit ==
  ASSUME NEW r, NEW e, Fit(r, e) PROVE Fit(CloseRequest(r), e)
<1> DEFINE q == CloseRequest(r)
<1>1. Shape(r)
  BY Zenon DEF Fit
<1>2. Milder(r, q)
  BY Zenon, <1>1, CloseEffect DEF Milder, Only, Fields, FreeFields
<1> QED BY Zenon, <1>2, MilderFit

(* ngx_http_terminate_request *)
LEMMA TerminateEffect ==
  ASSUME NEW r, Shape(r)
  PROVE  LET q == TerminateRequest(r)
         IN  /\ Only(r, q, {"phase", "terminated", "error", "writeH", "posted"})
             /\ q.phase = IF r.phase = "body" THEN "body" ELSE "finalized"
             /\ \/ /\ r.blocked > 0
                   /\ q.error = TRUE /\ q.writeH = "finalizer"
                   /\ q.posted = r.posted
                \/ /\ ~(r.blocked > 0)
                   /\ q.error = r.error /\ q.writeH = "terminate"
                   /\ q.posted = TRUE
  BY Zenon DEF TerminateRequest, Only, Shape, Fields

(* ngx_http_terminate_request sets the handlers of a request that ends      *)
LEMMA TerminateFit ==
  ASSUME NEW r, NEW e, Fit(r, e), e.stage \in Stages
  PROVE  Fit(TerminateRequest(r), e)
<1> DEFINE q == TerminateRequest(r)
<1>1. Shape(r)
  BY Zenon DEF Fit
<1>2. /\ Shape(q) /\ q.live = r.live /\ q.page = r.page /\ q.readH = r.readH
      /\ q.connH = r.connH /\ q.headerSent = r.headerSent
      /\ q.buffered = r.buffered
  <2>1. Only(r, q, {"phase", "terminated", "error", "writeH", "posted"})
    BY Zenon, <1>1, TerminateEffect
  <2> QED BY Zenon, <2>1 DEF Only, Fields
<1>4. /\ q.phase = IF r.phase = "body" THEN "body" ELSE "finalized"
      /\ q.writeH = "terminate" \/ (q.writeH = "finalizer" /\ q.error)
  BY Zenon, <1>1, TerminateEffect
<1>5. r.error => q.error
  BY Zenon, <1>1, TerminateEffect
<1> HIDE DEF q
<1>3. CASE r.live
  <2>1. Placed(q, e)
    BY <1>2, <1>3, <1>4 DEF Fit, Placed, StagesOf, EarlyPhases, BodyPhases
  <2>2. Flying(q, e)
    BY <1>2, <1>3, <1>4 DEF Fit, Flying, Aside, LatePhases
  <2>3. Handled(q, e)
    BY <1>2, <1>3, <1>4 DEF Fit, Handled, Flying, Aside
  <2>4. Saved(q, e)
    BY Zenon, <1>2, <1>3, <1>5 DEF Fit, Saved
  <2> QED BY Zenon, <1>2, <2>1, <2>2, <2>3, <2>4 DEF Fit, q, Placed, Ended
<1>6. CASE ~r.live
  <2>1. Ended(q, e)
    BY <1>4 DEF Ended
  <2> QED BY Zenon, <1>2, <1>6, <2>1 DEF Fit, q
<1> QED BY Zenon, <1>3, <1>6

(* The terminate handler, run as a posted request *)
LEMMA RunPostedFit ==
  ASSUME NEW r, NEW e, Fit(r, e) PROVE Fit(RunPostedRequests(r), e)
<1> DEFINE p == [r EXCEPT !.posted = FALSE, !.count = 1]
<1>1. Shape(r)
  BY Zenon DEF Fit
<1>2. 1 \in Int
  OBVIOUS
<1>3. Only(r, p, {"posted", "count"})
  BY Zenon, <1>1, <1>2 DEF Only, Shape, Fields
<1>4. Milder(r, p)
  BY Zenon, <1>3 DEF Milder, Only, Fields, FreeFields
<1>5. Fit(p, e)
  BY Zenon, <1>4, MilderFit
<1> QED BY Zenon, <1>5, CloseFit DEF RunPostedRequests

(* nginx's error page is begun, unless a header was sent. *)
LEMMA SpecialFit ==
  ASSUME NEW r, NEW e, Fit(r, e), e.stage \in Stages
  PROVE  LET h == [r EXCEPT !.connH = "request_handler"]
         IN  /\ Fit(h, e)
             /\ ~r.headerSent =>
                  Fit([h EXCEPT !.phase = "special", !.page = "special"], e)
<1> DEFINE h == [r EXCEPT !.connH = "request_handler"]
           s == [h EXCEPT !.phase = "special", !.page = "special"]
<1>1. Shape(r)
  BY Zenon DEF Fit
<1>2. /\ Only(r, h, {"connH"}) /\ h.connH = "request_handler"
      /\ Only(r, s, {"connH", "phase", "page"})
      /\ s.connH = "request_handler" /\ s.phase = "special"
      /\ s.page = "special"
  BY Zenon, <1>1 DEF Only, Shape, Fields
<1> HIDE DEF h, s
<1>3. /\ Shape(h) /\ h.live = r.live /\ h.phase = r.phase /\ h.page = r.page
      /\ h.readH = r.readH /\ h.writeH = r.writeH /\ h.error = r.error
      /\ h.headerSent = r.headerSent /\ h.buffered = r.buffered
  BY Zenon, <1>2 DEF Only, Fields
<1>4. /\ Shape(s) /\ s.live = r.live /\ s.readH = r.readH
      /\ s.writeH = r.writeH /\ s.error = r.error
      /\ s.headerSent = r.headerSent /\ s.buffered = r.buffered
  BY Zenon, <1>2 DEF Only, Fields
<1>5. Fit(h, e)
  <2>1. CASE r.live
    <3>1. Placed(h, e)
      BY Zenon, <1>2, <1>3, <2>1 DEF Fit, Placed
    <3>2. Flying(h, e)
      BY Zenon, <1>2, <1>3, <2>1 DEF Fit, Flying, Aside, LatePhases
    <3>3. Handled(h, e)
      BY Zenon, <1>2, <1>3, <2>1 DEF Fit, Handled
    <3>4. Saved(h, e)
      BY Zenon, <1>3, <2>1 DEF Fit, Saved
    <3> QED BY Zenon, <1>3, <3>1, <3>2, <3>3, <3>4 DEF Fit, Placed, Ended
  <2> QED BY Zenon, <1>3, <2>1 DEF Fit, Placed, Ended
<1>6. ASSUME ~r.headerSent PROVE Fit(s, e)
  <2>1. CASE r.live
    <3>1. Placed(s, e)
      BY <1>2, <1>4, <1>6, <2>1
         DEF Fit, Placed, StagesOf, EarlyPhases, BodyPhases
    <3>2. Flying(s, e)
      BY Zenon, <1>2, <1>4, <1>6, <2>1 DEF Fit, Flying, Aside, LatePhases
    <3>3. Handled(s, e)
      BY Zenon, <1>2, <1>4, <1>6, <2>1 DEF Fit, Handled
    <3>4. Saved(s, e)
      BY Zenon, <1>4, <2>1 DEF Fit, Saved
    <3> QED BY Zenon, <1>4, <3>1, <3>2, <3>3, <3>4 DEF Fit, Placed, Ended
  <2>2. CASE ~r.live
    <3>1. Ended(s, e)
      BY <1>2 DEF Ended
    <3> QED BY Zenon, <1>4, <2>2, <3>1 DEF Fit
  <2> QED BY Zenon, <2>1, <2>2
<1> QED BY Zenon, <1>5, <1>6 DEF h, s

(* The content handler is finished. *)
LEMMA FinishedFit ==
  ASSUME NEW r, NEW e, Fit(r, e), e.stage \in Stages,
         NEW q, Shape(q), q.phase = "finalized", q.live => r.live,
         q.readH \in {"block_reading", "test_reading"},
         \/ q.writeH = "empty"
         \/ q.writeH = "writer" /\ r.buffered,
         \A f \in {"page", "error", "headerSent", "buffered", "connH"} :
           q[f] = r[f]
  PROVE  Fit(q, e)
<1>1. /\ q.page = r.page /\ q.error = r.error /\ q.connH = r.connH
      /\ q.headerSent = r.headerSent /\ q.buffered = r.buffered
  BY Zenon
<1>2. ASSUME q.live PROVE Placed(q, e)
  BY <1>1, <1>2 DEF Fit, Placed, StagesOf, EarlyPhases, BodyPhases
<1>3. ASSUME q.live PROVE Flying(q, e)
  BY <1>1, <1>3 DEF Fit, Flying, Aside, LatePhases
<1>4. ASSUME q.live PROVE Handled(q, e)
  BY <1>1, <1>4 DEF Fit, Placed, Handled
<1>5. ASSUME q.live PROVE Saved(q, e)
  BY Zenon, <1>1, <1>5 DEF Fit, Saved
<1> QED BY Zenon, <1>2, <1>3, <1>4, <1>5 DEF Fit, Placed, Ended

(* ngx_http_finalize_request *)
LEMMA FinalizeFit ==
  ASSUME NEW r, NEW e, NEW rc, Fit(r, e), e.stage \in Stages
  PROVE  Fit(FinalizeRequest(r, rc), e)
<1> DEFINE h == [r EXCEPT !.connH = "request_handler"]
           s == [h EXCEPT !.phase = "special", !.page = "special"]
           w == [r EXCEPT !.phase = "finalized", !.readH = "test_reading",
                          !.writeH = "writer"]
           c == [r EXCEPT !.phase = "finalized", !.closed = TRUE,
                          !.readH = "block_reading", !.writeH = "empty"]
<1>0. Shape(r)
  BY Zenon DEF Fit
<1>1. Fit(h, e) /\ (~r.headerSent => Fit(s, e))
  BY Zenon, SpecialFit
<1>2. ASSUME r.buffered PROVE Fit(w, e)
  <2>1. /\ Shape(w) /\ w.phase = "finalized" /\ w.live = r.live
        /\ w.readH = "test_reading" /\ w.writeH = "writer"
        /\ \A f \in {"page", "error", "headerSent", "buffered", "connH"} :
             w[f] = r[f]
    BY Zenon, <1>0 DEF Shape, Fields
  <2> QED BY Zenon, <1>2, <2>1, FinishedFit
<1>3. Fit(c, e)
  <2>1. /\ Shape(c) /\ c.phase = "finalized" /\ c.live = r.live
        /\ c.readH = "block_reading" /\ c.writeH = "empty"
        /\ \A f \in {"page", "error", "headerSent", "buffered", "connH"} :
             c[f] = r[f]
    BY Zenon, <1>0 DEF Shape, Fields
  <2> QED BY Zenon, <2>1, FinishedFit
<1>4. Fit(CloseRequest(r), e) /\ Fit(TerminateRequest(r), e)
  BY Zenon, CloseFit, TerminateFit
<1>5. Fit(TerminateRequest(h), e)
  BY Zenon, <1>1, TerminateFit
<1>6. Fit(CloseRequest(c), e)
  BY Zenon, <1>3, CloseFit
<1> QED BY Zenon, <1>1, <1>2, <1>4, <1>5, <1>6 DEF FinalizeRequest

(* What follows an event or a filter call *)
LEMMA ReturnFit ==
  ASSUME NEW r, NEW e, Fit(r, e) PROVE Fit(Return(r), e) /\ Fit(EventEnds(r), e)
  BY Zenon, RunPostedFit DEF Return, EventEnds

-----------------------------------------------------------------------------
(* The response filters. *)

(* Two states of the rest with the same tasks in them *)
SameTasks(e, f) ==
  /\ f.start = e.start /\ f.reqbody = e.reqbody /\ f.final = e.final
  /\ f.startR = e.startR /\ f.startW = e.startW /\ f.bodyW = e.bodyW
  /\ f.conn = e.conn /\ f.blocks = e.blocks

(* The stages that no task in flight and no handler depends on *)
LooseStages ==
  Stages \ {"AFTER_BEGIN_WAF_BLOCK", "SUSPENDED_ON_REQ_WAF",
            "PENDING_WAF_END", "AFTER_RUN_WAF_END"}

(* The stage moves on, after the request's body was read or given up.      *)
LEMMA LateFit ==
  ASSUME NEW r, NEW e, NEW f, Fit(r, e), r.live => r.phase \in LatePhases,
         SameTasks(e, f), f.prev = e.prev, e.passed => f.passed,
         e.stage \in Stages, f.stage \in Stages,
         \/ f.stage = e.stage
         \/ e.stage \in LooseStages /\ f.stage # "AFTER_BEGIN_WAF_BLOCK"
  PROVE  Fit(r, f)
<1>1. ASSUME r.live PROVE Placed(r, f)
  BY <1>1 DEF Fit, Placed, StagesOf, EarlyPhases, BodyPhases, LatePhases
<1>2. ASSUME r.live PROVE Flying(r, f)
  BY <1>2 DEF Fit, Flying, Aside, LatePhases, SameTasks, LooseStages
<1>3. ASSUME r.live PROVE Handled(r, f)
  BY <1>3 DEF Fit, Handled, LatePhases, SameTasks, LooseStages
<1>4. ASSUME r.live PROVE Saved(r, f)
  BY <1>4 DEF Fit, Saved, SameTasks
<1> QED BY Zenon, <1>1, <1>2, <1>3, <1>4 DEF Fit, Placed, Ended

(* A submission that failed leaves the request as it was.                  *)
LEMMA NotSubmittedSame ==
  ASSUME NEW r, NEW k, Shape(r)
  PROVE  Only(r, NotSubmitted(r, k), {})
<1> DEFINE t == NewTask(r, 0)
           p == Submitted(r, k)
           u == [p EXCEPT !.count = @ - 1, !.blocked = @ - 1]
           q == RestoreHandlers(u, k, t)
<1>1. t.prevRead = r.readH /\ t.prevWrite = r.writeH /\ t.prevConn = r.connH
  BY Zenon DEF NewTask, NoTask
<1>2. /\ r.count + 1 \in Int /\ r.blocked + 1 \in Int
      /\ (r.count + 1) - 1 = r.count /\ (r.blocked + 1) - 1 = r.blocked
  BY DEF Shape
<1> HIDE DEF t
<1>3. CASE k = "final"
  <2>1. /\ Only(r, u, {"connH"})
    BY Zenon, <1>2, <1>3 DEF Only, Shape, Fields, Submitted, ReplaceHandlers
  <2> HIDE DEF u
  <2>2. Only(u, q, {"connH"}) /\ q.connH = r.connH
    BY Zenon, <1>1, <1>3, <2>1 DEF Only, Shape, Fields, RestoreHandlers
  <2> HIDE DEF q
  <2>3. Only(r, q, {})
    BY Zenon, <2>1, <2>2 DEF Only, Shape, Fields
  <2> QED BY Zenon, <2>3 DEF NotSubmitted, q, u, t
<1>4. CASE k # "final"
  <2>1. /\ Only(r, u, {"readH", "writeH"})
        /\ u.readH = "block_reading" /\ u.writeH = "task_empty"
    BY Zenon, <1>2, <1>4 DEF Only, Shape, Fields, Submitted, ReplaceHandlers
  <2> HIDE DEF u
  <2>2. /\ Only(u, q, {"readH", "writeH"}) /\ q.readH = r.readH
        /\ q.writeH = r.writeH
    BY Zenon, <1>1, <1>4, <2>1 DEF Only, Shape, Fields, RestoreHandlers
  <2> HIDE DEF q
  <2>3. Only(r, q, {})
    BY Zenon, <2>1, <2>2 DEF Only, Shape, Fields
  <2> QED BY Zenon, <2>3 DEF NotSubmitted, q, u, t
<1> QED BY Zenon, <1>3, <1>4

(* The final task is submitted once the header is on its way.              *)
LEMMA FinalSubmitFit ==
  ASSUME NEW r, NEW e, NEW f, Fit(r, e), r.live, r.headerSent,
         r.phase \in LatePhases,
         e.stage \in LooseStages, f.stage = "PENDING_WAF_END",
         f.start = e.start, f.reqbody = e.reqbody, f.final,
         f.startR = e.startR, f.startW = e.startW, f.bodyW = e.bodyW,
         f.conn = r.connH, f.blocks = e.blocks, f.prev = e.prev,
         e.passed => f.passed
  PROVE  Fit(Submitted(r, "final"), f)
<1> DEFINE q == Submitted(r, "final")
<1>1. Shape(r) /\ r.count + 1 \in Int /\ r.blocked + 1 \in Int
  BY DEF Fit, Shape
<1>2. Only(r, q, {"count", "blocked", "connH"}) /\ q.connH = "empty"
  BY Zenon, <1>1 DEF Only, Shape, Fields, Submitted, ReplaceHandlers
<1> HIDE DEF q
<1>3. /\ q.phase = r.phase /\ q.page = r.page /\ q.readH = r.readH
      /\ q.writeH = r.writeH /\ q.headerSent = r.headerSent
      /\ q.buffered = r.buffered /\ q.error = r.error /\ Shape(q)
  BY Zenon, <1>2 DEF Only, Fields
<1>4. Placed(q, f)
  BY <1>3 DEF Fit, Placed, StagesOf, EarlyPhases, BodyPhases, LatePhases, Stages
<1>5. Flying(q, f)
  BY <1>3 DEF Fit, Flying, Aside, LatePhases, LooseStages
<1>6. Handled(q, f)
  BY <1>2, <1>3 DEF Fit, Handled, LatePhases, LooseStages
<1>7. Saved(q, f)
  BY <1>3 DEF Fit, Saved, Handled, Flying, LooseStages
<1> QED BY Zenon, <1>3, <1>4, <1>5, <1>6, <1>7 DEF Fit, q, Placed, Ended

(* prepare_drain_buffered_header *)
LEMMA DrainFit ==
  ASSUME NEW r, NEW e, NEW f, NEW header, Fit(r, e), r.live, r.headerSent,
         r.phase \in LatePhases, r.writeH # "drain",
         f.stage = "AFTER_RUN_WAF_END",
         f.start = e.start, f.reqbody = e.reqbody, ~f.final,
         f.startR = e.startR, f.startW = e.startW, f.bodyW = e.bodyW,
         f.blocks = e.blocks, ~e.reqbody,
         r.connH # "empty", f.start => ~f.blocks,
         f.prev = SavedWriteHandler(r, header), e.passed => f.passed
  PROVE  Fit(Unblocked(r, header), f)
<1> DEFINE q == Unblocked(r, header)
<1>1. Shape(r)
  BY Zenon DEF Fit
<1>2. /\ Only(r, q, {"wev", "writeH"})
      /\ \/ q.writeH = r.writeH
         \/ q.writeH = "drain" /\ f.prev = r.writeH
  BY Zenon, <1>1 DEF Only, Shape, Fields, Unblocked, PrepareDrain,
                     SavedWriteHandler
<1> HIDE DEF q
<1>3. /\ q.phase = r.phase /\ q.page = r.page /\ q.readH = r.readH
      /\ q.connH = r.connH /\ q.headerSent = r.headerSent
      /\ q.buffered = r.buffered /\ q.error = r.error /\ Shape(q)
  BY Zenon, <1>2 DEF Only, Fields
<1>4. Placed(q, f)
  BY <1>3 DEF Fit, Placed, StagesOf, EarlyPhases, BodyPhases, LatePhases, Stages
<1>5. Flying(q, f)
  BY <1>3 DEF Fit, Flying, Aside, LatePhases
<1>6. Handled(q, f)
  BY <1>2, <1>3 DEF Fit, Placed, Handled, LatePhases
<1>7. Saved(q, f)
  BY <1>3 DEF Fit, Saved
<1> QED BY Zenon, <1>3, <1>4, <1>5, <1>6, <1>7 DEF Fit, q, Placed, Ended

(* The final task could not be submitted.                                  *)
LEMMA FinalFailFit ==
  ASSUME NEW r, NEW e, NEW f, NEW header, Fit(r, e), r.live, r.headerSent,
         r.phase \in LatePhases,
         e.stage \in LooseStages, f.stage = "AFTER_RUN_WAF_END",
         SameTasks(e, f), f.prev = SavedWriteHandler(r, header),
         e.passed => f.passed
  PROVE  Fit(Unblocked(NotSubmitted(r, "final"), header), f)
<1> DEFINE n == NotSubmitted(r, "final")
<1>1. Only(r, n, {})
  BY Zenon, NotSubmittedSame DEF Fit
<1> HIDE DEF n
<1>2. /\ n.live = r.live /\ n.headerSent = r.headerSent /\ n.phase = r.phase
      /\ n.writeH = r.writeH /\ n.connH = r.connH
  BY Zenon, <1>1 DEF Only, Fields
<1>3. Milder(r, n)
  BY Zenon, <1>1 DEF Milder, Only, Fields, FreeFields
<1>4. Fit(n, e)
  BY Zenon, <1>3, MilderFit
<1>5. f.prev = SavedWriteHandler(n, header)
  BY Zenon, <1>2 DEF SavedWriteHandler
<1>6. /\ ~e.reqbody /\ ~e.final /\ n.writeH # "drain" /\ n.connH # "empty"
      /\ e.start => ~e.blocks
  BY <1>2 DEF Fit, Flying, Handled, LooseStages
<1>7. ~f.final
  BY <1>6 DEF SameTasks
<1>8. Fit(Unblocked(n, header), f)
  BY Zenon, <1>2, <1>4, <1>5, <1>6, <1>7, DrainFit DEF SameTasks
<1> QED BY Zenon, <1>8 DEF n

(* The header is sent.                                                     *)
LEMMA HeaderSentFit ==
  ASSUME NEW r, NEW e, Fit(r, e),
         \/ r.phase \notin EarlyPhases \cup BodyPhases
         \/ e.stage \in {"AFTER_BEGIN_WAF_BLOCK", "AFTER_ON_REQ_WAF_BLOCK"},
         NEW q, Only(r, q, FreeFields \cup {"headerSent", "buffered"}),
         q.headerSent
  PROVE  Fit(q, e)
<1>1. /\ q.phase = r.phase /\ q.page = r.page /\ q.readH = r.readH
      /\ q.writeH = r.writeH /\ q.connH = r.connH /\ Shape(q)
      /\ q.live = r.live /\ q.error = r.error
  BY Zenon DEF Only, Fields, FreeFields
<1>2. CASE r.live
  <2>1. Placed(q, e)
    BY Zenon, <1>1, <1>2 DEF Fit, Placed
  <2>2. Flying(q, e)
    BY Zenon, <1>1, <1>2 DEF Fit, Flying, Aside
  <2>3. Handled(q, e)
    BY Zenon, <1>1, <1>2 DEF Fit, Handled
  <2>4. Saved(q, e)
    BY Zenon, <1>1, <1>2 DEF Fit, Saved
  <2> QED BY Zenon, <1>1, <2>1, <2>2, <2>3, <2>4 DEF Fit, Placed, Ended
<1> QED BY Zenon, <1>1, <1>2 DEF Fit, Placed, Ended

(* The content handler goes on with the body, or gives up.                 *)
LEMMA AfterHeaderFit ==
  ASSUME NEW r, NEW e, NEW rc, Fit(r, e), r.live, e.stage \in Stages,
         r.phase \in {"content", "special"}, rc = "ok" => r.headerSent
  PROVE  Fit(AfterHeader(r, rc), e)
<1> DEFINE q == [r EXCEPT !.phase = "sending"]
<1>1. Fit(Return(FinalizeRequest(r, rc)), e)
  BY Zenon, FinalizeFit, ReturnFit
<1>2. ASSUME r.headerSent PROVE Fit(q, e)
  <2>1. Only(r, q, {"phase"}) /\ q.phase = "sending"
    BY Zenon DEF Fit, Only, Shape, Fields
  <2> HIDE DEF q
  <2>2. /\ q.page = r.page /\ q.readH = r.readH /\ q.live = r.live
        /\ q.writeH = r.writeH /\ q.connH = r.connH /\ Shape(q)
        /\ q.headerSent = r.headerSent /\ q.buffered = r.buffered
        /\ q.error = r.error
    BY Zenon, <2>1 DEF Only, Fields
  <2>3. ASSUME r.live PROVE Placed(q, e)
    BY <1>2, <2>1, <2>2, <2>3
       DEF Fit, Placed, StagesOf, EarlyPhases, BodyPhases
  <2>4. ASSUME r.live PROVE Flying(q, e)
    BY <1>2, <2>1, <2>2, <2>4 DEF Fit, Placed, Flying, Aside, LatePhases
  <2>5. ASSUME r.live PROVE Handled(q, e)
    BY <1>2, <2>1, <2>2, <2>5 DEF Fit, Placed, Handled
  <2>6. ASSUME r.live PROVE Saved(q, e)
    BY Zenon, <2>2, <2>6 DEF Fit, Saved
  <2> QED BY Zenon, <2>2, <2>3, <2>4, <2>5, <2>6 DEF Fit, Placed, Ended
<1> QED BY Zenon, <1>1, <1>2 DEF AfterHeader

(* The drained request gets its write handler back.                        *)
LEMMA AfterDrainFit ==
  ASSUME NEW r, NEW e, NEW rc, Fit(r, e), e.stage \in Stages,
         r.writeH = "drain", e.prev = ctx.prevWrite, ~Busy(r)
  PROVE  Fit(AfterDrain(r, rc), e)
<1> DEFINE q == [r EXCEPT !.writeH = ctx.prevWrite, !.wev = TRUE]
<1>1. Fit(RunPostedRequests(FinalizeRequest(r, "internal_error")), e)
  BY Zenon, FinalizeFit, RunPostedFit
<1>2. Fit(q, e)
  <2>1. Only(r, q, {"writeH", "wev"}) /\ q.writeH = e.prev
    BY Zenon DEF Fit, Only, Shape, Fields
  <2> HIDE DEF q
  <2>2. /\ q.page = r.page /\ q.readH = r.readH /\ q.live = r.live
        /\ q.phase = r.phase /\ q.connH = r.connH /\ Shape(q)
        /\ q.headerSent = r.headerSent /\ q.buffered = r.buffered
        /\ q.error = r.error
    BY Zenon, <2>1 DEF Only, Fields
  <2>3. ASSUME r.live PROVE Placed(q, e)
    BY Zenon, <2>2, <2>3 DEF Fit, Placed
  <2>4. ASSUME r.live PROVE Flying(q, e)
    BY Zenon, <2>2, <2>4 DEF Fit, Flying, Aside
  <2>5. ASSUME r.live PROVE Handled(q, e)
    BY <2>1, <2>2, <2>5 DEF Fit, Handled, Busy
  <2>6. ASSUME r.live PROVE Saved(q, e)
    BY Zenon, <2>2, <2>6 DEF Fit, Saved
  <2> QED BY Zenon, <2>2, <2>3, <2>4, <2>5, <2>6 DEF Fit, Placed, Ended
<1> QED BY Zenon, <1>1, <1>2 DEF AfterDrain

(* The three callers of the output filter                                  *)
LEMMA AfterFilterFit ==
  ASSUME NEW r, NEW e, NEW rc, NEW caller \in {"producer", "writer", "drain"},
         Fit(r, e), e.stage \in Stages,
         caller = "drain" =>
           r.writeH = "drain" /\ e.prev = ctx.prevWrite /\ ~Busy(r)
  PROVE  Fit(AfterFilter(caller, r, rc), e)
<1>1. Fit(AfterBody(r, rc), e)
  BY Zenon, FinalizeFit, ReturnFit DEF AfterBody
<1>2. Fit(AfterWriter(r, rc), e)
  BY Zenon, FinalizeFit, RunPostedFit DEF AfterWriter
<1>3. caller = "drain" => Fit(AfterDrain(r, rc), e)
  BY Zenon, AfterDrainFit
<1> QED BY Zenon, <1>1, <1>2, <1>3 DEF AfterFilter

-----------------------------------------------------------------------------
(* The output filter. *)

(* The output filters change the buffering and the count of a request that  *)
(* has sent its header                                                      *)
LEMMA VariantFit ==
  ASSUME NEW r, NEW q, NEW e, Fit(r, e), r.headerSent, Variant(r, q)
  PROVE  Fit(q, e)
<1>1. /\ q.phase = r.phase /\ q.page = r.page /\ q.readH = r.readH
      /\ q.writeH = r.writeH /\ q.connH = r.connH /\ Shape(q)
      /\ q.live = r.live
  BY Zenon DEF Variant, Only, Fields
<1>2. ASSUME r.live PROVE Placed(q, e)
  BY Zenon, <1>1, <1>2 DEF Fit, Variant, Placed
<1>3. ASSUME r.live PROVE Flying(q, e)
  BY Zenon, <1>1, <1>3 DEF Fit, Variant, Flying, Aside
<1>4. ASSUME r.live PROVE Handled(q, e)
  BY Zenon, <1>1, <1>4 DEF Fit, Variant, Handled
<1>5. ASSUME r.live PROVE Saved(q, e)
  BY Zenon, <1>1, <1>5 DEF Fit, Variant, Saved
<1> QED BY Zenon, <1>1, <1>2, <1>3, <1>4, <1>5 DEF Fit, Placed, Ended

-----------------------------------------------------------------------------
(* The inductive invariant, and the steps of the response filters.         *)

(* What Now is after a step                                                 *)
LEMMA NextFields ==
  /\ Now'.stage = stage' /\ Now'.start = InFlight("start")'
  /\ Now'.reqbody = InFlight("reqbody")' /\ Now'.final = InFlight("final")'
  /\ Now'.startR = task'["start"].prevRead
  /\ Now'.startW = task'["start"].prevWrite
  /\ Now'.bodyW = task'["reqbody"].prevWrite
  /\ Now'.conn = task'["final"].prevConn
  /\ Now'.blocks = (task'["start"].ran /\ task'["start"].block)
  /\ Now'.prev = ctx'.prevWrite /\ Now'.held = BodyHeld'
  /\ Now'.fresh = (reqIn' = 0 /\ reqDown' = << >> /\ rb'.out = << >>)
  /\ Now'.passed = (reqDown = ReqPieces)'
  BY Zenon DEF Now

(* The request body is left alone. *)
Elsewhere == UNCHANGED <<conf, rb, reqIn, reqDown>>

(* A step that leaves the request's body alone keeps the frame              *)
LEMMA ElsewhereFrame ==
  ASSUME Frame, Elsewhere, stage' \in Stages, DOMAIN ctx' = ContextFields,
         \A k \in Kinds : SavedFields \subseteq DOMAIN task'[k]
  PROVE  Frame' /\ Now'.fresh = Now.fresh /\ Now'.passed = Now.passed
<1>1. reqDown' = reqDown /\ rb' = rb /\ conf' = conf /\ reqIn' = reqIn
  BY Zenon DEF Elsewhere
<1>2. ReqPieces' = ReqPieces
  BY Zenon, <1>1 DEF ReqPieces
<1>3. Begins(reqDown, ReqPieces)'
  BY Zenon, <1>1, <1>2 DEF Frame, Begins
<1>4. Frame'
  BY Zenon, <1>1, <1>3 DEF Frame
<1> QED BY Zenon, <1>1, <1>2, <1>4, NowFields, NextFields

(* A step that leaves the stage, the tasks and the body alone leaves Now    *)
LEMMA SameNow ==
  ASSUME Elsewhere, stage' = stage, task' = task,
         ctx'.prevWrite = ctx.prevWrite
  PROVE  Now' = Now
  BY Zenon DEF Now, Elsewhere, BodyHeld, ReqPieces, InFlight

(* Now shows the same tasks when no task changed                            *)
LEMMA TasksSame ==
  ASSUME task' = task PROVE SameTasks(Now, Now')
  BY Zenon, NowFields, NextFields DEF SameTasks, InFlight

(* The final task is made from the request r. *)
LEMMA FinalQueued ==
  ASSUME IInv, Frame, NEW r, NEW due,
         task' = [task EXCEPT !["final"] = NewTask(r, due)]
  PROVE  /\ \A k \in Kinds : SavedFields \subseteq DOMAIN task'[k]
         /\ Now'.start = Now.start /\ Now'.reqbody = Now.reqbody /\ Now'.final
         /\ Now'.startR = Now.startR /\ Now'.startW = Now.startW
         /\ Now'.bodyW = Now.bodyW /\ Now'.conn = r.connH
         /\ Now'.blocks = Now.blocks
<1>1. /\ task'["start"] = task["start"] /\ task'["reqbody"] = task["reqbody"]
      /\ task'["final"] = NewTask(r, due)
  BY Zenon DEF IInv, Kinds
<1>2. /\ NewTask(r, due).st = "queued" /\ NewTask(r, due).prevConn = r.connH
      /\ SavedFields \subseteq DOMAIN NewTask(r, due)
  BY Zenon DEF NewTask, NoTask, SavedFields
<1>3. \A k \in Kinds : SavedFields \subseteq DOMAIN task'[k]
  BY Zenon, <1>1, <1>2 DEF Frame, Kinds
<1>4. /\ InFlight("start")' = InFlight("start")
      /\ InFlight("reqbody")' = InFlight("reqbody") /\ InFlight("final")'
  BY Zenon, <1>1, <1>2 DEF InFlight
<1>5. /\ Now'.start = Now.start /\ Now'.reqbody = Now.reqbody /\ Now'.final
  BY Zenon, <1>4, NowFields, NextFields
<1>6. /\ Now'.startR = Now.startR /\ Now'.startW = Now.startW
      /\ Now'.bodyW = Now.bodyW /\ Now'.conn = r.connH
      /\ Now'.blocks = Now.blocks
  BY Zenon, <1>1, <1>2, NowFields, NextFields
<1> QED BY Zenon, <1>3, <1>5, <1>6

(* The final task is submitted, or the post fails. *)
LEMMA SubmitFinalFit ==
  ASSUME RInv, Elsewhere, NEW r, Fit(r, Now), r.live, r.headerSent,
         r.phase \in LatePhases, stage \in LooseStages,
         NEW c, Keep(c), NEW header, NEW due, NEW caller, NEW rc,
         SubmitFinal(c, r, header, due, caller, rc)
  PROVE  /\ Frame'
         /\ \E p : /\ Fit(p, Now') /\ p.live /\ p.phase = r.phase
                   /\ p.headerSent /\ p.headerOnly = r.headerOnly
                   /\ req' = AfterFilter(caller, p, rc)
<1>0. Shape(r) /\ Now.stage = stage
  BY Zenon, NowFields DEF Fit
<1>1. CASE /\ stage' = "PENDING_WAF_END"
           /\ task' = [task EXCEPT !["final"] = NewTask(r, due)]
           /\ req' = AfterFilter(caller, Submitted(r, "final"), rc)
           /\ ctx' = c
  <2> DEFINE p == Submitted(r, "final")
  <2>1. /\ \A k \in Kinds : SavedFields \subseteq DOMAIN task'[k]
        /\ Now'.start = Now.start /\ Now'.reqbody = Now.reqbody /\ Now'.final
        /\ Now'.startR = Now.startR /\ Now'.startW = Now.startW
        /\ Now'.bodyW = Now.bodyW /\ Now'.conn = r.connH
        /\ Now'.blocks = Now.blocks
    BY Zenon, <1>1, FinalQueued DEF RInv
  <2>2. /\ stage' \in Stages /\ DOMAIN ctx' = ContextFields
        /\ Now'.prev = Now.prev /\ Now'.stage = "PENDING_WAF_END"
    BY Zenon, <1>1, NowFields, NextFields DEF Keep, Stages
  <2>3. Frame' /\ Now'.passed = Now.passed
    BY Zenon, <2>1, <2>2, ElsewhereFrame DEF RInv
  <2>4. Fit(p, Now')
    BY Zenon, <1>0, <2>1, <2>2, <2>3, FinalSubmitFit
  <2>5. /\ p.live /\ p.phase = r.phase /\ p.headerSent
        /\ p.headerOnly = r.headerOnly
    BY Zenon, <1>0 DEF Submitted, ReplaceHandlers, Shape, Fields
  <2> QED BY Zenon, <1>1, <2>3, <2>4, <2>5
<1>2. CASE /\ stage' = "AFTER_RUN_WAF_END"
           /\ req' = AfterFilter(caller,
                        Unblocked(NotSubmitted(r, "final"), header), rc)
           /\ ctx' = [c EXCEPT !.prevWrite = SavedWriteHandler(r, header)]
           /\ UNCHANGED task
  <2> DEFINE n == NotSubmitted(r, "final")
             p == Unblocked(n, header)
  <2>1. /\ stage' \in Stages /\ DOMAIN ctx' = ContextFields
        /\ Now'.prev = SavedWriteHandler(r, header)
        /\ Now'.stage = "AFTER_RUN_WAF_END"
    BY Zenon, <1>2, NextFields DEF Keep, ContextFields, Stages
  <2>2. Frame' /\ Now'.passed = Now.passed
    BY Zenon, <1>2, <2>1, ElsewhereFrame DEF RInv, Frame
  <2>3. SameTasks(Now, Now')
    BY Zenon, <1>2, TasksSame
  <2>4. Fit(p, Now')
    BY Zenon, <1>0, <2>1, <2>2, <2>3, FinalFailFit
  <2>5. Only(r, n, {})
    BY Zenon, <1>0, NotSubmittedSame
  <2> HIDE DEF n
  <2>6. Only(n, p, {"wev", "writeH"})
    BY Zenon, <2>5 DEF Unblocked, PrepareDrain, Only, Shape, Fields
  <2> HIDE DEF p
  <2>7. /\ p.live /\ p.phase = r.phase /\ p.headerSent
        /\ p.headerOnly = r.headerOnly
    BY Zenon, <2>5, <2>6 DEF Only, Fields
  <2> QED BY Zenon, <1>2, <2>2, <2>4, <2>7 DEF p, n
<1> QED BY Zenon, <1>1, <1>2 DEF SubmitFinal

(* The output filter and its caller *)
LEMMA OutputFit ==
  ASSUME RInv, NEW r0, Fit(r0, Now), r0.live, r0.headerSent, NEW in,
         NEW caller \in {"producer", "writer", "drain"},
         caller = "drain" => r0.writeH = "drain" /\ ~Busy(r0),
         caller # "drain" => r0.phase \in LatePhases,
         Elsewhere, OutputBodyFilter(r0, in, caller)
  PROVE  Frame' /\ Fit(req', Now')
<1>1. Shape(r0) /\ Keep(ctx) /\ stage \in Stages
  BY Zenon DEF RInv, Frame, Keep, Fit
<1>2. \A q : Variant(r0, q) =>
        /\ Fit(q, Now) /\ q.live = r0.live /\ q.phase = r0.phase
        /\ q.writeH = r0.writeH /\ q.page = r0.page /\ q.headerSent
  <2> SUFFICES ASSUME NEW q, Variant(r0, q)
               PROVE  /\ Fit(q, Now) /\ q.live = r0.live /\ q.headerSent
                      /\ q.phase = r0.phase /\ q.writeH = r0.writeH
                      /\ q.page = r0.page
    BY Zenon
  <2>1. Fit(q, Now)
    BY Zenon, VariantFit
  <2> QED BY Zenon, <2>1 DEF Variant, Only, Fields
<1>3. caller = "drain" => stage = "AFTER_RUN_WAF_END"
  BY Zenon, NowFields DEF Fit, Handled
<1>4. CASE Passed(r0, caller)
  <2>1. PICK q, rc : Variant(r0, q) /\ req' = AfterFilter(caller, q, rc)
    BY Zenon, <1>4 DEF Passed
  <2>2. Now' = Now /\ Frame'
    BY Zenon, <1>1, <1>4, SameNow, ElsewhereFrame DEF Passed, Keep, RInv, Frame
  <2>3. Fit(q, Now) /\ (caller = "drain" => q.writeH = "drain" /\ ~Busy(q))
    BY Zenon, <1>2, <2>1 DEF Busy
  <2>4. Fit(AfterFilter(caller, q, rc), Now)
    BY Zenon, <1>1, <2>3, NowFields, AfterFilterFit
  <2> QED BY Zenon, <2>1, <2>2, <2>4
<1>5. CASE Committed(r0, caller)
  <2>1. PICK q : Variant(r0, q) /\ req' = AfterFilter(caller, q, "ok")
    BY Zenon, <1>5 DEF Committed
  <2>2. /\ Frame' /\ SameTasks(Now, Now') /\ Now'.prev = Now.prev
        /\ Now'.passed = Now.passed /\ caller # "drain"
        /\ Now.stage = "WAF_END_BLOCK_COMMIT"
        /\ Now'.stage = "AFTER_RUN_WAF_END"
    <3>1. stage' \in Stages
      BY Zenon, <1>5 DEF Committed, Stages
    <3> QED BY Zenon, <1>1, <1>3, <1>5, <3>1, TasksSame, ElsewhereFrame,
               NowFields, NextFields DEF Committed, Keep, RInv, Frame
  <2>3. Fit(q, Now) /\ (q.live => q.phase \in LatePhases)
    BY Zenon, <1>2, <2>1, <2>2
  <2>4. Fit(q, Now')
    <3>1. Now.stage \in LooseStages /\ Now.stage \in Stages
      BY Zenon, <2>2 DEF LooseStages, Stages
    <3>2. Now'.stage \in Stages /\ Now'.stage # "AFTER_BEGIN_WAF_BLOCK"
      BY Zenon, <2>2 DEF Stages
    <3> QED BY Zenon, <2>2, <2>3, <3>1, <3>2, LateFit
  <2>5. Fit(AfterFilter(caller, q, "ok"), Now')
    BY Zenon, <2>2, <2>4, AfterFilterFit DEF Stages
  <2> QED BY Zenon, <2>1, <2>2, <2>5
<1>6. CASE Collected(r0, caller)
  <2>1. PICK q, c, due, rc : /\ Variant(r0, q) /\ Keep(c)
                             /\ SubmitFinal(c, q, hdr, due, caller, rc)
    BY Zenon, <1>6 DEF Collected
  <2>2. /\ Fit(q, Now) /\ q.live /\ q.headerSent /\ q.phase \in LatePhases
        /\ caller # "drain"
    BY Zenon, <1>2, <1>3, <1>6, <2>1 DEF Collected
  <2>5. stage \in LooseStages
    BY Zenon, <1>6 DEF Collected, LooseStages, Stages
  <2>3. Frame' /\ \E p : Fit(p, Now') /\ req' = AfterFilter(caller, p, rc)
    BY Zenon, <2>1, <2>2, <2>5, SubmitFinalFit
  <2>4. stage' \in Stages
    BY Zenon, <2>1 DEF SubmitFinal, Stages
  <2> QED BY Zenon, <2>2, <2>3, <2>4, NextFields, AfterFilterFit
<1> QED BY Zenon, <1>1, <1>4, <1>5, <1>6, OutputCases

(* A request without body, and one whose body was not touched yet          *)
FreshBody ==
  /\ conf.reqBody = << >> /\ Now.fresh => Now.passed
  /\ conf.reqBody # << >> /\ Now.fresh => Now.held

(* Before the body is read, an empty one has passed and another is held     *)
LEMMA FreshBodies == Frame => FreshBody
<1> SUFFICES ASSUME Frame PROVE FreshBody
  OBVIOUS
<1>1. conf.reqBody \in Seq(Nat)
  BY ConstantsAssumption DEF Frame, Config
<1>2. ASSUME conf.reqBody = << >>, Now.fresh PROVE Now.passed
  <2>1. reqDown = << >>
    BY Zenon, <1>2, NowFields
  <2>2. ReqPieces = << >>
    BY <1>2 DEF ReqPieces, Pieces
  <2> QED BY Zenon, <2>1, <2>2, NowFields
<1>3. ASSUME conf.reqBody # << >>, Now.fresh PROVE Now.held
  <2>1. reqDown = << >> /\ rb.out = << >> /\ reqIn = 0
    BY Zenon, <1>3, NowFields
  <2>2. reqIn \in 0 .. Len(conf.reqBody)
    BY <1>1, <2>1
  <2>3. reqDown \o rb.out = SubSeq(ReqPieces, 1, reqIn)
    BY <2>1
  <2>4. BodyHeld
    BY Zenon, <1>3, <2>1, <2>2, <2>3 DEF BodyHeld
  <2> QED BY Zenon, <2>4, NowFields
<1> QED BY Zenon, <1>2, <1>3 DEF FreshBody

(* The same after a step                                                    *)
LEMMA NextFreshBodies == Frame' => FreshBody'
  BY FreshBodies, PTL

(* The access phase is left: the content handler is started, or the body   *)
(* is about to be read.                                                    *)
LEMMA AccessFit ==
  ASSUME NEW p, NEW e, Fit(p, e), p.live, p.phase = "resume", NEW r,
         Only(p, r, {"phase"}), e.stage \in Stages,
         conf.reqBody = << >> /\ e.fresh => e.passed,
         conf.reqBody # << >> /\ e.fresh => e.held
  PROVE  Fit(AfterAccess(r), e)
<1> DEFINE q == AfterAccess(r)
<1>1. /\ Only(p, q, {"phase", "readH", "writeH"})
      /\ \/ /\ conf.reqBody = << >> /\ q.phase = "content"
            /\ q.writeH \in {"upstream", "run_phases"}
            /\ q.readH \in {"upstream", "block_reading"}
         \/ /\ conf.reqBody # << >> /\ q.phase = "body_start"
            /\ q.writeH = p.writeH /\ q.readH = p.readH
  BY ZenonT(30) DEF AfterAccess, StartContent, Only, Shape, Fields
<1> HIDE DEF q
<1>2. /\ q.page = p.page /\ q.live = p.live /\ q.connH = p.connH /\ Shape(q)
      /\ q.headerSent = p.headerSent /\ q.buffered = p.buffered
      /\ q.error = p.error
  BY Zenon, <1>1 DEF Only, Fields
<1>3. ASSUME p.live PROVE ~e.start /\ ~e.reqbody /\ ~e.final
  BY <1>3 DEF Fit, Flying, Aside, LatePhases
<1>4. ASSUME p.live PROVE Placed(q, e)
  BY <1>1, <1>2, <1>4 DEF Fit, Placed, StagesOf, EarlyPhases, BodyPhases
<1>5. ASSUME p.live PROVE Flying(q, e)
  BY Zenon, <1>3, <1>5 DEF Flying
<1>6. ASSUME p.live PROVE Handled(q, e)
  BY <1>1, <1>2, <1>3, <1>6 DEF Fit, Handled
<1>7. ASSUME p.live PROVE Saved(q, e)
  BY Zenon, <1>3, <1>7 DEF Saved
<1> QED BY Zenon, <1>2, <1>4, <1>5, <1>6, <1>7 DEF Fit, q, Placed, Ended

(* The write event handlers that call no filter                            *)
LEMMA ConnectionFit ==
  ASSUME NEW r, NEW e, Fit(r, e), r.live, e.stage \in Stages,
         conf.reqBody = << >> /\ e.fresh => e.passed,
         conf.reqBody # << >> /\ e.fresh => e.held
  PROVE  Fit(ConnectionWriteHandler(r), e)
<1>1. Only(r, r, {"phase"})
  BY Zenon DEF Fit, Only
<1>2. ASSUME r.phase = "resume" PROVE Fit(AfterAccess(r), e)
  BY Zenon, <1>1, <1>2, AccessFit
<1>3. Fit(RunPostedRequests(FinalizeRequest(r, "ok")), e)
  BY Zenon, FinalizeFit, RunPostedFit
<1>4. Fit(RunPostedRequests(r), e)
  BY Zenon, RunPostedFit
<1> QED BY Zenon, <1>2, <1>3, <1>4
           DEF ConnectionWriteHandler, PlainWriteHandler

(* The request is terminated from outside. *)
LEMMA AbortFit == RInv /\ Abort => Frame' /\ Fit(req', Now')
<1> SUFFICES ASSUME RInv, Abort PROVE Frame' /\ Fit(req', Now')
  OBVIOUS
<1>1. Fit(req', Now)
  BY Zenon, NowFields, FinalizeFit, RunPostedFit DEF RInv, Frame, Abort
<1>2. /\ Elsewhere /\ stage' = stage /\ task' = task
      /\ ctx'.prevWrite = ctx.prevWrite /\ DOMAIN ctx' = ContextFields
  BY Zenon DEF RInv, Frame, Abort, Elsewhere, ContextFields
<1>3. Now' = Now /\ Frame'
  BY Zenon, <1>2, SameNow, ElsewhereFrame DEF RInv, Frame
<1> QED BY Zenon, <1>1, <1>3

(* The output filter is called with a part of the response. *)
LEMMA ProduceBodyFit == RInv /\ ProduceBody => Frame' /\ Fit(req', Now')
<1> SUFFICES ASSUME RInv, ProduceBody PROVE Frame' /\ Fit(req', Now')
  OBVIOUS
<1>1. req.live /\ req.phase \in LatePhases /\ Elsewhere /\ Fit(req, Now)
  BY Zenon DEF RInv, ProduceBody, LatePhases, Elsewhere
<1>2. req.headerSent
  BY Zenon, <1>1 DEF Fit, Placed, ProduceBody
<1>3. PICK in : OutputBodyFilter(req, in, "producer")
  BY Zenon DEF ProduceBody
<1> QED BY Zenon, <1>1, <1>2, <1>3, OutputFit

(* A write event of the connection *)
LEMMA WriteEventFit == RInv /\ WriteEvent => Frame' /\ Fit(req', Now')
<1> SUFFICES ASSUME RInv, WriteEvent PROVE Frame' /\ Fit(req', Now')
  OBVIOUS
<1> DEFINE r == [req EXCEPT !.wev = FALSE]
<1>1. Only(req, r, {"wev"})
  BY Zenon DEF RInv, Fit, Only, Shape, Fields
<1>2. /\ MainThreadFree /\ Elsewhere
      /\ \/ /\ stage' = stage /\ task' = task /\ ctx' = ctx
            /\ \/ req' = ConnectionWriteHandler(r)
               \/ req' = FinalizeRequest(r, "internal_error")
         \/ r.writeH = "writer" /\ OutputBodyFilter(r, << >>, "writer")
         \/ r.writeH = "drain" /\ OutputBodyFilter(r, << >>, "drain")
  BY Zenon DEF WriteEvent, Elsewhere
<1> HIDE DEF r
<1>3. /\ r.live /\ ~Busy(r)
  BY Zenon, <1>1, <1>2 DEF MainThreadFree, Busy, Only, Fields
<1>4. Fit(r, Now)
  <2>1. Milder(req, r)
    BY Zenon, <1>1 DEF Milder, Only, Fields, FreeFields
  <2> QED BY Zenon, <2>1, MilderFit DEF RInv
<1>5. CASE /\ stage' = stage /\ task' = task /\ ctx' = ctx
           /\ \/ req' = ConnectionWriteHandler(r)
              \/ req' = FinalizeRequest(r, "internal_error")
  <2>1. Now' = Now /\ Frame'
    BY Zenon, <1>2, <1>5, SameNow, ElsewhereFrame DEF RInv, Frame
  <2>2. FreshBody /\ Now.stage \in Stages
    BY Zenon, FreshBodies, NowFields DEF RInv, Frame
  <2>3. /\ Fit(ConnectionWriteHandler(r), Now)
        /\ Fit(FinalizeRequest(r, "internal_error"), Now)
    BY Zenon, <1>3, <1>4, <2>2, ConnectionFit, FinalizeFit DEF FreshBody
  <2> QED BY Zenon, <1>5, <2>1, <2>3
<1>6. CASE r.writeH = "writer" /\ OutputBodyFilter(r, << >>, "writer")
  <2>1. r.headerSent /\ r.phase \in LatePhases
    BY Zenon, <1>3, <1>4, <1>6 DEF Fit, Handled, LatePhases
  <2> QED BY Zenon, <1>2, <1>3, <1>4, <1>6, <2>1, OutputFit
<1>7. CASE r.writeH = "drain" /\ OutputBodyFilter(r, << >>, "drain")
  <2>1. r.headerSent
    BY Zenon, <1>3, <1>4, <1>7 DEF Fit, Handled
  <2> QED BY Zenon, <1>2, <1>3, <1>4, <1>7, <2>1, OutputFit
<1> QED BY Zenon, <1>2, <1>5, <1>6, <1>7

(* The header filter *)
LEMMA HeaderFilterFit == RInv /\ HeaderFilter => Frame' /\ Fit(req', Now')
<1> SUFFICES ASSUME RInv, HeaderFilter PROVE Frame' /\ Fit(req', Now')
  OBVIOUS
<1> DEFINE r == LastHeaderFilter(AtHeader)
           g == BeforeFinal(r, TRUE)
           h == <<Header(req.page)>>
<1>1. /\ req.live /\ req.phase \in {"content", "special"} /\ Elsewhere
      /\ Fit(req, Now) /\ Keep(ctx) /\ Now.stage \in Stages /\ Shape(req)
      /\ stage \in Stages
  BY Zenon, NowFields DEF RInv, HeaderFilter, Elsewhere, Frame, Keep, Fit
<1>2. /\ Only(req, r, {"headerSent", "headerOnly"}) /\ r.headerSent
  BY Zenon, <1>1 DEF Only, Shape, Fields, LastHeaderFilter, AtHeader
<1>3. /\ Only(req, g, {"headerSent", "headerOnly"}) /\ g.headerSent
  <2> HIDE DEF r
  <2> QED BY Zenon, <1>2 DEF Only, Shape, Fields, BeforeFinal
<1>4. \/ /\ stage' = stage /\ task' = task /\ ctx' = ctx
         /\ req' = AfterHeader(req, "error")
      \/ /\ task' = task /\ Keep(ctx')
         /\ \/ stage' = stage
            \/ /\ stage \in {"AFTER_BEGIN_WAF", "AFTER_ON_REQ_WAF"}
               /\ stage' \in {"COLLECTING_ON_RESP_DATA", "AFTER_RUN_WAF_END"}
         /\ \E rc : req' = AfterHeader(r, rc)
      \/ /\ stage \in {"AFTER_BEGIN_WAF", "AFTER_ON_REQ_WAF"}
         /\ \E c : Keep(c) /\ SubmitFinal(c, g, h, 0, "header", "ok")
  <2> DEFINE c == [ctx EXCEPT !.headerOnly = @ \/ AtHeader.headerOnly,
                              !.sendBody = @ /\ Parseable(r)]
             d == [ctx EXCEPT !.headerOnly = c.headerOnly]
  <2>1. Keep(c) /\ Keep(d)
    BY Zenon, <1>1 DEF Keep, ContextFields
  <2>2. CASE HeaderRefused
    BY Zenon, <2>2 DEF HeaderRefused
  <2>3. CASE HeaderPasses
    BY Zenon, <1>1, <2>3 DEF HeaderPasses
  <2>4. CASE HeaderBuffered
    <3>1. /\ stage \in {"AFTER_BEGIN_WAF", "AFTER_ON_REQ_WAF"}
          /\ \/ /\ stage' = "COLLECTING_ON_RESP_DATA"
                /\ ctx' = c /\ req' = AfterHeader(r, "ok") /\ task' = task
             \/ SubmitFinal(c, g, h, 0, "header", "ok")
             \/ /\ ctx' = c /\ req' = AfterHeader(r, "error")
                /\ stage' = stage /\ task' = task
             \/ /\ stage' = "AFTER_RUN_WAF_END" /\ ctx' = d
                /\ req' = AfterHeader(r, "error") /\ task' = task
      BY Zenon, <2>4 DEF HeaderBuffered, FinalRunDue
    <3> HIDE DEF c, d, r, g, h
    <3> QED BY Zenon, <2>1, <3>1
  <2> QED BY Zenon, <2>2, <2>3, <2>4 DEF HeaderFilter
<1> HIDE DEF r, g, h
<1>5. /\ r.live /\ g.live /\ r.phase = req.phase /\ g.phase = req.phase
  BY Zenon, <1>1, <1>2, <1>3 DEF Only, Fields
<1>6. Fit(r, Now) /\ Fit(g, Now)
  <2>1. req.phase \notin EarlyPhases \cup BodyPhases
    BY <1>1 DEF EarlyPhases, BodyPhases
  <2> QED BY Zenon, <1>1, <1>2, <1>3, <2>1, HeaderSentFit DEF Only, FreeFields
<1>7. CASE /\ stage' = stage /\ task' = task /\ ctx' = ctx
           /\ req' = AfterHeader(req, "error")
  <2>1. Now' = Now /\ Frame'
    BY Zenon, <1>1, <1>7, SameNow, ElsewhereFrame DEF RInv, Frame
  <2> QED BY Zenon, <1>1, <1>7, <2>1, AfterHeaderFit
<1>8. CASE /\ task' = task /\ Keep(ctx')
           /\ \/ stage' = stage
              \/ /\ stage \in {"AFTER_BEGIN_WAF", "AFTER_ON_REQ_WAF"}
                 /\ stage' \in {"COLLECTING_ON_RESP_DATA",
                                "AFTER_RUN_WAF_END"}
           /\ \E rc : req' = AfterHeader(r, rc)
  <2>1. stage' \in Stages
    BY Zenon, <1>1, <1>8 DEF Stages
  <2>2. /\ Frame' /\ SameTasks(Now, Now') /\ Now'.prev = Now.prev
        /\ Now'.passed = Now.passed /\ Now'.stage \in Stages
    BY Zenon, <1>1, <1>8, <2>1, TasksSame, ElsewhereFrame, NowFields,
       NextFields DEF Keep, RInv, Frame
  <2>3. Fit(r, Now')
    <3>1. CASE stage' = stage
      BY Zenon, <1>1, <1>6, <1>8, <3>1, SameNow DEF Keep
    <3>2. CASE /\ stage \in {"AFTER_BEGIN_WAF", "AFTER_ON_REQ_WAF"}
               /\ stage' \in {"COLLECTING_ON_RESP_DATA", "AFTER_RUN_WAF_END"}
      <4>1. /\ Now.stage \in LooseStages /\ Now.stage \in Stages
            /\ Now'.stage # "AFTER_BEGIN_WAF_BLOCK"
        BY <3>2, NowFields, NextFields DEF LooseStages, Stages
      <4>2. r.phase \in LatePhases
        BY Zenon, <1>1, <1>5 DEF LatePhases
      <4> QED BY Zenon, <1>6, <2>2, <4>1, <4>2, LateFit
    <3> QED BY Zenon, <1>8, <3>1, <3>2
  <2> QED BY Zenon, <1>1, <1>2, <1>5, <1>8, <2>2, <2>3, AfterHeaderFit
<1>9. CASE /\ stage \in {"AFTER_BEGIN_WAF", "AFTER_ON_REQ_WAF"}
           /\ \E c : Keep(c) /\ SubmitFinal(c, g, h, 0, "header", "ok")
  <2>1. stage \in LooseStages /\ g.phase \in LatePhases
    BY <1>1, <1>5, <1>9 DEF LooseStages, Stages, LatePhases
  <2>2. PICK c : Keep(c) /\ SubmitFinal(c, g, h, 0, "header", "ok")
    BY Zenon, <1>9
  <2>3. /\ Frame'
        /\ \E p : /\ Fit(p, Now') /\ p.live /\ p.phase = g.phase
                  /\ p.headerSent
                  /\ req' = AfterFilter("header", p, "ok")
    BY Zenon, <1>1, <1>3, <1>5, <1>6, <2>1, <2>2, SubmitFinalFit
  <2>4. Now'.stage \in Stages
    BY Zenon, <2>3, NextFields DEF Frame
  <2> QED BY Zenon, <1>1, <1>5, <2>3, <2>4, AfterHeaderFit DEF AfterFilter
<1> QED BY Zenon, <1>4, <1>7, <1>8, <1>9

-----------------------------------------------------------------------------
(* The access phase and the thread pool.                                   *)

(* A new task knows the handlers of its request; the others are untouched. *)
LEMMA NewTaskFields ==
  ASSUME IInv, Frame, NEW r, NEW due, NEW k \in Kinds,
         task' = [task EXCEPT ![k] = NewTask(r, due)]
  PROVE  /\ \A j \in Kinds : SavedFields \subseteq DOMAIN task'[j]
         /\ \A j \in Kinds \ {k} : task'[j] = task[j]
         /\ task'[k].st = "queued" /\ task'[k].ran = FALSE
         /\ task'[k].prevRead = r.readH /\ task'[k].prevWrite = r.writeH
<1>1. /\ NewTask(r, due).st = "queued" /\ NewTask(r, due).ran = FALSE
      /\ NewTask(r, due).prevRead = r.readH
      /\ NewTask(r, due).prevWrite = r.writeH
      /\ SavedFields \subseteq DOMAIN NewTask(r, due)
  BY Zenon DEF NewTask, NoTask, SavedFields
<1>2. /\ \A j \in Kinds \ {k} : task'[j] = task[j]
      /\ task'[k] = NewTask(r, due)
  BY Zenon DEF IInv
<1> QED BY Zenon, <1>1, <1>2 DEF Frame

(* The access phase handler *)
LEMMA OnRequestStartFit ==
  RInv /\ OnRequestStart => Frame' /\ Fit(req', Now')
<1> SUFFICES ASSUME RInv, OnRequestStart PROVE Frame' /\ Fit(req', Now')
  OBVIOUS
<1> DEFINE p == [req EXCEPT !.phase = "resume"]
           n == NotSubmitted(req, "start")
           q == [Submitted(req, "start") EXCEPT !.phase = "suspended"]
<1>1. /\ req.live /\ req.phase = "access" /\ stage = "START" /\ Elsewhere
      /\ ctx' = ctx /\ Shape(req) /\ Fit(req, Now) /\ DOMAIN ctx = ContextFields
  BY Zenon DEF RInv, OnRequestStart, Fit, Elsewhere, Frame
<1>2. /\ Now.fresh /\ req.page = "orig" /\ ~req.buffered /\ ~req.headerSent
      /\ req.readH = "block_reading" /\ req.writeH = "run_phases"
      /\ req.connH = "request_handler"
      /\ ~Now.start /\ ~Now.reqbody /\ ~Now.final
  BY <1>1, NowFields
     DEF Fit, Placed, Handled, Flying, Aside, LatePhases, EarlyPhases
<1>3. /\ Only(req, p, {"phase"}) /\ p.phase = "resume"
  BY Zenon, <1>1 DEF Only, Shape, Fields
<1>4. /\ Only(req, q, {"phase", "count", "blocked", "readH", "writeH"})
      /\ q.phase = "suspended" /\ q.readH = "block_reading"
      /\ q.writeH = "task_empty"
  <2>1. req.count + 1 \in Int /\ req.blocked + 1 \in Int
    BY <1>1 DEF Shape
  <2> QED BY Zenon, <1>1, <2>1
             DEF Only, Shape, Fields, Submitted, ReplaceHandlers
<1>5. Only(p, req, {"phase"}) /\ Only(p, n, {"phase"})
  <2>1. Only(req, n, {})
    BY Zenon, <1>1, NotSubmittedSame
  <2> HIDE DEF n, p
  <2> QED BY Zenon, <1>1, <1>3, <2>1 DEF Only
<1> HIDE DEF p, q
<1>6. CASE /\ stage' \in {"DISABLED", "ENTERED_ON_START"} /\ task' = task
           /\ req' = AfterAccess(req) \/ req' = AfterAccess(n)
  <2>1. stage' \in Stages
    BY Zenon, <1>6 DEF Stages
  <2>2. /\ Frame' /\ SameTasks(Now, Now') /\ Now'.fresh = Now.fresh
        /\ Now'.stage = stage'
    BY Zenon, <1>1, <1>6, <2>1, TasksSame, ElsewhereFrame, NextFields
       DEF RInv, Frame
  <2>3. FreshBody'
    BY Zenon, <2>2, NextFreshBodies
  <2>4. Fit(p, Now')
    <3>1. /\ p.page = "orig" /\ p.connH = "request_handler" /\ Shape(p)
          /\ p.writeH = "run_phases" /\ p.readH = "block_reading"
          /\ ~p.buffered /\ ~p.headerSent
      BY Zenon, <1>2, <1>3 DEF Only, Fields
    <3>2. ~Now'.start /\ ~Now'.reqbody /\ ~Now'.final
      BY Zenon, <1>2, <2>2 DEF SameTasks
    <3>3. Placed(p, Now')
      BY <1>2, <1>3, <1>6, <2>2, <3>1
         DEF Placed, StagesOf, EarlyPhases, BodyPhases
    <3>4. Flying(p, Now') /\ Saved(p, Now')
      BY Zenon, <3>2 DEF Flying, Saved
    <3>5. Handled(p, Now')
      BY Zenon, <1>3, <3>1, <3>2 DEF Handled
    <3> QED BY Zenon, <3>1, <3>3, <3>4, <3>5 DEF Fit, Placed, Ended
  <2>5. Fit(AfterAccess(req), Now') /\ Fit(AfterAccess(n), Now')
    <3>1. conf' = conf
      BY Zenon, <1>1 DEF Elsewhere
    <3>2. p.live
      BY Zenon, <1>1, <1>3 DEF Only, Fields
    <3> QED BY Zenon, <1>3, <1>5, <2>1, <2>2, <2>3, <2>4, <3>1, <3>2, AccessFit
               DEF FreshBody
  <2> QED BY Zenon, <1>6, <2>2, <2>5
<1>7. CASE /\ stage' = "ENTERED_ON_START" /\ req' = q
           /\ task' = [task EXCEPT !["start"] = NewTask(req, 0)]
  <2>1. stage' \in Stages
    BY Zenon, <1>7 DEF Stages
  <2>2. /\ \A j \in Kinds : SavedFields \subseteq DOMAIN task'[j]
        /\ \A j \in Kinds \ {"start"} : task'[j] = task[j]
        /\ task'["start"].st = "queued" /\ task'["start"].ran = FALSE
        /\ task'["start"].prevRead = req.readH
        /\ task'["start"].prevWrite = req.writeH
    BY Zenon, <1>7, NewTaskFields DEF RInv, Kinds
  <2>3. /\ task'["reqbody"] = task["reqbody"] /\ task'["final"] = task["final"]
    BY Zenon, <2>2 DEF Kinds
  <2>4. Frame' /\ Now'.fresh = Now.fresh
    BY Zenon, <1>1, <2>1, <2>2, ElsewhereFrame DEF RInv, Frame
  <2>5. /\ Now'.start /\ ~Now'.reqbody /\ ~Now'.final
    <3>1. /\ InFlight("start")' /\ InFlight("reqbody")' = InFlight("reqbody")
          /\ InFlight("final")' = InFlight("final")
      BY Zenon, <2>2, <2>3 DEF InFlight
    <3> QED BY Zenon, <1>2, <3>1, NowFields, NextFields
  <2>6. /\ Now'.startR = "block_reading" /\ Now'.startW = "run_phases"
        /\ ~Now'.blocks /\ Now'.stage = "ENTERED_ON_START"
    BY Zenon, <1>2, <1>7, <2>2, NextFields
  <2>7. /\ q.page = "orig" /\ q.connH = "request_handler" /\ Shape(q)
        /\ ~q.buffered /\ ~q.headerSent
    BY Zenon, <1>2, <1>4 DEF Only, Fields
  <2>8. Placed(q, Now')
    BY <1>2, <1>4, <2>4, <2>6, <2>7
       DEF Placed, StagesOf, EarlyPhases, BodyPhases
  <2>9. Flying(q, Now') /\ Saved(q, Now')
    BY Zenon, <1>4, <2>5, <2>6 DEF Flying, Saved
  <2>10. Handled(q, Now')
    BY Zenon, <1>4, <2>5, <2>7 DEF Handled
  <2> QED BY Zenon, <1>7, <2>4, <2>7, <2>8, <2>9, <2>10 DEF Fit, Placed, Ended
<1> QED BY Zenon, <1>6, <1>7 DEF OnRequestStart, p, q

(* A task changes, but neither whether it is in flight nor what it saved.  *)
LEMMA TaskMoves ==
  ASSUME \A j \in Kinds : /\ InFlight(j)' = InFlight(j)
                          /\ \A f \in SavedFields : task'[j][f] = task[j][f]
  PROVE  /\ Now'.start = Now.start /\ Now'.reqbody = Now.reqbody
         /\ Now'.final = Now.final /\ Now'.startR = Now.startR
         /\ Now'.startW = Now.startW /\ Now'.bodyW = Now.bodyW
         /\ Now'.conn = Now.conn
<1>1. /\ InFlight("start")' = InFlight("start")
      /\ InFlight("reqbody")' = InFlight("reqbody")
      /\ InFlight("final")' = InFlight("final")
  BY Zenon DEF Kinds
<1>2. /\ task'["start"].prevRead = task["start"].prevRead
      /\ task'["start"].prevWrite = task["start"].prevWrite
      /\ task'["reqbody"].prevWrite = task["reqbody"].prevWrite
      /\ task'["final"].prevConn = task["final"].prevConn
  BY Zenon DEF Kinds, SavedFields
<1> QED BY Zenon, <1>1, <1>2, NowFields, NextFields

(* A thread of the pool takes a task. *)
LEMMA ThreadStartFit ==
  ASSUME RInv, NEW k \in Kinds, ThreadStart(k)
  PROVE  Frame' /\ Fit(req', Now')
<1>1. /\ task[k].st = "queued" /\ Elsewhere /\ stage' = stage /\ ctx' = ctx
      /\ req' = req
      /\ task' = [task EXCEPT ![k].st = "running", ![k].loaded = stage,
                              ![k].seen = Shown(k)]
  BY Zenon DEF ThreadStart, Elsewhere
<1>2. /\ task'[k].st = "running" /\ DOMAIN task'[k] = DOMAIN task[k]
      /\ \A f \in DOMAIN task[k] \ {"st", "loaded", "seen"} :
           task'[k][f] = task[k][f]
      /\ \A j \in Kinds \ {k} : task'[j] = task[j]
  BY Zenon, <1>1 DEF RInv, IInv, Shaped
<1>0. task[k].st = "queued" /\ task'[k].st = "running"
  BY Zenon, <1>1, <1>2
<1>3. \A j \in Kinds :
        /\ InFlight(j)' = InFlight(j)
        /\ \A f \in SavedFields : task'[j][f] = task[j][f]
        /\ SavedFields \subseteq DOMAIN task'[j]
        /\ task'[j].ran = task[j].ran /\ task'[j].block = task[j].block
  <2> SUFFICES ASSUME NEW j \in Kinds
               PROVE  /\ InFlight(j)' = InFlight(j)
                      /\ \A f \in SavedFields : task'[j][f] = task[j][f]
                      /\ SavedFields \subseteq DOMAIN task'[j]
                      /\ task'[j].ran = task[j].ran
                      /\ task'[j].block = task[j].block
    BY Zenon
  <2>1. SavedFields \cup {"ran", "block"} \subseteq DOMAIN task[j]
    BY Zenon DEF RInv, Frame, IInv, Shaped
  <2>2. CASE j = k
    <3>1. InFlight(j)' = InFlight(j)
      BY <1>0, <2>2 DEF InFlight
    <3> QED BY Zenon, <1>2, <2>1, <2>2, <3>1 DEF SavedFields
  <2>3. CASE j # k
    BY Zenon, <1>2, <2>1, <2>3 DEF InFlight
  <2> QED BY Zenon, <2>2, <2>3
<1>4. Frame' /\ Now'.fresh = Now.fresh /\ Now'.passed = Now.passed
  BY Zenon, <1>1, <1>3, ElsewhereFrame DEF RInv, Frame
<1>5. BodyHeld' = BodyHeld
  BY Zenon, <1>1 DEF Elsewhere, BodyHeld, ReqPieces
<1>6. /\ Now'.start = Now.start /\ Now'.reqbody = Now.reqbody
      /\ Now'.final = Now.final /\ Now'.startR = Now.startR
      /\ Now'.startW = Now.startW /\ Now'.bodyW = Now.bodyW
      /\ Now'.conn = Now.conn
  BY Zenon, <1>3, TaskMoves
<1>7. /\ Now'.blocks = Now.blocks /\ Now'.stage = Now.stage
      /\ Now'.prev = Now.prev /\ Now'.held = Now.held
  BY Zenon, <1>1, <1>3, <1>5, NowFields, NextFields DEF Kinds
<1>8. Fit(req, Now')
  <2>1. Placed(req, Now) => Placed(req, Now')
    BY Zenon, <1>4, <1>7 DEF Placed
  <2>2. Flying(req, Now) => Flying(req, Now')
    BY Zenon, <1>6, <1>7 DEF Flying
  <2>3. Handled(req, Now) => Handled(req, Now')
    BY Zenon, <1>6, <1>7 DEF Handled
  <2>4. Saved(req, Now) => Saved(req, Now')
    BY Zenon, <1>6 DEF Saved
  <2>5. Ended(req, Now) => Ended(req, Now')
    BY Zenon, <1>4 DEF Ended
  <2> QED BY Zenon, <2>1, <2>2, <2>3, <2>4, <2>5 DEF RInv, Fit
<1> QED BY Zenon, <1>1, <1>4, <1>8

(* It finishes.  Only the first task publishes a stage from the pool.      *)
LEMMA ThreadFinishFit ==
  ASSUME RInv, NEW k \in Kinds, ThreadFinish(k)
  PROVE  Frame' /\ Fit(req', Now')
<1>1. /\ task[k].st = "running" /\ Elsewhere /\ ctx' = ctx /\ req' = req
      /\ \/ \E b : /\ task' = [task EXCEPT ![k].st = "posted",
                                            ![k].ran = TRUE, ![k].block = b]
                   /\ \/ /\ stage' = stage
                         /\ k = "start" => b = FALSE
                      \/ /\ k = "start" /\ b \in BOOLEAN
                         /\ stage' = IF b THEN "AFTER_BEGIN_WAF_BLOCK"
                                     ELSE "AFTER_BEGIN_WAF"
         \/ /\ stage' = stage
            /\ task' = [task EXCEPT ![k].st = "posted"]
  <2>1. CASE task[k].loaded \in Expected[k]
    BY Zenon, <2>1 DEF ThreadFinish, Elsewhere
  <2>2. CASE task[k].loaded \notin Expected[k]
    BY Zenon, <2>2 DEF ThreadFinish, Elsewhere
  <2> QED BY Zenon, <2>1, <2>2
<1>2. /\ task'[k].st = "posted" /\ DOMAIN task'[k] = DOMAIN task[k]
      /\ \A f \in DOMAIN task[k] \ {"st", "ran", "block"} :
           task'[k][f] = task[k][f]
      /\ \A j \in Kinds \ {k} : task'[j] = task[j]
  BY Zenon, <1>1 DEF RInv, IInv, Shaped
<1>0. task[k].st = "running" /\ task'[k].st = "posted"
  BY Zenon, <1>1, <1>2
<1>3. \A j \in Kinds :
        /\ InFlight(j)' = InFlight(j)
        /\ \A f \in SavedFields : task'[j][f] = task[j][f]
        /\ SavedFields \subseteq DOMAIN task'[j]
  <2> SUFFICES ASSUME NEW j \in Kinds
               PROVE  /\ InFlight(j)' = InFlight(j)
                      /\ \A f \in SavedFields : task'[j][f] = task[j][f]
                      /\ SavedFields \subseteq DOMAIN task'[j]
    BY Zenon
  <2>1. SavedFields \subseteq DOMAIN task[j]
    BY Zenon DEF RInv, Frame
  <2>2. CASE j = k
    <3>1. InFlight(j)' = InFlight(j)
      BY <1>0, <2>2 DEF InFlight
    <3> QED BY Zenon, <1>2, <2>1, <2>2, <3>1 DEF SavedFields
  <2>3. CASE j # k
    BY Zenon, <1>2, <2>1, <2>3 DEF InFlight
  <2> QED BY Zenon, <2>2, <2>3
<1>4. stage' \in Stages
  BY Zenon, <1>1 DEF RInv, Frame, Stages
<1>5. Frame' /\ Now'.fresh = Now.fresh /\ Now'.passed = Now.passed
  BY Zenon, <1>1, <1>3, <1>4, ElsewhereFrame DEF RInv, Frame
<1>6. /\ Now'.start = Now.start /\ Now'.reqbody = Now.reqbody
      /\ Now'.final = Now.final /\ Now'.startR = Now.startR
      /\ Now'.startW = Now.startW /\ Now'.bodyW = Now.bodyW
      /\ Now'.conn = Now.conn
  BY Zenon, <1>3, TaskMoves
<1>7. Now'.prev = Now.prev /\ Now'.stage = stage' /\ Now.stage = stage
  BY Zenon, <1>1, NowFields, NextFields
<1>8. Now'.stage # Now.stage => k = "start"
  BY Zenon, <1>1, <1>7
<1>9. k = "start" => Now.start /\ Now.stage = "ENTERED_ON_START"
  <2>1. k = "start" => Executing("start") /\ InFlight("start")
    BY Zenon, <1>1 DEF Executing, InFlight
  <2> QED BY Zenon, <2>1, NowFields DEF RInv, IInv, StageFacts
<1>10. k = "start" =>
         \/ /\ Now'.stage = Now.stage
            /\ ~Now'.blocks \/ Now'.blocks = Now.blocks
         \/ Now'.stage = "AFTER_BEGIN_WAF_BLOCK" /\ Now'.blocks
         \/ Now'.stage = "AFTER_BEGIN_WAF" /\ ~Now'.blocks
  <2> SUFFICES ASSUME k = "start"
               PROVE  \/ /\ Now'.stage = Now.stage
                         /\ ~Now'.blocks \/ Now'.blocks = Now.blocks
                      \/ Now'.stage = "AFTER_BEGIN_WAF_BLOCK" /\ Now'.blocks
                      \/ Now'.stage = "AFTER_BEGIN_WAF" /\ ~Now'.blocks
    BY Zenon
  <2>1. DOMAIN task = Kinds /\ Shaped(task["start"])
    BY Zenon DEF RInv, IInv
  <2>2. CASE \E b : /\ task' = [task EXCEPT !["start"].st = "posted",
                                !["start"].ran = TRUE, !["start"].block = b]
                    /\ \/ stage' = stage /\ b = FALSE
                       \/ /\ b \in BOOLEAN
                          /\ stage' = IF b THEN "AFTER_BEGIN_WAF_BLOCK"
                                      ELSE "AFTER_BEGIN_WAF"
    <3>1. PICK b : /\ task' = [task EXCEPT !["start"].st = "posted",
                                !["start"].ran = TRUE, !["start"].block = b]
                   /\ \/ stage' = stage /\ b = FALSE
                      \/ /\ b \in BOOLEAN
                         /\ stage' = IF b THEN "AFTER_BEGIN_WAF_BLOCK"
                                     ELSE "AFTER_BEGIN_WAF"
      BY Zenon, <2>2
    <3>2. task'["start"].ran = TRUE /\ task'["start"].block = b
      BY Zenon, <2>1, <3>1 DEF Shaped
    <3>3. Now'.blocks = (task'["start"].ran /\ task'["start"].block)
      BY Zenon, NextFields
    <3> QED BY Zenon, <1>7, <3>1, <3>2, <3>3
  <2>3. CASE stage' = stage /\ task' = [task EXCEPT !["start"].st = "posted"]
    <3>1. /\ task'["start"].ran = task["start"].ran
          /\ task'["start"].block = task["start"].block
      BY Zenon, <2>1, <2>3 DEF Shaped
    <3> QED BY Zenon, <1>7, <2>3, <3>1, NowFields, NextFields
  <2> QED BY Zenon, <1>1, <2>2, <2>3
<1>11. k # "start" => Now'.stage = Now.stage /\ Now'.blocks = Now.blocks
  <2>1. k # "start" => task'["start"] = task["start"]
    BY Zenon, <1>2 DEF Kinds
  <2> QED BY Zenon, <1>7, <1>8, <2>1, NowFields, NextFields
<1>12. Now'.stage = Now.stage => Now'.held = Now.held
  <2>1. stage' = stage => BodyHeld' = BodyHeld
    BY Zenon, <1>1 DEF Elsewhere, BodyHeld, ReqPieces
  <2> QED BY Zenon, <1>7, <2>1, NowFields, NextFields
<1>13. Fit(req, Now')
  <2> SUFFICES ASSUME req.live
               PROVE  /\ Placed(req, Now') /\ Flying(req, Now')
                      /\ Handled(req, Now') /\ Saved(req, Now')
    BY Zenon, <1>5 DEF RInv, Fit, Ended
  <2>1. /\ Placed(req, Now) /\ Flying(req, Now) /\ Handled(req, Now)
        /\ Saved(req, Now)
    BY Zenon DEF RInv, Fit
  <2>2. Placed(req, Now')
    <3>1. CASE Now'.stage = Now.stage
      BY Zenon, <1>5, <1>12, <2>1, <3>1 DEF Placed
    <3>2. CASE Now'.stage # Now.stage
      BY <1>4, <1>5, <1>7, <1>8, <1>9, <1>10, <2>1, <3>2
         DEF Placed, Flying, Aside, StagesOf, EarlyPhases, BodyPhases
    <3> QED BY Zenon, <3>1, <3>2
  <2>3. Flying(req, Now')
    BY <1>6, <1>9, <1>10, <1>11, <2>1 DEF Flying
  <2>4. Handled(req, Now')
    BY <1>6, <1>7, <1>9, <1>11, <2>1 DEF Handled
  <2>5. Saved(req, Now')
    BY Zenon, <1>6, <2>1 DEF Saved
  <2> QED BY Zenon, <2>2, <2>3, <2>4, <2>5
<1> QED BY Zenon, <1>1, <1>5, <1>13

-----------------------------------------------------------------------------
(* The request body. *)

(* Its pieces *)
LEMMA ReqPiecesType ==
  ASSUME conf \in Configs
  PROVE  ReqPieces \in Seq(Buffer) /\ Len(ReqPieces) = Len(conf.reqBody)
<1>1. conf.reqBody \in Seq(Nat)
  BY ConstantsAssumption DEF Config
<1> DEFINE b == conf.reqBody
<1>2. \A i \in 1 .. Len(b) : Piece("req", i, b[i], i = Len(b)) \in Buffer
  BY <1>1 DEF Piece, Buffer
<1>3. ReqPieces = [i \in 1 .. Len(b) |-> Piece("req", i, b[i], i = Len(b))]
  BY <1>1 DEF ReqPieces, Pieces
<1> QED BY <1>1, <1>2, <1>3

(* The filter is called and more of the body is awaited.                   *)
LEMMA StayFit ==
  ASSUME NEW r, NEW e, NEW f, Fit(r, e), r.live, r.phase \in {"preread", "body"},
         SameTasks(e, f), f.held, f.stage \in StagesOf("body"),
         \/ f.stage = e.stage
         \/ /\ e.stage # "SUSPENDED_ON_REQ_WAF" /\ ~r.headerSent
            /\ f.stage # "SUSPENDED_ON_REQ_WAF"
  PROVE  Fit([r EXCEPT !.phase = "body"], f)
<1> DEFINE q == [r EXCEPT !.phase = "body"]
<1>1. Only(r, q, {"phase"}) /\ q.phase = "body"
  BY Zenon DEF Fit, Only, Shape, Fields
<1> HIDE DEF q
<1>2. /\ q.page = r.page /\ q.readH = r.readH /\ q.live = r.live
      /\ q.writeH = r.writeH /\ q.connH = r.connH /\ Shape(q)
      /\ q.headerSent = r.headerSent /\ q.buffered = r.buffered
      /\ q.error = r.error
  BY Zenon, <1>1 DEF Only, Fields
<1>3. /\ Placed(r, e) /\ Flying(r, e) /\ Handled(r, e) /\ Saved(r, e)
  BY Zenon DEF Fit
<1>4. Placed(q, f)
  BY <1>1, <1>2, <1>3 DEF Placed, EarlyPhases, BodyPhases
<1>5. Flying(q, f)
  BY <1>1, <1>2, <1>3 DEF Flying, Placed, Aside, SameTasks, LatePhases
<1>6. Handled(q, f)
  BY <1>1, <1>2, <1>3 DEF Handled, Flying, Placed, StagesOf, Aside, SameTasks
<1>7. Saved(q, f)
  BY Zenon, <1>2, <1>3 DEF Saved, SameTasks
<1> QED BY Zenon, <1>2, <1>4, <1>5, <1>6, <1>7 DEF Fit, q

(* It is called and has passed the whole body on: the content is produced. *)
LEMMA ContentFit ==
  ASSUME NEW r, NEW e, NEW f, Fit(r, e), r.live, r.phase \in BodyPhases,
         e.stage # "SUSPENDED_ON_REQ_WAF", SameTasks(e, f),
         f.passed, f.stage \in Stages
  PROVE  Fit(StartContent(r), f)
<1> DEFINE q == StartContent(r)
<1>1. /\ Only(r, q, {"phase", "readH", "writeH"}) /\ q.phase = "content"
      /\ q.writeH \in {"upstream", "run_phases"}
  BY Zenon DEF Fit, Only, Shape, Fields, StartContent
<1> HIDE DEF q
<1>2. /\ q.page = r.page /\ q.connH = r.connH /\ Shape(q)
      /\ q.headerSent = r.headerSent /\ q.buffered = r.buffered
  BY Zenon, <1>1 DEF Only, Fields
<1>3. /\ r.page = "orig" /\ (r.buffered => r.headerSent)
      /\ r.connH = "request_handler"
      /\ ~e.start /\ ~e.reqbody /\ ~e.final
  BY DEF Fit, Placed, Flying, Handled, Aside, BodyPhases, LatePhases
<1>4. ~f.start /\ ~f.reqbody /\ ~f.final
  BY Zenon, <1>3 DEF SameTasks
<1>5. Placed(q, f)
  BY <1>1, <1>2, <1>3 DEF Placed, StagesOf, EarlyPhases, BodyPhases
<1>6. Flying(q, f) /\ Saved(q, f)
  BY Zenon, <1>4 DEF Flying, Saved
<1>7. Handled(q, f)
  BY <1>1, <1>2, <1>3, <1>4 DEF Handled
<1> QED BY Zenon, <1>2, <1>5, <1>6, <1>7 DEF Fit, q, Placed, Ended

(* The part that came with the header was not all.                         *)
LEMMA ReadingFit ==
  ASSUME NEW r, NEW e, NEW f, Fit(r, e), r.live, r.phase = "body_start",
         SameTasks(e, f), f.held, ~r.headerSent,
         NEW p \in {"preread", "body"}, f.stage \in StagesOf(p)
  PROVE  Fit([ReadBodyHandlers(r) EXCEPT !.phase = p], f)
<1> DEFINE q == [ReadBodyHandlers(r) EXCEPT !.phase = p]
<1>1. /\ Only(r, q, {"phase", "readH", "writeH"}) /\ q.phase = p
      /\ q.readH = "read_body" /\ q.writeH = "empty"
  BY Zenon DEF Fit, Only, Shape, Fields, ReadBodyHandlers
<1> HIDE DEF q
<1>2. /\ q.page = r.page /\ q.connH = r.connH /\ Shape(q)
      /\ q.headerSent = r.headerSent /\ q.buffered = r.buffered
  BY Zenon, <1>1 DEF Only, Fields
<1>3. /\ r.page = "orig" /\ (r.buffered => r.headerSent)
      /\ r.connH = "request_handler"
      /\ ~e.start /\ ~e.reqbody /\ ~e.final
  BY DEF Fit, Placed, Flying, Handled, Aside, BodyPhases, LatePhases, StagesOf
<1>4. ~f.start /\ ~f.reqbody /\ ~f.final
  BY Zenon, <1>3 DEF SameTasks
<1>5. Placed(q, f)
  BY <1>1, <1>2, <1>3 DEF Placed, EarlyPhases, BodyPhases
<1>6. Flying(q, f) /\ Saved(q, f)
  BY Zenon, <1>4 DEF Flying, Saved
<1>7. Handled(q, f)
  BY <1>1, <1>2, <1>3, <1>4 DEF Handled
<1> QED BY Zenon, <1>2, <1>5, <1>6, <1>7 DEF Fit, q, Placed, Ended

(* The second task is submitted: the reading of the body is suspended.     *)
LEMMA BodySubmitFit ==
  ASSUME NEW r, NEW e, NEW f, Fit(r, e), r.live, r.phase \in {"preread", "body"},
         e.stage \in {"AFTER_BEGIN_WAF", "COLLECTING_ON_REQ_DATA"},
         f.stage = "SUSPENDED_ON_REQ_WAF", f.held,
         f.start = e.start, f.final = e.final, f.reqbody, f.bodyW = r.writeH
  PROVE  Fit([Submitted(r, "reqbody") EXCEPT !.phase = "body"], f)
<1> DEFINE q == [Submitted(r, "reqbody") EXCEPT !.phase = "body"]
<1>1. Shape(r) /\ r.count + 1 \in Int /\ r.blocked + 1 \in Int
  BY DEF Fit, Shape
<1>2. /\ Only(r, q, {"phase", "count", "blocked", "readH", "writeH"})
      /\ q.phase = "body" /\ q.readH = "block_reading"
      /\ q.writeH = "task_empty"
  BY Zenon, <1>1 DEF Only, Shape, Fields, Submitted, ReplaceHandlers
<1> HIDE DEF q
<1>3. /\ q.page = r.page /\ q.connH = r.connH /\ Shape(q)
      /\ q.headerSent = r.headerSent /\ q.buffered = r.buffered
      /\ q.error = r.error
  BY Zenon, <1>2 DEF Only, Fields
<1>4. /\ r.page = "orig" /\ ~r.headerSent /\ ~r.buffered
      /\ r.connH = "request_handler"
      /\ ~e.start /\ ~e.reqbody /\ ~e.final
      /\ r.writeH \notin {"task_empty", "drain", "writer"}
      /\ r.writeH = "finalizer" => r.error
  BY DEF Fit, Placed, Flying, Handled, Aside, BodyPhases, LatePhases
<1>5. ~f.start /\ ~f.final
  BY Zenon, <1>4
<1>6. Placed(q, f)
  BY <1>2, <1>3, <1>4 DEF Placed, StagesOf, EarlyPhases, BodyPhases
<1>7. Flying(q, f)
  BY Zenon, <1>2, <1>5 DEF Flying
<1>8. Handled(q, f)
  BY <1>2, <1>3, <1>4, <1>5 DEF Handled
<1>9. Saved(q, f)
  BY Zenon, <1>3, <1>4, <1>5 DEF Saved
<1> QED BY Zenon, <1>3, <1>6, <1>7, <1>8, <1>9 DEF Fit, q, Placed, Ended

(* The filter failed: nginx's error page follows, or the request ends.     *)
LEMMA FailEnds ==
  ASSUME NEW r, Shape(r), r.phase \in BodyPhases,
         r.phase = "body" /\ (r.error \/ r.headerSent) => ~(r.blocked > 0)
  PROVE  LET q == EventEnds(FinalizeRequest(r, "internal_error"))
         IN  q.live => q.phase \in {"special", "finalized"}
<1> DEFINE h == [r EXCEPT !.connH = "request_handler"]
           s == [h EXCEPT !.phase = "special", !.page = "special"]
           Ends(t) == EventEnds(t).live => EventEnds(t).phase = "finalized"
<1>1. Shape(h) /\ h.phase = r.phase /\ h.blocked = r.blocked
  BY Zenon DEF Shape, Fields
<1>2. s.phase = "special" /\ EventEnds(s) = s
  BY Zenon DEF Shape, Fields, EventEnds, Busy
<1>3. ASSUME NEW t, Shape(t), t.phase \in BodyPhases,
             t.phase = "body" => ~(t.blocked > 0)
      PROVE  Ends(TerminateRequest(t))
  <2> DEFINE u == TerminateRequest(t)
             v == [u EXCEPT !.posted = FALSE, !.count = 1]
  <2>1. /\ Shape(u) /\ u.blocked = t.blocked
        /\ u.phase = IF t.phase = "body" THEN "body" ELSE "finalized"
        /\ t.phase = "body" => u.posted
    <3>1. Only(t, u, {"phase", "terminated", "error", "writeH", "posted"})
      BY Zenon, <1>3, TerminateEffect
    <3>2. u.blocked = t.blocked /\ Shape(u)
      BY Zenon, <3>1 DEF Only, Fields
    <3> QED BY Zenon, <1>3, <3>2, TerminateEffect
  <2> HIDE DEF u
  <2>2. Shape(v) /\ v.phase = u.phase /\ v.count = 1 /\ v.blocked = u.blocked
    <3>1. 1 \in Int
      OBVIOUS
    <3> QED BY Zenon, <2>1, <3>1 DEF Shape, Fields
  <2> HIDE DEF v
  <2>3. CASE t.phase = "body"
    <3>1. EventEnds(u) = CloseRequest(v)
      BY Zenon, <2>1, <2>3 DEF EventEnds, Busy, RunPostedRequests, v
    <3>2. ~(v.count - 1 > 0) /\ ~(v.blocked > 0)
      BY <1>3, <2>1, <2>2, <2>3
    <3> QED BY Zenon, <2>2, <3>1, <3>2, CloseEffect DEF u
  <2>4. CASE t.phase # "body"
    <3>1. CloseRequest(v).phase = v.phase
      BY Zenon, <2>2, CloseEffect DEF Only, Fields
    <3> QED BY Zenon, <2>1, <2>2, <2>4, <3>1
               DEF EventEnds, RunPostedRequests, u, v
  <2> QED BY Zenon, <2>3, <2>4
<1>4. FinalizeRequest(r, "internal_error") =
        IF r.error THEN TerminateRequest(r)
        ELSE IF r.headerSent THEN TerminateRequest(h) ELSE s
  BY Zenon DEF FinalizeRequest
<1> HIDE DEF h, s
<1>5. CASE r.error
  BY Zenon, <1>3, <1>4, <1>5
<1>6. CASE ~r.error /\ r.headerSent
  BY Zenon, <1>1, <1>3, <1>4, <1>6
<1>7. CASE ~r.error /\ ~r.headerSent
  BY Zenon, <1>2, <1>4, <1>7
<1> QED BY Zenon, <1>5, <1>6, <1>7

(* What the filter is given follows what it was given before.              *)
LEMMA GivenPieces ==
  ASSUME Frame, BodyHeld, NEW n \in 0 .. Len(conf.reqBody) - reqIn
  PROVE  /\ NextReqPieces(n) \in Seq(Buffer)
         /\ reqIn + n \in 0 .. Len(conf.reqBody)
         /\ reqDown \o (rb.out \o NextReqPieces(n)) =
              SubSeq(ReqPieces, 1, reqIn + n)
<1>1. ReqPieces \in Seq(Buffer) /\ Len(ReqPieces) = Len(conf.reqBody)
  BY Zenon, ReqPiecesType DEF Frame
<1>2. reqDown \in Seq(Buffer) /\ rb.out \in Seq(Buffer)
  BY Zenon DEF Frame
<1>3. /\ reqIn \in 0 .. Len(ReqPieces) /\ n \in 0 .. Len(ReqPieces) - reqIn
      /\ reqDown \o rb.out = SubSeq(ReqPieces, 1, reqIn)
  BY Zenon, <1>1 DEF BodyHeld
<1>4. reqIn + n \in 0 .. Len(conf.reqBody)
  <2>1. Len(conf.reqBody) \in Nat
    BY <1>1
  <2>2. reqIn \in 0 .. Len(conf.reqBody)
    BY Zenon, <1>1, <1>3
  <2> QED BY <2>1, <2>2
<1>5. Split(Buffer, ReqPieces, reqDown, rb.out, reqIn)
  BY Zenon, <1>1, <1>2, <1>3 DEF Split
<1>6. /\ NextReqPieces(n) \in Seq(Buffer)
      /\ Split(Buffer, ReqPieces, reqDown, rb.out \o NextReqPieces(n), reqIn + n)
  BY Zenon, <1>3, <1>5, MorePieces DEF NextReqPieces
<1> QED BY Zenon, <1>4, <1>6 DEF Split

(* It is buffered, passed on, or passed on after what was buffered.        *)
LEMMA TakenPieces ==
  ASSUME Frame, BodyHeld, NEW n \in 0 .. Len(conf.reqBody) - reqIn,
         conf' = conf, reqIn' = reqIn + n,
         \/ reqDown' = reqDown /\ rb'.out = rb.out \o NextReqPieces(n)
         \/ /\ rb.out = << >> /\ rb' = rb
            /\ reqDown' = reqDown \o NextReqPieces(n)
         \/ /\ rb'.out = << >>
            /\ reqDown' = reqDown \o (rb.out \o NextReqPieces(n))
  PROVE  /\ reqDown' \in Seq(Buffer) /\ rb'.out \in Seq(Buffer)
         /\ reqIn' \in 0 .. Len(conf'.reqBody)
         /\ (reqDown \o rb.out = SubSeq(ReqPieces, 1, reqIn))'
         /\ Begins(reqDown, ReqPieces)'
         /\ Len(reqDown') = Len(conf'.reqBody) => Now'.passed
<1> DEFINE in == NextReqPieces(n)
           s  == ReqPieces
<1>1. /\ in \in Seq(Buffer) /\ reqIn + n \in 0 .. Len(conf.reqBody)
      /\ reqDown \o (rb.out \o in) = SubSeq(s, 1, reqIn + n)
  BY Zenon, GivenPieces
<1>2. /\ s \in Seq(Buffer) /\ Len(s) = Len(conf.reqBody) /\ ReqPieces' = s
  BY Zenon, ReqPiecesType DEF Frame, ReqPieces
<1>3. reqDown \in Seq(Buffer) /\ rb.out \in Seq(Buffer)
  BY Zenon DEF Frame
<1> HIDE DEF in, s
<1>4. /\ rb.out \o in \in Seq(Buffer) /\ reqDown \o in \in Seq(Buffer)
      /\ reqDown \o (rb.out \o in) \in Seq(Buffer)
  BY Zenon, <1>1, <1>3, ConcatFacts
<1>5. << >> \in Seq(Buffer) /\ \A a \in Seq(Buffer) : a \o << >> = a
  OBVIOUS
<1>6. \A a \in Seq(Buffer) : << >> \o a = a
  OBVIOUS
<1>7. reqDown' \in Seq(Buffer) /\ rb'.out \in Seq(Buffer)
  BY Zenon, <1>3, <1>4, <1>5 DEF in
<1>8. reqDown' \o rb'.out = SubSeq(s, 1, reqIn + n)
  <2>1. CASE reqDown' = reqDown /\ rb'.out = rb.out \o in
    BY Zenon, <1>1, <2>1
  <2>2. CASE rb.out = << >> /\ rb' = rb /\ reqDown' = reqDown \o in
    <3>1. rb.out \o in = in
      BY Zenon, <1>1, <1>6, <2>2
    <3>2. reqDown' \o rb'.out = reqDown'
      BY Zenon, <1>5, <1>7, <2>2
    <3> QED BY Zenon, <1>1, <2>2, <3>1, <3>2
  <2>3. CASE rb'.out = << >> /\ reqDown' = reqDown \o (rb.out \o in)
    <3>1. reqDown' \o rb'.out = reqDown'
      BY Zenon, <1>5, <1>7, <2>3
    <3> QED BY Zenon, <1>1, <2>3, <3>1
  <2> QED BY Zenon, <2>1, <2>2, <2>3 DEF in
<1>9. /\ Len(reqDown') \in 0 .. Len(s) /\ reqDown' = SubSeq(s, 1, Len(reqDown'))
      /\ Len(reqDown') = Len(s) => reqDown' = s
  <2>1. reqIn + n \in 0 .. Len(s)
    BY Zenon, <1>1, <1>2
  <2>2. Split(Buffer, s, reqDown', rb'.out, reqIn + n)
    BY Zenon, <1>2, <1>7, <1>8, <2>1 DEF Split
  <2> QED BY Zenon, <2>2, PassedBegins
<1>10. Begins(reqDown, ReqPieces)'
  BY Zenon, <1>2, <1>9 DEF Begins
<1>11. Len(reqDown') = Len(conf'.reqBody) => Now'.passed
  BY Zenon, <1>2, <1>9, NextFields
<1> QED BY Zenon, <1>1, <1>2, <1>7, <1>8, <1>10, <1>11

(* The five things a call of the filter may do: fail, hold the pieces      *)
(* back, pass them on, pass them on after the buffered ones, submit.       *)
Awaiting == {"AFTER_BEGIN_WAF", "COLLECTING_ON_REQ_DATA"}

Failed(in, preread) ==
  /\ task' = task /\ reqDown' = reqDown
  /\ rb' = rb \/ \E m \in 0 .. Len(in) - 1 : rb'.out = rb.out \o SubSeq(in, 1, m)
  /\ \/ stage' = stage
     \/ /\ stage \in Awaiting
        /\ stage' \in {"COLLECTING_ON_REQ_DATA_PREREAD",
                       "COLLECTING_ON_REQ_DATA"}
  /\ req' = AfterRequestFilter(preread, req, "internal_error", reqDown)

Held(in, preread) ==
  /\ task' = task /\ reqDown' = reqDown /\ rb'.out = rb.out \o in
  /\ \/ stage \in Awaiting /\ stage' = "COLLECTING_ON_REQ_DATA"
     \/ stage = "SUSPENDED_ON_REQ_WAF" /\ stage' = stage
  /\ \E rc \in {"ok", "error"} :
       req' = AfterRequestFilter(preread, req, rc, reqDown)

PassedOn(in, preread) ==
  /\ task' = task /\ reqDown' = reqDown \o in /\ rb' = rb /\ stage' = stage
  /\ stage \notin Awaiting \cup {"SUSPENDED_ON_REQ_WAF"}
  /\ AfterReqWaf => rb.out = << >>
  /\ req' = AfterRequestFilter(preread, req, "ok", reqDown')

Released(in, preread) ==
  /\ task' = task /\ reqDown' = reqDown \o (rb.out \o in) /\ rb'.out = << >>
  /\ \/ AfterReqWaf /\ stage' = stage
     \/ stage \in Awaiting /\ stage' = "AFTER_ON_REQ_WAF"
  /\ preread => stage # "AFTER_BEGIN_WAF"
  /\ \E r : /\ r = req \/ r = NotSubmitted(req, "reqbody")
            /\ req' = AfterRequestFilter(preread, r, "ok", reqDown')

SubmittedBody(in, preread) ==
  /\ stage \in Awaiting /\ stage' = "SUSPENDED_ON_REQ_WAF"
  /\ preread => stage # "AFTER_BEGIN_WAF"
  /\ \E due : task' = [task EXCEPT !["reqbody"] = NewTask(req, due)]
  /\ reqDown' = reqDown /\ rb'.out = rb.out \o in
  /\ req' = AfterRequestFilter(preread, Submitted(req, "reqbody"), "ok", reqDown)

(* do_request_body_filter does one of them.                                *)
LEMMA BodyFilterCases ==
  ASSUME NEW in, NEW preread \in BOOLEAN, RequestBodyFilter(in, preread)
  PROVE  \/ Failed(in, preread) \/ Held(in, preread) \/ PassedOn(in, preread)
         \/ Released(in, preread) \/ SubmittedBody(in, preread)
<1>1. \A f, c : BufferChain(f, in, c).out = f.out \o in
  BY Zenon DEF BufferChain
<1>2. \A f : Clear(f).out = << >>
  BY Zenon DEF Clear, EmptyFilterCtx
<1>3. ASSUME NEW st, NEW c, ReqBufferFails(st, in, c, preread),
             \/ st = stage
             \/ /\ stage \in Awaiting
                /\ st \in {"COLLECTING_ON_REQ_DATA_PREREAD",
                           "COLLECTING_ON_REQ_DATA"}
      PROVE  Failed(in, preread)
  <2>1. rb' = rb \/ \E m \in 0 .. Len(in) - 1 : rb' = BufferChain(rb, SubSeq(in, 1, m), c)
    BY Zenon, <1>3 DEF ReqBufferFails, BufferChainFailures
  <2>2. \A m : BufferChain(rb, SubSeq(in, 1, m), c).out = rb.out \o SubSeq(in, 1, m)
    BY Zenon DEF BufferChain
  <2> QED BY Zenon, <1>3, <2>1, <2>2 DEF ReqBufferFails, Failed
<1>4. ASSUME NEW st, NEW c, ReqBuffer(st, in, c, preread),
             \/ stage \in Awaiting /\ st = "COLLECTING_ON_REQ_DATA"
             \/ stage = "SUSPENDED_ON_REQ_WAF" /\ st = stage
      PROVE  Held(in, preread)
  BY Zenon, <1>1, <1>4 DEF ReqBuffer, Held
<1>5. ASSUME NEW r, NEW st, ReqPassDownstream(r, st, in, preread),
             r = req \/ r = NotSubmitted(req, "reqbody"),
             \/ AfterReqWaf /\ st = stage
             \/ stage \in Awaiting /\ st = "AFTER_ON_REQ_WAF",
             preread => stage # "AFTER_BEGIN_WAF"
      PROVE  Released(in, preread)
  BY Zenon, <1>1, <1>2, <1>5 DEF ReqPassDownstream, Released
<1>6. ASSUME ReqPass(in, preread), AfterReqWaf => rb.out = << >>,
             stage \notin Awaiting \cup {"SUSPENDED_ON_REQ_WAF"}
      PROVE  PassedOn(in, preread)
  BY Zenon, <1>6 DEF ReqPass, PassedOn
<1>7. ASSUME ReqRunWaf(in, preread), stage \in Awaiting,
             preread => stage # "AFTER_BEGIN_WAF"
      PROVE  \/ Held(in, preread) \/ Released(in, preread)
             \/ SubmittedBody(in, preread)
  <2> DEFINE f == BufferChain(rb, in, FALSE)
  <2>1. CASE /\ stage' = "SUSPENDED_ON_REQ_WAF" /\ rb' = f
             /\ task' = [task EXCEPT !["reqbody"] = NewTask(req, f.out_total)]
             /\ req' = AfterRequestFilter(preread, Submitted(req, "reqbody"),
                                          "ok", reqDown)
             /\ reqDown' = reqDown
    <3>1. \E due : task' = [task EXCEPT !["reqbody"] = NewTask(req, due)]
      BY Zenon, <2>1
    <3> QED BY Zenon, <1>1, <1>7, <2>1, <3>1 DEF SubmittedBody
  <2>2. CASE ReqPassDownstream(NotSubmitted(req, "reqbody"),
                               "AFTER_ON_REQ_WAF", in, preread)
    BY Zenon, <1>5, <1>7, <2>2
  <2>3. CASE /\ stage' = "COLLECTING_ON_REQ_DATA" /\ rb' = f
             /\ req' = AfterRequestFilter(preread, req, "error", reqDown)
             /\ reqDown' = reqDown /\ task' = task
    BY Zenon, <1>1, <1>7, <2>3 DEF Held
  <2> QED BY Zenon, <1>7, <2>1, <2>2, <2>3 DEF ReqRunWaf
<1> DEFINE collecting == \/ stage = "AFTER_BEGIN_WAF" /\ ~preread
                         \/ stage = "COLLECTING_ON_REQ_DATA"
<1>8. collecting => stage \in Awaiting /\ (preread => stage # "AFTER_BEGIN_WAF")
  BY Zenon DEF Awaiting
<1>9. CASE stage = "AFTER_BEGIN_WAF" /\ preread
           /\ \/ ReqBuffer("COLLECTING_ON_REQ_DATA", in, TRUE, preread)
              \/ ReqBufferFails("COLLECTING_ON_REQ_DATA_PREREAD", in, TRUE,
                                preread)
  BY Zenon, <1>3, <1>4, <1>9 DEF Awaiting
<1>10. CASE /\ collecting
            /\ \/ ReqBuffer("COLLECTING_ON_REQ_DATA", in, TRUE, preread)
               \/ ReqBufferFails("COLLECTING_ON_REQ_DATA", in, TRUE, preread)
               \/ ReqRunWaf(in, preread)
               \/ ReqPassDownstream(req, "AFTER_ON_REQ_WAF", in, preread)
               \/ ReqBufferFails("COLLECTING_ON_REQ_DATA", in, FALSE, preread)
  BY Zenon, <1>3, <1>4, <1>5, <1>7, <1>8, <1>10
<1>11. CASE /\ AfterReqWaf
            /\ \/ ReqPassDownstream(req, stage, in, preread)
               \/ ReqBufferFails(stage, in, FALSE, preread)
               \/ rb.out = << >> /\ ReqPass(in, preread)
  <2>1. /\ stage \notin Awaiting \cup {"SUSPENDED_ON_REQ_WAF"}
        /\ stage # "AFTER_BEGIN_WAF"
    BY <1>11 DEF AfterReqWaf, Awaiting
  <2> QED BY Zenon, <1>3, <1>5, <1>6, <1>11, <2>1
<1>12. CASE /\ stage = "SUSPENDED_ON_REQ_WAF"
            /\ \/ ReqBuffer(stage, in, FALSE, preread)
               \/ ReqBufferFails(stage, in, FALSE, preread)
  BY Zenon, <1>3, <1>4, <1>12
<1>13. CASE /\ ~collecting /\ ~AfterReqWaf
            /\ stage \notin {"AFTER_BEGIN_WAF", "SUSPENDED_ON_REQ_WAF"}
            /\ ReqPass(in, preread)
  <2>1. stage \notin Awaiting \cup {"SUSPENDED_ON_REQ_WAF"}
    BY <1>13 DEF Awaiting
  <2> QED BY Zenon, <1>6, <1>13, <2>1
<1> QED BY Zenon, <1>9, <1>10, <1>11, <1>12, <1>13 DEF RequestBodyFilter

(* The invariant's part about the body, if the filter did not fail: what   *)
(* is held back is held by a context that waits for a WAF run.             *)
LEMMA TakenFrame ==
  ASSUME RInv, Now.held, NEW n \in 0 .. Len(conf.reqBody) - reqIn,
         NEW preread, conf' = conf, ctx' = ctx, reqIn' = reqIn + n,
         \/ Held(NextReqPieces(n), preread)
         \/ PassedOn(NextReqPieces(n), preread)
         \/ Released(NextReqPieces(n), preread)
         \/ SubmittedBody(NextReqPieces(n), preread)
  PROVE  /\ Frame' /\ Now'.held
         /\ Len(reqDown') = Len(conf.reqBody) => Now'.passed
         /\ \/ Held(NextReqPieces(n), preread)
            \/ SubmittedBody(NextReqPieces(n), preread)
            => Len(reqDown) # Len(conf.reqBody)
<1> DEFINE in == NextReqPieces(n)
<1>1. Frame /\ BodyHeld /\ IInv
  BY Zenon, NowFields DEF RInv
<1>2. PassedOn(in, preread) => rb.out = << >>
  BY Zenon, <1>1 DEF PassedOn, BodyHeld, AfterReqWaf, Awaiting
<1>3. \/ reqDown' = reqDown /\ rb'.out = rb.out \o in
      \/ rb.out = << >> /\ rb' = rb /\ reqDown' = reqDown \o in
      \/ rb'.out = << >> /\ reqDown' = reqDown \o (rb.out \o in)
  BY Zenon, <1>2 DEF Held, PassedOn, Released, SubmittedBody
<1>4. /\ reqDown' \in Seq(Buffer) /\ rb'.out \in Seq(Buffer)
      /\ reqIn' \in 0 .. Len(conf'.reqBody)
      /\ (reqDown \o rb.out = SubSeq(ReqPieces, 1, reqIn))'
      /\ Begins(reqDown, ReqPieces)'
      /\ Len(reqDown') = Len(conf'.reqBody) => Now'.passed
  <2> HIDE DEF in
  <2>1. /\ reqIn' = reqIn + n /\ conf' = conf
        /\ \/ reqDown' = reqDown /\ rb'.out = rb.out \o NextReqPieces(n)
           \/ /\ rb.out = << >> /\ rb' = rb
              /\ reqDown' = reqDown \o NextReqPieces(n)
           \/ /\ rb'.out = << >>
              /\ reqDown' = reqDown \o (rb.out \o NextReqPieces(n))
    BY Zenon, <1>3 DEF in
  <2> QED BY Zenon, <1>1, <2>1, TakenPieces
<1>5. /\ stage' \in Stages
      /\ rb'.out # << >> =>
           stage' \in {"COLLECTING_ON_REQ_DATA", "SUSPENDED_ON_REQ_WAF",
                       "AFTER_ON_REQ_WAF", "AFTER_ON_REQ_WAF_BLOCK"}
      /\ stage' \in {"AFTER_BEGIN_WAF", "COLLECTING_ON_REQ_DATA",
                     "SUSPENDED_ON_REQ_WAF"} => reqDown' = << >>
  <2>1. CASE Held(in, preread)
    BY <1>1, <2>1 DEF Held, BodyHeld, Awaiting, Stages
  <2>2. CASE PassedOn(in, preread)
    BY <1>1, <1>2, <2>2 DEF PassedOn, Awaiting, Frame
  <2>3. CASE Released(in, preread)
    BY <1>1, <2>3 DEF Released, AfterReqWaf, Stages
  <2>4. CASE SubmittedBody(in, preread)
    BY <1>1, <2>4 DEF SubmittedBody, BodyHeld, Awaiting, Stages
  <2> QED BY Zenon, <2>1, <2>2, <2>3, <2>4
<1>6. BodyHeld'
  BY Zenon, <1>1, <1>4, <1>5 DEF BodyHeld
<1>7. \A k \in Kinds : SavedFields \subseteq DOMAIN task'[k]
  <2>1. CASE task' = task
    BY Zenon, <1>1, <2>1 DEF Frame
  <2>2. CASE SubmittedBody(in, preread)
    BY Zenon, <1>1, <2>2, NewTaskFields DEF SubmittedBody, Kinds
  <2> QED BY Zenon, <2>1, <2>2 DEF Held, PassedOn, Released
<1>8. Frame'
  BY Zenon, <1>1, <1>4, <1>5, <1>7 DEF Frame
<1>9. Held(in, preread) \/ SubmittedBody(in, preread) =>
        Len(reqDown) # Len(conf.reqBody)
  <2>1. Held(in, preread) \/ SubmittedBody(in, preread) => reqDown = << >>
    BY Zenon, <1>1 DEF Held, SubmittedBody, BodyHeld, Awaiting
  <2>2. conf.reqBody \in Seq(Nat) /\ conf.reqBody # << >>
    BY Zenon, <1>1, ConstantsAssumption DEF Frame, BodyHeld, Config
  <2>3. Len(conf.reqBody) # 0 /\ Len(<< >>) = 0
    BY <2>2
  <2> QED BY Zenon, <2>1, <2>3
<1> QED BY Zenon, <1>4, <1>6, <1>8, <1>9, NextFields

(* A submission that failed, again *)
LEMMA NotSubmittedFit ==
  ASSUME NEW r, NEW e, NEW k, Fit(r, e)
  PROVE  LET q == NotSubmitted(r, k)
         IN  Fit(q, e) /\ q.phase = r.phase /\ q.live = r.live
             /\ q.headerSent = r.headerSent
<1>1. Only(r, NotSubmitted(r, k), {})
  BY Zenon, NotSubmittedSame DEF Fit
<1>2. Milder(r, NotSubmitted(r, k))
  BY Zenon, <1>1 DEF Milder, Only, Fields
<1> QED BY Zenon, <1>1, <1>2, MilderFit DEF Only, Fields

(* The filter failed.                                                      *)
LEMMA FailedFit ==
  ASSUME RInv, req.live, req.phase \in BodyPhases,
         NEW n \in 0 .. Len(conf.reqBody) - reqIn, NEW preread \in BOOLEAN,
         conf' = conf, ctx' = ctx, Failed(NextReqPieces(n), preread),
         req.phase = "body" /\ (req.error \/ req.headerSent) =>
           ~(req.blocked > 0)
  PROVE  Frame' /\ Fit(req', Now')
<1> DEFINE in == NextReqPieces(n)
           q  == EventEnds(FinalizeRequest(req, "internal_error"))
<1>1. /\ Frame /\ BodyHeld /\ Fit(req, Now) /\ Shape(req)
      /\ Now.stage = stage /\ Now'.stage = stage'
  BY Zenon, NowFields, NextFields DEF RInv, Fit, Placed
<1>2. req' = q
  BY Zenon DEF Failed, AfterRequestFilter, AfterPrereadCall, AfterBodyCall
<1>3. Fit(q, Now)
  BY Zenon, <1>1, FinalizeFit, ReturnFit DEF Frame
<1>4. q.live => q.phase \in {"special", "finalized"}
  BY Zenon, <1>1, FailEnds
<1>5. rb'.out \in Seq(Buffer)
  <2>1. in \in Seq(Buffer) /\ rb.out \in Seq(Buffer)
    BY Zenon, <1>1, GivenPieces DEF Frame
  <2> HIDE DEF in
  <2>2. ASSUME NEW m \in 0 .. Len(in) - 1
        PROVE  rb.out \o SubSeq(in, 1, m) \in Seq(Buffer)
    <3>1. m \in 0 .. Len(in)
      BY <2>1
    <3>2. SubSeq(in, 1, m) \in Seq(Buffer)
      BY Zenon, <2>1, <3>1, PrefixFacts
    <3> QED BY Zenon, <2>1, <3>2, ConcatFacts
  <2> QED BY Zenon, <2>1, <2>2 DEF Failed, in
<1>6. stage' \in Stages
  BY Zenon, <1>1 DEF Failed, Frame, Stages
<1>7. ReqPieces' = ReqPieces /\ reqDown' = reqDown /\ task' = task
  BY Zenon DEF ReqPieces, Failed
<1>8. Frame'
  BY Zenon, <1>1, <1>5, <1>6, <1>7 DEF Frame, Begins
<1>9. SameTasks(Now, Now') /\ Now'.prev = Now.prev /\ Now'.passed = Now.passed
  BY Zenon, <1>7, TasksSame, NowFields, NextFields
<1>10. \/ Now'.stage = Now.stage
       \/ Now.stage \in LooseStages /\ Now'.stage # "AFTER_BEGIN_WAF_BLOCK"
  BY <1>1 DEF Failed, Awaiting, LooseStages, Stages
<1>11. q.live => q.phase \in LatePhases
  BY Zenon, <1>4 DEF LatePhases
<1> HIDE DEF q
<1>12. Fit(q, Now')
  BY Zenon, <1>1, <1>3, <1>6, <1>9, <1>10, <1>11, LateFit DEF Frame
<1> QED BY Zenon, <1>2, <1>8, <1>12

(* The body is read on read events only.                                   *)
LEMMA NoPrereadFit == RInv /\ NoPreread => Frame' /\ Fit(req', Now')
<1> SUFFICES ASSUME RInv, NoPreread PROVE Frame' /\ Fit(req', Now')
  OBVIOUS
<1>1. /\ req.live /\ req.phase = "body_start" /\ Elsewhere
      /\ stage' = stage /\ task' = task /\ ctx' = ctx
      /\ req' = [ReadBodyHandlers(req) EXCEPT !.phase = "body"]
  BY Zenon DEF NoPreread, MainThreadFree, Elsewhere
<1>2. Now' = Now /\ Frame'
  BY Zenon, <1>1, SameNow, ElsewhereFrame DEF RInv, Frame
<1>3. Now.held /\ ~req.headerSent /\ Now.stage \in StagesOf("body")
  BY <1>1 DEF RInv, Fit, Placed, StagesOf, EarlyPhases, BodyPhases
<1>4. SameTasks(Now, Now)
  BY Zenon DEF SameTasks
<1>5. Fit([ReadBodyHandlers(req) EXCEPT !.phase = "body"], Now)
  BY Zenon, <1>1, <1>3, <1>4, ReadingFit DEF RInv
<1> QED BY Zenon, <1>1, <1>2, <1>5

(* The part of the body that came with the header is filtered.             *)
LEMMA PrereadBodyFit == RInv /\ PrereadBody => Frame' /\ Fit(req', Now')
<1> SUFFICES ASSUME RInv, PrereadBody PROVE Frame' /\ Fit(req', Now')
  OBVIOUS
<1>1. /\ req.live /\ req.phase = "body_start" /\ conf' = conf /\ ctx' = ctx
      /\ \E n \in 1 .. Len(conf.reqBody) :
           RequestBodyFilter(NextReqPieces(n), TRUE) /\ reqIn' = n
  BY Zenon DEF PrereadBody, MainThreadFree
<1>2. PICK n \in 1 .. Len(conf.reqBody) :
           RequestBodyFilter(NextReqPieces(n), TRUE) /\ reqIn' = n
  BY Zenon, <1>1
<1>3. /\ Now.held /\ Now.fresh /\ ~req.headerSent /\ req.phase \in BodyPhases
      /\ Now.stage \in {"DISABLED", "ENTERED_ON_START", "AFTER_BEGIN_WAF"}
  BY <1>1 DEF RInv, Fit, Placed, StagesOf, EarlyPhases, BodyPhases
<1>4. reqIn = 0 /\ BodyHeld /\ stage = Now.stage /\ stage' = Now'.stage
      /\ Fit(req, Now) /\ Frame
  BY Zenon, <1>3, NowFields, NextFields DEF RInv
<1>5. n \in 0 .. Len(conf.reqBody) - reqIn /\ reqIn' = reqIn + n
  <2>1. Len(conf.reqBody) \in Nat
    <3>1. conf.reqBody \in Seq(Nat)
      BY Zenon, <1>4, ConstantsAssumption DEF Frame, Config
    <3> QED BY <3>1
  <2>2. reqIn = 0 /\ reqIn' = n
    BY Zenon, <1>2, <1>4
  <2> QED BY <2>1, <2>2
<1> DEFINE in == NextReqPieces(n)
<1> HIDE DEF in
<1>6. CASE Failed(in, TRUE)
  BY Zenon, <1>1, <1>3, <1>5, <1>6, FailedFit DEF in
<1>7. CASE Held(in, TRUE)
  <2>1. /\ Frame' /\ Now'.held /\ Len(reqDown) # Len(conf.reqBody)
    BY Zenon, <1>1, <1>3, <1>5, <1>7, TakenFrame DEF in
  <2>2. /\ stage' = "COLLECTING_ON_REQ_DATA" /\ task' = task
        /\ req' = [ReadBodyHandlers(req) EXCEPT !.phase = "preread"]
    BY Zenon, <1>3, <1>4, <1>7, <2>1
       DEF Held, AfterRequestFilter, AfterPrereadCall
  <2>3. Now'.stage \in StagesOf("preread")
    BY <1>4, <2>2 DEF StagesOf
  <2>4. SameTasks(Now, Now')
    BY Zenon, <2>2, TasksSame
  <2>5. Fit([ReadBodyHandlers(req) EXCEPT !.phase = "preread"], Now')
    BY Zenon, <1>1, <1>3, <1>4, <2>1, <2>3, <2>4, ReadingFit
  <2> QED BY Zenon, <2>1, <2>2, <2>5
<1>8. CASE PassedOn(in, TRUE)
  <2>1. /\ Frame' /\ Now'.held
        /\ Len(reqDown') = Len(conf.reqBody) => Now'.passed
    BY Zenon, <1>1, <1>3, <1>5, <1>8, TakenFrame DEF in
  <2>2. /\ stage' = stage /\ task' = task /\ stage # "AFTER_BEGIN_WAF"
        /\ req' = AfterPrereadCall(req, "ok", reqDown')
    BY Zenon, <1>8 DEF PassedOn, Awaiting, AfterRequestFilter
  <2>3. /\ Now'.stage \in StagesOf("preread") /\ Now'.stage \in Stages
        /\ Now.stage # "SUSPENDED_ON_REQ_WAF"
    BY <1>3, <1>4, <2>2 DEF StagesOf, Stages
  <2>4. SameTasks(Now, Now')
    BY Zenon, <2>2, TasksSame
  <2>5. CASE Len(reqDown') = Len(conf.reqBody)
    <3>1. req' = EventEnds(StartContent(req))
      BY Zenon, <2>2, <2>5 DEF AfterPrereadCall, AfterBodyCall
    <3>2. Fit(StartContent(req), Now')
      BY Zenon, <1>1, <1>3, <1>4, <2>1, <2>3, <2>4, <2>5, ContentFit
    <3> QED BY Zenon, <2>1, <3>1, <3>2, ReturnFit
  <2>6. CASE Len(reqDown') # Len(conf.reqBody)
    <3>1. req' = [ReadBodyHandlers(req) EXCEPT !.phase = "preread"]
      BY Zenon, <2>2, <2>6 DEF AfterPrereadCall
    <3>2. Fit([ReadBodyHandlers(req) EXCEPT !.phase = "preread"], Now')
      BY Zenon, <1>1, <1>3, <1>4, <2>1, <2>3, <2>4, ReadingFit
    <3> QED BY Zenon, <2>1, <3>1, <3>2
  <2> QED BY Zenon, <2>5, <2>6
<1>9. ~Released(in, TRUE) /\ ~SubmittedBody(in, TRUE)
  <2>1. ~AfterReqWaf /\ (stage \in Awaiting => stage = "AFTER_BEGIN_WAF")
    BY <1>3, <1>4 DEF AfterReqWaf, Awaiting
  <2> QED BY Zenon, <2>1 DEF Released, SubmittedBody
<1>10. \/ Failed(in, TRUE) \/ Held(in, TRUE) \/ PassedOn(in, TRUE)
       \/ Released(in, TRUE) \/ SubmittedBody(in, TRUE)
  BY Zenon, <1>2, BodyFilterCases DEF in
<1> QED BY Zenon, <1>6, <1>7, <1>8, <1>9, <1>10

(* More of the body is read and filtered.                                  *)
LEMMA ReadBodyFit == RInv /\ ReadBody => Frame' /\ Fit(req', Now')
<1> SUFFICES ASSUME RInv, ReadBody PROVE Frame' /\ Fit(req', Now')
  OBVIOUS
<1>1. /\ req.live /\ req.phase \in {"preread", "body"} /\ conf' = conf
      /\ ctx' = ctx
      /\ req.phase = "body" =>
           \/ req.readH = "read_body"
           \/ stage = "SUSPENDED_ON_REQ_WAF" /\ ~req.error
      /\ \E n \in 0 .. Len(conf.reqBody) - reqIn :
           RequestBodyFilter(NextReqPieces(n), FALSE) /\ reqIn' = reqIn + n
  BY Zenon DEF ReadBody
<1>2. PICK n \in 0 .. Len(conf.reqBody) - reqIn :
           RequestBodyFilter(NextReqPieces(n), FALSE) /\ reqIn' = reqIn + n
  BY Zenon, <1>1
<1>3. /\ Fit(req, Now) /\ Frame /\ stage = Now.stage /\ stage' = Now'.stage
      /\ Placed(req, Now) /\ Flying(req, Now) /\ Handled(req, Now)
  BY Zenon, <1>1, NowFields, NextFields DEF RInv, Fit
<1>4. /\ Now.held /\ req.phase \in BodyPhases /\ ~Now.start /\ ~Now.final
      /\ req.headerSent => Now.stage = "AFTER_ON_REQ_WAF_BLOCK"
      /\ Now.stage \in StagesOf("body")
      /\ req.readH = "read_body" => ~Now.reqbody
  BY <1>1, <1>3 DEF Placed, Flying, Handled, Aside, BodyPhases, EarlyPhases,
                    LatePhases, StagesOf
<1>5. req.phase = "body" /\ (req.error \/ req.headerSent) => ~(req.blocked > 0)
  <2>1. req.phase = "body" /\ (req.error \/ req.headerSent) =>
          req.readH = "read_body"
    BY <1>1, <1>3, <1>4
  <2>2. req.readH = "read_body" =>
          ~InFlight("start") /\ ~InFlight("reqbody") /\ ~InFlight("final")
    BY Zenon, <1>4, NowFields
  <2>3. req.readH = "read_body" => Tasks = 0
    BY <2>2 DEF Tasks, B
  <2>4. req.blocked = Tasks
    BY Zenon DEF RInv, IInv
  <2>5. Tasks = 0 => ~(req.blocked > 0)
    BY <2>4
  <2> QED BY Zenon, <2>1, <2>3, <2>5
<1> DEFINE in == NextReqPieces(n)
           Call(r, p) == EventEnds(IF Len(p) = Len(conf.reqBody)
                                   THEN StartContent(r)
                                   ELSE [r EXCEPT !.phase = "body"])
<1>6. \A r, p, rc : rc # "internal_error" =>
        AfterRequestFilter(FALSE, r, rc, p) = Call(r, p)
  BY Zenon DEF AfterRequestFilter, AfterBodyCall
<1> HIDE DEF in, Call
<1>7. CASE Failed(in, FALSE)
  BY Zenon, <1>1, <1>2, <1>4, <1>5, <1>7, FailedFit DEF in
<1>8. CASE Held(in, FALSE)
  <2>1. /\ Frame' /\ Now'.held /\ Len(reqDown) # Len(conf.reqBody)
    BY Zenon, <1>1, <1>2, <1>4, <1>8, TakenFrame DEF in
  <2>2. task' = task /\ req' = EventEnds([req EXCEPT !.phase = "body"])
    <3>1. task' = task /\ req' = Call(req, reqDown)
      BY Zenon, <1>6, <1>8 DEF Held
    <3> QED BY Zenon, <2>1, <3>1 DEF Call
  <2>3. /\ Now'.stage \in StagesOf("body")
        /\ \/ Now'.stage = Now.stage
           \/ /\ Now.stage # "SUSPENDED_ON_REQ_WAF" /\ ~req.headerSent
              /\ Now'.stage # "SUSPENDED_ON_REQ_WAF"
    BY <1>3, <1>4, <1>8 DEF Held, Awaiting, StagesOf
  <2>4. SameTasks(Now, Now')
    BY Zenon, <2>2, TasksSame
  <2>5. Fit([req EXCEPT !.phase = "body"], Now')
    BY Zenon, <1>1, <1>3, <2>1, <2>3, <2>4, StayFit
  <2> QED BY Zenon, <2>1, <2>2, <2>5, ReturnFit
<1>9. CASE PassedOn(in, FALSE) \/ Released(in, FALSE)
  <2>1. /\ Frame' /\ Now'.held
        /\ Len(reqDown') = Len(conf.reqBody) => Now'.passed
    BY Zenon, <1>1, <1>2, <1>4, <1>9, TakenFrame DEF in
  <2>2. /\ task' = task
        /\ \E r : /\ r = req \/ r = NotSubmitted(req, "reqbody")
                  /\ req' = Call(r, reqDown')
    BY Zenon, <1>6, <1>9 DEF PassedOn, Released
  <2>3. PICK r : /\ r = req \/ r = NotSubmitted(req, "reqbody")
                 /\ req' = Call(r, reqDown')
    BY Zenon, <2>2
  <2>4. /\ Fit(r, Now) /\ r.live /\ r.phase = req.phase
        /\ r.headerSent = req.headerSent
    <3>1. CASE r = req
      BY Zenon, <1>1, <1>3, <3>1
    <3>2. CASE r = NotSubmitted(req, "reqbody")
      BY Zenon, <1>1, <1>3, <3>2, NotSubmittedFit
    <3> QED BY Zenon, <2>3, <3>1, <3>2
  <2>5. /\ Now'.stage \in StagesOf("body") /\ Now'.stage \in Stages
        /\ Now.stage # "SUSPENDED_ON_REQ_WAF"
        /\ \/ Now'.stage = Now.stage
           \/ /\ Now.stage # "SUSPENDED_ON_REQ_WAF" /\ ~r.headerSent
              /\ Now'.stage # "SUSPENDED_ON_REQ_WAF"
    <3>1. \/ stage' = stage /\ stage # "SUSPENDED_ON_REQ_WAF"
          \/ stage \in Awaiting /\ stage' = "AFTER_ON_REQ_WAF"
      BY Zenon, <1>9 DEF PassedOn, Released, AfterReqWaf
    <3>2. Now'.stage \in Stages
      BY Zenon, <1>3, <2>1 DEF Frame
    <3> QED BY <1>3, <1>4, <2>4, <3>1, <3>2 DEF Awaiting, StagesOf
  <2>6. SameTasks(Now, Now')
    BY Zenon, <2>2, TasksSame
  <2>7. Fit([r EXCEPT !.phase = "body"], Now')
    BY Zenon, <1>1, <2>1, <2>4, <2>5, <2>6, StayFit
  <2>8. Len(reqDown') = Len(conf.reqBody) => Fit(StartContent(r), Now')
    BY Zenon, <1>4, <2>1, <2>4, <2>5, <2>6, ContentFit
  <2> QED BY Zenon, <2>1, <2>3, <2>7, <2>8, ReturnFit DEF Call
<1>10. CASE SubmittedBody(in, FALSE)
  <2> DEFINE q == [Submitted(req, "reqbody") EXCEPT !.phase = "body"]
  <2>1. /\ Frame' /\ Now'.held /\ Len(reqDown) # Len(conf.reqBody)
    BY Zenon, <1>1, <1>2, <1>4, <1>10, TakenFrame DEF in
  <2>2. req' = EventEnds(q)
    <3>1. req' = Call(Submitted(req, "reqbody"), reqDown)
      BY Zenon, <1>6, <1>10 DEF SubmittedBody
    <3> QED BY Zenon, <2>1, <3>1 DEF Call
  <2>3. PICK due : task' = [task EXCEPT !["reqbody"] = NewTask(req, due)]
    BY Zenon, <1>10 DEF SubmittedBody
  <2>4. /\ \A j \in Kinds \ {"reqbody"} : task'[j] = task[j]
        /\ task'["reqbody"].st = "queued"
        /\ task'["reqbody"].prevWrite = req.writeH
    BY Zenon, <1>3, <2>3, NewTaskFields DEF Kinds, RInv
  <2>5. /\ task'["start"] = task["start"] /\ task'["final"] = task["final"]
    BY Zenon, <2>4 DEF Kinds
  <2>6. /\ Now'.start = Now.start /\ Now'.final = Now.final /\ Now'.reqbody
        /\ Now'.bodyW = req.writeH
    <3>1. /\ InFlight("start")' = InFlight("start") /\ InFlight("reqbody")'
          /\ InFlight("final")' = InFlight("final")
      BY Zenon, <2>4, <2>5 DEF InFlight
    <3> QED BY Zenon, <2>4, <3>1, NowFields, NextFields
  <2>7. Now.stage \in Awaiting /\ Now'.stage = "SUSPENDED_ON_REQ_WAF"
    BY Zenon, <1>3, <1>10 DEF SubmittedBody
  <2>8. Fit(q, Now')
    BY Zenon, <1>1, <1>3, <2>1, <2>6, <2>7, BodySubmitFit DEF Awaiting
  <2> QED BY Zenon, <2>1, <2>2, <2>8, ReturnFit
<1>11. \/ Failed(in, FALSE) \/ Held(in, FALSE) \/ PassedOn(in, FALSE)
       \/ Released(in, FALSE) \/ SubmittedBody(in, FALSE)
  BY Zenon, <1>2, BodyFilterCases DEF in
<1> QED BY Zenon, <1>7, <1>8, <1>9, <1>10, <1>11

-----------------------------------------------------------------------------
(* The completion handler. *)

(* Task k is no longer in flight. *)
Without(e, k) ==
  [e EXCEPT !.start = @ /\ k # "start", !.reqbody = @ /\ k # "reqbody",
            !.final = @ /\ k # "final"]

(* What it leaves alone *)
LEMMA WithoutFields ==
  ASSUME NEW k \in Kinds
  PROVE  LET e == Without(Now, k)
         IN  /\ e.start = (Now.start /\ k # "start")
             /\ e.reqbody = (Now.reqbody /\ k # "reqbody")
             /\ e.final = (Now.final /\ k # "final")
             /\ e.stage = Now.stage /\ e.startR = Now.startR
             /\ e.startW = Now.startW /\ e.bodyW = Now.bodyW
             /\ e.conn = Now.conn /\ e.blocks = Now.blocks
             /\ e.prev = Now.prev /\ e.fresh = Now.fresh
             /\ e.held = Now.held /\ e.passed = Now.passed
  BY Zenon DEF Without, Now

(* The state after the completion handler of task k                        *)
LEMMA DoneTask ==
  ASSUME IInv, Frame, NEW k \in Kinds, InFlight(k),
         task' = [task EXCEPT ![k].st = "destroyed"]
  PROVE  /\ SameTasks(Without(Now, k), Now')
         /\ \A j \in Kinds : SavedFields \subseteq DOMAIN task'[j]
<1> DEFINE e == Without(Now, k)
<1> HIDE DEF e
<1>0. /\ e.start = (Now.start /\ k # "start")
      /\ e.reqbody = (Now.reqbody /\ k # "reqbody")
      /\ e.final = (Now.final /\ k # "final")
      /\ e.startR = Now.startR /\ e.startW = Now.startW
      /\ e.bodyW = Now.bodyW /\ e.conn = Now.conn /\ e.blocks = Now.blocks
  BY Zenon, WithoutFields DEF e
<1>1. /\ task'[k].st = "destroyed" /\ DOMAIN task'[k] = DOMAIN task[k]
      /\ \A f \in DOMAIN task[k] \ {"st"} : task'[k][f] = task[k][f]
      /\ \A j \in Kinds \ {k} : task'[j] = task[j]
  BY Zenon DEF IInv, Shaped
<1>2. ~InFlight(k)'
  BY Zenon, <1>1 DEF InFlight
<1>3. \A j \in Kinds \ {k} : InFlight(j)' = InFlight(j)
  BY Zenon, <1>1 DEF InFlight
<1>4. \A j \in Kinds : /\ SavedFields \subseteq DOMAIN task'[j]
                       /\ \A f \in SavedFields : task'[j][f] = task[j][f]
                       /\ task'[j].ran = task[j].ran
                       /\ task'[j].block = task[j].block
  <2> SUFFICES ASSUME NEW j \in Kinds
               PROVE  /\ SavedFields \subseteq DOMAIN task'[j]
                      /\ \A f \in SavedFields : task'[j][f] = task[j][f]
                      /\ task'[j].ran = task[j].ran
                      /\ task'[j].block = task[j].block
    BY Zenon
  <2>1. /\ SavedFields \subseteq DOMAIN task[j]
        /\ {"ran", "block"} \subseteq DOMAIN task[j]
    BY Zenon DEF Frame, IInv, Shaped
  <2>2. CASE j = k
    BY Zenon, <1>1, <2>1, <2>2 DEF SavedFields
  <2>3. CASE j # k
    BY Zenon, <1>1, <2>1, <2>3
  <2> QED BY Zenon, <2>2, <2>3
<1>5. /\ InFlight("start")' = (InFlight("start") /\ k # "start")
      /\ InFlight("reqbody")' = (InFlight("reqbody") /\ k # "reqbody")
      /\ InFlight("final")' = (InFlight("final") /\ k # "final")
  <2>0. \A j \in Kinds : InFlight(j) \in BOOLEAN /\ InFlight(j)' \in BOOLEAN
    BY DEF InFlight
  <2>1. \A j \in Kinds : InFlight(j)' = (InFlight(j) /\ k # j)
    BY <1>2, <1>3, <2>0
  <2> QED BY Zenon, <2>1 DEF Kinds
<1>6. /\ Now'.start = e.start /\ Now'.reqbody = e.reqbody
      /\ Now'.final = e.final
  <2>1. /\ Now.start = InFlight("start") /\ Now'.start = InFlight("start")'
        /\ Now.reqbody = InFlight("reqbody")
        /\ Now'.reqbody = InFlight("reqbody")'
        /\ Now.final = InFlight("final") /\ Now'.final = InFlight("final")'
    BY Zenon, NowFields, NextFields
  <2> QED BY Zenon, <1>0, <1>5, <2>1
<1>7. /\ task'["start"].prevRead = task["start"].prevRead
      /\ task'["start"].prevWrite = task["start"].prevWrite
      /\ task'["reqbody"].prevWrite = task["reqbody"].prevWrite
      /\ task'["final"].prevConn = task["final"].prevConn
      /\ task'["start"].ran = task["start"].ran
      /\ task'["start"].block = task["start"].block
  BY Zenon, <1>4 DEF Kinds, SavedFields
<1>8. /\ Now'.startR = e.startR /\ Now'.startW = e.startW
      /\ Now'.bodyW = e.bodyW /\ Now'.conn = e.conn /\ Now'.blocks = e.blocks
  BY Zenon, <1>0, <1>7, NowFields, NextFields
<1> QED BY Zenon, <1>4, <1>6, <1>8 DEF SameTasks, e

(* The handlers are put back.                                              *)
LEMMA UnblockFit ==
  ASSUME RInv, NEW k \in Kinds, req.live, InFlight(k)
  PROVE  LET r == Unblock(k)
         IN  /\ Fit(r, Without(Now, k)) /\ r.live /\ r.phase = req.phase
             /\ r.headerSent = req.headerSent
<1> DEFINE r == Unblock(k)
           e == Without(Now, k)
<1>1. /\ Shape(req) /\ req.blocked - 1 \in Int
      /\ Placed(req, Now) /\ Flying(req, Now) /\ Handled(req, Now)
      /\ Saved(req, Now)
  BY DEF RInv, Fit, Shape
<1>2. /\ Only(req, r, {"blocked", "readH", "writeH", "connH"})
      /\ \/ /\ k = "final" /\ r.connH = Now.conn /\ r.readH = req.readH
            /\ r.writeH = req.writeH
         \/ /\ k = "start" /\ r.connH = req.connH
            /\ r.writeH = IF req.writeH = "task_empty" THEN Now.startW
                          ELSE req.writeH
         \/ /\ k = "reqbody" /\ r.connH = req.connH
            /\ r.writeH = IF req.writeH = "task_empty" THEN Now.bodyW
                          ELSE req.writeH
  <2> DEFINE u == [req EXCEPT !.blocked = @ - 1]
  <2>1. Only(req, u, {"blocked"})
    BY Zenon, <1>1 DEF Only, Shape, Fields
  <2>2. r = RestoreHandlers(u, k, task[k])
    BY Zenon DEF Unblock
  <2> HIDE DEF u
  <2>3. /\ u.readH = req.readH /\ u.writeH = req.writeH
        /\ u.connH = req.connH /\ Shape(u)
    BY Zenon, <2>1 DEF Only, Fields
  <2>4. /\ Only(u, r, {"readH", "writeH", "connH"})
        /\ \/ /\ k = "final" /\ r.connH = task[k].prevConn
              /\ r.readH = u.readH /\ r.writeH = u.writeH
           \/ /\ k # "final" /\ r.connH = u.connH
              /\ r.writeH = IF u.writeH = "task_empty" THEN task[k].prevWrite
                            ELSE u.writeH
    BY Zenon, <2>2, <2>3 DEF RestoreHandlers, Only, Shape, Fields
  <2> HIDE DEF r
  <2>5. Only(req, r, {"blocked", "readH", "writeH", "connH"})
    BY Zenon, <2>1, <2>4 DEF Only, Fields
  <2> QED BY Zenon, <2>3, <2>4, <2>5, NowFields DEF Kinds
<1> HIDE DEF r, e
<1>3. /\ r.phase = req.phase /\ r.page = req.page /\ r.error = req.error
      /\ r.headerSent = req.headerSent /\ r.buffered = req.buffered
      /\ r.live = req.live /\ Shape(r)
  BY Zenon, <1>2 DEF Only, Fields
<1>4. /\ e.start = (Now.start /\ k # "start")
      /\ e.reqbody = (Now.reqbody /\ k # "reqbody")
      /\ e.final = (Now.final /\ k # "final")
      /\ e.stage = Now.stage /\ e.startR = Now.startR
      /\ e.startW = Now.startW /\ e.bodyW = Now.bodyW
      /\ e.conn = Now.conn /\ e.blocks = Now.blocks
      /\ e.prev = Now.prev /\ e.fresh = Now.fresh
      /\ e.held = Now.held /\ e.passed = Now.passed
  BY Zenon, WithoutFields DEF e
<1>5. /\ k = "start" => Now.start
      /\ k = "reqbody" => Now.reqbody
      /\ k = "final" => Now.final
  BY Zenon, NowFields
<1>6. Placed(r, e)
  BY Zenon, <1>1, <1>3, <1>4 DEF Placed
<1>7. Flying(r, e)
  BY Zenon, <1>1, <1>3, <1>4 DEF Flying, Aside
<1>8. Handled(r, e)
  <2>1. CASE k = "final"
    <3>1. (e.start <=> Now.start) /\ (e.reqbody <=> Now.reqbody)
      BY Zenon, <1>4, <2>1
    <3>2. r.connH = "request_handler"
      BY Zenon, <1>1, <1>2, <1>5, <2>1 DEF Saved
    <3>3. /\ r.readH = req.readH /\ r.writeH = req.writeH
          /\ e.stage = Now.stage /\ e.prev = Now.prev
      BY Zenon, <1>2, <1>4, <2>1
    <3> QED BY Zenon, <1>1, <1>3, <3>1, <3>2, <3>3 DEF Handled
  <2>2. CASE k = "start"
    <3>1. ~e.start /\ ~e.reqbody /\ req.phase # "access"
      BY Zenon, <1>1, <1>4, <1>5, <2>2 DEF Flying, Aside
    <3>2. r.writeH = IF req.writeH = "task_empty" THEN "run_phases"
                     ELSE req.writeH
      BY Zenon, <1>1, <1>2, <1>5, <2>2 DEF Saved
    <3> QED BY Zenon, <1>1, <1>2, <1>3, <1>4, <2>2, <3>1, <3>2 DEF Handled
  <2>3. CASE k = "reqbody"
    <3>1. ~e.start /\ ~e.reqbody /\ req.phase # "access"
      BY Zenon, <1>1, <1>4, <1>5, <2>3 DEF Flying, Aside
    <3>2. /\ \/ r.writeH = req.writeH /\ req.writeH # "task_empty"
             \/ r.writeH \notin {"task_empty", "drain", "writer"}
          /\ r.writeH = "finalizer" => req.error
      BY Zenon, <1>1, <1>2, <1>5, <2>3 DEF Saved, Handled
    <3> QED BY Zenon, <1>1, <1>2, <1>3, <1>4, <2>3, <3>1, <3>2 DEF Handled
  <2> QED BY Zenon, <2>1, <2>2, <2>3 DEF Kinds
<1>9. Saved(r, e)
  BY Zenon, <1>1, <1>3, <1>4 DEF Saved
<1> QED BY Zenon, <1>3, <1>6, <1>7, <1>8, <1>9 DEF Fit, r, e

(* The stage moves on with the task that held it.                          *)
LEMMA MovedFit ==
  ASSUME NEW r, NEW e, NEW f, Fit(r, e), r.live,
         e.stage \in {"SUSPENDED_ON_REQ_WAF", "PENDING_WAF_END"},
         SameTasks(e, f), ~e.reqbody, ~e.final, f.passed = e.passed,
         r.phase \in BodyPhases => f.held, f.stage \in StagesOf(r.phase),
         f.stage # "AFTER_BEGIN_WAF_BLOCK"
  PROVE  Fit(r, f)
<1>1. /\ Placed(r, e) /\ Flying(r, e) /\ Handled(r, e) /\ Saved(r, e)
      /\ Shape(r)
  BY Zenon DEF Fit
<1>2. r.phase \notin EarlyPhases /\ r.phase # "access"
  BY <1>1 DEF Placed, StagesOf, EarlyPhases
<1>3. r.phase \in BodyPhases => ~r.headerSent
  BY <1>1 DEF Placed
<1>4. Placed(r, f)
  BY Zenon, <1>1, <1>2, <1>3 DEF Placed
<1>5. Flying(r, f)
  BY <1>1 DEF Flying, SameTasks
<1>6. Handled(r, f)
  BY <1>1, <1>2 DEF Handled, SameTasks
<1>7. Saved(r, f)
  BY Zenon, <1>1 DEF Saved, SameTasks
<1> QED BY Zenon, <1>1, <1>4, <1>5, <1>6, <1>7 DEF Fit

(* Only these fields of the rest matter.                                   *)
LEMMA EnvFit ==
  ASSUME NEW r, NEW e, NEW f, Fit(r, e), SameTasks(e, f), f.stage = e.stage,
         f.prev = e.prev, f.fresh = e.fresh, f.held = e.held,
         f.passed = e.passed
  PROVE  Fit(r, f)
<1>1. ASSUME r.live PROVE Placed(r, f)
  BY Zenon, <1>1 DEF Fit, Placed
<1>2. ASSUME r.live PROVE Flying(r, f)
  BY Zenon, <1>2 DEF Fit, Flying, SameTasks
<1>3. ASSUME r.live PROVE Handled(r, f)
  BY Zenon, <1>3 DEF Fit, Handled, SameTasks
<1>4. ASSUME r.live PROVE Saved(r, f)
  BY Zenon, <1>4 DEF Fit, Saved, SameTasks
<1> QED BY Zenon, <1>1, <1>2, <1>3, <1>4 DEF Fit, Placed, Ended

(* The access phase is resumed, unless the request has left it.            *)
LEMMA ResumeFit ==
  ASSUME NEW d, NEW e, Fit(d, e), d.live, ~e.start,
         e.stage # "AFTER_BEGIN_WAF_BLOCK"
  PROVE  Fit([d EXCEPT !.wev = TRUE,
                       !.phase = IF @ = "suspended" THEN "resume" ELSE @], e)
<1> DEFINE q == [d EXCEPT !.wev = TRUE,
                          !.phase = IF @ = "suspended" THEN "resume" ELSE @]
<1>1. /\ Only(d, q, {"wev", "phase"})
      /\ q.phase = IF d.phase = "suspended" THEN "resume" ELSE d.phase
  BY Zenon DEF Fit, Only, Shape, Fields
<1> HIDE DEF q
<1>2. /\ q.page = d.page /\ q.readH = d.readH /\ q.live = d.live
      /\ q.writeH = d.writeH /\ q.connH = d.connH /\ Shape(q)
      /\ q.headerSent = d.headerSent /\ q.buffered = d.buffered
      /\ q.error = d.error
  BY Zenon, <1>1 DEF Only, Fields
<1>3. /\ Placed(d, e) /\ Flying(d, e) /\ Handled(d, e) /\ Saved(d, e)
  BY Zenon DEF Fit
<1>4. CASE d.phase = "suspended"
  <2>1. ~e.reqbody /\ ~e.final
    BY <1>3, <1>4 DEF Flying, Aside, LatePhases
  <2>2. Placed(q, e)
    BY <1>1, <1>2, <1>3, <1>4
       DEF Placed, StagesOf, EarlyPhases, BodyPhases
  <2>3. Flying(q, e) /\ Saved(q, e)
    BY Zenon, <2>1 DEF Flying, Saved
  <2>4. Handled(q, e)
    BY <1>1, <1>2, <1>3, <1>4, <2>1 DEF Handled
  <2> QED BY Zenon, <1>2, <2>2, <2>3, <2>4 DEF Fit, q
<1>5. CASE d.phase # "suspended"
  <2>1. q.phase = d.phase
    BY Zenon, <1>1, <1>5
  <2>2. Placed(q, e)
    BY Zenon, <1>2, <1>3, <2>1 DEF Placed
  <2>3. Flying(q, e) /\ Saved(q, e)
    BY Zenon, <1>2, <1>3, <2>1 DEF Flying, Aside, Saved
  <2>4. Handled(q, e)
    BY Zenon, <1>2, <1>3, <2>1 DEF Handled
  <2> QED BY Zenon, <1>2, <2>2, <2>3, <2>4 DEF Fit, q
<1> QED BY Zenon, <1>4, <1>5

(* BlockingService::block, then ngx_http_finalize_request: the blocking    *)
(* response is sent instead.                                               *)
LEMMA BlockFit ==
  ASSUME NEW k, NEW d, NEW e, Fit(d, e), d.live, e.stage \in Stages,
         \/ d.phase \notin EarlyPhases \cup BodyPhases
         \/ e.stage \in {"AFTER_BEGIN_WAF_BLOCK", "AFTER_ON_REQ_WAF_BLOCK"},
         Block(k, d)
  PROVE  Fit(req', e)
<1>1. PICK bodyless \in BOOLEAN :
        LET r == LastHeaderFilter([d EXCEPT !.headerOnly = @ \/ bodyless])
        IN  \/ req' = AfterBlock(k, [r EXCEPT !.buffered = FALSE], "ok")
            \/ req' = AfterBlock(k, r, "error")
            \/ req' = AfterBlock(k, [r EXCEPT !.buffered = TRUE], "again")
  BY Zenon DEF Block
<1> DEFINE r == LastHeaderFilter([d EXCEPT !.headerOnly = @ \/ bodyless])
           s == [r EXCEPT !.buffered = FALSE]
           t == [r EXCEPT !.buffered = TRUE]
           F == {"headerOnly", "headerSent", "buffered"}
<1>2. \E q, rc : Only(d, q, F) /\ q.headerSent /\ req' = AfterBlock(k, q, rc)
  <2>1. Only(d, r, F) /\ r.headerSent
    BY Zenon DEF Fit, LastHeaderFilter, Only, Shape, Fields
  <2>2. Only(d, s, F) /\ s.headerSent /\ Only(d, t, F) /\ t.headerSent
    <3> HIDE DEF r
    <3> QED BY Zenon, <2>1 DEF Only, Shape, Fields
  <2> HIDE DEF r, s, t, F
  <2> QED BY Zenon, <1>1, <2>1, <2>2 DEF r, s, t
<1>3. PICK q, rc : Only(d, q, F) /\ q.headerSent /\ req' = AfterBlock(k, q, rc)
  BY Zenon, <1>2
<1>4. Fit(q, e)
  BY Zenon, <1>3, HeaderSentFit DEF Only, FreeFields
<1> DEFINE f == FinalizeRequest(q, rc)
           w == [f EXCEPT !.wev = TRUE]
<1>5. Fit(f, e)
  BY Zenon, <1>4, FinalizeFit
<1> HIDE DEF f
<1>6. Milder(f, w)
  BY Zenon, <1>5 DEF Fit, Milder, Only, Shape, Fields, FreeFields
<1>7. Fit(w, e)
  BY Zenon, <1>5, <1>6, MilderFit
<1> QED BY Zenon, <1>3, <1>5, <1>7 DEF AfterBlock, f

(* The completion handler of a task keeps the request fit.                 *)
LEMMA CompletionFit ==
  ASSUME RInv, NEW k \in Kinds, Completion(k)
  PROVE  Frame' /\ Fit(req', Now')
<1> DEFINE r == Unblock(k)
           d == Dereferenced(r)
           e == Without(Now, k)
<1>1. /\ req.live /\ InFlight(k) /\ Elsewhere
      /\ task' = [task EXCEPT ![k].st = "destroyed"]
      /\ IInv /\ Frame /\ Flying(req, Now) /\ Placed(req, Now)
      /\ DOMAIN ctx = ContextFields /\ stage \in Stages
  BY Zenon DEF Completion, MainThreadFree, InFlight, Elsewhere, RInv, Fit, Frame
<1>2. /\ Fit(r, e) /\ r.live /\ r.phase = req.phase
      /\ r.headerSent = req.headerSent
  BY Zenon, <1>1, UnblockFit
<1>3. /\ SameTasks(e, Now')
      /\ \A j \in Kinds : SavedFields \subseteq DOMAIN task'[j]
  BY Zenon, <1>1, DoneTask
<1>4. /\ \/ req' = ConnectionWriteHandler(d) /\ stage' = stage /\ ctx' = ctx
         \/ Complete(k, d)
         \/ /\ \E rc : req' = FinalizeRequest(r, rc)
            /\ stage' = stage /\ ctx' = ctx
  BY Zenon DEF Completion
<1> HIDE DEF r, e
<1>5. Fit(d, e) /\ d.live /\ d.phase = req.phase
      /\ d.headerSent = req.headerSent
  <2>1. r.count - 1 \in Int
    BY <1>2 DEF Fit, Shape
  <2>2. Only(r, d, {"count"})
    BY Zenon, <1>2, <2>1 DEF Fit, Dereferenced, Only, Shape, Fields
  <2>3. Milder(r, d)
    BY Zenon, <2>2 DEF Milder, Only, Fields, FreeFields
  <2> QED BY Zenon, <1>2, <2>2, <2>3, MilderFit DEF Only, Fields
<1> HIDE DEF d
<1>6. /\ e.stage = stage /\ Now'.stage = stage' /\ e.passed = Now.passed
      /\ e.prev = Now.prev /\ e.fresh = Now.fresh /\ e.held = Now.held
      /\ e.reqbody = (Now.reqbody /\ k # "reqbody")
      /\ e.final = (Now.final /\ k # "final") /\ e.blocks = Now.blocks
      /\ e.start = (Now.start /\ k # "start")
  <2>1. Now.stage = stage /\ Now'.stage = stage'
    BY Zenon, NowFields, NextFields
  <2> QED BY Zenon, <2>1, WithoutFields DEF e
<1>7. /\ k = "start" => Now.start
      /\ k = "reqbody" => Now.reqbody
      /\ k = "final" => Now.final
  BY Zenon, <1>1, NowFields
<1>8. ASSUME stage' \in Stages, DOMAIN ctx' = ContextFields
      PROVE  Frame' /\ Now'.fresh = e.fresh /\ Now'.passed = e.passed
  BY Zenon, <1>1, <1>3, <1>6, <1>8, ElsewhereFrame
<1>9. ASSUME stage' = stage, ctx'.prevWrite = ctx.prevWrite,
             DOMAIN ctx' = ContextFields, Fit(req', e)
      PROVE  Frame' /\ Fit(req', Now')
  <2>1. Now'.held = e.held /\ Now'.prev = e.prev /\ Now'.stage = e.stage
    <3>1. BodyHeld' = BodyHeld
      BY Zenon, <1>1, <1>9 DEF Elsewhere, BodyHeld, ReqPieces
    <3>2. Now'.held = Now.held /\ Now'.prev = Now.prev
      BY Zenon, <1>9, <3>1, NowFields, NextFields
    <3> QED BY Zenon, <1>6, <1>9, <3>2
  <2>2. Frame' /\ Now'.fresh = e.fresh /\ Now'.passed = e.passed
    BY Zenon, <1>1, <1>8, <1>9
  <2> QED BY Zenon, <1>3, <1>9, <2>1, <2>2, EnvFit
<1>10. ASSUME NEW f, Fit(d, f), f.stage \in Stages, Block(k, d),
              \/ d.phase \notin EarlyPhases \cup BodyPhases
              \/ f.stage \in {"AFTER_BEGIN_WAF_BLOCK",
                              "AFTER_ON_REQ_WAF_BLOCK"}
       PROVE  Fit(req', f)
  BY Zenon, <1>5, <1>10, BlockFit
<1>11. CASE req' = ConnectionWriteHandler(d) /\ stage' = stage /\ ctx' = ctx
  <2>1. /\ conf.reqBody = << >> /\ e.fresh => e.passed
        /\ conf.reqBody # << >> /\ e.fresh => e.held
    BY Zenon, <1>1, <1>6, FreshBodies DEF FreshBody
  <2>2. Fit(ConnectionWriteHandler(d), e)
    BY Zenon, <1>1, <1>5, <1>6, <2>1, ConnectionFit
  <2> QED BY Zenon, <1>1, <1>9, <1>11, <2>2
<1>12. CASE /\ \E rc : req' = FinalizeRequest(r, rc)
            /\ stage' = stage /\ ctx' = ctx
  <2>1. Fit(req', e)
    BY Zenon, <1>1, <1>2, <1>6, <1>12, FinalizeFit
  <2> QED BY Zenon, <1>1, <1>9, <1>12, <2>1
<1>13. CASE Complete(k, d) /\ k = "start"
  <2>1. Now.start /\ ~e.start /\ (Now.blocks <=> stage = "AFTER_BEGIN_WAF_BLOCK")
    BY Zenon, <1>1, <1>6, <1>7, <1>13, NowFields DEF Flying
  <2>2. CASE task[k].ran /\ task[k].block
    <3>1. Block(k, d) /\ ctx' = [ctx EXCEPT !.tagged = TRUE]
      BY Zenon, <1>13, <2>2 DEF Complete
    <3>2. stage = "AFTER_BEGIN_WAF_BLOCK" /\ BlockStage(k) = stage
      BY Zenon, <1>13, <2>1, <2>2, NowFields DEF BlockStage
    <3>3. stage' = stage
      BY Zenon, <3>1, <3>2 DEF Block
    <3>4. ctx'.prevWrite = ctx.prevWrite /\ DOMAIN ctx' = ContextFields
      BY Zenon, <1>1, <3>1 DEF ContextFields
    <3>5. Fit(req', e)
      BY Zenon, <1>1, <1>5, <1>6, <1>10, <3>1, <3>2
    <3> QED BY Zenon, <1>9, <3>3, <3>4, <3>5
  <2>3. CASE ~(task[k].ran /\ task[k].block)
    <3> DEFINE q == [d EXCEPT !.wev = TRUE,
                        !.phase = IF @ = "suspended" THEN "resume" ELSE @]
    <3>1. req' = q /\ stage' = stage /\ ctx' = ctx
      BY Zenon, <1>13, <2>3 DEF Complete, Resume
    <3>2. e.stage # "AFTER_BEGIN_WAF_BLOCK"
      BY Zenon, <1>6, <1>13, <2>1, <2>3, NowFields
    <3>3. Fit(q, e)
      BY Zenon, <1>5, <2>1, <3>2, ResumeFit
    <3> QED BY Zenon, <1>1, <1>9, <3>1, <3>3
  <2> QED BY Zenon, <2>2, <2>3
<1>14. CASE Complete(k, d) /\ k = "reqbody"
  <2>1. /\ stage = "SUSPENDED_ON_REQ_WAF" /\ ~e.reqbody /\ ~e.final
        /\ d.phase = "body" \/ d.phase \in {"special", "finalized", "sending"}
    <3>1. /\ Now.stage = "SUSPENDED_ON_REQ_WAF" /\ ~Now.final
          /\ req.phase = "body" \/ Aside(req)
      BY Zenon, <1>1, <1>7, <1>14 DEF Flying
    <3> QED BY Zenon, <1>5, <1>6, <1>14, <3>1, NowFields DEF Aside
  <2>2. ASSUME stage' \in {"AFTER_ON_REQ_WAF", "AFTER_ON_REQ_WAF_BLOCK"},
               ctx'.prevWrite = ctx.prevWrite, DOMAIN ctx' = ContextFields
        PROVE  Frame' /\ Fit(d, Now')
    <3>1. stage' \in Stages
      BY Zenon, <2>2 DEF Stages
    <3>2. Frame' /\ Now'.passed = e.passed
      BY Zenon, <1>8, <2>2, <3>1
    <3>3. d.phase \in BodyPhases => Now'.held
      <4>1. BodyHeld => BodyHeld'
        BY <1>1, <2>1, <2>2 DEF Elsewhere, BodyHeld, ReqPieces
      <4>2. d.phase \in BodyPhases => Now.held
        BY Zenon, <1>1, <1>5 DEF Placed
      <4> QED BY Zenon, <4>1, <4>2, NowFields, NextFields
    <3>4. /\ Now'.stage \in StagesOf(d.phase)
          /\ Now'.stage # "AFTER_BEGIN_WAF_BLOCK"
      BY <1>6, <2>1, <2>2, <3>1 DEF StagesOf
    <3> QED BY Zenon, <1>3, <1>5, <1>6, <2>1, <3>2, <3>3, <3>4, MovedFit
  <2>3. CASE task[k].ran /\ task[k].block
    <3>1. Block(k, d) /\ ctx' = [ctx EXCEPT !.tagged = TRUE]
      BY Zenon, <1>14, <2>3 DEF Complete
    <3>2. BlockStage(k) = "AFTER_ON_REQ_WAF_BLOCK"
      BY Zenon, <1>14, <2>1 DEF BlockStage
    <3>3. stage' = "AFTER_ON_REQ_WAF_BLOCK"
      BY Zenon, <3>1, <3>2 DEF Block
    <3>4. ctx'.prevWrite = ctx.prevWrite /\ DOMAIN ctx' = ContextFields
      BY Zenon, <1>1, <3>1 DEF ContextFields
    <3>5. Frame' /\ Fit(d, Now')
      BY Zenon, <2>2, <3>3, <3>4
    <3>6. Now'.stage \in Stages
      BY Zenon, <1>6, <3>5 DEF Frame
    <3> QED BY Zenon, <1>6, <1>10, <3>1, <3>3, <3>5, <3>6
  <2>4. CASE ~(task[k].ran /\ task[k].block)
    <3>1. req' = d /\ stage' = "AFTER_ON_REQ_WAF" /\ ctx' = ctx
      BY Zenon, <1>14, <2>1, <2>4 DEF Complete, Resume
    <3> QED BY Zenon, <1>1, <2>2, <3>1
  <2> QED BY Zenon, <2>3, <2>4
<1>15. CASE Complete(k, d) /\ k = "final"
  <2>1. /\ stage = "PENDING_WAF_END" /\ ~e.reqbody /\ ~e.final
        /\ d.phase \in LatePhases /\ d.headerSent /\ ~(e.start /\ e.blocks)
    <3>1. /\ Now.stage = "PENDING_WAF_END" /\ ~Now.reqbody /\ req.headerSent
          /\ req.phase \in LatePhases /\ ~(Now.start /\ Now.blocks)
      BY Zenon, <1>1, <1>7, <1>15 DEF Flying
    <3> QED BY Zenon, <1>5, <1>6, <1>15, <3>1, NowFields
  <2>2. d.phase \notin EarlyPhases \cup BodyPhases
    BY <2>1 DEF LatePhases, EarlyPhases, BodyPhases
  <2>3. CASE task[k].ran /\ task[k].block
    <3>1. Block(k, d) /\ ctx' = [ctx EXCEPT !.tagged = TRUE]
      BY Zenon, <1>15, <2>3 DEF Complete
    <3>2. BlockStage(k) = "WAF_END_BLOCK_COMMIT"
      BY Zenon, <1>15, <2>1 DEF BlockStage
    <3>3. stage' \in {"WAF_END_BLOCK_COMMIT", "AFTER_RUN_WAF_END"}
      BY Zenon, <3>1, <3>2 DEF Block
    <3>4. ctx'.prevWrite = ctx.prevWrite /\ DOMAIN ctx' = ContextFields
      BY Zenon, <1>1, <3>1 DEF ContextFields
    <3>5. stage' \in Stages
      BY Zenon, <3>3 DEF Stages
    <3>6. Frame' /\ Now'.passed = e.passed
      BY Zenon, <1>8, <3>4, <3>5
    <3>7. /\ Now'.stage \in StagesOf(d.phase) /\ Now'.stage \in Stages
          /\ Now'.stage # "AFTER_BEGIN_WAF_BLOCK"
      BY <1>6, <2>1, <3>3, <3>5 DEF StagesOf, LatePhases
    <3>8. Fit(d, Now')
      BY Zenon, <1>3, <1>5, <1>6, <2>1, <2>2, <3>6, <3>7, MovedFit
    <3> QED BY Zenon, <1>10, <2>2, <3>1, <3>6, <3>7, <3>8
  <2>4. CASE ~(task[k].ran /\ task[k].block)
    <3>1. /\ req' = Unblocked(d, hdr) /\ stage' = "AFTER_RUN_WAF_END"
          /\ ctx' = [ctx EXCEPT !.prevWrite = SavedWriteHandler(d, hdr)]
      BY Zenon, <1>15, <2>1, <2>4 DEF Complete, Resume
    <3>2. /\ ctx'.prevWrite = SavedWriteHandler(d, hdr)
          /\ DOMAIN ctx' = ContextFields
      BY Zenon, <1>1, <3>1 DEF ContextFields
    <3>3. stage' \in Stages
      BY Zenon, <3>1 DEF Stages
    <3>4. Frame' /\ Now'.passed = e.passed
      BY Zenon, <1>8, <3>2, <3>3
    <3>5. Now'.prev = SavedWriteHandler(d, hdr) /\ Now'.stage = "AFTER_RUN_WAF_END"
      BY Zenon, <1>6, <3>1, <3>2, NextFields
    <3>6. d.writeH # "drain" /\ d.connH # "empty"
      BY <1>5, <1>6, <2>1 DEF Fit, Handled
    <3>7. /\ Now'.start = e.start /\ Now'.reqbody = e.reqbody /\ ~Now'.final
          /\ Now'.startR = e.startR /\ Now'.startW = e.startW
          /\ Now'.bodyW = e.bodyW /\ Now'.blocks = e.blocks
      BY Zenon, <1>3, <2>1 DEF SameTasks
    <3>8. Fit(Unblocked(d, hdr), Now')
      BY Zenon, <1>5, <2>1, <3>4, <3>5, <3>6, <3>7, DrainFit
    <3> QED BY Zenon, <3>1, <3>4, <3>8
  <2> QED BY Zenon, <2>3, <2>4
<1> QED BY Zenon, <1>4, <1>11, <1>12, <1>13, <1>14, <1>15 DEF Kinds

-----------------------------------------------------------------------------
(* The theorems. *)

(* A new request is fit. *)
LEMMA RInvInit == Init => RInv
<1> SUFFICES ASSUME Init PROVE Frame /\ Fit(req, Now)
  BY Zenon, IInvInit DEF RInv
<1>1. /\ conf \in Configs /\ stage = "START" /\ reqIn = 0 /\ reqDown = << >>
      /\ rb.out = << >> /\ DOMAIN ctx = ContextFields
      /\ \A k \in Kinds : task[k] = NoTask
      /\ req = NewRequest
  BY Zenon DEF Init, EmptyFilterCtx, ContextFields
<1>2. NoTask.st = "none" /\ SavedFields \subseteq DOMAIN NoTask
  BY Zenon DEF NoTask, SavedFields
<1>3. Begins(reqDown, ReqPieces)
  <2>1. ReqPieces \in Seq(Buffer)
    BY Zenon, <1>1, ReqPiecesType
  <2>2. 0 \in 0 .. Len(ReqPieces) /\ SubSeq(ReqPieces, 1, 0) = << >>
    BY <2>1
  <2> QED BY Zenon, <1>1, <2>2 DEF Begins
<1>4. << >> \in Seq(Buffer)
  OBVIOUS
<1>5. Frame
  BY Zenon, <1>1, <1>2, <1>3, <1>4 DEF Frame, Stages
<1>6. /\ Now.stage = "START" /\ Now.fresh
      /\ ~Now.start /\ ~Now.reqbody /\ ~Now.final
  BY Zenon, <1>1, <1>2, NowFields DEF InFlight, Kinds
<1>7. /\ Shape(req) /\ req.phase = "access" /\ req.page = "orig"
      /\ req.readH = "block_reading" /\ req.writeH = "run_phases"
      /\ req.connH = "request_handler" /\ ~req.buffered /\ ~req.headerSent
  <2>1. 1 \in Int /\ 0 \in Int
    OBVIOUS
  <2> QED BY Zenon, <1>1, <2>1 DEF NewRequest, Shape, Fields
<1>8. Placed(req, Now)
  BY <1>6, <1>7 DEF Placed, StagesOf, EarlyPhases, BodyPhases
<1>9. Flying(req, Now) /\ Saved(req, Now)
  BY Zenon, <1>6 DEF Flying, Saved
<1>10. Handled(req, Now)
  BY Zenon, <1>6, <1>7 DEF Handled
<1> QED BY Zenon, <1>5, <1>7, <1>8, <1>9, <1>10 DEF Fit, Placed, Ended

(* Every step keeps the request fit. *)
LEMMA RInvNext == RInv /\ [Next]_vars => RInv'
<1> SUFFICES ASSUME RInv, [Next]_vars PROVE RInv'
  OBVIOUS
<1>0. IInv'
  BY Zenon, IInvNext DEF RInv
<1> SUFFICES Frame' /\ Fit(req', Now')
  BY Zenon, <1>0 DEF RInv
<1>1. CASE UNCHANGED vars
  <2>1. /\ Elsewhere /\ stage' = stage /\ task' = task /\ ctx' = ctx
        /\ req' = req
    BY Zenon, <1>1 DEF vars, Elsewhere
  <2>2. Now' = Now /\ Frame'
    BY Zenon, <2>1, SameNow, ElsewhereFrame DEF RInv, Frame
  <2> QED BY Zenon, <2>1, <2>2 DEF RInv
<1>2. CASE OnRequestStart
  BY Zenon, <1>2, OnRequestStartFit
<1>3. CASE PrereadBody
  BY Zenon, <1>3, PrereadBodyFit
<1>4. CASE NoPreread
  BY Zenon, <1>4, NoPrereadFit
<1>5. CASE ReadBody
  BY Zenon, <1>5, ReadBodyFit
<1>6. CASE HeaderFilter
  BY Zenon, <1>6, HeaderFilterFit
<1>7. CASE ProduceBody
  BY Zenon, <1>7, ProduceBodyFit
<1>8. CASE \E k \in Kinds : ThreadStart(k) \/ ThreadFinish(k) \/ Completion(k)
  BY Zenon, <1>8, ThreadStartFit, ThreadFinishFit, CompletionFit
<1>9. CASE WriteEvent
  BY Zenon, <1>9, WriteEventFit
<1>10. CASE Abort
  BY Zenon, <1>10, AbortFit
<1>11. CASE Terminated
  BY Zenon, <1>1, <1>11 DEF Terminated
<1> QED BY Zenon, <1>1, <1>2, <1>3, <1>4, <1>5, <1>6, <1>7, <1>8, <1>9, <1>10,
           <1>11 DEF Next

(* The handlers a task swapped are back in place when it has completed,    *)
(* and meanwhile no read event reaches the request's body reader           *)
(* (replace_handlers and restore_handlers of PolTaskCtx), whatever fails   *)
(* and whoever terminates the request.                                     *)
THEOREM HandlersAreRestored == Spec => []HandlersRestored
<1>1. RInv => HandlersRestored
  BY Zenon, NowFields DEF RInv, Fit, Handled, HandlersRestored
<1> QED BY <1>1, RInvInit, RInvNext, PTL DEF Spec

(* The request body reaches the next filter in order and without gaps, and *)
(* completely before content is produced (do_request_body_filter), however *)
(* it is cut into pieces and whichever call fails.                         *)
THEOREM BodyIsIntact == Spec => []RequestIntact
<1>1. RInv => RequestIntact
  BY Zenon, NowFields DEF RInv, Frame, Fit, Placed, Ended, RequestIntact
<1> QED BY <1>1, RInvInit, RInvNext, PTL DEF Spec

=============================================================================
