------------------------ MODULE RequestTracingProofs ------------------------
(***************************************************************************)
(* Theorems about the tracing of a request and of its subrequests: the     *)
(* properties of RequestTracing, for any number of subrequests, locations  *)
(* and redirects.                                                          *)
(***************************************************************************)
EXTENDS RequestTracing, TLAPS

-----------------------------------------------------------------------------
(* Facts about sequences *)

(* An element of a sequence is replaced *)
LEMMA ReplaceFacts ==
  ASSUME NEW S, NEW s \in Seq(S), NEW i, NEW x \in S
  PROVE  LET t == [s EXCEPT ![i] = x]
         IN /\ t \in Seq(S) /\ Len(t) = Len(s) /\ DOMAIN t = DOMAIN s
            /\ i \in DOMAIN s => t[i] = x
            /\ \A j \in DOMAIN s : j # i => t[j] = s[j]
  <1> DEFINE t == [s EXCEPT ![i] = x]
  <1>1. s \in [1..Len(s) -> S] /\ Len(s) \in Nat
    OBVIOUS
  <1>2. t \in [1..Len(s) -> S]
    BY <1>1, Zenon
  <1>3. t \in Seq(S) /\ Len(t) = Len(s) /\ DOMAIN t = DOMAIN s
    BY <1>1, <1>2
  <1>4. /\ i \in DOMAIN s => t[i] = x
        /\ \A j \in DOMAIN s : j # i => t[j] = s[j]
    BY <1>1
  <1> QED
    BY <1>3, <1>4

(* An element is added at the end *)
LEMMA AppendFacts ==
  ASSUME NEW S, NEW s \in Seq(S), NEW x \in S
  PROVE  LET t == Append(s, x)
         IN /\ t \in Seq(S) /\ Len(t) = Len(s) + 1
            /\ DOMAIN t = DOMAIN s \cup {Len(s) + 1}
            /\ Len(s) + 1 \notin DOMAIN s
            /\ t[Len(s) + 1] = x
            /\ \A j \in DOMAIN s : t[j] = s[j]
  OBVIOUS

(* ... and at the front *)
LEMMA PrependFacts ==
  ASSUME NEW s \in Seq(Nat), NEW x \in Nat
  PROVE  LET t == <<x>> \o s
         IN /\ t \in Seq(Nat) /\ t # <<>> /\ t[1] = x
            /\ \A k \in DOMAIN t : k # 1 => \E m \in DOMAIN s : t[k] = s[m]
  <1> DEFINE t == <<x>> \o s
  <1>1. t \in Seq(Nat) /\ t # <<>> /\ t[1] = x
    OBVIOUS
  <1>2. \A k \in DOMAIN t : k # 1 => k - 1 \in DOMAIN s /\ t[k] = s[k - 1]
    OBVIOUS
  <1> QED
    BY Zenon, <1>1, <1>2

-----------------------------------------------------------------------------
(* What the operations on a DatadogContext return *)

Trace == [req : Reqs, loc : Locs, parent : Reqs \cup {None},
          requestSpan : {"open", "ended"}, span : {"none", "open", "ended"}]

Context == [live : BOOLEAN, traces : Seq(Trace), gen : Nat,
            sec : {"none", "start", "begun", "ended"}, reported : BOOLEAN]

(* The constants have the types that the directives give them *)
LEMMA LocationFacts ==
  ASSUME NEW l \in Locs
  PROVE  l \in Location /\ l.tracing \in BOOLEAN /\ l.locations \in BOOLEAN
  BY TracingAssumption DEF Locs, Location

(* The span of a location is replaced *)
LEMMA ChangeBlockFacts ==
  ASSUME NEW t \in Trace, NEW l \in Locs
  PROVE  LET u == OnChangeBlock(t, l)
         IN /\ u \in Trace /\ u.req = t.req /\ u.parent = t.parent
            /\ (~t.loc.locations => t.span # "open")
                 => (~u.loc.locations => u.span # "open")
  <1>1. t.loc \in Locs /\ t.loc.locations \in BOOLEAN
    BY LocationFacts DEF Trace
  <1> QED
    BY <1>1, LocationFacts, Zenon DEF Trace, OnChangeBlock, OnExitBlock

(* A request is logged: its spans are finished *)
LEMMA LogRequestFacts ==
  ASSUME NEW t \in Trace
  PROVE  LET u == OnLogRequest(t)
         IN /\ u \in Trace /\ u.req = t.req /\ u.parent = t.parent
            /\ u.requestSpan = "ended"
            /\ (~t.loc.locations => t.span # "open") => u.span # "open"
  <1>1. t.loc \in Locs /\ t.loc.locations \in BOOLEAN
    BY LocationFacts DEF Trace
  <1> QED
    BY <1>1, LocationFacts DEF Trace, OnLogRequest, OnExitBlock

(* A new trace has an open request span *)
LEMMA NewTraceFacts ==
  ASSUME NEW r \in Reqs, NEW l \in Locs, NEW p \in Reqs \cup {None}
  PROVE  LET u == NewTrace(r, l, p)
         IN /\ u \in Trace /\ u.req = r /\ u.parent = p
            /\ ~u.loc.locations => u.span # "open"
  BY LocationFacts DEF Trace, NewTrace

(* A new context *)
LEMMA NewContextFacts ==
  ASSUME NEW r \in Reqs, NEW l \in Locs
  PROVE  LET d == NewContext(r, l)
         IN /\ d \in Context /\ d.live
            /\ [d EXCEPT !.live = FALSE] \in Context
            /\ d.sec \in {"none", "start"}
            /\ l.tracing => d.traces = <<NewTrace(r, l, None)>>
  <1>1. NewTrace(r, l, None) \in Trace
    BY NewTraceFacts
  <1>2. <<>> \in Seq(Trace) /\ <<NewTrace(r, l, None)>> \in Seq(Trace)
    BY <1>1
  <1> QED
    BY <1>2, Zenon DEF NewContext, Context

(* TraceOf finds a trace of the request *)
LEMMA TraceOfFacts ==
  ASSUME NEW c, NEW r, HasTrace(c, r)
  PROVE  TraceOf(c, r) \in DOMAIN c.traces /\ c.traces[TraceOf(c, r)].req = r
  BY Zenon DEF HasTrace, TraceOf

(* d is c, with the element i of its traces replaced by u *)
Replaced(c, d, i, u) ==
  /\ d \in Context /\ d.live = c.live /\ d.gen = c.gen /\ d.sec = c.sec
  /\ d.traces \in Seq(Trace) /\ Len(d.traces) = Len(c.traces)
  /\ DOMAIN d.traces = DOMAIN c.traces
  /\ d.traces[i] = u
  /\ \A j \in DOMAIN c.traces : j # i => d.traces[j] = c.traces[j]

(* on_change_block does nothing, replaces the span of the request's        *)
(* location, or gives a subrequest a trace of its own                      *)
LEMMA ChangeCases ==
  ASSUME NEW c \in Context, NEW r \in Reqs, NEW l \in Locs,
         NEW d, d = ContextChange(c, r, l)
  PROVE  \/ d = c
         \/ \E i \in DOMAIN c.traces :
              /\ c.traces[i].req = r /\ d.reported = c.reported
              /\ Replaced(c, d, i, OnChangeBlock(c.traces[i], l))
         \/ ~HasTrace(c, r) /\ c.traces # <<>> /\ d = AddTrace(c, r, l)
  <1>1. CASE l.tracing /\ HasTrace(c, r)
    <2> DEFINE i == TraceOf(c, r)
               u == OnChangeBlock(c.traces[i], l)
    <2>1. i \in DOMAIN c.traces /\ c.traces[i].req = r
      BY <1>1, TraceOfFacts, Zenon
    <2>2. c.traces \in Seq(Trace) /\ c.traces[i] \in Trace
      BY <2>1 DEF Context
    <2> HIDE DEF i
    <2>3. u \in Trace
      BY <2>2, ChangeBlockFacts
    <2> HIDE DEF u
    <2>4. d = [c EXCEPT !.traces = [c.traces EXCEPT ![i] = u]]
      BY <1>1 DEF ContextChange, i, u
    <2>5. /\ [c.traces EXCEPT ![i] = u] \in Seq(Trace)
          /\ Len([c.traces EXCEPT ![i] = u]) = Len(c.traces)
          /\ DOMAIN [c.traces EXCEPT ![i] = u] = DOMAIN c.traces
          /\ [c.traces EXCEPT ![i] = u][i] = u
          /\ \A j \in DOMAIN c.traces :
               j # i => [c.traces EXCEPT ![i] = u][j] = c.traces[j]
      BY <2>1, <2>2, <2>3, ReplaceFacts
    <2>6. d.traces = [c.traces EXCEPT ![i] = u] /\ d.reported = c.reported
      BY <2>4 DEF Context
    <2>7. Replaced(c, d, i, u)
      BY <2>4, <2>5, <2>6, Zenon DEF Replaced, Context
    <2> QED
      BY <2>1, <2>6, <2>7, Zenon DEF u
  <1>2. CASE ~(l.tracing /\ HasTrace(c, r))
    BY <1>2 DEF ContextChange
  <1> QED
    BY <1>1, <1>2

(* A subrequest without a trace gets one below the first *)
LEMMA AddTraceFacts ==
  ASSUME NEW c \in Context, NEW r \in Reqs, NEW l \in Locs, c.traces # <<>>
  PROVE  LET d == AddTrace(c, r, l)
             n == Len(c.traces) + 1
         IN /\ d \in Context /\ d.live = c.live /\ d.sec = c.sec
            /\ d.reported = c.reported
            /\ DOMAIN d.traces = DOMAIN c.traces \cup {n}
            /\ n \notin DOMAIN c.traces /\ n # 1
            /\ d.traces[n] = NewTrace(r, l, c.traces[1].req)
            /\ \A j \in DOMAIN c.traces : d.traces[j] = c.traces[j]
  <1> DEFINE u == NewTrace(r, l, c.traces[1].req)
  <1>1. c.traces \in Seq(Trace) /\ c.gen \in Nat
    BY DEF Context
  <1>2. c.traces[1] \in Trace /\ Len(c.traces) # 0
    BY <1>1
  <1>3. c.traces[1].req \in Reqs
    BY <1>2 DEF Trace
  <1>4. u \in Trace
    BY <1>3, NewTraceFacts
  <1> HIDE DEF u
  <1>5. /\ Append(c.traces, u) \in Seq(Trace)
        /\ DOMAIN Append(c.traces, u) = DOMAIN c.traces \cup {Len(c.traces) + 1}
        /\ Len(c.traces) + 1 \notin DOMAIN c.traces
        /\ Append(c.traces, u)[Len(c.traces) + 1] = u
        /\ \A j \in DOMAIN c.traces : Append(c.traces, u)[j] = c.traces[j]
    BY <1>1, <1>4, AppendFacts
  <1> DEFINE g == IF Grows(c) THEN c.gen + 1 ELSE c.gen
  <1>6. AddTrace(c, r, l)
          = [c EXCEPT !.traces = Append(c.traces, u), !.gen = g]
    BY DEF AddTrace, u
  <1>7. g \in Nat
    BY <1>1
  <1> HIDE DEF g
  <1>8. Len(c.traces) + 1 # 1
    BY <1>1, <1>2
  <1> QED
    BY <1>5, <1>6, <1>7, <1>8, Zenon DEF Context, u

(* on_log_request does nothing, or finishes the spans of the request; for  *)
(* the main request it also reports                                        *)
LEMMA LogCases ==
  ASSUME NEW c \in Context, NEW r \in Reqs, NEW l \in Locs,
         NEW d, d = ContextLog(c, r, l)
  PROVE  \/ d = c /\ ~(l.tracing /\ HasTrace(c, r))
         \/ \E i \in DOMAIN c.traces :
              /\ c.traces[i].req = r
              /\ Replaced(c, d, i, OnLogRequest(c.traces[i]))
              /\ c.sec # "none" /\ r = Main => d.reported
  <1>1. CASE l.tracing /\ HasTrace(c, r)
    <2> DEFINE i == TraceOf(c, r)
               u == OnLogRequest(c.traces[i])
               p == c.reported \/ (c.sec # "none" /\ r = Main)
    <2>1. i \in DOMAIN c.traces /\ c.traces[i].req = r
      BY <1>1, TraceOfFacts, Zenon
    <2>2. c.traces \in Seq(Trace) /\ c.traces[i] \in Trace
      BY <2>1 DEF Context
    <2> HIDE DEF i
    <2>3. u \in Trace
      BY <2>2, LogRequestFacts
    <2> HIDE DEF u
    <2>4. d = [c EXCEPT !.traces = [c.traces EXCEPT ![i] = u],
                        !.reported = p]
      BY <1>1 DEF ContextLog, i, u
    <2>5. /\ [c.traces EXCEPT ![i] = u] \in Seq(Trace)
          /\ Len([c.traces EXCEPT ![i] = u]) = Len(c.traces)
          /\ DOMAIN [c.traces EXCEPT ![i] = u] = DOMAIN c.traces
          /\ [c.traces EXCEPT ![i] = u][i] = u
          /\ \A j \in DOMAIN c.traces :
               j # i => [c.traces EXCEPT ![i] = u][j] = c.traces[j]
      BY <2>1, <2>2, <2>3, ReplaceFacts
    <2>6. p \in BOOLEAN
      BY DEF Context
    <2>7. d.traces = [c.traces EXCEPT ![i] = u] /\ d.reported = p
      BY <2>4 DEF Context
    <2> HIDE DEF p
    <2>8. Replaced(c, d, i, u)
      BY <2>4, <2>5, <2>6, <2>7, Zenon DEF Replaced, Context
    <2> QED
      BY <2>1, <2>7, <2>8, Zenon DEF u, p
  <1>2. CASE ~(l.tracing /\ HasTrace(c, r))
    BY <1>2, Zenon DEF ContextLog
  <1> QED
    BY <1>1, <1>2, Zenon

-----------------------------------------------------------------------------
(* Types *)

Request == [phase : Phases, loc : Locs, internal : BOOLEAN, ctx : Nat,
            moves : 0..MaxMoves]

(* A context that a pointer may name *)
Pointer(c) == c \in Nat /\ c <= Len(contexts)

Typed ==
  /\ req \in [Reqs -> Request]
  /\ \A r \in Reqs : Pointer(req[r].ctx)
  /\ logSub \in BOOLEAN /\ undefined \in BOOLEAN
  /\ cleanups \in Seq(Nat)
  /\ \A k \in DOMAIN cleanups : Pointer(cleanups[k])
  /\ contexts \in Seq(Context)
  /\ task \in [ctx : Nat, gen : Nat] /\ Pointer(task.ctx)
  /\ broken \subseteq Reqs

(* The step leaves every request but r alone; r is in phase p with the     *)
(* context c, at the same location                                         *)
Entered(r, p, c) ==
  /\ req' \in [Reqs -> Request]
  /\ req'[r].phase = p /\ req'[r].ctx = c
  /\ req'[r].loc = req[r].loc /\ req'[r].internal = req[r].internal
  /\ \A s \in Reqs : s # r => req'[s] = req[s]

(* An assignment of the context pointer and the phase of one request        *)
LEMMA EnteredFacts ==
  ASSUME Typed, NEW r \in Reqs, NEW p \in Phases, NEW c \in Nat,
         req' = [req EXCEPT ![r].ctx = c, ![r].phase = p]
  PROVE  Entered(r, p, c)
  BY Zenon DEF Typed, Request, Entered

(* An assignment of the phase alone: the context pointer stays              *)
LEMMA PhaseFacts ==
  ASSUME Typed, NEW r \in Reqs, NEW p \in Phases,
         req' = [req EXCEPT ![r].phase = p]
  PROVE  Entered(r, p, req[r].ctx)
  BY Zenon DEF Typed, Request, Entered

(* get_datadog_context returns null or a context *)
LEMMA ContextOfFacts ==
  ASSUME Typed, NEW r \in Reqs
  PROVE  /\ Pointer(ContextOf(r)) /\ ContextOf(r) \in Nat
         /\ ContextOf(r) # None => ContextOf(r) \in DOMAIN contexts
  <1>1. cleanups # <<>> => 1 \in DOMAIN cleanups
    BY DEF Typed
  <1>2. Pointer(ContextOf(r))
    BY <1>1 DEF Typed, ContextOf
  <1> QED
    BY <1>2 DEF Pointer, None, Typed

(* A handler that looks its context up stores what get_datadog_context      *)
(* returned                                                                 *)
LEMMA EnterFacts ==
  ASSUME Typed, NEW r \in Reqs, NEW p \in Phases, Enter(r, p)
  PROVE  Entered(r, p, ContextOf(r))
  BY ContextOfFacts, EnteredFacts, Zenon DEF Enter

(* The pointers stay valid: no context is removed from the history *)
LEMMA TypedStep ==
  ASSUME Typed, Len(contexts') >= Len(contexts), contexts' \in Seq(Context),
         req' \in [Reqs -> Request],
         \A r \in Reqs : req'[r].ctx = req[r].ctx \/ Pointer(req[r].ctx)',
         logSub' = logSub, undefined' \in BOOLEAN,
         \/ cleanups' = cleanups
         \/ /\ cleanups' \in Seq(Nat)
            /\ \A k \in DOMAIN cleanups' : Pointer(cleanups[k])',
         \/ task' = task
         \/ task' \in [ctx : Nat, gen : Nat] /\ Pointer(task.ctx)',
         broken' \subseteq Reqs
  PROVE  Typed'
  <1>1. ASSUME NEW c, Pointer(c)
        PROVE  c \in Nat /\ c <= Len(contexts')
    BY <1>1, Len(contexts) \in Nat, Len(contexts') \in Nat DEF Pointer, Typed
  <1>2. \A r \in Reqs : Pointer(req[r].ctx)'
    BY <1>1, Zenon DEF Typed, Pointer
  <1>3. \A k \in DOMAIN cleanups' : Pointer(cleanups[k])'
    BY <1>1, Zenon DEF Typed, Pointer
  <1>4. Pointer(task.ctx)'
    BY <1>1, Zenon DEF Typed, Pointer
  <1> QED
    BY <1>2, <1>3, <1>4, Zenon DEF Typed

(* One context is changed, the others are not *)
Updated(c, d) ==
  /\ contexts' \in Seq(Context) /\ Len(contexts') = Len(contexts)
  /\ DOMAIN contexts' = DOMAIN contexts
  /\ contexts'[c] = d
  /\ \A i \in DOMAIN contexts : i # c => contexts'[i] = contexts[i]

(* An assignment of one context                                             *)
LEMMA UpdatedFacts ==
  ASSUME Typed, NEW c \in DOMAIN contexts, NEW d \in Context,
         contexts' = [contexts EXCEPT ![c] = d]
  PROVE  Updated(c, d)
  <1>1. contexts \in Seq(Context)
    BY Zenon DEF Typed
  <1> QED
    BY <1>1, ReplaceFacts DEF Updated

(* One context is added *)
Added(d) ==
  /\ contexts' \in Seq(Context) /\ Len(contexts') = Len(contexts) + 1
  /\ DOMAIN contexts' = DOMAIN contexts \cup {Len(contexts) + 1}
  /\ Len(contexts) + 1 \notin DOMAIN contexts
  /\ contexts'[Len(contexts) + 1] = d
  /\ \A i \in DOMAIN contexts : contexts'[i] = contexts[i]

(* A context is appended to the history                                     *)
LEMMA AddedFacts ==
  ASSUME Typed, NEW d \in Context, contexts' = Append(contexts, d)
  PROVE  Added(d)
  <1>1. contexts \in Seq(Context)
    BY Zenon DEF Typed
  <1> QED
    BY <1>1, AppendFacts DEF Added

-----------------------------------------------------------------------------
(* What the handlers of the rewrite phase do *)

(* The request passes: it is not traced *)
PassBlock(r) ==
  /\ Entered(r, "access", req[r].ctx)
  /\ ~(Traced(r) \/ (~Waf /\ req[r].loc.rum))
  /\ UNCHANGED <<cleanups, contexts, undefined>>

(* A context is created for it ... *)
NewBlock(r) ==
  /\ Traced(r) \/ (~Waf /\ req[r].loc.rum)
  /\ ContextOf(r) = None
  /\ Added(NewContext(r, req[r].loc))
  /\ Entered(r, "access", Len(contexts) + 1)
  /\ cleanups' = <<Len(contexts) + 1>> \o cleanups
  /\ UNCHANGED undefined

(* ... and lost again *)
FailedBlock(r) ==
  /\ MayThrow(r) /\ ContextOf(r) = None
  /\ Added([NewContext(r, req[r].loc) EXCEPT !.live = FALSE])
  /\ Entered(r, "access", None)
  /\ UNCHANGED <<cleanups, undefined>>

(* The context it has is told of the location *)
ChangeBlock(r) ==
  /\ Traced(r) \/ (~Waf /\ req[r].loc.rum)
  /\ ContextOf(r) # None
  /\ Updated(ContextOf(r), ContextChange(Ctx(r), r, req[r].loc))
  /\ Entered(r, "access", ContextOf(r))
  /\ undefined' = \/ undefined
                  \/ req[r].loc.tracing /\ Ctx(r).traces = <<>>
  /\ UNCHANGED cleanups

(* ... and destroyed by an exception *)
LostBlock(r) ==
  /\ MayThrow(r) /\ ContextOf(r) # None
  /\ contexts' = [contexts EXCEPT ![cleanups[1]].live = FALSE]
  /\ cleanups' = [cleanups EXCEPT ![1] = None]
  /\ Entered(r, "access", None)
  /\ UNCHANGED undefined

(* on_enter_block does one of five things: it declines, makes a context,    *)
(* fails to make one, changes the block of a trace, or loses the trace to a *)
(* failed allocation                                                        *)
LEMMA EnterBlockCases ==
  ASSUME Typed, NEW r \in Reqs, EnterBlock(r)
  PROVE  /\ req[r].phase = "rewrite" /\ UNCHANGED <<logSub, task, broken>>
         /\ \/ PassBlock(r) \/ NewBlock(r) \/ FailedBlock(r)
            \/ ChangeBlock(r) \/ LostBlock(r)
  <1> DEFINE enabled == Traced(r) \/ (~Waf /\ req[r].loc.rum)
             l == req[r].loc
  <1>1. "access" \in Phases /\ l \in Locs /\ None \in Nat
    BY DEF Phases, Typed, Request, None
  <1>2. Len(contexts) + 1 \in Nat /\ Len(contexts) \in Nat
    BY DEF Typed
  <1>3. NewContext(r, l) \in Context
        /\ [NewContext(r, l) EXCEPT !.live = FALSE] \in Context
    BY <1>1, NewContextFacts, Zenon
  <1>7. req[r].phase = "rewrite" /\ UNCHANGED <<logSub, task, broken>>
    BY Zenon DEF EnterBlock
  <1>4. CASE ~enabled
    <2>1. PassBlock(r)
      BY <1>1, <1>4, PhaseFacts, Zenon DEF EnterBlock, PassBlock
    <2> QED
      BY <2>1, Zenon DEF EnterBlock
  <1>5. CASE enabled /\ ContextOf(r) = None
    <2>1. CreateContext(r) /\ UNCHANGED undefined
      BY <1>5, Zenon DEF EnterBlock
    <2>2. CASE /\ contexts' = Append(contexts, NewContext(r, l))
               /\ cleanups' = <<Len(contexts')>> \o cleanups
               /\ req' = [req EXCEPT ![r].ctx = Len(contexts'),
                                     ![r].phase = "access"]
      <3>1. Added(NewContext(r, l))
        BY <2>2, <1>3, AddedFacts, Zenon
      <3>2. Len(contexts') = Len(contexts) + 1
        BY <3>1, Zenon DEF Added
      <3>3. Entered(r, "access", Len(contexts) + 1)
        BY <2>2, <3>2, <1>1, <1>2, EnteredFacts, Zenon
      <3> QED
        BY <3>1, <3>2, <3>3, <2>1, <2>2, <1>5, Zenon DEF EnterBlock, NewBlock
    <2>3. CASE /\ MayThrow(r)
               /\ contexts' = Append(contexts,
                                 [NewContext(r, l) EXCEPT !.live = FALSE])
               /\ Enter(r, "access")
               /\ UNCHANGED cleanups
      <3>1. Added([NewContext(r, l) EXCEPT !.live = FALSE])
        BY <2>3, <1>3, AddedFacts, Zenon
      <3>2. Entered(r, "access", None)
        BY <2>3, <1>1, <1>5, EnterFacts, Zenon
      <3> QED
        BY <3>1, <3>2, <2>1, <2>3, <1>5, Zenon DEF EnterBlock, FailedBlock
    <2> QED
      BY <2>1, <2>2, <2>3, Zenon DEF CreateContext
  <1>6. CASE enabled /\ ContextOf(r) # None
    <2> DEFINE c == ContextOf(r)
    <2>1. c \in DOMAIN contexts /\ contexts[c] \in Context
      BY <1>6, ContextOfFacts DEF Typed
    <2>2. CASE /\ contexts' = [contexts EXCEPT ![c] = ContextChange(@, r, l)]
               /\ undefined' = \/ undefined
                               \/ l.tracing /\ contexts[c].traces = <<>>
               /\ Enter(r, "access")
               /\ UNCHANGED cleanups
      <3> DEFINE d == ContextChange(contexts[c], r, l)
      <3>1. d \in Context
        <4>1. \/ d = contexts[c]
              \/ \E i \in DOMAIN contexts[c].traces :
                   Replaced(contexts[c], d, i,
                            OnChangeBlock(contexts[c].traces[i], l))
              \/ contexts[c].traces # <<>> /\ d = AddTrace(contexts[c], r, l)
          BY <2>1, <1>1, ChangeCases, Zenon
        <4> QED
          BY <4>1, <2>1, <1>1, AddTraceFacts, ZenonT(30) DEF Replaced
      <3>2. contexts' = [contexts EXCEPT ![c] = d]
        BY <2>1, <2>2
      <3>3. Updated(c, d)
        BY <3>1, <3>2, <2>1, UpdatedFacts, Zenon
      <3>4. Entered(r, "access", c)
        BY <2>2, <1>1, EnterFacts, Zenon
      <3>5. undefined' = \/ undefined
                         \/ l.tracing /\ Ctx(r).traces = <<>>
        BY <2>2 DEF Ctx
      <3>6. Updated(c, ContextChange(Ctx(r), r, l))
        BY <3>3, Zenon DEF Ctx
      <3>7. ChangeBlock(r)
        BY <3>4, <3>5, <3>6, <2>2, <1>6, Zenon DEF ChangeBlock
      <3> QED
        BY <3>7, <1>7, Zenon
    <2>3. CASE MayThrow(r) /\ DestroyContext(r) /\ UNCHANGED undefined
      <3>1. Entered(r, "access", None)
        BY <2>3, <1>1, EnteredFacts, Zenon DEF DestroyContext
      <3> QED
        BY <3>1, <2>3, <1>6, Zenon DEF EnterBlock, LostBlock, DestroyContext
    <2> QED
      BY <2>2, <2>3, <1>6, Zenon DEF EnterBlock
  <1> QED
    BY <1>4, <1>5, <1>6, Zenon

-----------------------------------------------------------------------------
(* What the other handlers do *)

(* The WAF runs for request r, and its stage is v *)
Ran(r, v) ==
  /\ r = Main /\ ContextOf(r) # None
  /\ Updated(ContextOf(r), [Ctx(r) EXCEPT !.sec = v])
  /\ task' = [ctx |-> ContextOf(r), gen |-> Ctx(r).gen]

(* Setting the stage of the security context changes nothing else           *)
LEMMA StageFacts ==
  ASSUME NEW c \in Context, NEW v \in {"none", "start", "begun", "ended"}
  PROVE  LET d == [c EXCEPT !.sec = v]
         IN /\ d \in Context /\ d.sec = v /\ d.live = c.live
            /\ d.traces = c.traces /\ d.gen = c.gen /\ d.reported = c.reported
  BY Zenon DEF Context

(* Posting a task sets the stage and names the context the task borrows     *)
LEMMA RanFacts ==
  ASSUME Typed, NEW r \in Reqs, NEW v \in {"begun", "ended"},
         r = Main, ContextOf(r) # None,
         contexts' = [contexts EXCEPT ![ContextOf(r)].sec = v],
         StartTask(ContextOf(r))
  PROVE  Ran(r, v)
  <1> DEFINE c == ContextOf(r)
  <1>1. c \in DOMAIN contexts /\ contexts[c] \in Context
    BY ContextOfFacts DEF Typed
  <1>2. [contexts[c] EXCEPT !.sec = v] \in Context
    BY <1>1, StageFacts, Zenon
  <1>3. contexts' = [contexts EXCEPT ![c] = [contexts[c] EXCEPT !.sec = v]]
    BY <1>1
  <1>4. Updated(c, [contexts[c] EXCEPT !.sec = v])
    BY <1>1, <1>2, <1>3, UpdatedFacts, Zenon
  <1> QED
    BY <1>4, Zenon DEF Ran, Ctx, StartTask

(* on_access posts the first task exactly where the stage lets it           *)
LEMMA AccessEffect ==
  ASSUME Typed, NEW r \in Reqs, Access(r)
  PROVE  /\ req[r].phase = "access" /\ Idle(r)
         /\ Entered(r, "auth", IF r = Main THEN ContextOf(r) ELSE req[r].ctx)
         /\ \/ Examines(r) /\ Ran(r, "begun")
            \/ ~Examines(r) /\ UNCHANGED <<contexts, task>>
         /\ UNCHANGED <<logSub, cleanups, broken, undefined>>
  <1>1. "auth" \in Phases
    BY DEF Phases
  <1>2. Entered(r, "auth", IF r = Main THEN ContextOf(r) ELSE req[r].ctx)
    BY <1>1, EnterFacts, PhaseFacts, Zenon DEF Access
  <1>3. Examines(r) => Ran(r, "begun")
    BY RanFacts, Zenon DEF Access, Examines
  <1> QED
    BY <1>2, <1>3, Zenon DEF Access

(* on_header_filter posts the final task exactly after the first one        *)
LEMMA HeaderEffect ==
  ASSUME Typed, NEW r \in Reqs, HeaderFilter(r)
  PROVE  /\ req[r].phase \in {"access", "auth", "content"} /\ Idle(r)
         /\ r = Main /\ req[r].phase = "auth" => AllDone
         /\ Entered(r, "output", ContextOf(r))
         /\ \/ Ctx(r).sec = "begun" /\ Ran(r, "ended")
            \/ UNCHANGED <<contexts, task>>
         /\ UNCHANGED <<logSub, cleanups, broken, undefined>>
  <1>1. "output" \in Phases
    BY DEF Phases
  <1>2. Entered(r, "output", ContextOf(r))
    BY <1>1, EnterFacts, Zenon DEF HeaderFilter
  <1>3. ContextOf(r) # None /\ FinalRun(r) => Ran(r, "ended")
    BY RanFacts, Zenon DEF HeaderFilter, FinalRun
  <1> QED
    BY <1>2, <1>3, Zenon DEF HeaderFilter, FinalRun

(* What on_log_request and, with the main request, the cleanups of the     *)
(* pool make of context i                                                  *)
Logged(r, i) ==
  IF i = ContextOf(r) /\ (r = Main \/ logSub)
  THEN ContextLog(contexts[i], r, req[r].loc)
  ELSE contexts[i]

Cleaned(r, i) ==
  IF r = Main /\ i \in Range(cleanups)
  THEN [Logged(r, i) EXCEPT !.live = FALSE]
  ELSE Logged(r, i)

(* Destroying a context changes nothing but its life                        *)
LEMMA DeadFacts ==
  ASSUME NEW c \in Context
  PROVE  LET d == [c EXCEPT !.live = FALSE]
         IN /\ d \in Context /\ d.live = FALSE /\ d.sec = c.sec
            /\ d.traces = c.traces /\ d.gen = c.gen /\ d.reported = c.reported
  BY Zenon DEF Context

(* What on_log_request and the pool's cleanup leave is a context            *)
LEMMA LoggedFacts ==
  ASSUME Typed, NEW r \in Reqs, NEW i \in DOMAIN contexts
  PROVE  Logged(r, i) \in Context /\ Cleaned(r, i) \in Context
  <1>1. contexts[i] \in Context /\ req[r].loc \in Locs
    BY DEF Typed, Request
  <1> DEFINE d == ContextLog(contexts[i], r, req[r].loc)
  <1>2. d \in Context
    <2>1. \/ d = contexts[i]
          \/ \E j \in DOMAIN contexts[i].traces :
               Replaced(contexts[i], d, j, OnLogRequest(contexts[i].traces[j]))
      BY <1>1, LogCases, Zenon
    <2> QED
      BY <2>1, <1>1, Zenon DEF Replaced
  <1>3. Logged(r, i) \in Context
    BY <1>1, <1>2, Zenon DEF Logged
  <1> QED
    BY <1>3, DeadFacts, Zenon DEF Cleaned

(* on_log_request finishes the trace of the request; the cleanup at the end *)
(* of the main request destroys the contexts the cleanup list names         *)
LEMMA LogEffect ==
  ASSUME Typed, NEW r \in Reqs, Log(r)
  PROVE  /\ req[r].phase = "log" /\ Idle(r) /\ (r = Main => AllDone)
         /\ Entered(r, "done", None)
         /\ contexts' \in Seq(Context) /\ Len(contexts') = Len(contexts)
         /\ DOMAIN contexts' = DOMAIN contexts
         /\ \A i \in DOMAIN contexts : contexts'[i] = Cleaned(r, i)
         /\ UNCHANGED <<logSub, cleanups, task, broken>>
  <1>1. "done" \in Phases /\ None \in Nat
    BY DEF Phases, None
  <1>2. req' = [req EXCEPT ![r].phase = "done", ![r].ctx = None]
    BY Zenon DEF Log
  <1>3. Entered(r, "done", None)
    BY <1>1, <1>2, Zenon DEF Typed, Request, Entered
  <1>4. contexts \in Seq(Context) /\ DOMAIN contexts = 1..Len(contexts)
        /\ Len(contexts) \in Nat
    BY DEF Typed
  <1> DEFINE c == ContextOf(r)
             logged == IF c = None \/ ~(r = Main \/ logSub) THEN contexts
                       ELSE [contexts EXCEPT ![c] = ContextLog(@, r, req[r].loc)]
  <1>5. c = None => c \notin DOMAIN contexts
    BY <1>4 DEF None
  <1>6. DOMAIN logged = DOMAIN contexts
    BY Zenon
  <1>7. \A i \in DOMAIN contexts : logged[i] = Logged(r, i)
    <2> SUFFICES ASSUME NEW i \in DOMAIN contexts
                 PROVE  logged[i] = Logged(r, i)
      BY Zenon
    <2> QED
      BY <1>5, Zenon DEF Logged
  <1>8. contexts' = IF r # Main THEN logged
                    ELSE [i \in DOMAIN logged |->
                            IF i \in Range(cleanups)
                            THEN [logged[i] EXCEPT !.live = FALSE]
                            ELSE logged[i]]
    BY Zenon DEF Log
  <1> HIDE DEF logged
  <1>9. DOMAIN contexts' = DOMAIN contexts
    BY <1>6, <1>8, Zenon
  <1>10. \A i \in DOMAIN contexts : contexts'[i] = Cleaned(r, i)
    BY <1>6, <1>7, <1>8, Zenon DEF Cleaned
  <1>11. contexts' = [i \in 1..Len(contexts) |-> Cleaned(r, i)]
    <2>1. CASE r = Main
      BY <2>1, <1>4, <1>6, <1>7, <1>8, Zenon DEF Cleaned
    <2>2. CASE r # Main
      <3>1. logged = [i \in DOMAIN logged |-> logged[i]]
        <4>1. contexts = [i \in DOMAIN contexts |-> contexts[i]]
          BY <1>4
        <4>2. CASE c = None \/ ~(r = Main \/ logSub)
          BY <4>1, <4>2, Zenon DEF logged
        <4>3. CASE ~(c = None \/ ~(r = Main \/ logSub))
          <5>1. logged = [contexts EXCEPT ![c] = ContextLog(@, r, req[r].loc)]
            BY <4>3, Zenon DEF logged
          <5> QED
            BY <5>1, Zenon
        <4> QED
          BY <4>2, <4>3, Zenon
      <3> QED
        BY <3>1, <2>2, <1>4, <1>6, <1>7, <1>8, Zenon DEF Cleaned
    <2> QED
      BY <2>1, <2>2, Zenon
  <1>12. contexts' \in [1..Len(contexts) -> Context]
    BY <1>4, <1>11, LoggedFacts, Zenon
  <1>13. contexts' \in Seq(Context) /\ Len(contexts') = Len(contexts)
    BY <1>4, <1>12
  <1> QED
    BY <1>3, <1>9, <1>10, <1>13, Zenon DEF Log

(* A step of a request after which its context is c *)
LEMMA EnteredTyped ==
  ASSUME Typed, NEW r \in Reqs, NEW p, NEW c, Entered(r, p, c),
         c \in Nat, c <= Len(contexts'),
         contexts' \in Seq(Context), Len(contexts') >= Len(contexts),
         logSub' = logSub, undefined' \in BOOLEAN,
         \/ cleanups' = cleanups
         \/ /\ cleanups' \in Seq(Nat)
            /\ \A k \in DOMAIN cleanups' : Pointer(cleanups[k])',
         \/ task' = task
         \/ task' \in [ctx : Nat, gen : Nat] /\ Pointer(task.ctx)',
         broken' \subseteq Reqs
  PROVE  Typed'
  <1>1. /\ req' \in [Reqs -> Request]
        /\ \A s \in Reqs : req'[s].ctx = req[s].ctx \/ Pointer(req[s].ctx)'
    BY Zenon DEF Entered, Pointer
  <1> QED
    BY <1>1, TypedStep, Zenon

(* The handler of a request found its context; no context changed *)
LEMMA FoundTyped ==
  ASSUME Typed, NEW r \in Reqs, NEW p, NEW c, Entered(r, p, c),
         Pointer(c), UNCHANGED <<contexts, cleanups, logSub>>,
         undefined' \in BOOLEAN, broken' \subseteq Reqs,
         \/ task' = task
         \/ task' \in [ctx : Nat, gen : Nat] /\ task'.ctx <= Len(contexts)
  PROVE  Typed'
  <1>1. Len(contexts) >= Len(contexts) /\ contexts \in Seq(Context)
    BY DEF Typed
  <1>2. c \in Nat /\ c <= Len(contexts')
    BY Zenon DEF Pointer
  <1>3. \/ task' = task
        \/ task' \in [ctx : Nat, gen : Nat] /\ Pointer(task.ctx)'
    BY DEF Pointer
  <1> QED
    BY <1>1, <1>2, <1>3, EnteredTyped, Zenon

(* A run of the WAF is submitted *)
LEMMA RanTyped ==
  ASSUME Typed, NEW r \in Reqs, NEW v \in {"begun", "ended"}, Ran(r, v),
         NEW p, Entered(r, p, ContextOf(r)),
         UNCHANGED <<logSub, cleanups, broken, undefined>>
  PROVE  Typed'
  <1> DEFINE c == ContextOf(r)
  <1>1. c \in DOMAIN contexts /\ c \in Nat /\ c <= Len(contexts)
    BY ContextOfFacts, Zenon DEF Ran, Pointer
  <1>2. /\ contexts \in Seq(Context) /\ Len(contexts) \in Nat
        /\ broken \subseteq Reqs /\ undefined \in BOOLEAN
    BY DEF Typed
  <1>3. contexts[c].gen \in Nat
    <2>1. contexts[c] \in Context
      BY <1>1, <1>2
    <2> QED
      BY <2>1, Zenon DEF Context
  <1>4. contexts' \in Seq(Context) /\ Len(contexts') = Len(contexts)
    BY Zenon DEF Ran, Updated
  <1>5. task' \in [ctx : Nat, gen : Nat] /\ task'.ctx = c
    BY <1>1, <1>3, Zenon DEF Ran, Ctx
  <1>6. Pointer(task.ctx)' /\ Len(contexts') >= Len(contexts)
    BY <1>1, <1>2, <1>4, <1>5 DEF Pointer
  <1> QED
    BY <1>1, <1>2, <1>4, <1>5, <1>6, EnteredTyped, Zenon

(* A new request has no context                                             *)
LEMMA TypedInit ==
  Init => Typed
  <1> SUFFICES ASSUME Init
               PROVE  Typed
    OBVIOUS
  <1>1. PICK l \in MainLocs, used \in SUBSET Subs :
          req = [r \in Reqs |->
                   [phase |-> IF r = Main THEN "rewrite"
                              ELSE IF r \in used THEN "none" ELSE "done",
                    loc |-> l, internal |-> FALSE, ctx |-> None, moves |-> 0]]
    BY Zenon DEF Init
  <1>2. 0 \in 0..MaxMoves /\ None \in Nat
    BY TracingAssumption DEF None
  <1>3. req \in [Reqs -> Request]
    BY <1>1, <1>2, Zenon DEF Request, Phases, Locs
  <1>4. contexts = <<>> /\ cleanups = <<>> /\ Len(contexts) = 0
    BY DEF Init
  <1>5. Pointer(None)
    BY <1>4 DEF Pointer, None
  <1>6. \A r \in Reqs : Pointer(req[r].ctx)
    BY <1>1, <1>5, Zenon
  <1>7. task \in [ctx : Nat, gen : Nat] /\ task.ctx = None
    BY DEF Init, NoTask, None
  <1>8. /\ cleanups \in Seq(Nat) /\ contexts \in Seq(Context)
        /\ \A k \in DOMAIN cleanups : Pointer(cleanups[k])
    BY <1>4
  <1> QED
    BY <1>3, <1>5, <1>6, <1>7, <1>8, Zenon DEF Init, Typed

(* Every step keeps the types, and the pointers within the history          *)
LEMMA TypedNext ==
  ASSUME Typed, [Next]_vars
  PROVE  Typed'
  <1>0. /\ contexts \in Seq(Context) /\ Len(contexts) \in Nat
        /\ Len(contexts) <= Len(contexts) /\ Len(contexts) + 1 \in Nat
        /\ Len(contexts) <= Len(contexts) + 1
        /\ \A r \in Reqs : req[r].loc \in Locs /\ Pointer(req[r].ctx)
        /\ broken \subseteq Reqs /\ undefined \in BOOLEAN
        /\ None \in Nat /\ None <= Len(contexts)
    BY DEF Typed, Request, None
  <1>1. ASSUME NEW r \in Reqs, EnterBlock(r)
        PROVE  Typed'
    <2>1. UNCHANGED <<logSub, task, broken>>
      BY <1>1, EnterBlockCases, Zenon
    <2>2. CASE PassBlock(r)
      BY <2>1, <2>2, <1>0, FoundTyped, Zenon DEF PassBlock
    <2>3. CASE NewBlock(r)
      <3> DEFINE n == Len(contexts) + 1
      <3>1. /\ n \in Nat /\ n <= Len(contexts') /\ contexts' \in Seq(Context)
            /\ Len(contexts') >= Len(contexts) /\ Len(contexts') = n
        BY <2>3, <1>0 DEF NewBlock, Added
      <3>2. cleanups \in Seq(Nat) /\ \A k \in DOMAIN cleanups : Pointer(cleanups[k])
        BY Zenon DEF Typed
      <3>3. /\ cleanups' \in Seq(Nat) /\ cleanups'[1] = n
            /\ \A k \in DOMAIN cleanups' :
                 k # 1 => \E m \in DOMAIN cleanups : cleanups'[k] = cleanups[m]
        <4>1. cleanups' = <<n>> \o cleanups
          BY <2>3, Zenon DEF NewBlock
        <4> HIDE DEF n
        <4> DEFINE t == <<n>> \o cleanups
        <4>2. /\ t \in Seq(Nat) /\ t[1] = n
              /\ \A k \in DOMAIN t :
                   k # 1 => \E m \in DOMAIN cleanups : t[k] = cleanups[m]
          BY Zenon, <3>1, <3>2, PrependFacts
        <4>3. cleanups' = t
          BY Zenon, <4>1
        <4> HIDE DEF t
        <4> QED
          BY Zenon, <4>2, <4>3
      <3>4. \A k \in DOMAIN cleanups' : Pointer(cleanups[k])'
        <4> SUFFICES ASSUME NEW k \in DOMAIN cleanups'
                     PROVE  cleanups'[k] \in Nat /\ cleanups'[k] <= Len(contexts')
          BY Zenon DEF Pointer
        <4>1. CASE k = 1
          BY <4>1, <3>1, <3>3, Zenon
        <4>2. CASE k # 1
          <5>1. PICK m \in DOMAIN cleanups : cleanups'[k] = cleanups[m]
            BY <4>2, <3>3, Zenon
          <5>2. cleanups[m] \in Nat /\ cleanups[m] <= Len(contexts)
            BY <3>2, Zenon DEF Pointer
          <5> QED
            BY <5>1, <5>2, <3>1, <1>0
        <4> QED
          BY <4>1, <4>2, Zenon
      <3> QED
        BY <2>1, <2>3, <3>1, <3>3, <3>4, <1>0, EnteredTyped, Zenon DEF NewBlock
    <2>4. CASE FailedBlock(r)
      <3>1. /\ None <= Len(contexts') /\ contexts' \in Seq(Context)
            /\ Len(contexts') >= Len(contexts)
        BY <2>4, <1>0 DEF FailedBlock, Added, None
      <3> QED
        BY <2>1, <2>4, <3>1, <1>0, EnteredTyped, Zenon DEF FailedBlock
    <2>5. CASE ChangeBlock(r)
      <3>1. /\ contexts' \in Seq(Context) /\ Len(contexts') >= Len(contexts)
            /\ ContextOf(r) \in Nat /\ ContextOf(r) <= Len(contexts')
        BY <2>5, <1>0, ContextOfFacts DEF ChangeBlock, Updated, Pointer
      <3>2. undefined' \in BOOLEAN
        BY <2>5, <1>0 DEF ChangeBlock
      <3> QED
        BY <2>1, <2>5, <3>1, <3>2, <1>0, EnteredTyped, Zenon DEF ChangeBlock
    <2>6. CASE LostBlock(r)
      <3>1. contexts' \in Seq(Context) /\ Len(contexts') = Len(contexts)
        <4>1. CASE cleanups[1] \in DOMAIN contexts
          <5> DEFINE d == [contexts[cleanups[1]] EXCEPT !.live = FALSE]
          <5>1. contexts[cleanups[1]] \in Context
            BY <4>1, <1>0
          <5>2. d \in Context
            BY <5>1, DeadFacts, Zenon
          <5>3. contexts' = [contexts EXCEPT ![cleanups[1]] = d]
            BY <2>6, <4>1 DEF LostBlock
          <5> QED
            BY <4>1, <5>2, <5>3, UpdatedFacts, Zenon DEF Updated
        <4>2. CASE cleanups[1] \notin DOMAIN contexts
          <5>1. contexts' = [i \in DOMAIN contexts |-> contexts[i]]
            BY <2>6, <4>2, Zenon DEF LostBlock
          <5> QED
            BY <5>1, <1>0
        <4> QED
          BY <4>1, <4>2, Zenon
      <3>2. /\ cleanups' \in Seq(Nat)
            /\ \A k \in DOMAIN cleanups' : Pointer(cleanups[k])'
        <4>1. cleanups \in Seq(Nat)
          BY Zenon DEF Typed
        <4>2. cleanups' = [cleanups EXCEPT ![1] = None]
          BY <2>6, Zenon DEF LostBlock
        <4>3. /\ cleanups' \in Seq(Nat) /\ DOMAIN cleanups' = DOMAIN cleanups
              /\ 1 \in DOMAIN cleanups => cleanups'[1] = None
              /\ \A k \in DOMAIN cleanups : k # 1 => cleanups'[k] = cleanups[k]
          BY <4>1, <4>2, <1>0, ReplaceFacts, Zenon
        <4> QED
          BY <4>3, <3>1, <1>0, Zenon DEF Typed, Pointer
      <3>3. None <= Len(contexts') /\ Len(contexts') >= Len(contexts)
        BY <3>1, <1>0
      <3> QED
        BY <2>1, <2>6, <3>1, <3>2, <3>3, <1>0, EnteredTyped, Zenon DEF LostBlock
    <2> QED
      BY <1>1, <2>2, <2>3, <2>4, <2>5, <2>6, EnterBlockCases, Zenon
  <1>2. ASSUME NEW r \in Reqs, Access(r)
        PROVE  Typed'
    <2>1. Pointer(IF r = Main THEN ContextOf(r) ELSE req[r].ctx)
      BY <1>0, ContextOfFacts, Zenon
    <2>2. CASE Ran(r, "begun")
      <3>1. /\ Entered(r, "auth", ContextOf(r))
            /\ UNCHANGED <<logSub, cleanups, broken, undefined>>
        BY <1>2, <2>2, AccessEffect, Zenon DEF Ran
      <3> QED
        BY <3>1, <2>2, <1>0, RanTyped, Zenon
    <2>3. CASE UNCHANGED <<contexts, task>>
      BY <1>2, <2>1, <2>3, <1>0, AccessEffect, FoundTyped, Zenon
    <2> QED
      BY <1>2, <2>2, <2>3, AccessEffect, Zenon
  <1>3. ASSUME NEW r \in Reqs, Allow(r)
        PROVE  Typed'
    <2>1. "precontent" \in Phases
      BY DEF Phases
    <2>2. Entered(r, "precontent", req[r].ctx)
      BY <1>3, <2>1, PhaseFacts, Zenon DEF Allow
    <2> QED
      BY <1>3, <2>2, <1>0, FoundTyped, Zenon DEF Allow
  <1>4. ASSUME NEW r \in Reqs, Precontent(r)
        PROVE  Typed'
    <2>1. "content" \in Phases
      BY DEF Phases
    <2>2. Entered(r, "content", ContextOf(r)) /\ Pointer(ContextOf(r))
      BY <1>4, <2>1, EnterFacts, ContextOfFacts, Zenon DEF Precontent
    <2> QED
      BY <1>4, <2>2, <1>0, FoundTyped, Zenon DEF Precontent
  <1>5. ASSUME NEW r \in Reqs, HeaderFilter(r)
        PROVE  Typed'
    <2>1. CASE Ran(r, "ended")
      BY <1>5, <2>1, <1>0, HeaderEffect, RanTyped, Zenon
    <2>2. CASE UNCHANGED <<contexts, task>>
      BY <1>5, <2>2, <1>0, HeaderEffect, ContextOfFacts, FoundTyped, Zenon
    <2> QED
      BY <1>5, <2>1, <2>2, HeaderEffect, Zenon
  <1>6. ASSUME NEW r \in Reqs, OutputBodyFilter(r)
        PROVE  Typed'
    <2>1. "log" \in Phases
      BY DEF Phases
    <2> DEFINE c == IF r = Main THEN ContextOf(r) ELSE req[r].ctx
    <2>2. Entered(r, "log", c) /\ Pointer(c)
      BY <1>6, <1>0, <2>1, EnterFacts, PhaseFacts, ContextOfFacts, Zenon
         DEF OutputBodyFilter
    <2>3. broken' \subseteq Reqs
      BY <1>6, <1>0, Zenon DEF OutputBodyFilter
    <2> QED
      BY <1>6, <2>2, <2>3, <1>0, FoundTyped, Zenon DEF OutputBodyFilter
  <1>7. ASSUME NEW r \in Reqs, Log(r)
        PROVE  Typed'
    <2>1. undefined' \in BOOLEAN
      BY <1>7, <1>0 DEF Log
    <2>2. Len(contexts') >= Len(contexts) /\ None <= Len(contexts')
      BY <1>7, <1>0, LogEffect
    <2> QED
      BY <1>7, <1>0, <2>1, <2>2, LogEffect, EnteredTyped, Zenon
  <1>8. ASSUME NEW r \in Reqs, NEW l \in Locs, Move(r, l)
        PROVE  Typed'
    <2>1. req[r].moves \in Nat /\ req[r].moves + 1 \in 0..MaxMoves
      BY <1>8, TracingAssumption DEF Move, Typed, Request
    <2>2. PICK c \in {None, req[r].ctx} :
            req' = [req EXCEPT ![r] = [phase |-> "rewrite", loc |-> l,
                      internal |-> TRUE, ctx |-> c, moves |-> @.moves + 1]]
      BY <1>8, Zenon DEF Move
    <2>3. c \in Nat /\ Pointer(c)
      BY <1>0 DEF Pointer
    <2>4. /\ req' \in [Reqs -> Request]
          /\ \A s \in Reqs : req'[s].ctx = req[s].ctx \/ req'[s].ctx = c
      BY <2>1, <2>2, <2>3, Zenon DEF Typed, Request, Phases
    <2>5. /\ UNCHANGED <<logSub, cleanups, contexts, task, broken, undefined>>
          /\ \A s \in Reqs : Pointer(req[s].ctx)'
      BY <1>8, <1>0, <2>3, <2>4, Zenon DEF Move, Pointer
    <2> QED
      BY <2>4, <2>5, Zenon DEF Typed, Pointer
  <1>9. ASSUME NEW s \in Subs, NEW l \in Locs, StartSub(s, l)
        PROVE  Typed'
    <2>1. 0 \in 0..MaxMoves
      BY TracingAssumption
    <2>2. req' = [req EXCEPT ![s] = [phase |-> "rewrite", loc |-> l,
                    internal |-> TRUE, ctx |-> None, moves |-> 0]]
      BY <1>9, Zenon DEF StartSub
    <2>3. /\ req' \in [Reqs -> Request]
          /\ \A r \in Reqs : req'[r].ctx = req[r].ctx \/ req'[r].ctx = None
      BY <2>1, <2>2, <1>0, Zenon DEF Typed, Request, Phases
    <2>4. /\ UNCHANGED <<logSub, cleanups, contexts, task, broken, undefined>>
          /\ \A r \in Reqs : Pointer(req[r].ctx)'
      BY <1>9, <1>0, <2>3, Zenon DEF StartSub, Pointer
    <2> QED
      BY <2>3, <2>4, Zenon DEF Typed, Pointer
  <1>10. CASE RequestBodyFilter
    <2>1. "content" \in Phases /\ "output" \in Phases /\ Main \in Reqs
      BY DEF Phases, Reqs
    <2>2. CASE HasTrace(Ctx(Main), Main)
      <3>1. /\ Entered(Main, "content", ContextOf(Main))
            /\ UNCHANGED <<logSub, cleanups, contexts, broken, undefined>>
            /\ StartTask(ContextOf(Main)) /\ ContextOf(Main) # None
        BY <1>10, <2>1, <2>2, EnterFacts, Zenon DEF RequestBodyFilter
      <3>2. /\ ContextOf(Main) \in DOMAIN contexts /\ Pointer(ContextOf(Main))
            /\ ContextOf(Main) \in Nat /\ ContextOf(Main) <= Len(contexts)
        BY <3>1, <2>1, ContextOfFacts, Zenon DEF Pointer
      <3>3. contexts[ContextOf(Main)].gen \in Nat
        <4>1. contexts[ContextOf(Main)] \in Context
          BY <3>2, <1>0
        <4> QED
          BY <4>1, Zenon DEF Context
      <3>4. task' \in [ctx : Nat, gen : Nat] /\ task'.ctx <= Len(contexts)
        BY <3>1, <3>2, <3>3 DEF StartTask
      <3> QED
        BY <3>1, <3>2, <3>4, <2>1, <1>0, FoundTyped, Zenon
    <2>3. CASE ~HasTrace(Ctx(Main), Main)
      <3>1. /\ Entered(Main, "output", ContextOf(Main))
            /\ UNCHANGED <<logSub, cleanups, contexts, task, undefined>>
            /\ broken' \subseteq Reqs
        BY <1>10, <1>0, <2>1, <2>3, EnterFacts, Zenon DEF RequestBodyFilter
      <3> QED
        BY <3>1, <2>1, <1>0, ContextOfFacts, FoundTyped, Zenon
    <2> QED
      BY <2>2, <2>3, Zenon
  <1>11. CASE TaskDone
    <2>1. task' \in [ctx : Nat, gen : Nat] /\ task'.ctx = None
      BY <1>11 DEF TaskDone, NoTask, None
    <2>2. UNCHANGED <<req, logSub, cleanups, contexts, broken, undefined>>
      BY <1>11, Zenon DEF TaskDone
    <2> QED
      BY <2>1, <2>2, <1>0, Zenon DEF Typed, Pointer
  <1>12. CASE UNCHANGED vars
    BY <1>12, Zenon DEF vars, Typed, Pointer
  <1> QED
    BY <1>1, <1>2, <1>3, <1>4, <1>5, <1>6, <1>7, <1>8, <1>9, <1>10, <1>11,
       <1>12, Zenon DEF Next, Terminated

(* Typed is an invariant                                                    *)
LEMMA TypedSpec ==
  Spec => []Typed
  <1>1. Typed /\ [Next]_vars => Typed'
    BY TypedNext
  <1> QED
    BY <1>1, TypedInit, PTL DEF Spec

(* TypeOK holds for every number of subrequests and redirects, whatever    *)
(* the locations and whenever an allocation fails: a pointer of a module   *)
(* context or of a cleanup entry is null or names a context that was       *)
(* created.                                                                *)
THEOREM TracingTyped ==
  Spec => []TypeOK
  <1>1. Typed => TypeOK
    <2> SUFFICES ASSUME Typed
                 PROVE  TypeOK
      OBVIOUS
    <2>1. \A c : Pointer(c) => c \in 0..Len(contexts)
      BY DEF Typed, Pointer
    <2>2. req \in [Reqs -> [phase : Phases, loc : Locs, internal : BOOLEAN,
                           ctx : 0..Len(contexts), moves : 0..MaxMoves]]
      <3>1. req \in [Reqs -> Request] /\ \A r \in Reqs : Pointer(req[r].ctx)
        BY Zenon DEF Typed
      <3>2. \A r \in Reqs : req[r] \in [phase : Phases, loc : Locs,
               internal : BOOLEAN, ctx : 0..Len(contexts), moves : 0..MaxMoves]
        BY <3>1, <2>1, Zenon DEF Request
      <3> QED
        BY <3>1, <3>2, Zenon
    <2>3. \A i \in DOMAIN contexts :
            contexts[i].sec \in {"none", "start", "begun", "ended"}
      <3>1. \A i \in DOMAIN contexts : contexts[i] \in Context
        BY DEF Typed
      <3> QED
        BY <3>1, Zenon DEF Context
    <2> QED
      BY <2>1, <2>2, <2>3, Zenon DEF Typed, TypeOK
  <1> QED
    BY <1>1, TypedSpec, PTL

-----------------------------------------------------------------------------
(* The inductive invariant.  While the main request is not done there is   *)
(* at most one live context, the one of the first cleanup entry, and every *)
(* handler finds it; subrequests run only while the main request waits in  *)
(* its access phase, and then no WAF task is in flight.                    *)

(* Where the properties hold: the main request is sent to locations with   *)
(* tracing, subrequests start in its access phase, and an exception hits a *)
(* request that no other request will follow.                              *)
Served ==
  /\ \A l \in MainLocs : l.tracing
  /\ SubPhases \subseteq {"auth"} /\ Throws # "any"

(* The context of the first cleanup entry *)
Front == IF cleanups = <<>> THEN None ELSE cleanups[1]

SubsOver == \A s \in Subs : req[s].phase = "done"

Active(r) == req[r].phase \notin {"none", "done"}

(* Where the requests are and which context they have *)
Place ==
  /\ \A r \in Reqs : req[r].ctx # None => req[r].ctx = Front /\ Active(r)
  /\ \A s \in Subs : Active(s) => req[s].internal
  /\ Front # None /\ req[Main].phase # "done"
       => req[Main].ctx # None \/ req[Main].internal
  /\ req[Main].phase # "none" /\ req[Main].loc \in MainLocs
  /\ \A k \in DOMAIN cleanups : k # 1 => cleanups[k] = None
  /\ req[Main].phase # "auth" => AllDone
  /\ Front = None => SubsOver \/ req[Main].phase = "rewrite"

(* The traces of a context: one for each request, the main request's first *)
Tree(c) ==
  /\ c.traces # <<>>
  /\ \A j \in DOMAIN c.traces :
       /\ c.traces[j].req = Main <=> j = 1
       /\ j # 1 => c.traces[j].parent = Main
       /\ ~c.traces[j].loc.locations => c.traces[j].span # "open"
  /\ \A j, k \in DOMAIN c.traces : c.traces[j].req = c.traces[k].req => j = k

Trees ==
  \A i \in DOMAIN contexts :
    Tree(contexts[i]) /\ (i # Front => ~contexts[i].live)

Tasks ==
  task.ctx # None =>
    /\ task.ctx = Front /\ task.gen = contexts[Front].gen /\ AllDone
    /\ req[Main].phase \in {"auth", "content", "output", "log"}

(* The stage of a context, when the main request is in phase p *)
Staged(c, p) ==
  /\ c.live <=> p # "done"
  /\ c.sec = "start" => Len(c.traces) = 1
  /\ p \in {"auth", "precontent", "content"} => c.sec # "start"
  /\ c.sec = "ended" => p \in {"output", "log", "done"}
  /\ p = "done" /\ c.sec \in {"begun", "ended"} => c.reported

Stages == Front # None => Staged(contexts[Front], req[Main].phase)

TInv == Place /\ Trees /\ Tasks /\ Stages /\ ~undefined /\ broken = {}

(* The pointer of the first cleanup entry *)
LEMMA FrontFacts ==
  ASSUME Typed
  PROVE  /\ Front \in Nat /\ Pointer(Front)
         /\ Front # None => Front \in DOMAIN contexts
         /\ Front # None => cleanups # <<>> /\ Front = cleanups[1]
                              /\ contexts[Front] \in Context
  <1>1. cleanups # <<>> => 1 \in DOMAIN cleanups
    BY DEF Typed
  <1>2. Pointer(None)
    BY DEF Typed, Pointer, None
  <1>3. Pointer(Front)
    BY <1>1, <1>2, Zenon DEF Typed, Front
  <1>4. Front # None => Front \in DOMAIN contexts
    BY <1>3 DEF Pointer, None, Typed
  <1>5. Front # None => contexts[Front] \in Context
    BY <1>4 DEF Typed
  <1> QED
    BY <1>3, <1>4, <1>5, Zenon DEF Pointer, Front

(* It is in the pool's list, and the only one there *)
LEMMA FrontRange ==
  ASSUME Typed, Front # None
  PROVE  Front \in Range(cleanups)
  <1>1. 1 \in DOMAIN cleanups /\ Front = cleanups[1]
    BY DEF Typed, Front
  <1> QED
    BY <1>1, Zenon DEF Range

(* Whatever the cleanup list names is the context in use                    *)
LEMMA RangeFront ==
  ASSUME Typed, Place, NEW i \in Range(cleanups), i # None
  PROVE  i = Front
  <1>1. PICK k \in DOMAIN cleanups : i = cleanups[k]
    BY Zenon DEF Range
  <1>2. k = 1
    BY <1>1, Zenon DEF Place
  <1>3. cleanups # <<>>
    BY <1>1, <1>2
  <1> QED
    BY <1>1, <1>2, <1>3, Zenon DEF Front

(* The requests: the main one, and its subrequests *)
LEMMA ReqFacts ==
  Main \in Reqs /\ (\A s \in Subs : s \in Reqs /\ s # Main)
    /\ (\A r \in Reqs : r # Main => r \in Subs)
  BY TracingAssumption, Zenon DEF Reqs

(* Every handler finds the context of the first cleanup entry *)
LEMMA Found ==
  ASSUME Typed, Place, NEW r \in Reqs, Active(r)
  PROVE  ContextOf(r) = Front
  <1>1. r = Main \/ r \in Subs
    BY ReqFacts, Zenon
  <1> QED
    BY <1>1, Zenon DEF Place, ContextOf, Front, Active, None

(* While a subrequest is active, the main request waits for it *)
LEMMA SubActive ==
  ASSUME Typed, Place, Tasks, NEW r \in Reqs, r # Main, Active(r)
  PROVE  /\ req[Main].phase = "auth" /\ Front # None /\ task.ctx = None
         /\ ~AllDone
  <1>1. r \in Subs
    BY ReqFacts, Zenon
  <1>2. ~AllDone /\ ~SubsOver
    BY <1>1, Zenon DEF Active, AllDone, SubsOver
  <1> QED
    BY <1>2, Zenon DEF Place, Tasks

(* A handler lets its request go on, with the context that it found *)
LEMMA PlaceStep ==
  ASSUME Typed, Place, Tasks, NEW r \in Reqs, Active(r),
         NEW p, p \notin {"none", "done", "rewrite"},
         NEW c, c \in {req[r].ctx, Front}, Entered(r, p, c),
         UNCHANGED cleanups,
         r = Main /\ p # "auth" => AllDone,
         r = Main => Front # None \/ SubsOver
  PROVE  Place' /\ Front' = Front
  <1>0. Front' = Front
    BY Zenon DEF Front
  <1>1. CASE r = Main
    <2>1. \A s \in Subs : req'[s] = req[s]
      BY <1>1, ReqFacts, Zenon DEF Entered
    <2>2. (AllDone => AllDone') /\ (SubsOver => SubsOver')
      BY <2>1, Zenon DEF AllDone, SubsOver
    <2>3. \A q \in Reqs : req'[q].ctx # None => req'[q].ctx = Front /\ Active(q)'
      BY Zenon DEF Entered, Place, Active
    <2>4. \A s \in Subs : Active(s)' => req'[s].internal
      BY <2>1, Zenon DEF Place, Active
    <2>5. Front # None => req'[Main].ctx # None \/ req'[Main].internal
      BY <1>1, Zenon DEF Entered, Place, Active
    <2>6. req'[Main].phase # "none" /\ req'[Main].loc \in MainLocs
      BY <1>1, Zenon DEF Entered, Place
    <2>7. req'[Main].phase # "auth" => AllDone'
      BY <1>1, <2>2, Zenon DEF Entered
    <2>8. Front = None => SubsOver'
      BY <1>1, <2>2, Zenon
    <2> QED
      BY <1>0, <2>3, <2>4, <2>5, <2>6, <2>7, <2>8, Zenon DEF Place
  <1>2. CASE r # Main
    <2>1. /\ req[Main].phase = "auth" /\ Front # None
          /\ req'[Main] = req[Main]
      BY <1>2, SubActive, ReqFacts, Zenon DEF Entered
    <2>2. \A q \in Reqs : req'[q].ctx # None => req'[q].ctx = Front /\ Active(q)'
      BY Zenon DEF Entered, Place, Active
    <2>3. \A s \in Subs : Active(s)' => req'[s].internal
      BY ReqFacts, Zenon DEF Place, Active, Entered
    <2> QED
      BY <1>0, <2>1, <2>2, <2>3, Zenon DEF Place
  <1> QED
    BY <1>1, <1>2, Zenon

(* No context changed *)
LEMMA TreesSame ==
  ASSUME Trees, Front' = Front, UNCHANGED contexts
  PROVE  Trees'
  BY ZenonT(30) DEF Trees, Tree

(* The context at the front changed *)
LEMMA TreesUpdated ==
  ASSUME Trees, Front' = Front, NEW d, Updated(Front, d), Tree(d)
  PROVE  Trees'
  <1> SUFFICES ASSUME NEW i \in DOMAIN contexts
               PROVE  Tree(contexts'[i]) /\ (i # Front => ~contexts'[i].live)
    BY Zenon DEF Trees, Updated, Tree
  <1>1. CASE i = Front
    BY <1>1, Zenon DEF Updated
  <1>2. CASE i # Front
    BY <1>2, Zenon DEF Updated, Trees
  <1> QED
    BY <1>1, <1>2, Zenon

(* The step of a subrequest leaves the main request where it is *)
LEMMA SubStages ==
  ASSUME Stages, Front' = Front, UNCHANGED contexts, NEW r \in Reqs, r # Main,
         NEW p, NEW c, Entered(r, p, c)
  PROVE  Stages'
  <1>1. req'[Main] = req[Main]
    BY ReqFacts, Zenon DEF Entered
  <1> QED
    BY <1>1, Zenon DEF Stages, Staged

(* The first trace is the main request's *)
LEMMA MainTrace ==
  ASSUME NEW c \in Context, Tree(c)
  PROVE  HasTrace(c, Main) /\ 1 \in DOMAIN c.traces /\ c.traces[1].req = Main
  <1>1. c.traces \in Seq(Trace)
    BY Zenon DEF Context
  <1>2. 1 \in DOMAIN c.traces
    BY <1>1 DEF Tree
  <1> QED
    BY <1>2, Zenon DEF Tree, HasTrace

(* The tree is a matter of the traces alone                                 *)
LEMMA SameTree ==
  ASSUME NEW c, NEW d, Tree(c), d.traces = c.traces
  PROVE  Tree(d)
  BY Zenon DEF Tree

(* A trace is replaced by one of the same request *)
LEMMA ReplacedTree ==
  ASSUME NEW c, NEW d, NEW i \in DOMAIN c.traces, NEW u,
         Replaced(c, d, i, u), Tree(c),
         u.req = c.traces[i].req, u.parent = c.traces[i].parent,
         ~u.loc.locations => u.span # "open"
  PROVE  Tree(d)
  <1>1. d.traces # <<>>
    <2>1. i \in DOMAIN d.traces
      BY Zenon DEF Replaced
    <2>2. DOMAIN <<>> = {}
      OBVIOUS
    <2> QED
      BY <2>1, <2>2, Zenon
  <1>2. ASSUME NEW j \in DOMAIN d.traces
        PROVE  /\ d.traces[j].req = c.traces[j].req
               /\ d.traces[j].parent = c.traces[j].parent
               /\ ~d.traces[j].loc.locations => d.traces[j].span # "open"
               /\ j \in DOMAIN c.traces
    BY Zenon DEF Replaced, Tree
  <1>3. ASSUME NEW j \in DOMAIN d.traces, NEW k \in DOMAIN d.traces,
               d.traces[j].req = d.traces[k].req
        PROVE  j = k
    <2>1. /\ j \in DOMAIN c.traces /\ k \in DOMAIN c.traces
          /\ c.traces[j].req = c.traces[k].req
      BY <1>2, <1>3, Zenon
    <2> QED
      BY <2>1, Zenon DEF Tree
  <1>4. ASSUME NEW j \in DOMAIN d.traces
        PROVE  /\ d.traces[j].req = Main <=> j = 1
               /\ j # 1 => d.traces[j].parent = Main
    BY <1>2, Zenon DEF Tree
  <1> QED
    BY <1>1, <1>2, <1>3, <1>4, Zenon DEF Tree

(* A trace is added for a request that has none *)
LEMMA AddedTree ==
  ASSUME NEW c \in Context, NEW r \in Reqs, NEW l \in Locs, Tree(c),
         ~HasTrace(c, r)
  PROVE  Tree(AddTrace(c, r, l))
  <1> DEFINE d == AddTrace(c, r, l)
             n == Len(c.traces) + 1
  <1>1. c.traces # <<>>
    BY Zenon DEF Tree
  <1>2. c.traces[1].req = Main /\ r # Main
    BY MainTrace, Zenon
  <1>3. Main \in Reqs \cup {None}
    BY ReqFacts, Zenon
  <1>4. /\ DOMAIN d.traces = DOMAIN c.traces \cup {n}
        /\ n \notin DOMAIN c.traces /\ n # 1
        /\ d.traces[n] = NewTrace(r, l, Main)
        /\ \A j \in DOMAIN c.traces : d.traces[j] = c.traces[j]
    BY <1>1, <1>2, AddTraceFacts, Zenon
  <1> HIDE DEF d, n
  <1>5. /\ d.traces[n].req = r /\ d.traces[n].parent = Main
        /\ ~d.traces[n].loc.locations => d.traces[n].span # "open"
    <2>1. /\ NewTrace(r, l, Main).req = r /\ NewTrace(r, l, Main).parent = Main
          /\ ~NewTrace(r, l, Main).loc.locations
               => NewTrace(r, l, Main).span # "open"
      BY Zenon DEF NewTrace
    <2> QED
      BY <2>1, <1>4, Zenon
  <1>6. d.traces # <<>>
    <2>1. DOMAIN <<>> = {}
      OBVIOUS
    <2> QED
      BY <2>1, <1>4, Zenon
  <1>7. ASSUME NEW j \in DOMAIN d.traces
        PROVE  /\ d.traces[j].req = Main <=> j = 1
               /\ j # 1 => d.traces[j].parent = Main
               /\ ~d.traces[j].loc.locations => d.traces[j].span # "open"
    <2>1. CASE j = n
      BY <2>1, <1>2, <1>4, <1>5, Zenon
    <2>2. CASE j \in DOMAIN c.traces
      BY <2>2, <1>4, ZenonT(30) DEF Tree
    <2> QED
      BY <2>1, <2>2, <1>4, Zenon
  <1>8. ASSUME NEW j \in DOMAIN d.traces, NEW k \in DOMAIN d.traces,
               d.traces[j].req = d.traces[k].req
        PROVE  j = k
    <2>1. \A m \in DOMAIN c.traces : d.traces[m].req # r
      BY <1>4, Zenon DEF HasTrace
    <2>2. CASE j \in DOMAIN c.traces /\ k \in DOMAIN c.traces
      BY <2>2, <1>4, <1>8, Zenon DEF Tree
    <2>3. CASE j = n \/ k = n
      BY <2>1, <2>3, <1>4, <1>5, <1>8, Zenon
    <2> QED
      BY <2>2, <2>3, <1>4, Zenon
  <1>9. Tree(d)
    BY <1>6, <1>7, <1>8, Zenon DEF Tree
  <1> QED
    BY <1>9, Zenon DEF d

(* A new context of the main request has one trace *)
LEMMA FirstTree ==
  ASSUME NEW c \in Context, NEW l,
         c.traces = <<NewTrace(Main, l, None)>>
  PROVE  Tree(c) /\ Len(c.traces) = 1
  <1> DEFINE t == NewTrace(Main, l, None)
  <1>1. t.req = Main /\ (~t.loc.locations => t.span # "open")
    BY Zenon DEF NewTrace
  <1> HIDE DEF t
  <1>2. c.traces = <<t>>
    BY Zenon DEF t
  <1>3. /\ DOMAIN c.traces = {1} /\ c.traces # <<>> /\ c.traces[1] = t
        /\ Len(c.traces) = 1
    BY <1>2
  <1> QED
    BY <1>1, <1>3, Zenon DEF Tree

(* ContextChange keeps the tree, and for the main request its size *)
LEMMA ChangeTree ==
  ASSUME NEW c \in Context, NEW r \in Reqs, NEW l \in Locs, Tree(c)
  PROVE  LET d == ContextChange(c, r, l)
         IN /\ Tree(d) /\ d \in Context /\ d.live = c.live /\ d.sec = c.sec
            /\ d.reported = c.reported
            /\ r = Main => Len(d.traces) = Len(c.traces) /\ d.gen = c.gen
  <1> DEFINE d == ContextChange(c, r, l)
  <1>1. \/ d = c
        \/ \E i \in DOMAIN c.traces :
             /\ c.traces[i].req = r /\ d.reported = c.reported
             /\ Replaced(c, d, i, OnChangeBlock(c.traces[i], l))
        \/ ~HasTrace(c, r) /\ c.traces # <<>> /\ d = AddTrace(c, r, l)
    BY ChangeCases, Zenon
  <1> HIDE DEF d
  <1>2. CASE d = c
    BY <1>2, Zenon DEF d
  <1>3. CASE \E i \in DOMAIN c.traces :
               /\ c.traces[i].req = r /\ d.reported = c.reported
               /\ Replaced(c, d, i, OnChangeBlock(c.traces[i], l))
    <2>1. PICK i \in DOMAIN c.traces :
            /\ c.traces[i].req = r /\ d.reported = c.reported
            /\ Replaced(c, d, i, OnChangeBlock(c.traces[i], l))
      BY <1>3, Zenon
    <2> DEFINE t == c.traces[i]
               u == OnChangeBlock(t, l)
    <2>2. t \in Trace
      BY DEF Context
    <2>3. ~t.loc.locations => t.span # "open"
      BY Zenon DEF Tree
    <2> HIDE DEF t
    <2>4. u.req = t.req /\ u.parent = t.parent
          /\ (~u.loc.locations => u.span # "open")
      BY <2>2, <2>3, ChangeBlockFacts, Zenon
    <2> HIDE DEF u
    <2>5. Replaced(c, d, i, u)
      BY <2>1, Zenon DEF u, t
    <2>6. Tree(d)
      BY <2>4, <2>5, ReplacedTree, Zenon DEF t
    <2> QED
      BY <2>1, <2>5, <2>6, Zenon DEF Replaced, d
  <1>4. CASE ~HasTrace(c, r) /\ c.traces # <<>> /\ d = AddTrace(c, r, l)
    <2>1. Tree(d) /\ r # Main
      BY <1>4, AddedTree, MainTrace, Zenon
    <2>2. d \in Context /\ d.live = c.live /\ d.sec = c.sec
          /\ d.reported = c.reported
      BY <1>4, AddTraceFacts, Zenon
    <2> QED
      BY <2>1, <2>2, Zenon DEF d
  <1> QED
    BY <1>1, <1>2, <1>3, <1>4, Zenon

(* on_log_request keeps it too *)
LEMMA LogTree ==
  ASSUME NEW c \in Context, NEW r \in Reqs, NEW l \in Locs, Tree(c)
  PROVE  LET d == ContextLog(c, r, l)
         IN /\ Tree(d) /\ d \in Context /\ d.live = c.live /\ d.sec = c.sec
            /\ Len(d.traces) = Len(c.traces) /\ d.gen = c.gen
            /\ l.tracing /\ r = Main /\ c.sec # "none" => d.reported
            /\ \A j \in DOMAIN d.traces :
                 /\ j \in DOMAIN c.traces /\ d.traces[j].req = c.traces[j].req
                 /\ c.traces[j].req # r => d.traces[j] = c.traces[j]
                 /\ c.traces[j].req = r /\ l.tracing
                      => /\ d.traces[j].requestSpan = "ended"
                         /\ d.traces[j].span # "open"
  <1> DEFINE d == ContextLog(c, r, l)
  <1>1. \/ d = c /\ ~(l.tracing /\ HasTrace(c, r))
        \/ \E i \in DOMAIN c.traces :
             /\ c.traces[i].req = r
             /\ Replaced(c, d, i, OnLogRequest(c.traces[i]))
             /\ c.sec # "none" /\ r = Main => d.reported
    BY LogCases, Zenon
  <1> HIDE DEF d
  <1>2. CASE d = c /\ ~(l.tracing /\ HasTrace(c, r))
    <2>1. HasTrace(c, Main)
      BY MainTrace, Zenon
    <2>2. \A j \in DOMAIN c.traces : c.traces[j].req = r => ~l.tracing
      BY <1>2, Zenon DEF HasTrace
    <2> QED
      BY <1>2, <2>1, <2>2, Zenon DEF d
  <1>3. CASE \E i \in DOMAIN c.traces :
               /\ c.traces[i].req = r
               /\ Replaced(c, d, i, OnLogRequest(c.traces[i]))
               /\ c.sec # "none" /\ r = Main => d.reported
    <2>1. PICK i \in DOMAIN c.traces :
            /\ c.traces[i].req = r
            /\ Replaced(c, d, i, OnLogRequest(c.traces[i]))
            /\ c.sec # "none" /\ r = Main => d.reported
      BY <1>3, Zenon
    <2> DEFINE t == c.traces[i]
               u == OnLogRequest(t)
    <2>2. t \in Trace
      BY DEF Context
    <2>3. ~t.loc.locations => t.span # "open"
      BY Zenon DEF Tree
    <2> HIDE DEF t
    <2>4. u.req = t.req /\ u.parent = t.parent
          /\ u.requestSpan = "ended" /\ u.span # "open"
      BY <2>2, <2>3, LogRequestFacts, Zenon
    <2> HIDE DEF u
    <2>5. Replaced(c, d, i, u)
      BY <2>1, Zenon DEF u, t
    <2>6. Tree(d)
      BY <2>4, <2>5, ReplacedTree, Zenon DEF t
    <2>7. ASSUME NEW j \in DOMAIN d.traces
          PROVE  /\ j \in DOMAIN c.traces /\ d.traces[j].req = c.traces[j].req
                 /\ c.traces[j].req # r => d.traces[j] = c.traces[j]
                 /\ c.traces[j].req = r => /\ d.traces[j].requestSpan = "ended"
                                           /\ d.traces[j].span # "open"
      <3>1. j \in DOMAIN c.traces
        BY <2>5, Zenon DEF Replaced
      <3>2. c.traces[j].req = r => j = i
        BY <3>1, <2>1, Zenon DEF Tree
      <3> QED
        BY <3>1, <3>2, <2>1, <2>4, <2>5, Zenon DEF Replaced, t
    <2> QED
      BY <2>1, <2>5, <2>6, <2>7, Zenon DEF Replaced, d
  <1> QED
    BY <1>1, <1>2, <1>3, Zenon

-----------------------------------------------------------------------------
(* The invariant over the rewrite phase *)

(* The main request is always traced *)
LEMMA MainTraced ==
  ASSUME Served, Place
  PROVE  Traced(Main) /\ req[Main].loc.tracing
  BY Zenon DEF Served, Place, Traced

(* An exception hits a request that no other will follow *)
LEMMA Alone ==
  ASSUME Served, NEW r \in Reqs, MayThrow(r), Active(r), Place
  PROVE  r = Main /\ SubsOver
  <1>1. \A s \in Reqs \ {r} : req[s].phase = "done"
    BY Zenon DEF MayThrow, Served
  <1>2. r = Main
    <2> SUFFICES ASSUME r # Main
                 PROVE  FALSE
      BY Zenon
    <2>1. req[Main].phase = "done"
      BY <1>1, ReqFacts, Zenon
    <2>2. AllDone
      BY <2>1, Zenon DEF Place
    <2> QED
      BY <2>2, ReqFacts, Zenon DEF AllDone, Active
  <1>3. SubsOver
    BY <1>1, <1>2, ReqFacts, Zenon DEF SubsOver
  <1> QED
    BY <1>2, <1>3

(* While the main request is in the rewrite phase no task is in flight *)
LEMMA RewriteQuiet ==
  ASSUME Typed, Place, Tasks, NEW r \in Reqs, req[r].phase = "rewrite"
  PROVE  task.ctx = None /\ Active(r) /\ ContextOf(r) = Front
  <1>1. Active(r)
    BY Zenon DEF Active
  <1>2. r = Main => task.ctx = None
    BY Zenon DEF Tasks
  <1> QED
    BY <1>1, <1>2, SubActive, Found, Zenon

(* on_enter_block declines                                                  *)
LEMMA PassStep ==
  ASSUME Served, Typed, TInv, NEW r \in Reqs, req[r].phase = "rewrite",
         PassBlock(r), UNCHANGED <<logSub, task, broken>>
  PROVE  TInv'
  <1>0. Place /\ Trees /\ Tasks /\ Stages /\ ~undefined /\ broken = {}
    BY Zenon DEF TInv
  <1>1. r # Main
    BY <1>0, MainTraced, Zenon DEF PassBlock
  <1>2. task.ctx = None /\ Active(r)
    BY <1>0, RewriteQuiet, Zenon
  <1>3. Place' /\ Front' = Front
    BY <1>0, <1>1, <1>2, PlaceStep, Zenon DEF PassBlock
  <1>4. Trees'
    BY <1>0, <1>3, TreesSame, Zenon DEF PassBlock
  <1>5. Tasks'
    BY <1>2, Zenon DEF Tasks
  <1>6. Stages'
    BY <1>0, <1>1, <1>3, SubStages, Zenon DEF PassBlock
  <1> QED
    BY <1>0, <1>3, <1>4, <1>5, <1>6, Zenon DEF TInv, PassBlock

(* on_enter_block makes the context, with its first trace                   *)
LEMMA NewStep ==
  ASSUME Served, Typed, TInv, NEW r \in Reqs, req[r].phase = "rewrite",
         NewBlock(r), UNCHANGED <<logSub, task, broken>>
  PROVE  TInv'
  <1>0. Place /\ Trees /\ Tasks /\ Stages /\ ~undefined /\ broken = {}
    BY Zenon DEF TInv
  <1> DEFINE n == Len(contexts) + 1
             d == NewContext(r, req[r].loc)
  <1>1. task.ctx = None /\ Active(r) /\ Front = None
    BY <1>0, RewriteQuiet, Zenon DEF NewBlock
  <1>2. r = Main
    BY <1>0, <1>1, SubActive, Zenon
  <1>3. n # None /\ n \in Nat
    BY DEF Typed, None
  <1>4. cleanups \in Seq(Nat) /\ cleanups' = <<n>> \o cleanups
    BY Zenon DEF Typed, NewBlock
  <1> HIDE DEF n
  <1>5. /\ cleanups' # <<>> /\ cleanups'[1] = n
        /\ \A k \in DOMAIN cleanups' :
             k # 1 => \E m \in DOMAIN cleanups : cleanups'[k] = cleanups[m]
    <2> DEFINE t == <<n>> \o cleanups
    <2>1. /\ t # <<>> /\ t[1] = n
          /\ \A k \in DOMAIN t :
               k # 1 => \E m \in DOMAIN cleanups : t[k] = cleanups[m]
      BY Zenon, <1>3, <1>4, PrependFacts
    <2>2. cleanups' = t
      BY Zenon, <1>4
    <2> HIDE DEF t
    <2> QED
      BY Zenon, <2>1, <2>2
  <1>6. Front' = n
    BY <1>5, Zenon DEF Front
  <1>7. \A m \in DOMAIN cleanups : cleanups[m] = None
    <2>1. ASSUME NEW m \in DOMAIN cleanups, m = 1
          PROVE  cleanups[m] = None
      <3>1. cleanups # <<>>
        BY <2>1
      <3> QED
        BY <3>1, <2>1, <1>1, Zenon DEF Front
    <2> QED
      BY <2>1, <1>0, Zenon DEF Place
  <1>8. Entered(Main, "access", n)
    BY <1>2, Zenon DEF NewBlock, n
  <1>9. Place'
    <2>1. \A s \in Subs : req'[s] = req[s]
      BY <1>8, ReqFacts, Zenon DEF Entered
    <2>2. AllDone'
      BY <2>1, <1>0, <1>2, Zenon DEF AllDone, Place
    <2>3. \A q \in Reqs : req'[q].ctx # None => req'[q].ctx = n /\ Active(q)'
      BY <1>0, <1>1, <1>8, Zenon DEF Entered, Place, Active
    <2>4. \A s \in Subs : Active(s)' => req'[s].internal
      BY <2>1, <1>0, Zenon DEF Place, Active
    <2>5. /\ req'[Main].ctx # None /\ req'[Main].phase # "none"
          /\ req'[Main].loc \in MainLocs
      BY <1>0, <1>3, <1>8, Zenon DEF Entered, Place
    <2>6. \A k \in DOMAIN cleanups' : k # 1 => cleanups'[k] = None
      BY <1>5, <1>7, Zenon
    <2> QED
      BY <2>2, <2>3, <2>4, <2>5, <2>6, <1>3, <1>6, Zenon DEF Place
  <1>10. req[Main].loc \in Locs /\ req[Main].loc.tracing
    BY <1>0, MainTraced, Zenon DEF Place, Locs
  <1>11. d \in Context /\ d.live /\ d.sec \in {"none", "start"}
         /\ d.traces = <<NewTrace(Main, req[Main].loc, None)>>
    BY <1>2, <1>10, NewContextFacts, Zenon
  <1>12. Tree(d) /\ Len(d.traces) = 1
    BY <1>10, <1>11, FirstTree, ReqFacts, Zenon
  <1>13. Added(d)
    BY Zenon DEF NewBlock
  <1> HIDE DEF d
  <1>14. Trees'
    <2> SUFFICES ASSUME NEW i \in DOMAIN contexts'
                 PROVE  Tree(contexts'[i]) /\ (i # n => ~contexts'[i].live)
      BY <1>6, Zenon DEF Trees, Tree
    <2>1. CASE i = n
      BY <2>1, <1>12, <1>13, Zenon DEF Added, n
    <2>2. CASE i \in DOMAIN contexts
      <3>1. i # None
        BY <2>2 DEF None, Typed
      <3> QED
        BY <2>2, <3>1, <1>0, <1>1, <1>13, Zenon DEF Added, Trees
    <2> QED
      BY <2>1, <2>2, <1>13, Zenon DEF Added, n
  <1>15. Stages'
    <2>1. contexts'[n] = d
      BY <1>13, Zenon DEF Added, n
    <2>2. req'[Main].phase = "access"
      BY <1>8, Zenon DEF Entered
    <2>3. Staged(d, "access")
      BY <1>11, <1>12, Zenon DEF Staged
    <2> QED
      BY <2>1, <2>2, <2>3, <1>6, Zenon DEF Stages, Staged
  <1>16. Tasks'
    BY <1>1, Zenon DEF Tasks
  <1> QED
    BY <1>0, <1>9, <1>14, <1>15, <1>16, Zenon DEF TInv, NewBlock

(* on_enter_block makes a context and cannot store it: the cleanup that was *)
(* registered before destroys it                                            *)
LEMMA FailedStep ==
  ASSUME Served, Typed, TInv, NEW r \in Reqs, req[r].phase = "rewrite",
         FailedBlock(r), UNCHANGED <<logSub, task, broken>>
  PROVE  TInv'
  <1>0. Place /\ Trees /\ Tasks /\ Stages /\ ~undefined /\ broken = {}
    BY Zenon DEF TInv
  <1> DEFINE l == req[Main].loc
             d == [NewContext(Main, l) EXCEPT !.live = FALSE]
  <1>1. task.ctx = None /\ Active(r) /\ Front = None
    BY <1>0, RewriteQuiet, Zenon DEF FailedBlock
  <1>2. r = Main /\ SubsOver
    BY <1>0, <1>1, Alone, Zenon DEF FailedBlock
  <1>3. AllDone
    BY <1>2, Zenon DEF AllDone, SubsOver
  <1>4. Place' /\ Front' = Front
    BY <1>0, <1>1, <1>2, <1>3, PlaceStep, Zenon DEF FailedBlock
  <1>5. l \in Locs /\ l.tracing
    BY <1>0, MainTraced, Zenon DEF Place, Locs
  <1>6. NewContext(Main, l) \in Context
        /\ NewContext(Main, l).traces = <<NewTrace(Main, l, None)>>
    BY <1>5, ReqFacts, NewContextFacts, Zenon
  <1>7. d \in Context /\ d.live = FALSE
        /\ d.traces = <<NewTrace(Main, l, None)>>
    BY <1>6, DeadFacts, Zenon
  <1>8. Added(d)
    BY <1>2, Zenon DEF FailedBlock
  <1> HIDE DEF d
  <1>9. Tree(d)
    BY <1>7, FirstTree, Zenon
  <1>10. Trees'
    <2> SUFFICES ASSUME NEW i \in DOMAIN contexts'
                 PROVE  Tree(contexts'[i]) /\ ~contexts'[i].live
      BY Zenon DEF Trees, Tree
    <2>1. CASE i = Len(contexts) + 1
      BY <2>1, <1>7, <1>8, <1>9, Zenon DEF Added
    <2>2. CASE i \in DOMAIN contexts
      <3>1. i # None
        BY <2>2 DEF None, Typed
      <3> QED
        BY <2>2, <3>1, <1>0, <1>1, <1>8, Zenon DEF Added, Trees
    <2> QED
      BY <2>1, <2>2, <1>8, Zenon DEF Added
  <1>11. Stages' /\ Tasks'
    BY <1>1, <1>4, Zenon DEF Stages, Tasks
  <1> QED
    BY <1>0, <1>4, <1>10, <1>11, Zenon DEF TInv, FailedBlock

(* on_enter_block finds the context: the block of the trace changes, or a   *)
(* trace is added for the request                                           *)
LEMMA ChangeStep ==
  ASSUME Served, Typed, TInv, NEW r \in Reqs, req[r].phase = "rewrite",
         ChangeBlock(r), UNCHANGED <<logSub, task, broken>>
  PROVE  TInv'
  <1>0. Place /\ Trees /\ Tasks /\ Stages /\ ~undefined /\ broken = {}
    BY Zenon DEF TInv
  <1>1. /\ task.ctx = None /\ Active(r) /\ ContextOf(r) = Front
        /\ Front # None
    BY <1>0, RewriteQuiet, Zenon DEF ChangeBlock
  <1> DEFINE c == contexts[Front]
             l == req[r].loc
             d == ContextChange(c, r, l)
  <1>2. c \in Context /\ Tree(c) /\ l \in Locs
    BY <1>0, <1>1, FrontFacts, Zenon DEF Trees, Typed, Request
  <1>3. r = Main => AllDone
    BY <1>0, Zenon DEF Place
  <1>4. Place' /\ Front' = Front
    BY <1>0, <1>1, <1>3, PlaceStep, Zenon DEF ChangeBlock
  <1>5. /\ Tree(d) /\ d.live = c.live /\ d.sec = c.sec
        /\ d.reported = c.reported
        /\ r = Main => Len(d.traces) = Len(c.traces)
    BY <1>2, ChangeTree, Zenon
  <1>6. Updated(Front, d)
    BY <1>1, Zenon DEF ChangeBlock, Ctx
  <1>7. undefined' = FALSE
    <2>1. c.traces # <<>>
      BY <1>2, Zenon DEF Tree
    <2> QED
      BY <2>1, <1>0, <1>1 DEF ChangeBlock, Ctx
  <1> HIDE DEF c, d
  <1>8. Trees'
    BY <1>0, <1>4, <1>5, <1>6, TreesUpdated, Zenon
  <1>9. Stages'
    <2>1. contexts'[Front] = d /\ Staged(c, req[Main].phase)
      BY <1>0, <1>1, <1>6, Zenon DEF Updated, Stages, c
    <2>2. CASE r = Main
      <3>1. req'[Main].phase = "access" /\ req[Main].phase = "rewrite"
        BY <2>2, Zenon DEF ChangeBlock, Entered
      <3>2. Staged(d, "access")
        BY <2>1, <2>2, <3>1, <1>5, Zenon DEF Staged
      <3> QED
        BY <2>1, <3>1, <3>2, <1>4, Zenon DEF Stages, Staged
    <2>3. CASE r # Main
      <3>1. req'[Main] = req[Main] /\ req[Main].phase = "auth"
        BY <2>3, <1>0, <1>1, SubActive, ReqFacts, Zenon DEF ChangeBlock, Entered
      <3>2. Staged(d, "auth")
        BY <2>1, <3>1, <1>5, Zenon DEF Staged
      <3> QED
        BY <2>1, <3>1, <3>2, <1>4, Zenon DEF Stages, Staged
    <2> QED
      BY <2>2, <2>3, Zenon
  <1>10. Tasks'
    BY <1>1, Zenon DEF Tasks
  <1> QED
    BY <1>0, <1>4, <1>7, <1>8, <1>9, <1>10, Zenon DEF TInv

(* on_enter_block cannot store the context again after a redirect           *)
LEMMA LostStep ==
  ASSUME Served, Typed, TInv, NEW r \in Reqs, req[r].phase = "rewrite",
         LostBlock(r), UNCHANGED <<logSub, task, broken>>
  PROVE  TInv'
  <1>0. Place /\ Trees /\ Tasks /\ Stages /\ ~undefined /\ broken = {}
    BY Zenon DEF TInv
  <1>1. /\ task.ctx = None /\ Active(r) /\ ContextOf(r) = Front
        /\ Front # None
    BY <1>0, RewriteQuiet, Zenon DEF LostBlock
  <1>2. r = Main /\ SubsOver
    BY <1>0, <1>1, Alone, Zenon DEF LostBlock
  <1>3. /\ cleanups # <<>> /\ Front = cleanups[1] /\ Front \in DOMAIN contexts
        /\ contexts[Front] \in Context
    BY <1>1, FrontFacts, Zenon
  <1> DEFINE d == [contexts[Front] EXCEPT !.live = FALSE]
  <1>4. d \in Context /\ d.live = FALSE /\ d.traces = contexts[Front].traces
    BY <1>3, DeadFacts, Zenon
  <1>5. Updated(Front, d)
    <2>1. contexts' = [contexts EXCEPT ![Front] = d]
      BY <1>3 DEF LostBlock
    <2> QED
      BY <2>1, <1>3, <1>4, UpdatedFacts, Zenon
  <1>6. Tree(d)
    <2>1. Tree(contexts[Front])
      BY <1>0, <1>3, Zenon DEF Trees
    <2> QED
      BY <2>1, <1>4, SameTree, Zenon
  <1> HIDE DEF d
  <1>7. /\ cleanups' # <<>> /\ cleanups'[1] = None
        /\ DOMAIN cleanups' = DOMAIN cleanups
        /\ \A k \in DOMAIN cleanups : k # 1 => cleanups'[k] = cleanups[k]
    <2>1. cleanups \in Seq(Nat) /\ cleanups' = [cleanups EXCEPT ![1] = None]
      BY Zenon DEF Typed, LostBlock
    <2>2. None \in Nat /\ 1 \in DOMAIN cleanups
      BY <2>1, <1>3 DEF None
    <2>3. /\ cleanups'[1] = None /\ DOMAIN cleanups' = DOMAIN cleanups
          /\ \A k \in DOMAIN cleanups : k # 1 => cleanups'[k] = cleanups[k]
      BY <2>1, <2>2, ReplaceFacts, Zenon
    <2>4. DOMAIN <<>> = {}
      OBVIOUS
    <2> QED
      BY <2>2, <2>3, <2>4, Zenon
  <1>8. Front' = None
    BY <1>7, Zenon DEF Front
  <1>9. Entered(Main, "access", None)
    BY <1>2, Zenon DEF LostBlock
  <1>10. Place'
    <2>1. \A s \in Subs : req'[s] = req[s] /\ req[s].phase = "done"
      BY <1>2, <1>9, ReqFacts, Zenon DEF Entered, SubsOver
    <2>2. AllDone' /\ SubsOver' /\ \A s \in Subs : ~Active(s)'
      BY <2>1, Zenon DEF AllDone, SubsOver, Active
    <2>3. \A q \in Reqs : req'[q].ctx = None
      <3>1. \A s \in Subs : req[s].ctx = None
        BY <2>1, <1>0, ReqFacts, Zenon DEF Place, Active
      <3> QED
        BY <3>1, <2>1, <1>9, ReqFacts, Zenon DEF Entered
    <2>4. req'[Main].phase # "none" /\ req'[Main].loc \in MainLocs
      BY <1>0, <1>9, Zenon DEF Entered, Place
    <2>5. \A k \in DOMAIN cleanups' : k # 1 => cleanups'[k] = None
      BY <1>0, <1>7, Zenon DEF Place
    <2> QED
      BY <2>2, <2>3, <2>4, <2>5, <1>8, Zenon DEF Place
  <1>11. Trees'
    <2> SUFFICES ASSUME NEW i \in DOMAIN contexts
                 PROVE  Tree(contexts'[i]) /\ ~contexts'[i].live
      BY <1>5, Zenon DEF Trees, Tree, Updated
    <2>1. CASE i = Front
      BY <2>1, <1>4, <1>5, <1>6, Zenon DEF Updated
    <2>2. CASE i # Front
      BY <2>2, <1>0, <1>5, Zenon DEF Updated, Trees
    <2> QED
      BY <2>1, <2>2, Zenon
  <1>12. Stages' /\ Tasks'
    BY <1>1, <1>8, Zenon DEF Stages, Tasks
  <1> QED
    BY <1>0, <1>10, <1>11, <1>12, Zenon DEF TInv, LostBlock

-----------------------------------------------------------------------------
(* The invariant over the other handlers *)

(* A handler of request r lets it go on to phase p, and no context changes *)
LEMMA GoesOn ==
  ASSUME Served, Typed, TInv, NEW r \in Reqs, Active(r),
         NEW p, p \in {"auth", "precontent", "content", "output", "log"},
         NEW c, c \in {req[r].ctx, Front}, Entered(r, p, c),
         UNCHANGED <<cleanups, contexts, undefined, broken>>,
         r = Main =>
           /\ p # "auth" => AllDone
           /\ req[Main].phase # "rewrite"
           /\ Front # None /\ p \in {"auth", "precontent", "content"}
                => contexts[Front].sec # "start"
           /\ Front # None /\ contexts[Front].sec = "ended"
                => p \in {"output", "log"},
         \/ task'.ctx = None
         \/ /\ r = Main /\ AllDone /\ p \in {"auth", "content", "output", "log"}
            /\ task'.ctx = Front /\ task'.gen = contexts[Front].gen
  PROVE  TInv'
  <1>0. Place /\ Trees /\ Tasks /\ Stages /\ ~undefined /\ broken = {}
    BY Zenon DEF TInv
  <1>1. r = Main => Front # None \/ SubsOver
    BY <1>0, Zenon DEF Place
  <1>2. Place' /\ Front' = Front
    BY <1>0, <1>1, PlaceStep, Zenon
  <1>3. Trees'
    BY <1>0, <1>2, TreesSame, Zenon
  <1>4. Stages'
    <2>1. CASE r # Main
      BY <2>1, <1>0, <1>2, SubStages, Zenon
    <2>2. CASE r = Main /\ Front # None
      <3>1. req'[Main].phase = p /\ Staged(contexts[Front], req[Main].phase)
        BY <2>2, <1>0, Zenon DEF Entered, Stages
      <3>2. p # "done" /\ req[Main].phase # "done"
        BY <2>2, Zenon DEF Active
      <3>3. Staged(contexts[Front], p)
        BY <2>2, <3>1, <3>2, Zenon DEF Staged
      <3> QED
        BY <2>2, <3>1, <3>3, <1>2, Zenon DEF Stages, Staged
    <2>3. CASE Front = None
      BY <2>3, <1>2, Zenon DEF Stages
    <2> QED
      BY <2>1, <2>2, <2>3, Zenon
  <1>5. Tasks'
    <2>1. CASE task'.ctx = None
      BY <2>1, Zenon DEF Tasks
    <2>2. CASE /\ r = Main /\ AllDone
               /\ p \in {"auth", "content", "output", "log"}
               /\ task'.ctx = Front /\ task'.gen = contexts[Front].gen
      <3>1. req'[Main].phase = p
        BY <2>2, Zenon DEF Entered
      <3>2. AllDone'
        BY <2>2, ReqFacts, Zenon DEF Entered, AllDone
      <3> QED
        BY <2>2, <3>1, <3>2, <1>2, Zenon DEF Tasks
    <2> QED
      BY <2>1, <2>2, Zenon
  <1> QED
    BY <1>0, <1>2, <1>3, <1>4, <1>5, Zenon DEF TInv

(* The WAF runs for the main request *)
LEMMA RunsOn ==
  ASSUME Served, Typed, TInv,
         NEW v, NEW p,
         \/ v = "begun" /\ p = "auth"
         \/ v = "ended" /\ p = "output",
         Active(Main), req[Main].phase # "rewrite", AllDone,
         Ran(Main, v), Entered(Main, p, ContextOf(Main)),
         UNCHANGED <<cleanups, undefined, broken>>
  PROVE  TInv'
  <1>0. Place /\ Trees /\ Tasks /\ Stages /\ ~undefined /\ broken = {}
    BY Zenon DEF TInv
  <1>1. ContextOf(Main) = Front /\ Front # None
    BY <1>0, Found, ReqFacts, Zenon DEF Ran
  <1>2. Place' /\ Front' = Front
    BY <1>0, <1>1, ReqFacts, PlaceStep, Zenon
  <1> DEFINE c == contexts[Front]
             d == [c EXCEPT !.sec = v]
  <1>3. c \in Context /\ Tree(c) /\ Staged(c, req[Main].phase)
    BY <1>0, <1>1, FrontFacts, Zenon DEF Trees, Stages
  <1>4. /\ d.sec = v /\ d.live = c.live /\ d.traces = c.traces
        /\ d.gen = c.gen /\ d.reported = c.reported
    <2>1. v \in {"none", "start", "begun", "ended"}
      BY Zenon
    <2> QED
      BY <2>1, <1>3, StageFacts, Zenon
  <1>5. /\ Updated(Front, d) /\ contexts'[Front] = d
        /\ task'.ctx = Front /\ task'.gen = c.gen
    BY <1>1, Zenon DEF Ran, Ctx, Updated
  <1> HIDE DEF c, d
  <1>6. Tree(d)
    BY <1>3, <1>4, SameTree, Zenon
  <1>7. Trees'
    BY <1>0, <1>2, <1>5, <1>6, TreesUpdated, Zenon
  <1>8. req'[Main].phase = p
    BY Zenon DEF Entered
  <1>9. Staged(d, p)
    BY <1>3, <1>4, Zenon DEF Staged, Active
  <1>10. Stages'
    BY <1>2, <1>5, <1>8, <1>9, Zenon DEF Stages, Staged
  <1>11. AllDone'
    BY ReqFacts, Zenon DEF Entered, AllDone
  <1>12. Tasks'
    BY <1>2, <1>4, <1>5, <1>8, <1>11, Zenon DEF Tasks
  <1> QED
    BY <1>0, <1>2, <1>7, <1>10, <1>12, Zenon DEF TInv

(* A request that is not suspended: no task is in flight *)
LEMMA Unsuspended ==
  ASSUME Typed, Place, Tasks, NEW r \in Reqs, Active(r), Idle(r)
  PROVE  task.ctx = None
  BY SubActive, Zenon DEF Idle

(* on_access                                                                *)
LEMMA AccessStep ==
  ASSUME Served, Typed, TInv, NEW r \in Reqs, Access(r)
  PROVE  TInv'
  <1>0. Place /\ Trees /\ Tasks /\ Stages /\ ~undefined /\ broken = {}
    BY Zenon DEF TInv
  <1>1. /\ req[r].phase = "access" /\ Active(r) /\ Idle(r)
        /\ Entered(r, "auth", IF r = Main THEN ContextOf(r) ELSE req[r].ctx)
        /\ \/ Examines(r) /\ Ran(r, "begun")
           \/ ~Examines(r) /\ UNCHANGED <<contexts, task>>
        /\ UNCHANGED <<logSub, cleanups, broken, undefined>>
    BY AccessEffect, Zenon DEF Active
  <1>2. ContextOf(r) = Front /\ task.ctx = None
    BY <1>0, <1>1, Found, Unsuspended, Zenon
  <1>3. CASE Ran(r, "begun")
    <2>1. r = Main /\ AllDone
      BY <1>0, <1>1, <1>3, Zenon DEF Ran, Place
    <2> QED
      BY <2>1, <1>1, <1>3, RunsOn, Zenon
  <1>4. CASE ~Examines(r) /\ UNCHANGED <<contexts, task>>
    <2>1. CASE r = Main
      <3>1. Front # None => contexts[Front].sec # "start"
        <4> SUFFICES ASSUME Front # None, contexts[Front].sec = "start"
                     PROVE  FALSE
          BY Zenon
        <4>1. SingleTrace(contexts[Front])
          BY <1>0, Zenon DEF Stages, Staged, SingleTrace
        <4> QED
          BY <4>1, <2>1, <1>2, <1>4, Zenon DEF Examines, Ctx
      <3>2. Front # None => contexts[Front].sec # "ended"
        BY <2>1, <1>0, <1>1, Zenon DEF Stages, Staged
      <3> QED
        BY <2>1, <3>1, <3>2, <1>1, <1>2, <1>4, GoesOn, Zenon
    <2>2. CASE r # Main
      BY <2>2, <1>1, <1>2, <1>4, GoesOn, Zenon
    <2> QED
      BY <2>1, <2>2, Zenon
  <1> QED
    BY <1>1, <1>3, <1>4, Zenon

(* The access phase ends, once every subrequest has                         *)
LEMMA AllowStep ==
  ASSUME Served, Typed, TInv, NEW r \in Reqs, Allow(r)
  PROVE  TInv'
  <1>0. Place /\ Trees /\ Tasks /\ Stages /\ ~undefined /\ broken = {}
    BY Zenon DEF TInv
  <1>1. "precontent" \in Phases
    BY DEF Phases
  <1>2. /\ req[r].phase = "auth" /\ Active(r) /\ Idle(r)
        /\ r = Main => AllDone
        /\ Entered(r, "precontent", req[r].ctx)
        /\ UNCHANGED <<logSub, cleanups, contexts, task, broken, undefined>>
    BY <1>1, PhaseFacts, Zenon DEF Allow, Active
  <1>3. task.ctx = None
    BY <1>0, <1>2, Unsuspended, Zenon
  <1>4. r = Main /\ Front # None => /\ contexts[Front].sec # "start"
                                     /\ contexts[Front].sec # "ended"
    BY <1>0, <1>2, Zenon DEF Stages, Staged
  <1> QED
    BY <1>2, <1>3, <1>4, GoesOn, Zenon

(* on_precontent_phase                                                      *)
LEMMA PrecontentStep ==
  ASSUME Served, Typed, TInv, NEW r \in Reqs, Precontent(r)
  PROVE  TInv'
  <1>0. Place /\ Trees /\ Tasks /\ Stages /\ ~undefined /\ broken = {}
    BY Zenon DEF TInv
  <1>1. "content" \in Phases
    BY DEF Phases
  <1>2. /\ req[r].phase = "precontent" /\ Active(r) /\ Idle(r)
        /\ Entered(r, "content", ContextOf(r))
        /\ UNCHANGED <<logSub, cleanups, contexts, task, broken, undefined>>
    BY <1>1, EnterFacts, Zenon DEF Precontent, Active
  <1>3. task.ctx = None /\ ContextOf(r) = Front
    BY <1>0, <1>2, Unsuspended, Found, Zenon
  <1>4. r = Main => /\ AllDone
                    /\ Front # None => /\ contexts[Front].sec # "start"
                                       /\ contexts[Front].sec # "ended"
    BY <1>0, <1>2, Zenon DEF Stages, Staged, Place
  <1> QED
    BY <1>2, <1>3, <1>4, GoesOn, Zenon

(* on_header_filter                                                         *)
LEMMA HeaderStep ==
  ASSUME Served, Typed, TInv, NEW r \in Reqs, HeaderFilter(r)
  PROVE  TInv'
  <1>0. Place /\ Trees /\ Tasks /\ Stages /\ ~undefined /\ broken = {}
    BY Zenon DEF TInv
  <1>1. /\ req[r].phase \in {"access", "auth", "content"} /\ Idle(r)
        /\ r = Main /\ req[r].phase = "auth" => AllDone
        /\ Entered(r, "output", ContextOf(r))
        /\ \/ Ran(r, "ended")
           \/ UNCHANGED <<contexts, task>>
        /\ UNCHANGED <<logSub, cleanups, broken, undefined>>
    BY HeaderEffect, Zenon
  <1>2. Active(r) /\ (r = Main => AllDone /\ req[Main].phase # "rewrite")
    BY <1>0, <1>1, Zenon DEF Place, Active
  <1>3. task.ctx = None /\ ContextOf(r) = Front
    BY <1>0, <1>1, <1>2, Unsuspended, Found, Zenon
  <1>4. CASE Ran(r, "ended")
    <2>1. r = Main
      BY <1>4, Zenon DEF Ran
    <2> QED
      BY <2>1, <1>1, <1>2, <1>4, RunsOn, Zenon
  <1>5. CASE UNCHANGED <<contexts, task>>
    BY <1>1, <1>2, <1>3, <1>5, GoesOn, Zenon
  <1> QED
    BY <1>1, <1>4, <1>5, Zenon

(* on_output_body_filter                                                    *)
LEMMA OutputStep ==
  ASSUME Served, Typed, TInv, NEW r \in Reqs, OutputBodyFilter(r)
  PROVE  TInv'
  <1>0. Place /\ Trees /\ Tasks /\ Stages /\ ~undefined /\ broken = {}
    BY Zenon DEF TInv
  <1>1. "log" \in Phases
    BY DEF Phases
  <1> DEFINE c == IF r = Main THEN ContextOf(r) ELSE req[r].ctx
  <1>2. /\ req[r].phase = "output" /\ Active(r) /\ Entered(r, "log", c)
        /\ UNCHANGED <<logSub, cleanups, contexts, task, undefined>>
    BY <1>1, EnterFacts, PhaseFacts, Zenon DEF OutputBodyFilter, Active
  <1>3. ContextOf(r) = Front
    BY <1>0, <1>2, Found, Zenon
  <1>4. ~BodyFails(r)
    <2> SUFFICES ASSUME BodyFails(r)
                 PROVE  FALSE
      BY Zenon
    <2>1. Front # None /\ ~HasTrace(contexts[Front], Main)
      BY <1>3, Zenon DEF BodyFails, Ctx
    <2>2. contexts[Front] \in Context /\ Tree(contexts[Front])
      BY <2>1, <1>0, FrontFacts, Zenon DEF Trees
    <2> QED
      BY <2>1, <2>2, MainTrace, Zenon
  <1>5. UNCHANGED broken
    BY <1>4, Zenon DEF OutputBodyFilter
  <1>6. CASE r # Main
    <2>1. task.ctx = None
      BY <1>0, <1>2, <1>6, SubActive, Zenon
    <2> QED
      BY <2>1, <1>2, <1>5, <1>6, GoesOn, Zenon
  <1>7. CASE r = Main
    <2>1. AllDone
      BY <1>0, <1>2, <1>7, Zenon DEF Place
    <2>2. \/ task.ctx = None
          \/ task.ctx = Front /\ task.gen = contexts[Front].gen
      BY <1>0, Zenon DEF Tasks
    <2> QED
      BY <2>1, <2>2, <1>2, <1>3, <1>5, <1>7, GoesOn, Zenon
  <1> QED
    BY <1>6, <1>7, Zenon

(* on_request_body_filter                                                   *)
LEMMA RequestBodyStep ==
  ASSUME Served, Typed, TInv, RequestBodyFilter
  PROVE  TInv'
  <1>0. /\ Place /\ Trees /\ Tasks /\ Stages /\ ~undefined /\ broken = {}
        /\ Main \in Reqs
    BY ReqFacts, Zenon DEF TInv
  <1>1. "content" \in Phases
    BY DEF Phases
  <1>2. /\ req[Main].phase = "content" /\ Active(Main)
        /\ ContextOf(Main) # None
        /\ UNCHANGED <<logSub, cleanups, contexts, undefined>>
    BY Zenon DEF RequestBodyFilter, Active
  <1>3. ContextOf(Main) = Front /\ AllDone
    BY <1>0, <1>2, Found, Zenon DEF Place
  <1>4. contexts[Front] \in Context /\ Tree(contexts[Front])
    BY <1>0, <1>2, <1>3, FrontFacts, Zenon DEF Trees
  <1>5. HasTrace(Ctx(Main), Main)
    BY <1>3, <1>4, MainTrace, Zenon DEF Ctx
  <1>6. /\ Enter(Main, "content") /\ UNCHANGED broken
        /\ task' = [ctx |-> Front, gen |-> contexts[Front].gen]
    BY <1>3, <1>5, Zenon DEF RequestBodyFilter, StartTask
  <1>7. /\ Entered(Main, "content", Front)
        /\ task'.ctx = Front /\ task'.gen = contexts[Front].gen
    BY <1>0, <1>1, <1>3, <1>6, EnterFacts, Zenon
  <1>8. contexts[Front].sec # "start" /\ contexts[Front].sec # "ended"
    BY <1>0, <1>2, <1>3, Zenon DEF Stages, Staged
  <1> QED
    BY <1>0, <1>2, <1>3, <1>6, <1>7, <1>8, GoesOn, Zenon

(* The event loop handles the end of the task                               *)
LEMMA TaskDoneStep ==
  ASSUME Served, Typed, TInv, TaskDone
  PROVE  TInv'
  <1>0. Place /\ Trees /\ Tasks /\ Stages /\ ~undefined /\ broken = {}
    BY Zenon DEF TInv
  <1>1. /\ UNCHANGED <<req, logSub, cleanups, contexts, broken, undefined>>
        /\ task'.ctx = None
    BY Zenon DEF TaskDone, NoTask
  <1>2. Front' = Front /\ AllDone' = AllDone /\ SubsOver' = SubsOver
    BY <1>1, Zenon DEF Front, AllDone, SubsOver
  <1>3. Place'
    BY <1>0, <1>1, <1>2, Zenon DEF Place, Active
  <1>4. Trees'
    BY <1>0, <1>1, <1>2, TreesSame, Zenon
  <1>5. Stages' /\ Tasks'
    BY <1>0, <1>1, <1>2, Zenon DEF Stages, Tasks
  <1> QED
    BY <1>0, <1>1, <1>3, <1>4, <1>5, Zenon DEF TInv

(* The request is sent to another location *)
LEMMA MoveEffect ==
  ASSUME Typed, NEW r \in Reqs, NEW l \in Locs, Move(r, l)
  PROVE  /\ Idle(r) /\ req[r].phase \in {"access", "auth", "content"}
         /\ l \in IF r = Main THEN MainLocs ELSE SubLocs
         /\ r = Main /\ req[r].phase = "auth" => AllDone
         /\ req'[r].phase = "rewrite" /\ req'[r].loc = l /\ req'[r].internal
         /\ req'[r].ctx \in {None, req[r].ctx}
         /\ \A s \in Reqs : s # r => req'[s] = req[s]
         /\ UNCHANGED <<logSub, cleanups, contexts, task, broken, undefined>>
  <1>1. PICK c \in {None, req[r].ctx} :
          req' = [req EXCEPT ![r] = [phase |-> "rewrite", loc |-> l,
                    internal |-> TRUE, ctx |-> c, moves |-> @.moves + 1]]
    BY Zenon DEF Move
  <1>2. /\ req'[r].phase = "rewrite" /\ req'[r].loc = l /\ req'[r].internal
        /\ req'[r].ctx = c
        /\ \A s \in Reqs : s # r => req'[s] = req[s]
    BY <1>1, Zenon DEF Typed
  <1> QED
    BY <1>2, Zenon DEF Move

(* An internal redirect clears the module contexts                          *)
LEMMA MoveStep ==
  ASSUME Served, Typed, TInv, NEW r \in Reqs, NEW l \in Locs, Move(r, l)
  PROVE  TInv'
  <1>0. Place /\ Trees /\ Tasks /\ Stages /\ ~undefined /\ broken = {}
    BY Zenon DEF TInv
  <1>1. /\ Idle(r) /\ req[r].phase \in {"access", "auth", "content"}
        /\ l \in IF r = Main THEN MainLocs ELSE SubLocs
        /\ r = Main /\ req[r].phase = "auth" => AllDone
        /\ req'[r].phase = "rewrite" /\ req'[r].loc = l /\ req'[r].internal
        /\ req'[r].ctx \in {None, req[r].ctx}
        /\ \A s \in Reqs : s # r => req'[s] = req[s]
        /\ UNCHANGED <<logSub, cleanups, contexts, task, broken, undefined>>
    BY MoveEffect, Zenon
  <1>2. Active(r) /\ Active(r)'
    BY <1>1, Zenon DEF Active
  <1>3. task.ctx = None
    BY <1>0, <1>1, <1>2, Unsuspended, Zenon
  <1>4. Front' = Front
    BY <1>1, Zenon DEF Front
  <1>5. \A q \in Reqs : req'[q].ctx # None => req'[q].ctx = Front /\ Active(q)'
    BY <1>0, <1>1, <1>2, Zenon DEF Place, Active
  <1>6. \A s \in Subs : Active(s)' => req'[s].internal
    BY <1>0, <1>1, ReqFacts, Zenon DEF Place, Active
  <1>7. CASE r = Main
    <2>1. \A s \in Subs : req'[s] = req[s]
      BY <1>1, <1>7, ReqFacts, Zenon
    <2>2. AllDone'
      BY <2>1, <1>0, <1>1, <1>7, Zenon DEF AllDone, Place
    <2>3. Place'
      BY <2>2, <1>0, <1>1, <1>4, <1>5, <1>6, <1>7, Zenon DEF Place
    <2>4. Stages'
      <3> SUFFICES ASSUME Front # None
                   PROVE  Staged(contexts[Front], "rewrite")
        BY <1>1, <1>4, <1>7, Zenon DEF Stages, Staged
      <3>1. Staged(contexts[Front], req[Main].phase)
        BY <1>0, Zenon DEF Stages
      <3> QED
        BY <3>1, <1>1, <1>7, Zenon DEF Staged
    <2> QED
      BY <2>3, <2>4, <1>0, <1>1, <1>3, <1>4, TreesSame, Zenon DEF TInv, Tasks
  <1>8. CASE r # Main
    <2>1. /\ req'[Main] = req[Main] /\ req[Main].phase = "auth"
          /\ Front # None
      BY <1>0, <1>1, <1>2, <1>8, ReqFacts, SubActive, Zenon
    <2>2. Place'
      BY <2>1, <1>0, <1>1, <1>4, <1>5, <1>6, Zenon DEF Place
    <2>3. Stages'
      BY <2>1, <1>0, <1>1, <1>4, Zenon DEF Stages, Staged
    <2> QED
      BY <2>2, <2>3, <1>0, <1>1, <1>3, <1>4, TreesSame, Zenon DEF TInv, Tasks
  <1> QED
    BY <1>7, <1>8, Zenon

(* The access phase starts a subrequest                                     *)
LEMMA StartSubStep ==
  ASSUME Served, Typed, TInv, NEW s \in Subs, NEW l \in Locs, StartSub(s, l)
  PROVE  TInv'
  <1>0. Place /\ Trees /\ Tasks /\ Stages /\ ~undefined /\ broken = {}
    BY Zenon DEF TInv
  <1>1. s \in Reqs /\ s # Main /\ Main \in Reqs
    BY ReqFacts, Zenon
  <1>2. /\ req[s].phase = "none" /\ req[Main].phase = "auth" /\ Idle(Main)
        /\ req' = [req EXCEPT ![s] = [phase |-> "rewrite", loc |-> l,
                                internal |-> TRUE, ctx |-> None, moves |-> 0]]
        /\ UNCHANGED <<logSub, cleanups, contexts, task, broken, undefined>>
    BY Zenon DEF StartSub, Served
  <1>3. /\ req'[s].phase = "rewrite" /\ req'[s].internal /\ req'[s].ctx = None
        /\ \A q \in Reqs : q # s => req'[q] = req[q]
    BY <1>1, <1>2, Zenon DEF Typed
  <1>4. task.ctx = None /\ Front' = Front /\ req'[Main] = req[Main]
    BY <1>1, <1>2, <1>3, Zenon DEF Idle, Front
  <1>5. Front # None
    BY <1>0, <1>2, Zenon DEF Place, SubsOver
  <1>6. Place'
    <2>1. \A q \in Reqs : req'[q].ctx # None => req'[q].ctx = Front /\ Active(q)'
      BY <1>0, <1>3, Zenon DEF Place, Active
    <2>2. \A q \in Subs : Active(q)' => req'[q].internal
      BY <1>0, <1>3, ReqFacts, Zenon DEF Place, Active
    <2> QED
      BY <2>1, <2>2, <1>0, <1>2, <1>4, <1>5, Zenon DEF Place
  <1>7. Stages'
    BY <1>0, <1>2, <1>4, Zenon DEF Stages, Staged
  <1> QED
    BY <1>0, <1>2, <1>4, <1>6, <1>7, TreesSame, Zenon DEF TInv, Tasks

(* on_log_request, and at the end of the main request the pool's cleanup    *)
LEMMA LogStep ==
  ASSUME Served, Typed, TInv, NEW r \in Reqs, Log(r)
  PROVE  TInv'
  <1>0. Place /\ Trees /\ Tasks /\ Stages /\ ~undefined /\ broken = {}
    BY Zenon DEF TInv
  <1>1. /\ req[r].phase = "log" /\ Active(r) /\ Idle(r)
        /\ r = Main => AllDone
        /\ Entered(r, "done", None)
        /\ DOMAIN contexts' = DOMAIN contexts
        /\ \A i \in DOMAIN contexts : contexts'[i] = Cleaned(r, i)
        /\ UNCHANGED <<logSub, cleanups, task, broken>>
    BY LogEffect, Zenon DEF Active
  <1>2. task.ctx = None /\ ContextOf(r) = Front
    BY <1>0, <1>1, Unsuspended, Found, Zenon
  <1>3. Front' = Front
    BY <1>1, Zenon DEF Front
  <1>4. \A q \in Reqs : req'[q].ctx # None => req'[q].ctx = Front /\ Active(q)'
    BY <1>0, <1>1, Zenon DEF Entered, Place, Active
  <1>5. \A s \in Subs : Active(s)' => req'[s].internal
    BY <1>0, <1>1, ReqFacts, Zenon DEF Entered, Place, Active
  <1>6. ASSUME NEW i \in DOMAIN contexts
        PROVE  /\ Tree(contexts'[i]) /\ contexts'[i].sec = contexts[i].sec
               /\ Len(contexts'[i].traces) = Len(contexts[i].traces)
               /\ contexts'[i].live => contexts[i].live
               /\ r # Main => contexts'[i].live = contexts[i].live
               /\ r = Main /\ i \in Range(cleanups) => ~contexts'[i].live
               /\ i = Front /\ r = Main /\ contexts[i].sec # "none"
                    => contexts'[i].reported
    <2> DEFINE c == contexts[i]
               d == Logged(r, i)
    <2>1. c \in Context /\ req[r].loc \in Locs /\ c.live \in BOOLEAN
      <3>1. contexts[i] \in Context
        BY DEF Typed
      <3> QED
        BY <3>1, Zenon DEF Typed, Request, Context
    <2>2. Tree(c)
      BY <1>0, Zenon DEF Trees
    <2>3. /\ Tree(d) /\ d \in Context /\ d.live = c.live /\ d.sec = c.sec
          /\ Len(d.traces) = Len(c.traces)
          /\ i = Front /\ r = Main /\ c.sec # "none" => d.reported
      <3>1. CASE i = Front /\ (r = Main \/ logSub)
        <4>1. d = ContextLog(c, r, req[r].loc)
          BY <3>1, <1>2, Zenon DEF Logged
        <4>2. r = Main => req[r].loc.tracing
          BY <1>0, MainTraced, Zenon
        <4> DEFINE e == ContextLog(c, r, req[r].loc)
        <4>3. /\ Tree(e) /\ e \in Context /\ e.live = c.live /\ e.sec = c.sec
              /\ Len(e.traces) = Len(c.traces)
              /\ req[r].loc.tracing /\ r = Main /\ c.sec # "none" => e.reported
          <5> DEFINE l == req[r].loc
          <5>1. c \in Context /\ l \in Locs /\ Tree(c)
            BY <2>1, <2>2, Zenon
          <5> HIDE DEF c, l
          <5> QED
            BY <5>1, LogTree, ZenonT(30) DEF l
        <4> HIDE DEF e
        <4> QED
          BY <4>1, <4>2, <4>3, Zenon DEF e
      <3>2. CASE ~(i = Front /\ (r = Main \/ logSub))
        <4>1. d = c
          BY <3>2, <1>2, Zenon DEF Logged
        <4> QED
          BY <4>1, <3>2, <2>1, <2>2, Zenon
      <3> QED
        BY <3>1, <3>2, Zenon
    <2> HIDE DEF d
    <2>4. CASE r = Main /\ i \in Range(cleanups)
      <3> DEFINE e == [d EXCEPT !.live = FALSE]
      <3>1. contexts'[i] = e
        BY <2>4, <1>1, Zenon DEF Cleaned, d
      <3>2. /\ e.live = FALSE /\ e.sec = d.sec /\ e.traces = d.traces
            /\ e.reported = d.reported
        BY <2>3, DeadFacts, Zenon
      <3> HIDE DEF e
      <3>3. Tree(e)
        BY <2>3, <3>2, SameTree, Zenon
      <3> QED
        BY <2>3, <2>4, <3>1, <3>2, <3>3, Zenon
    <2>5. CASE ~(r = Main /\ i \in Range(cleanups))
      <3>1. contexts'[i] = d
        BY <2>5, <1>1, Zenon DEF Cleaned, d
      <3> QED
        BY <2>3, <2>5, <3>1, Zenon
    <2> QED
      BY <2>4, <2>5, Zenon
  <1>7. Trees'
    BY <1>0, <1>1, <1>3, <1>6, Zenon DEF Trees
  <1>8. Tasks'
    BY <1>1, <1>2, Zenon DEF Tasks
  <1>9. CASE r # Main
    <2>1. /\ req'[Main] = req[Main] /\ req[Main].phase = "auth"
          /\ Front # None
      BY <1>0, <1>1, <1>9, ReqFacts, SubActive, Zenon DEF Entered
    <2>2. Place'
      BY <2>1, <1>0, <1>1, <1>3, <1>4, <1>5, Zenon DEF Place
    <2>3. Front \in DOMAIN contexts /\ Staged(contexts[Front], "auth")
      BY <2>1, <1>0, FrontFacts, Zenon DEF Stages
    <2>4. Staged(contexts'[Front], "auth")
      BY <2>3, <1>6, <1>9, Zenon DEF Staged
    <2>5. Stages'
      BY <2>1, <2>4, <1>3, Zenon DEF Stages, Staged
    <2>6. undefined' = undefined
      BY <1>9, Zenon DEF Log, Typed
    <2> QED
      BY <2>2, <2>5, <2>6, <1>0, <1>1, <1>7, <1>8, Zenon DEF TInv
  <1>10. CASE r = Main
    <2>1. \A s \in Subs : req'[s] = req[s]
      BY <1>1, <1>10, ReqFacts, Zenon DEF Entered
    <2>2. AllDone' /\ (SubsOver => SubsOver')
      BY <2>1, <1>1, <1>10, Zenon DEF AllDone, SubsOver
    <2>3. /\ req'[Main].phase = "done" /\ req'[Main].loc \in MainLocs
      BY <1>0, <1>1, <1>10, Zenon DEF Entered, Place
    <2>4. Front = None => SubsOver
      BY <1>0, <1>1, <1>10, Zenon DEF Place
    <2>5. Place'
      BY <2>2, <2>3, <2>4, <1>0, <1>1, <1>3, <1>4, <1>5, Zenon DEF Place
    <2>6. \A i \in Range(cleanups) : i # None => i = Front
      BY <1>0, RangeFront, Zenon
    <2>7. Front # None => Front \in Range(cleanups) /\ Front \in DOMAIN contexts
      BY FrontFacts, FrontRange, Zenon
    <2>8. Front # None => Staged(contexts[Front], "log")
      BY <1>0, <1>1, <1>10, Zenon DEF Stages
    <2>9. Stages'
      <3> SUFFICES ASSUME Front # None
                   PROVE  Staged(contexts'[Front], "done")
        BY <2>3, <1>3, Zenon DEF Stages, Staged
      <3> QED
        BY <2>7, <2>8, <1>6, <1>10, Zenon DEF Staged
    <2>10. ~undefined'
      <3>1. \A i \in Range(cleanups) \ {None} : contexts[i].live
        BY <2>6, <2>8, Zenon DEF Staged
      <3> QED
        BY <3>1, <1>0 DEF Log
    <2> QED
      BY <2>5, <2>9, <2>10, <1>0, <1>1, <1>7, <1>8, Zenon DEF TInv
  <1> QED
    BY <1>9, <1>10, Zenon

-----------------------------------------------------------------------------
(* The invariant holds *)

(* A new request satisfies the invariant                                    *)
LEMMA TInvInit ==
  Init => TInv
  <1> SUFFICES ASSUME Init
               PROVE  TInv
    OBVIOUS
  <1>1. PICK l \in MainLocs, used \in SUBSET Subs :
          req = [r \in Reqs |->
                   [phase |-> IF r = Main THEN "rewrite"
                              ELSE IF r \in used THEN "none" ELSE "done",
                    loc |-> l, internal |-> FALSE, ctx |-> None, moves |-> 0]]
    BY Zenon DEF Init
  <1>2. /\ \A r \in Reqs : req[r].ctx = None
        /\ req[Main].phase = "rewrite" /\ req[Main].loc = l
        /\ \A s \in Subs : req[s].phase \in {"none", "done"}
    BY <1>1, ReqFacts, Zenon
  <1>3. cleanups = <<>> /\ contexts = <<>> /\ task.ctx = None
        /\ ~undefined /\ broken = {} /\ Front = None
    BY Zenon DEF Init, NoTask, Front
  <1>4. DOMAIN cleanups = {} /\ DOMAIN contexts = {}
    BY <1>3
  <1>5. Place
    BY <1>2, <1>3, <1>4, Zenon DEF Place, AllDone, Active
  <1> QED
    BY <1>3, <1>4, <1>5, Zenon DEF TInv, Trees, Tasks, Stages

(* Every step keeps the invariant                                           *)
LEMMA TInvNext ==
  ASSUME Served, Typed, TInv, [Next]_vars
  PROVE  TInv'
  <1>1. ASSUME NEW r \in Reqs, EnterBlock(r)
        PROVE  TInv'
    BY <1>1, EnterBlockCases, PassStep, NewStep, FailedStep, ChangeStep,
       LostStep, Zenon
  <1>2. ASSUME NEW r \in Reqs, Access(r)
        PROVE  TInv'
    BY <1>2, AccessStep, Zenon
  <1>3. ASSUME NEW r \in Reqs, Allow(r)
        PROVE  TInv'
    BY <1>3, AllowStep, Zenon
  <1>4. ASSUME NEW r \in Reqs, Precontent(r)
        PROVE  TInv'
    BY <1>4, PrecontentStep, Zenon
  <1>5. ASSUME NEW r \in Reqs, HeaderFilter(r)
        PROVE  TInv'
    BY <1>5, HeaderStep, Zenon
  <1>6. ASSUME NEW r \in Reqs, OutputBodyFilter(r)
        PROVE  TInv'
    BY <1>6, OutputStep, Zenon
  <1>7. ASSUME NEW r \in Reqs, Log(r)
        PROVE  TInv'
    BY <1>7, LogStep, Zenon
  <1>8. ASSUME NEW r \in Reqs, NEW l \in Locs, Move(r, l)
        PROVE  TInv'
    BY <1>8, MoveStep, Zenon
  <1>9. ASSUME NEW s \in Subs, NEW l \in Locs, StartSub(s, l)
        PROVE  TInv'
    BY <1>9, StartSubStep, Zenon
  <1>10. CASE RequestBodyFilter
    BY <1>10, RequestBodyStep, Zenon
  <1>11. CASE TaskDone
    BY <1>11, TaskDoneStep, Zenon
  <1>12. CASE UNCHANGED vars
    <2>1. UNCHANGED <<req, logSub, cleanups, contexts, task, broken, undefined>>
      BY <1>12, Zenon DEF vars
    <2>2. Front' = Front /\ AllDone' = AllDone /\ SubsOver' = SubsOver
      BY <2>1, Zenon DEF Front, AllDone, SubsOver
    <2>3. Place'
      BY <2>1, <2>2, Zenon DEF Place, Active, TInv
    <2>4. Trees'
      BY <2>1, <2>2, TreesSame, Zenon DEF TInv
    <2>5. Stages' /\ Tasks'
      BY <2>1, <2>2, Zenon DEF Stages, Tasks, TInv
    <2> QED
      BY <2>1, <2>3, <2>4, <2>5, Zenon DEF TInv
  <1> QED
    BY <1>1, <1>2, <1>3, <1>4, <1>5, <1>6, <1>7, <1>8, <1>9, <1>10, <1>11,
       <1>12, Zenon DEF Next, Terminated

(* The types and the invariant hold throughout                              *)
LEMMA TInvSpec ==
  ASSUME Served
  PROVE  Spec => [](Typed /\ TInv)
  <1>1. Typed /\ TInv /\ [Next]_vars => TInv'
    BY TInvNext
  <1>2. Typed /\ [Next]_vars => Typed'
    BY TypedNext
  <1> QED
    BY <1>1, <1>2, TypedInit, TInvInit, PTL DEF Spec

(* The reference that a WAF task holds to a span of the request stays      *)
(* valid until its completion: no other request moves the vector of traces *)
(* (RequestTracing objects live in a std::vector) or destroys the context  *)
(* while the task runs.                                                    *)
THEOREM SpanOutlivesTask ==
  Served => (Spec => []SpanLive)
  <1> SUFFICES ASSUME Served
               PROVE  Spec => []SpanLive
    OBVIOUS
  <1>1. Typed /\ TInv => SpanLive
    <2> SUFFICES ASSUME Typed, TInv, task.ctx # None
                 PROVE  /\ contexts[task.ctx].live
                        /\ contexts[task.ctx].gen = task.gen
      BY Zenon DEF SpanLive
    <2>1. /\ task.ctx = Front /\ task.gen = contexts[Front].gen
          /\ req[Main].phase # "done"
      BY Zenon DEF TInv, Tasks
    <2>2. contexts[Front].live
      BY <2>1, Zenon DEF TInv, Stages, Staged
    <2> QED
      BY <2>1, <2>2, Zenon
  <1> QED
    BY <1>1, TInvSpec, PTL

(* Every handler works on a live context, every context is destroyed once, *)
(* by destroy_datadog_context or with the pool, and no filter of the       *)
(* module fails a request, however nginx redirects the requests.           *)
THEOREM HandlersAreServed ==
  Served => (Spec => []HandlersServe)
  <1> SUFFICES ASSUME Served
               PROVE  Spec => []HandlersServe
    OBVIOUS
  <1>1. Typed /\ TInv => HandlersServe
    <2> SUFFICES ASSUME Typed, TInv
                 PROVE  HandlersServe
      OBVIOUS
    <2>0. Place /\ Trees /\ Tasks /\ Stages /\ ~undefined /\ broken = {}
      BY Zenon DEF TInv
    <2>1. ASSUME NEW r \in Reqs, ContextOf(r) # None,
                 req[r].phase \notin {"none", "done"}
          PROVE  contexts[ContextOf(r)].live
      <3>1. Active(r)
        BY <2>1, Zenon DEF Active
      <3>2. ContextOf(r) = Front
        BY <3>1, <2>0, Found, Zenon
      <3>3. req[Main].phase # "done"
        BY <3>1, <2>0, SubActive, Zenon DEF Active
      <3> QED
        BY <3>2, <3>3, <2>0, <2>1, Zenon DEF Stages, Staged
    <2>2. ASSUME req[Main].phase = "done", NEW i \in DOMAIN contexts
          PROVE  ~contexts[i].live
      <3>1. i # None
        BY DEF Typed, None
      <3> QED
        BY <3>1, <2>0, <2>2, Zenon DEF Trees, Stages, Staged
    <2> QED
      BY <2>0, <2>1, <2>2, Zenon DEF HandlersServe, ContextLive, FiltersPass
  <1> QED
    BY <1>1, TInvSpec, PTL

(* The WAF examines every request that gets to its content in the access   *)
(* phase of its present context, only the main request uses up the final   *)
(* run, and what was found is reported when the request is logged.         *)
THEOREM RequestExaminedOnce ==
  Served => (Spec => []ExaminedOnce)
  <1> SUFFICES ASSUME Served
               PROVE  Spec => []ExaminedOnce
    OBVIOUS
  <1>1. Typed /\ TInv => ExaminedOnce
    <2> SUFFICES ASSUME Typed, TInv
                 PROVE  ExaminedOnce
      OBVIOUS
    <2>0. Place /\ Trees /\ Tasks /\ Stages /\ Main \in Reqs
      BY ReqFacts, Zenon DEF TInv
    <2>1. AccessExamined
      <3> SUFFICES ASSUME req[Main].phase \in {"precontent", "content"},
                          ContextOf(Main) # None
                   PROVE  Ctx(Main).sec # "start"
        BY Zenon DEF AccessExamined
      <3>1. ContextOf(Main) = Front
        BY <2>0, Found, Zenon DEF Active
      <3> QED
        BY <3>1, <2>0, Zenon DEF Stages, Staged, Ctx
    <2>2. FinalIsMain
      <3> SUFFICES ASSUME NEW i \in DOMAIN contexts,
                          contexts[i].live, contexts[i].sec = "ended"
                   PROVE  req[Main].phase \in {"output", "log"}
        BY Zenon DEF FinalIsMain
      <3>1. i # None /\ i = Front
        BY <2>0 DEF Trees, Typed, None
      <3> QED
        BY <3>1, <2>0, Zenon DEF Stages, Staged
    <2>3. ExaminedIsReported
      <3> SUFFICES ASSUME NEW i \in DOMAIN contexts, req[Main].phase = "done",
                          i \in Range(cleanups),
                          contexts[i].sec \in {"begun", "ended"}
                   PROVE  contexts[i].reported
        BY Zenon DEF ExaminedIsReported
      <3>1. i # None
        BY DEF Typed, None
      <3>2. i = Front
        BY <3>1, <2>0, RangeFront, Zenon
      <3> QED
        BY <3>1, <3>2, <2>0, Zenon DEF Stages, Staged
    <2> QED
      BY <2>1, <2>2, <2>3, Zenon DEF ExaminedOnce
  <1> QED
    BY <1>1, TInvSpec, PTL

-----------------------------------------------------------------------------
(* The spans are finished *)

(* "Only trace subrequests if `log_subrequest` is enabled": in a build     *)
(* with RUM, on_enter_block also lets pass a subrequest whose location has *)
(* datadog_rum, and DatadogContext::on_change_block then asks for tracing  *)
(* alone; so such a subrequest gets a trace that is never logged.          *)
SubsLogged == Waf \/ \A l \in SubLocs : ~l.rum

(* The traces of subrequests are logged, those of requests that are done   *)
(* are finished                                                            *)
Finished(c) ==
  \A j \in DOMAIN c.traces :
    /\ c.traces[j].req # Main => logSub
    /\ req[c.traces[j].req].phase = "done" /\ req[c.traces[j].req].loc.tracing
         => c.traces[j].requestSpan = "ended" /\ c.traces[j].span # "open"

FInv ==
  /\ Front # None => Finished(contexts[Front])
  /\ \A s \in Subs : Active(s) => req[s].loc \in SubLocs

(* A step that changes no trace and after which no more requests are done *)
LEMMA FinishedStays ==
  ASSUME Typed, FInv, UNCHANGED <<cleanups, logSub>>,
         Front # None => contexts'[Front].traces = contexts[Front].traces,
         \A q \in Reqs : req'[q].phase # "done" \/ req'[q] = req[q],
         \A s \in Subs : Active(s)' => \/ Active(s) /\ req'[s].loc = req[s].loc
                                       \/ req'[s].loc \in SubLocs
  PROVE  FInv'
  <1>1. Front' = Front
    BY Zenon DEF Front
  <1>2. \A s \in Subs : Active(s)' => req'[s].loc \in SubLocs
    BY Zenon DEF FInv
  <1>3. ASSUME Front # None
        PROVE  Finished(contexts[Front])'
    <2>1. contexts[Front] \in Context /\ Finished(contexts[Front])
      BY <1>3, FrontFacts, Zenon DEF FInv
    <2>2. \A j \in DOMAIN contexts[Front].traces :
            contexts[Front].traces[j].req \in Reqs
      <3>1. contexts[Front].traces \in Seq(Trace)
        BY <2>1, Zenon DEF Context
      <3>2. \A j \in DOMAIN contexts[Front].traces :
              contexts[Front].traces[j] \in Trace
        BY <3>1
      <3> QED
        BY <3>2, Zenon DEF Trace
    <2>3. contexts'[Front'].traces = contexts[Front].traces
      BY <1>1, <1>3, Zenon
    <2>4. ASSUME NEW j \in DOMAIN contexts[Front].traces,
                 NEW t, t = contexts[Front].traces[j]
          PROVE  /\ t.req # Main => logSub'
                 /\ req'[t.req].phase = "done" /\ req'[t.req].loc.tracing
                      => t.requestSpan = "ended" /\ t.span # "open"
      BY <2>1, <2>2, <2>4, Zenon DEF Finished
    <2> QED
      BY <2>3, <2>4, Zenon DEF Finished
  <1> QED
    BY <1>1, <1>2, <1>3, Zenon DEF FInv

(* A handler lets its request go on *)
LEMMA FinishedOn ==
  ASSUME Typed, FInv, NEW r \in Reqs, NEW p, NEW c, Entered(r, p, c),
         p # "done", Active(r), UNCHANGED <<cleanups, logSub>>,
         Front # None => contexts'[Front].traces = contexts[Front].traces
  PROVE  FInv'
  <1>1. \A q \in Reqs : req'[q].phase # "done" \/ req'[q] = req[q]
    BY Zenon DEF Entered
  <1>2. \A s \in Subs : Active(s)' => Active(s) /\ req'[s].loc = req[s].loc
    BY ReqFacts, Zenon DEF Entered, Active
  <1> QED
    BY <1>1, <1>2, FinishedStays, Zenon

(* A run of the WAF leaves the traces alone *)
LEMMA RanTraces ==
  ASSUME Typed, Place, NEW r \in Reqs, Active(r), NEW v \in {"begun", "ended"},
         Ran(r, v)
  PROVE  Front # None => contexts'[Front].traces = contexts[Front].traces
  <1> SUFFICES ASSUME Front # None
               PROVE  contexts'[Front].traces = contexts[Front].traces
    BY Zenon
  <1>1. contexts[Front] \in Context /\ ContextOf(r) = Front
    BY FrontFacts, Found, Zenon
  <1>2. contexts'[Front] = [contexts[Front] EXCEPT !.sec = v]
    BY <1>1, Zenon DEF Ran, Updated, Ctx
  <1>3. v \in {"none", "start", "begun", "ended"}
    BY Zenon
  <1> DEFINE c == contexts[Front]
             d == [c EXCEPT !.sec = v]
  <1>4. c \in Context
    BY <1>1, Zenon
  <1> HIDE DEF c
  <1>5. d.traces = c.traces
    BY <1>3, <1>4, StageFacts, Zenon
  <1> QED
    BY <1>2, <1>5, Zenon DEF c

(* The handlers that change no trace *)
LEMMA FinishedHandlers ==
  ASSUME Typed, TInv, FInv, NEW r \in Reqs,
         Access(r) \/ Allow(r) \/ Precontent(r) \/ HeaderFilter(r)
           \/ OutputBodyFilter(r)
  PROVE  FInv'
  <1>0. Place
    BY Zenon DEF TInv
  <1>1. {"auth", "precontent", "content", "output", "log"} \subseteq Phases
    BY DEF Phases
  <1>2. CASE Access(r)
    <2>1. Active(r) /\ UNCHANGED <<cleanups, logSub>>
      BY <1>2, Zenon DEF Access, Active
    <2>2. Front # None => contexts'[Front].traces = contexts[Front].traces
      BY <1>0, <1>2, <2>1, AccessEffect, RanTraces, Zenon
    <2>3. PICK c : Entered(r, "auth", c)
      BY <1>2, AccessEffect, Zenon
    <2> QED
      BY <2>1, <2>2, <2>3, FinishedOn, Zenon
  <1>3. CASE Allow(r)
    <2>1. Active(r) /\ UNCHANGED <<cleanups, logSub, contexts>>
      BY <1>3, Zenon DEF Allow, Active
    <2>2. Entered(r, "precontent", req[r].ctx)
      BY <1>1, <1>3, PhaseFacts, Zenon DEF Allow
    <2> QED
      BY <2>1, <2>2, FinishedOn, Zenon
  <1>4. CASE Precontent(r)
    <2>1. Active(r) /\ UNCHANGED <<cleanups, logSub, contexts>>
      BY <1>4, Zenon DEF Precontent, Active
    <2>2. Entered(r, "content", ContextOf(r))
      BY <1>1, <1>4, EnterFacts, Zenon DEF Precontent
    <2> QED
      BY <2>1, <2>2, FinishedOn, Zenon
  <1>5. CASE HeaderFilter(r)
    <2>1. Active(r) /\ UNCHANGED <<cleanups, logSub>>
      BY <1>5, Zenon DEF HeaderFilter, Active
    <2>2. Front # None => contexts'[Front].traces = contexts[Front].traces
      BY <1>0, <1>5, <2>1, HeaderEffect, RanTraces, Zenon
    <2>3. Entered(r, "output", ContextOf(r))
      BY <1>5, HeaderEffect, Zenon
    <2> QED
      BY <2>1, <2>2, <2>3, FinishedOn, Zenon
  <1>6. CASE OutputBodyFilter(r)
    <2>1. Active(r) /\ UNCHANGED <<cleanups, logSub, contexts>>
      BY <1>6, Zenon DEF OutputBodyFilter, Active
    <2>2. Entered(r, "log", ContextOf(r)) \/ Entered(r, "log", req[r].ctx)
      BY <1>1, <1>6, EnterFacts, PhaseFacts, Zenon DEF OutputBodyFilter
    <2> QED
      BY <2>1, <2>2, FinishedOn, Zenon
  <1> QED
    BY <1>2, <1>3, <1>4, <1>5, <1>6, Zenon

(* The steps of nginx and of the request body filter *)
LEMMA FinishedMoves ==
  ASSUME Served, Typed, TInv, FInv,
         \/ RequestBodyFilter \/ TaskDone \/ UNCHANGED vars
         \/ \E r \in Reqs, l \in Locs : Move(r, l)
         \/ \E s \in Subs, l \in Locs : StartSub(s, l)
  PROVE  FInv'
  <1>1. CASE RequestBodyFilter
    <2>1. Active(Main) /\ Main \in Reqs /\ UNCHANGED <<cleanups, logSub, contexts>>
      BY <1>1, ReqFacts, Zenon DEF RequestBodyFilter, Active
    <2>2. "content" \in Phases /\ "output" \in Phases
      BY DEF Phases
    <2>3. \/ Entered(Main, "content", ContextOf(Main))
          \/ Entered(Main, "output", ContextOf(Main))
      BY <1>1, <2>1, <2>2, EnterFacts, Zenon DEF RequestBodyFilter
    <2> QED
      BY <2>1, <2>3, FinishedOn, Zenon
  <1>2. CASE TaskDone \/ UNCHANGED vars
    <2>1. UNCHANGED <<req, logSub, cleanups, contexts>>
      BY <1>2, Zenon DEF TaskDone, vars
    <2>2. \A s \in Subs : Active(s)' => Active(s) /\ req'[s].loc = req[s].loc
      BY <2>1, Zenon DEF Active
    <2> QED
      BY <2>1, <2>2, FinishedStays, Zenon
  <1>3. CASE \E r \in Reqs, l \in Locs : Move(r, l)
    <2>1. PICK r \in Reqs, l \in Locs : Move(r, l)
      BY <1>3, Zenon
    <2>2. /\ req[r].phase \in {"access", "auth", "content"}
          /\ l \in IF r = Main THEN MainLocs ELSE SubLocs
          /\ req'[r].phase = "rewrite" /\ req'[r].loc = l
          /\ \A s \in Reqs : s # r => req'[s] = req[s]
          /\ UNCHANGED <<logSub, cleanups, contexts, task, broken, undefined>>
      BY <2>1, MoveEffect, Zenon
    <2>3. \A q \in Reqs : req'[q].phase # "done" \/ req'[q] = req[q]
      BY <2>2, Zenon
    <2>4. \A s \in Subs : Active(s)' => \/ Active(s) /\ req'[s].loc = req[s].loc
                                        \/ req'[s].loc \in SubLocs
      BY <2>2, ReqFacts, Zenon DEF Active
    <2> QED
      BY <2>2, <2>3, <2>4, FinishedStays, Zenon
  <1>4. CASE \E s \in Subs, l \in Locs : StartSub(s, l)
    <2>1. PICK q \in Subs, l \in Locs : StartSub(q, l)
      BY <1>4, Zenon
    <2>2. /\ l \in SubLocs /\ UNCHANGED <<cleanups, logSub, contexts>>
          /\ req' = [req EXCEPT ![q] = [phase |-> "rewrite", loc |-> l,
                                 internal |-> TRUE, ctx |-> None, moves |-> 0]]
      BY <2>1, Zenon DEF StartSub
    <2>3. /\ req'[q].phase = "rewrite" /\ req'[q].loc = l
          /\ \A s \in Reqs : s # q => req'[s] = req[s]
      BY <2>2, ReqFacts, Zenon DEF Typed
    <2>4. \A s \in Reqs : req'[s].phase # "done" \/ req'[s] = req[s]
      BY <2>3, Zenon
    <2>5. \A s \in Subs : Active(s)' => \/ Active(s) /\ req'[s].loc = req[s].loc
                                        \/ req'[s].loc \in SubLocs
      BY <2>2, <2>3, ReqFacts, Zenon DEF Active
    <2> QED
      BY <2>2, <2>4, <2>5, FinishedStays, Zenon
  <1> QED
    BY <1>1, <1>2, <1>3, <1>4, Zenon

(* A request that is not done enters the access phase: the locations of    *)
(* the others stay                                                         *)
LEMMA EnteredSubs ==
  ASSUME Typed, FInv, NEW r \in Reqs, Active(r), NEW p, NEW c,
         Entered(r, p, c)
  PROVE  \A s \in Subs : Active(s)' => req'[s].loc \in SubLocs
  BY ReqFacts, Zenon DEF FInv, Entered, Active

(* Without a context at the front there is nothing to finish *)
LEMMA FinishedNone ==
  ASSUME Typed, FInv, NEW r \in Reqs, Active(r), NEW p, NEW c,
         Entered(r, p, c), Front' = None
  PROVE  FInv'
  BY EnteredSubs, Zenon DEF FInv

(* A subrequest that on_enter_block lets pass is logged *)
LEMMA SubsAreLogged ==
  ASSUME SubsLogged, Typed, FInv, NEW r \in Reqs, r # Main, Active(r),
         Traced(r) \/ (~Waf /\ req[r].loc.rum)
  PROVE  logSub
  <1>1. req[r].loc \in SubLocs
    BY ReqFacts, Zenon DEF FInv
  <1> QED
    BY <1>1, Zenon DEF SubsLogged, Traced

(* The context is told of the location: the trace that is replaced or      *)
(* added is the one of a request that is not done                          *)
LEMMA FinishedChange ==
  ASSUME SubsLogged, Typed, TInv, FInv, NEW r \in Reqs,
         req[r].phase = "rewrite", ChangeBlock(r), UNCHANGED logSub
  PROVE  FInv'
  <1>0. Place /\ Trees /\ Tasks
    BY Zenon DEF TInv
  <1>1. Active(r) /\ ContextOf(r) = Front /\ Front # None
    BY <1>0, RewriteQuiet, Zenon DEF ChangeBlock
  <1> DEFINE c == contexts[Front]
             l == req[r].loc
             d == ContextChange(c, r, l)
  <1>2. c \in Context /\ Tree(c) /\ l \in Locs /\ Finished(c)
    BY <1>0, <1>1, FrontFacts, Zenon DEF Trees, Typed, Request, FInv
  <1>3. Front' = Front /\ contexts'[Front] = d /\ Entered(r, "access", Front)
    BY <1>1, Zenon DEF ChangeBlock, Updated, Front, Ctx
  <1>4. \A j \in DOMAIN c.traces : c.traces[j] \in Trace /\ c.traces[j].req \in Reqs
    <2>1. c.traces \in Seq(Trace)
      BY <1>2, Zenon DEF Context
    <2>2. \A j \in DOMAIN c.traces : c.traces[j] \in Trace
      BY <2>1
    <2> QED
      BY <2>2, Zenon DEF Trace
  <1> HIDE DEF c, l
  <1>5. ASSUME NEW j \in DOMAIN d.traces
        PROVE  \/ j \in DOMAIN c.traces /\ d.traces[j] = c.traces[j]
               \/ /\ d.traces[j].req = r
                  /\ r # Main => logSub
    <2>0. r # Main => logSub
      BY <1>1, SubsAreLogged, Zenon DEF ChangeBlock
    <2>1. \/ d = c
          \/ \E i \in DOMAIN c.traces :
               /\ c.traces[i].req = r /\ d.reported = c.reported
               /\ Replaced(c, d, i, OnChangeBlock(c.traces[i], l))
          \/ ~HasTrace(c, r) /\ c.traces # <<>> /\ d = AddTrace(c, r, l)
      BY <1>2, ChangeCases, Zenon
    <2> HIDE DEF d
    <2>2. CASE d = c
      BY <2>2, <1>5, Zenon
    <2>3. ASSUME NEW i \in DOMAIN c.traces, c.traces[i].req = r,
                 Replaced(c, d, i, OnChangeBlock(c.traces[i], l))
          PROVE  d.traces[j].req = r \/ /\ j \in DOMAIN c.traces
                                        /\ d.traces[j] = c.traces[j]
      <3> DEFINE t == c.traces[i]
                 u == OnChangeBlock(t, l)
      <3>1. t \in Trace /\ t.req = r
        BY <1>4, <2>3, Zenon
      <3> HIDE DEF t
      <3>2. u.req = r
        BY <3>1, <1>2, ChangeBlockFacts, Zenon
      <3> QED
        BY <3>2, <2>3, <1>5, Zenon DEF Replaced, t
    <2>4. CASE c.traces # <<>> /\ d = AddTrace(c, r, l)
      <3> DEFINE n == Len(c.traces) + 1
                 e == AddTrace(c, r, l)
                 u == NewTrace(r, l, c.traces[1].req)
      <3>1. /\ DOMAIN e.traces = DOMAIN c.traces \cup {n}
            /\ e.traces[n] = u
            /\ \A k \in DOMAIN c.traces : e.traces[k] = c.traces[k]
        BY <1>2, <2>4, AddTraceFacts, Zenon
      <3>2. u.req = r
        BY Zenon DEF NewTrace
      <3> HIDE DEF e, n, u
      <3>3. d = e
        BY <2>4, Zenon DEF e
      <3> QED
        BY <3>1, <3>2, <3>3, <2>0, <1>5, Zenon
    <2> QED
      BY <2>0, <2>1, <2>2, <2>3, <2>4, Zenon
  <1> HIDE DEF d
  <1>6. Finished(contexts[Front])'
    <2>1. ASSUME NEW j \in DOMAIN d.traces, NEW t, t = d.traces[j]
          PROVE  /\ t.req # Main => logSub'
                 /\ req'[t.req].phase = "done" /\ req'[t.req].loc.tracing
                      => t.requestSpan = "ended" /\ t.span # "open"
      <3>1. CASE j \in DOMAIN c.traces /\ t = c.traces[j]
        <4>1. t.req \in Reqs
          BY <3>1, <1>4, Zenon
        <4>2. req'[t.req].phase = "done" => req'[t.req] = req[t.req]
          BY <4>1, <1>3, Zenon DEF Entered
        <4> QED
          BY <3>1, <4>2, <1>2, Zenon DEF Finished
      <3>2. CASE t.req = r /\ (r # Main => logSub)
        BY <3>2, <1>3, Zenon DEF Entered
      <3> QED
        BY <2>1, <3>1, <3>2, <1>5, Zenon
    <2> QED
      BY <2>1, <1>3, Zenon DEF Finished
  <1> QED
    BY <1>1, <1>3, <1>6, EnteredSubs, Zenon DEF FInv

(* on_enter_block *)
LEMMA FinishedEnter ==
  ASSUME Served, SubsLogged, Typed, TInv, FInv, NEW r \in Reqs, EnterBlock(r)
  PROVE  FInv'
  <1>0. Place /\ Trees /\ Tasks
    BY Zenon DEF TInv
  <1>1. req[r].phase = "rewrite" /\ UNCHANGED <<logSub, task, broken>>
    BY EnterBlockCases, Zenon
  <1>2. Active(r) /\ ContextOf(r) = Front
    BY <1>0, <1>1, RewriteQuiet, Zenon
  <1>3. CASE PassBlock(r)
    BY <1>1, <1>2, <1>3, FinishedOn, Zenon DEF PassBlock
  <1>4. CASE NewBlock(r)
    <2> DEFINE n == Len(contexts) + 1
               l == req[r].loc
               d == NewContext(r, l)
               t == NewTrace(r, l, None)
    <2>1. r = Main
      BY <1>0, <1>2, <1>4, SubActive, Zenon DEF NewBlock
    <2>2. l \in Locs /\ l.tracing
      BY <2>1, <1>0, MainTraced, Zenon DEF Typed, Request
    <2>3. contexts'[n] = d /\ Entered(r, "access", n)
          /\ cleanups' = <<n>> \o cleanups
      BY <1>4, Zenon DEF NewBlock, Added
    <2>4. Front' = n
      <3>1. n \in Nat /\ cleanups \in Seq(Nat)
        BY DEF Typed
      <3> HIDE DEF n
      <3>2. cleanups' # <<>> /\ cleanups'[1] = n
        BY <2>3, <3>1
      <3> QED
        BY <3>2, Zenon DEF Front
    <2> HIDE DEF l
    <2>5. d.traces = <<t>> /\ t.req = r
      BY <2>2, NewContextFacts, NewTraceFacts, Zenon DEF NewTrace
    <2> HIDE DEF d, t, n
    <2>6. \A j \in DOMAIN d.traces : d.traces[j] = t
      BY <2>5
    <2>7. Finished(contexts[Front])'
      BY <2>1, <2>3, <2>4, <2>5, <2>6, ZenonT(30) DEF Finished, Entered
    <2> QED
      BY <2>3, <2>7, <1>2, EnteredSubs, Zenon DEF FInv
  <1>5. CASE FailedBlock(r)
    <2>1. Front' = None
      BY <1>2, <1>5, Zenon DEF FailedBlock, Front
    <2> QED
      BY <2>1, <1>2, <1>5, FinishedNone, Zenon DEF FailedBlock
  <1>6. CASE ChangeBlock(r)
    BY <1>1, <1>6, FinishedChange, Zenon
  <1>7. CASE LostBlock(r)
    <2>1. 1 \in DOMAIN cleanups /\ cleanups \in Seq(Nat) /\ None \in Nat
      <3>1. cleanups # <<>>
        BY <1>2, <1>7, FrontFacts, Zenon DEF LostBlock
      <3> QED
        BY <3>1 DEF Typed, None
    <2>2. cleanups' = [cleanups EXCEPT ![1] = None]
      BY <1>7, Zenon DEF LostBlock
    <2>3. cleanups'[1] = None
      BY <2>1, <2>2, Zenon
    <2>4. Front' = None
      BY <2>3, Zenon DEF Front
    <2> QED
      BY <2>4, <1>2, <1>7, FinishedNone, Zenon DEF LostBlock
  <1> QED
    BY <1>3, <1>4, <1>5, <1>6, <1>7, EnterBlockCases, Zenon

(* on_log_request: the spans of the request are finished, and it is done *)
LEMMA FinishedLog ==
  ASSUME Typed, TInv, FInv, NEW r \in Reqs, Log(r)
  PROVE  FInv'
  <1>0. Place /\ Trees
    BY Zenon DEF TInv
  <1>1. /\ req[r].phase = "log" /\ Active(r) /\ Entered(r, "done", None)
        /\ \A i \in DOMAIN contexts : contexts'[i] = Cleaned(r, i)
        /\ UNCHANGED <<logSub, cleanups>>
    BY LogEffect, Zenon DEF Active
  <1>2. ContextOf(r) = Front /\ Front' = Front
    BY <1>0, <1>1, Found, Zenon DEF Front
  <1>3. ASSUME Front # None
        PROVE  Finished(contexts[Front])'
    <2> DEFINE c == contexts[Front]
               l == req[r].loc
               d == Logged(r, Front)
               e == ContextLog(c, r, l)
    <2>1. c \in Context /\ Tree(c) /\ l \in Locs /\ Finished(c)
          /\ Front \in DOMAIN contexts
      BY <1>0, <1>3, FrontFacts, Zenon DEF Trees, Typed, Request, FInv
    <2>2. d = IF r = Main \/ logSub THEN e ELSE c
      BY <1>2, Zenon DEF Logged
    <2>3. d \in Context /\ contexts'[Front] = Cleaned(r, Front)
      BY <2>1, <1>1, LoggedFacts, Zenon
    <2> HIDE DEF c, l, d
    <2>4. contexts'[Front].traces = d.traces
      <3>1. contexts'[Front] = d \/ contexts'[Front] = [d EXCEPT !.live = FALSE]
        BY <2>3, Zenon DEF Cleaned, d
      <3> QED
        BY <3>1, <2>3, DeadFacts, Zenon
    <2>5. \A j \in DOMAIN e.traces :
            /\ j \in DOMAIN c.traces /\ e.traces[j].req = c.traces[j].req
            /\ c.traces[j].req # r => e.traces[j] = c.traces[j]
            /\ c.traces[j].req = r /\ l.tracing
                 => e.traces[j].requestSpan = "ended" /\ e.traces[j].span # "open"
      BY <2>1, LogTree, Zenon
    <2> HIDE DEF e
    <2>6. \A j \in DOMAIN c.traces : c.traces[j].req \in Reqs
      <3>1. c.traces \in Seq(Trace)
        BY <2>1, Zenon DEF Context
      <3>2. \A j \in DOMAIN c.traces : c.traces[j] \in Trace
        BY <3>1
      <3> QED
        BY <3>2, Zenon DEF Trace
    <2>7. /\ req'[r].loc = l
          /\ \A q \in Reqs : q # r => req'[q] = req[q]
      BY <1>1, Zenon DEF Entered, l
    <2>8. ASSUME NEW j \in DOMAIN d.traces, NEW t, t = d.traces[j]
          PROVE  /\ t.req # Main => logSub'
                 /\ req'[t.req].phase = "done" /\ req'[t.req].loc.tracing
                      => t.requestSpan = "ended" /\ t.span # "open"
      <3>1. CASE r = Main \/ logSub
        <4>1. /\ j \in DOMAIN c.traces /\ t.req = c.traces[j].req
              /\ c.traces[j].req # r => t = c.traces[j]
              /\ c.traces[j].req = r /\ l.tracing
                   => t.requestSpan = "ended" /\ t.span # "open"
          BY <2>2, <2>5, <2>8, <3>1, Zenon
        <4>2. CASE t.req = r
          BY <4>1, <4>2, <3>1, <2>7, <1>1, Zenon
        <4>3. CASE t.req # r
          <5>1. t.req \in Reqs /\ t = c.traces[j]
            BY <4>1, <4>3, <2>6, Zenon
          <5> QED
            BY <4>1, <4>3, <5>1, <2>1, <2>7, <1>1, Zenon DEF Finished
        <4> QED
          BY <4>2, <4>3, Zenon
      <3>2. CASE ~(r = Main \/ logSub)
        <4>1. j \in DOMAIN c.traces /\ t = c.traces[j]
          BY <2>2, <2>8, <3>2, Zenon
        <4>2. t.req # r /\ t.req \in Reqs
          BY <4>1, <3>2, <2>1, <2>6, Zenon DEF Finished
        <4> QED
          BY <4>1, <4>2, <2>1, <2>7, <1>1, Zenon DEF Finished
      <3> QED
        BY <3>1, <3>2, Zenon
    <2>9. contexts'[Front'].traces = d.traces
      BY <2>4, <1>2, Zenon
    <2> QED
      BY <2>8, <2>9, Zenon DEF Finished
  <1> QED
    BY <1>1, <1>2, <1>3, EnteredSubs, Zenon DEF FInv

(* A new request has no trace to finish                                     *)
LEMMA FInvInit ==
  Init => FInv
  <1> SUFFICES ASSUME Init
               PROVE  FInv
    OBVIOUS
  <1>1. PICK l \in MainLocs, used \in SUBSET Subs :
          req = [r \in Reqs |->
                   [phase |-> IF r = Main THEN "rewrite"
                              ELSE IF r \in used THEN "none" ELSE "done",
                    loc |-> l, internal |-> FALSE, ctx |-> None, moves |-> 0]]
    BY Zenon DEF Init
  <1>2. \A s \in Subs : ~Active(s)
    BY <1>1, ReqFacts, Zenon DEF Active
  <1>3. Front = None
    BY Zenon DEF Init, Front
  <1> QED
    BY <1>2, <1>3, Zenon DEF FInv

(* Every step leaves the traces of the requests that are over finished      *)
LEMMA FInvNext ==
  ASSUME Served, SubsLogged, Typed, TInv, FInv, [Next]_vars
  PROVE  FInv'
  <1>1. ASSUME NEW r \in Reqs, EnterBlock(r)
        PROVE  FInv'
    BY <1>1, FinishedEnter, Zenon
  <1>2. ASSUME NEW r \in Reqs,
               Access(r) \/ Allow(r) \/ Precontent(r) \/ HeaderFilter(r)
                 \/ OutputBodyFilter(r)
        PROVE  FInv'
    BY <1>2, FinishedHandlers, Zenon
  <1>3. ASSUME NEW r \in Reqs, Log(r)
        PROVE  FInv'
    BY <1>3, FinishedLog, Zenon
  <1>4. ASSUME \/ RequestBodyFilter \/ TaskDone \/ UNCHANGED vars
               \/ \E r \in Reqs, l \in Locs : Move(r, l)
               \/ \E s \in Subs, l \in Locs : StartSub(s, l)
        PROVE  FInv'
    BY <1>4, FinishedMoves, Zenon
  <1> QED
    BY <1>1, <1>2, <1>3, <1>4, Zenon DEF Next, Terminated

(* The spans of a request are one tree: the main request's trace comes     *)
(* first in DatadogContext::traces_ and every subrequest's hangs below it; *)
(* and RequestTracing::on_log_request has finished the spans of every      *)
(* request that is done ("otherwise the spans won't be finished",          *)
(* datadog_handler.cpp:29).                                                *)
THEOREM SpansAreOneTree ==
  Served /\ SubsLogged => (Spec => []OneTree)
  <1> SUFFICES ASSUME Served, SubsLogged
               PROVE  Spec => []OneTree
    OBVIOUS
  <1>1. Typed /\ TInv /\ FInv /\ [Next]_vars => FInv'
    BY FInvNext
  <1>2. Typed /\ TInv /\ FInv => OneTree
    <2> SUFFICES ASSUME Typed, TInv, FInv
                 PROVE  OneTree
      OBVIOUS
    <2>0. Place /\ Trees
      BY Zenon DEF TInv
    <2>1. OneRoot
      BY <2>0, Zenon DEF OneRoot, Trees, Tree
    <2>2. SpansFinished
      <3> SUFFICES ASSUME NEW i \in DOMAIN contexts, i \in Range(cleanups),
                          NEW j \in DOMAIN contexts[i].traces,
                          NEW t, t = contexts[i].traces[j],
                          req[t.req].phase = "done", req[t.req].loc.tracing
                   PROVE  t.requestSpan = "ended" /\ t.span # "open"
        BY Zenon DEF SpansFinished
      <3>1. i # None
        BY DEF Typed, None
      <3>2. i = Front
        BY <3>1, <2>0, RangeFront, Zenon
      <3> QED
        BY <3>1, <3>2, Zenon DEF FInv, Finished
    <2> QED
      BY <2>1, <2>2, Zenon DEF OneTree
  <1> QED
    BY <1>1, <1>2, FInvInit, TInvSpec, PTL DEF Spec

=============================================================================
