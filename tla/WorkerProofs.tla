---------------------------- MODULE WorkerProofs ----------------------------
(***************************************************************************)
(* For any sets of requests, events and configurations: what the           *)
(* directives say is final in a running worker, the configuration of the   *)
(* WAF keeps its promises under the worker's interleavings, and a worker   *)
(* exits with nobody left to call into the tracer it destroys.             *)
(***************************************************************************)
EXTENDS Worker, TLAPS

(* The builder never holds the bundled ruleset beside a remote one.  It    *)
(* may hold neither, after an update that failed.                          *)
NotBoth == builder[Bundled] = Absent \/ ~HasRuleset(builder)

IInv == TypeOK /\ NotBoth /\ OneBase

(* Unless the last build failed, what the handle lacks is due to be built, *)
(* which only happens inside a batch; what was accepted is in the builder. *)
CurrentInv ==
  /\ IInv
  /\ ~dirty /\ ~stale => handle = builder
  /\ dirty => batch
  /\ \A p \in Remote : accepted[p] # Absent => builder[p] = accepted[p]

(* The bundled ruleset is none of the remote paths. *)
LEMMA PathFacts ==
  /\ AsmDD \subseteq Remote /\ Remote \subseteq Paths /\ Bundled \in Paths
  /\ Bundled \notin Remote /\ 1 # Absent /\ 1 \in Versions
  /\ Absent \notin Versions
BY ConfigAssumption DEF Remote, Paths, Absent

(* update() yields exactly one base ruleset, and changes no remote path.   *)
LEMMA WithBaseFacts ==
  ASSUME NEW b \in [Paths -> Versions \cup {Absent}],
         b[Bundled] = Absent \/ ~HasRuleset(b)
  PROVE  /\ WithBase(b) \in [Paths -> Versions \cup {Absent}]
         /\ (WithBase(b)[Bundled] # Absent) <=> ~HasRuleset(WithBase(b))
         /\ \A p \in Remote : WithBase(b)[p] = b[p]
BY PathFacts DEF WithBase, Add, HasRuleset

(* Before an update the bundled ruleset makes room for a remote one.       *)
LEMMA MakeRoomFacts ==
  ASSUME NEW b \in [Paths -> Versions \cup {Absent}], NEW p \in Remote,
         b[Bundled] = Absent \/ ~HasRuleset(b)
  PROVE  /\ MakeRoom(b, p) \in [Paths -> Versions \cup {Absent}]
         /\ p \in AsmDD => MakeRoom(b, p)[Bundled] = Absent
         /\ p \notin AsmDD => MakeRoom(b, p) = b
         /\ \A q \in Remote : MakeRoom(b, p)[q] = b[q]
BY PathFacts DEF MakeRoom, Remove

(* The handle that init() builds. *)
LEMMA InitFacts == Init => CurrentInv
<1> SUFFICES ASSUME Init PROVE CurrentInv
  OBVIOUS
<1> DEFINE none == [p \in Paths |-> Absent]
<1>1. none \in [Paths -> Versions \cup {Absent}] /\ none[Bundled] = Absent
  BY PathFacts
<1>2. builder = WithBase(none) /\ handle = builder
  BY DEF Init
<1> HIDE DEF none
<1>3. /\ builder \in [Paths -> Versions \cup {Absent}]
      /\ (builder[Bundled] # Absent) <=> ~HasRuleset(builder)
  BY <1>1, <1>2, WithBaseFacts
<1>4. TypeOK
  BY Zenon, <1>2, <1>3 DEF Init, TypeOK
<1>5. NotBoth /\ OneBase
  BY <1>2, <1>3 DEF NotBoth, OneBase
<1> QED
  BY <1>2, <1>4, <1>5 DEF Init, CurrentInv, IInv

(* Updates change one path of the builder, after making room. *)
LEMMA UpdateStep ==
  ASSUME IInv, NEW p \in Remote, OnUpdate(p)
  PROVE  IInv'
<1> DEFINE room == MakeRoom(builder, p)
<1>1. /\ room \in [Paths -> Versions \cup {Absent}]
      /\ p \in AsmDD => room[Bundled] = Absent
      /\ p \notin AsmDD => room = builder
  BY MakeRoomFacts DEF IInv, TypeOK, NotBoth
<1>2. \/ builder' = builder
      \/ builder' = room
      \/ \E v \in Versions \cup {Absent} : builder' = [room EXCEPT ![p] = v]
  BY DEF OnUpdate, UpdateSucceeds, UpdateFails, UpdateRejected, Add, Remove
<1> HIDE DEF room
<1>3. builder' \in [Paths -> Versions \cup {Absent}]
  BY <1>1, <1>2, PathFacts DEF IInv, TypeOK
<1>4. NotBoth'
  <2>1. CASE p \in AsmDD /\ builder' # builder
    BY <1>1, <1>2, <2>1, PathFacts DEF NotBoth
  <2>2. CASE p \notin AsmDD /\ builder' # builder
    BY <1>1, <1>2, <2>2, PathFacts DEF NotBoth, HasRuleset, IInv, TypeOK
  <2>3. CASE builder' = builder
    BY <2>3 DEF NotBoth, HasRuleset, IInv
  <2> QED
    BY <2>1, <2>2, <2>3
<1>5. TypeOK'
  BY ZenonT(30), <1>3, PathFacts
     DEF IInv, TypeOK, OnUpdate, UpdateSucceeds, UpdateFails, UpdateRejected
<1>6. OneBase'
  BY DEF IInv, OneBase, HasRuleset, OnUpdate
<1> QED
  BY <1>4, <1>5, <1>6 DEF IInv

(* A removal takes one remote path out of the builder. *)
LEMMA RevertStep ==
  ASSUME IInv, NEW p \in Remote, OnRevert(p)
  PROVE  IInv'
<1>1. TypeOK'
  BY Zenon, PathFacts DEF IInv, TypeOK, OnRevert, Remove
<1>2. NotBoth'
  BY PathFacts DEF IInv, TypeOK, NotBoth, HasRuleset, OnRevert, Remove
<1>3. OneBase'
  BY DEF IInv, OneBase, HasRuleset, OnRevert
<1> QED
  BY <1>1, <1>2, <1>3 DEF IInv

(* The end of a batch leaves a handle with one base ruleset: the old one   *)
(* or a new one.                                                           *)
LEMMA PostProcessStep ==
  ASSUME IInv, OnPostProcess
  PROVE  IInv'
<1>1. /\ WithBase(builder) \in [Paths -> Versions \cup {Absent}]
      /\ (WithBase(builder)[Bundled] # Absent)
           <=> ~HasRuleset(WithBase(builder))
  BY WithBaseFacts DEF IInv, TypeOK, NotBoth
<1>2. handle' = handle \/ handle' = WithBase(builder)
  BY DEF OnPostProcess, Regenerate
<1>3. \/ builder' = builder
      \/ builder' = WithBase(builder)
      \/ builder' = Remove(builder, Bundled)
  BY DEF OnPostProcess, Regenerate
<1>4. OneBase'
  BY <1>1, <1>2 DEF IInv, OneBase, HasRuleset
<1>5. NotBoth'
  <2>1. CASE builder' = builder
    BY <2>1 DEF IInv, NotBoth, HasRuleset
  <2>2. CASE builder' = WithBase(builder)
    BY <1>1, <2>2 DEF NotBoth, HasRuleset
  <2>3. CASE builder' = Remove(builder, Bundled)
    BY <2>3, PathFacts DEF IInv, TypeOK, NotBoth, Remove
  <2> QED
    BY <1>3, <2>1, <2>2, <2>3
<1>6. builder' \in [Paths -> Versions \cup {Absent}]
  BY <1>1, <1>3 DEF IInv, TypeOK, Remove
<1>7. handle' \in [Paths -> Versions \cup {Absent}]
  BY <1>1, <1>2 DEF IInv, TypeOK
<1>8. TypeOK'
  BY Zenon, <1>6, <1>7 DEF IInv, TypeOK, OnPostProcess, Regenerate
<1> QED
  BY <1>4, <1>5, <1>8 DEF IInv

(* Every step preserves the first invariant. *)
LEMMA IInvNext == IInv /\ [Next]_vars => IInv'
<1> SUFFICES ASSUME IInv, [Next]_vars PROVE IInv'
  OBVIOUS
<1>1. CASE UNCHANGED vars
  BY <1>1 DEF vars, IInv, TypeOK, NotBoth, OneBase, HasRuleset
<1> QED
  BY <1>1, UpdateStep, RevertStep, PostProcessStep DEF Next

(* Every step preserves the second one. *)
LEMMA CurrentNext == CurrentInv /\ [Next]_vars => CurrentInv'
<1> SUFFICES ASSUME CurrentInv, [Next]_vars PROVE CurrentInv'
  OBVIOUS
<1>1. IInv /\ IInv'
  BY IInvNext DEF CurrentInv
<1>2. ASSUME NEW p \in Remote, OnUpdate(p) PROVE CurrentInv'
  <2> DEFINE room == MakeRoom(builder, p)
  <2>1. /\ room \in [Paths -> Versions \cup {Absent}]
        /\ \A q \in Remote : room[q] = builder[q]
    BY <1>1, MakeRoomFacts DEF IInv, TypeOK, NotBoth
  <2>2. \/ \E v \in Versions : /\ builder' = [room EXCEPT ![p] = v]
                               /\ accepted' = [accepted EXCEPT ![p] = v]
        \/ /\ builder' \in {room, [room EXCEPT ![p] = Absent], builder}
           /\ accepted' = [accepted EXCEPT ![p] = Absent]
    BY <1>2 DEF OnUpdate, UpdateSucceeds, UpdateFails, UpdateRejected, Add,
                Remove
  <2> HIDE DEF room
  <2>3. \A q \in Remote : accepted'[q] # Absent => builder'[q] = accepted'[q]
    BY <1>1, <2>1, <2>2, PathFacts DEF CurrentInv, IInv, TypeOK
  <2>4. (~dirty' /\ ~stale' => handle' = builder') /\ (dirty' => batch')
    BY <1>2 DEF CurrentInv, OnUpdate, UpdateSucceeds, UpdateFails,
                UpdateRejected
  <2> QED
    BY <1>1, <2>3, <2>4 DEF CurrentInv
<1>3. ASSUME NEW p \in Remote, OnRevert(p) PROVE CurrentInv'
  <2>1. \A q \in Remote : accepted'[q] # Absent => builder'[q] = accepted'[q]
    BY <1>1, <1>3, PathFacts DEF CurrentInv, IInv, TypeOK, OnRevert, Remove
  <2>2. (~dirty' /\ ~stale' => handle' = builder') /\ (dirty' => batch')
    BY <1>3 DEF CurrentInv, OnRevert
  <2> QED
    BY <1>1, <2>1, <2>2 DEF CurrentInv
<1>4. CASE OnPostProcess
  <2>1. \A q \in Remote : WithBase(builder)[q] = builder[q]
    BY <1>1, WithBaseFacts DEF IInv, TypeOK, NotBoth
  <2>2. \/ builder' = builder /\ handle' = handle /\ ~dirty /\ stale' = stale
        \/ builder' = WithBase(builder) /\ handle' = builder'
        \/ /\ builder' \in {builder, Remove(builder, Bundled),
                           WithBase(builder)}
           /\ stale' = TRUE
    BY <1>4 DEF OnPostProcess, Regenerate
  <2>3. dirty' = FALSE /\ accepted' = accepted
    BY <1>4 DEF OnPostProcess
  <2>4. \A q \in Remote : builder'[q] = builder[q]
    BY <1>1, <2>1, <2>2, PathFacts DEF IInv, TypeOK, Remove
  <2> QED
    BY <1>1, <2>2, <2>3, <2>4 DEF CurrentInv
<1>5. CASE UNCHANGED vars
  BY <1>1, <1>5 DEF vars, CurrentInv
<1> QED
  BY <1>2, <1>3, <1>4, <1>5 DEF Next

(* The members of the library keep their types. *)
THEOREM ConfigTyped == Spec => []TypeOK
<1>1. Init => IInv
  BY InitFacts DEF CurrentInv
<1>2. IInv => TypeOK
  BY DEF IInv
<1> QED
  BY <1>1, <1>2, IInvNext, PTL DEF Spec

(* Requests never run a WAF with two base rulesets or with none, whichever *)
(* updates and builds fail.                                                *)
THEOREM ConfigOneBase == Spec => []OneBase
<1>1. Init => IInv
  BY InitFacts DEF CurrentInv
<1>2. IInv => OneBase
  BY DEF IInv
<1> QED
  BY <1>1, <1>2, IInvNext, PTL DEF Spec

(* After each batch whose handle could be built, requests run exactly what *)
(* the builder holds: whatever failed in between, and also if an earlier   *)
(* build failed.                                                           *)
THEOREM ConfigCurrent == Spec => []HandleCurrent
<1>1. CurrentInv => HandleCurrent
  BY DEF CurrentInv, HandleCurrent, IInv, TypeOK
<1> QED
  BY <1>1, InitFacts, CurrentNext, PTL DEF Spec

(* ... and in particular every configuration that on_update accepted.      *)
THEOREM ConfigApplied == Spec => []AcceptedIsBuilt
<1>1. CurrentInv => AcceptedIsBuilt
  BY DEF CurrentInv, AcceptedIsBuilt, IInv, TypeOK
<1> QED
  BY <1>1, InitFacts, CurrentNext, PTL DEF Spec

-----------------------------------------------------------------------------

(* The HTTP client's thread exists while the worker serves requests, and   *)
(* only while it handles an answer is a batch open.                        *)
ThreadFacts ==
  /\ phase \in {"init", "failed"} => client = "none"
  /\ phase \in {"serving", "quitting"} => client \in {"idle", "polling"}
  /\ phase \in {"joined", "exited"} => client = "joined"
  /\ batch => client = "polling"

(* Who may change what a directive decided has no listener, and until the  *)
(* worker serves requests nobody is examined.                              *)
SwitchFacts ==
  /\ conf.enabled # "unset" => "activation" \notin listening
  /\ conf.enabled = "on" => active
  /\ conf.enabled = "on" /\ phase = "serving" => live
  /\ conf.enabled = "off" => ~live

(* With a ruleset of the directives no configuration reaches the builder,  *)
(* and so no handle is built again.                                        *)
RulesetFacts ==
  conf.ruleset => /\ "rules" \notin listening
                  /\ ~dirty

WorkerInv ==
  /\ CurrentInv
  /\ WorkerTypeOK
  /\ ThreadFacts
  /\ SwitchFacts
  /\ RulesetFacts
  /\ DirectivesDecide
  /\ TimersLive

-----------------------------------------------------------------------------
(* The configuration *)

(* A step that leaves the variables of the configuration alone leaves its  *)
(* invariant alone.                                                        *)
LEMMA ConfigFramed == CurrentInv /\ UNCHANGED vars => CurrentInv'
BY CurrentNext

(* So does one that only opens a batch. *)
LEMMA BatchOpened ==
  ASSUME CurrentInv, batch' = TRUE,
         UNCHANGED <<builder, handle, dirty, failed, known, accepted, stale>>
  PROVE  CurrentInv'
<1>1. TypeOK'
  BY Zenon DEF CurrentInv, IInv, TypeOK
<1>2. NotBoth' /\ OneBase'
  BY DEF CurrentInv, IInv, NotBoth, OneBase, HasRuleset
<1> QED
  BY <1>1, <1>2 DEF CurrentInv, IInv

-----------------------------------------------------------------------------
(* One lemma for each part of the worker that changes *)

(* The state that a worker starts with. *)
LEMMA WorkerStart == WorkerInit => WorkerInv
<1> SUFFICES ASSUME WorkerInit PROVE WorkerInv
  OBVIOUS
<1>1. CurrentInv
  BY InitFacts DEF WorkerInit
<1>2. WorkerTypeOK
  BY ZenonT(30), <1>1 DEF WorkerInit, WorkerTypeOK, CurrentInv, IInv
<1>3. ThreadFacts /\ SwitchFacts /\ RulesetFacts /\ TimersLive
  BY DEF WorkerInit, Init, ThreadFacts, SwitchFacts, RulesetFacts, TimersLive
<1>4. ~HasRuleset(handle)
  BY PathFacts DEF WorkerInit, Init, WithBase, Add, HasRuleset
<1>5. DirectivesDecide
  BY <1>4 DEF WorkerInit, Init, DirectivesDecide, DirectiveDecides,
              CustomRulesetKept
<1> QED
  BY <1>1, <1>2, <1>3, <1>5 DEF WorkerInv

(* A directive that is given decides the listeners and the switch. *)
LEMMA ListenerFacts ==
  ASSUME NEW c \in Configuration
  PROVE  /\ Listeners(c) \subseteq {"rules", "activation"}
         /\ c.enabled # "unset" => "activation" \notin Listeners(c)
         /\ c.ruleset => "rules" \notin Listeners(c)
         /\ c.enabled # "unset" => EnableStatus(c) = c.enabled
BY DEF Configuration, Listeners, EnableStatus

(* datadog_init_worker *)
LEMMA InitWorkerStep == WorkerInv /\ InitWorker => WorkerInv'
<1> SUFFICES ASSUME WorkerInv, InitWorker PROVE WorkerInv'
  OBVIOUS
<1>1. CurrentInv'
  BY ConfigFramed DEF WorkerInv, InitWorker
<1>2. conf \in Configuration /\ conf' = conf /\ UNCHANGED vars
  BY DEF WorkerInv, WorkerTypeOK, InitWorker
<1>3. WorkerTypeOK'
  <2>1. TypeOK'
    BY <1>1 DEF CurrentInv, IInv
  <2>2. live' \in BOOLEAN /\ active' \in BOOLEAN
    BY Zenon DEF WorkerInv, WorkerTypeOK, InitWorker
  <2>3. listening' \subseteq {"rules", "activation"}
    BY <1>2, ListenerFacts DEF WorkerInv, WorkerTypeOK, InitWorker
  <2> QED
    BY Zenon, <1>2, <2>1, <2>2, <2>3 DEF WorkerInv, WorkerTypeOK, InitWorker
<1>4. ThreadFacts'
  BY <1>2 DEF WorkerInv, ThreadFacts, InitWorker, vars
<1>5. SwitchFacts' /\ RulesetFacts'
  BY <1>2, ListenerFacts
     DEF WorkerInv, WorkerTypeOK, SwitchFacts, RulesetFacts, InitWorker, vars
<1>6. DirectivesDecide' /\ TimersLive'
  BY <1>2 DEF WorkerInv, DirectivesDecide, DirectiveDecides,
     CustomRulesetKept, HasRuleset, TimersLive, InitWorker, vars
<1> QED
  BY <1>1, <1>3, <1>4, <1>5, <1>6 DEF WorkerInv

(* Context::maybe_create and the end of a request *)
LEMMA RequestStep ==
  ASSUME WorkerInv, NEW r \in Requests, StartRequest(r) \/ EndRequest(r)
  PROVE  WorkerInv'
<1>1. /\ UNCHANGED <<conf, phase, live, active, listening, client, allocated,
                     armed>>
      /\ UNCHANGED vars
  BY DEF StartRequest, EndRequest
<1>2. CurrentInv'
  BY <1>1, ConfigFramed DEF WorkerInv
<1>3. WorkerTypeOK'
  <2>1. TypeOK'
    BY <1>2 DEF CurrentInv, IInv
  <2>2. examined' \subseteq open' /\ open' \subseteq Requests
    BY DEF WorkerInv, WorkerTypeOK, StartRequest, EndRequest
  <2> QED
    BY Zenon, <1>1, <2>1, <2>2 DEF WorkerInv, WorkerTypeOK
<1>4. DirectiveDecides'
  BY <1>1 DEF WorkerInv, DirectivesDecide, DirectiveDecides, SwitchFacts,
     StartRequest, EndRequest, HasHandle
<1>5. CustomRulesetKept'
  BY <1>1 DEF WorkerInv, DirectivesDecide, CustomRulesetKept, HasRuleset, vars
<1> QED
  BY <1>1, <1>2, <1>3, <1>4, <1>5 DEF WorkerInv, ThreadFacts, SwitchFacts,
     RulesetFacts, DirectivesDecide, TimersLive, vars

(* handle_event; it may start a poll, and arms no timer but its own. *)
LEMMA FireEventStep ==
  ASSUME WorkerInv, NEW e \in Events, FireEvent(e)
  PROVE  WorkerInv'
<1>1. /\ UNCHANGED <<conf, phase, live, active, listening, allocated, open,
                     examined>>
      /\ UNCHANGED vars
      /\ armed' = armed
  BY DEF FireEvent
<1>2. CurrentInv'
  BY <1>1, ConfigFramed DEF WorkerInv
<1>3. WorkerTypeOK' /\ ThreadFacts'
  <2>1. TypeOK'
    BY <1>2 DEF CurrentInv, IInv
  <2>2. client' \in {"none", "idle", "polling", "joined"} /\ ThreadFacts'
    BY <1>1 DEF WorkerInv, WorkerTypeOK, ThreadFacts, FireEvent, vars
  <2> QED
    BY Zenon, <1>1, <2>1, <2>2 DEF WorkerInv, WorkerTypeOK
<1> QED
  BY <1>1, <1>2, <1>3 DEF WorkerInv, SwitchFacts, RulesetFacts,
     DirectivesDecide, DirectiveDecides, CustomRulesetKept, HasRuleset,
     TimersLive, vars

(* The listeners of rules and data are not there with a ruleset of the     *)
(* directives.                                                             *)
LEMMA RulesStepStep == WorkerInv /\ RulesStep => WorkerInv'
<1> SUFFICES ASSUME WorkerInv, RulesStep PROVE WorkerInv'
  OBVIOUS
<1>1. UNCHANGED worker /\ client = "polling" /\ ~conf.ruleset
  BY DEF RulesStep, Listening, WorkerInv, RulesetFacts
<1>2. CurrentInv'
  BY CurrentNext DEF WorkerInv, RulesStep, Next
<1>3. TypeOK'
  BY <1>2 DEF CurrentInv, IInv
<1>4. WorkerTypeOK'
  BY Zenon, <1>1, <1>3 DEF WorkerInv, WorkerTypeOK, worker
<1> QED
  BY <1>1, <1>2, <1>4 DEF WorkerInv, ThreadFacts, SwitchFacts, RulesetFacts,
     DirectivesDecide, DirectiveDecides, CustomRulesetKept, TimersLive, worker

(* The listener of ASM_FEATURES is not there when a directive decides. *)
LEMMA FeaturesStepStep ==
  ASSUME WorkerInv, NEW enabled \in BOOLEAN, FeaturesStep(enabled)
  PROVE  WorkerInv'
<1>1. /\ UNCHANGED <<conf, phase, live, listening, client, allocated, armed,
                     open, examined>>
      /\ UNCHANGED <<handle, dirty, known>>
      /\ client = "polling" /\ "activation" \in listening
  BY DEF FeaturesStep, Listening
<1>2. CurrentInv'
  BY BatchOpened DEF WorkerInv, FeaturesStep
<1>3. TypeOK'
  BY <1>2 DEF CurrentInv, IInv
<1>4. WorkerTypeOK'
  BY Zenon, <1>1, <1>3 DEF WorkerInv, WorkerTypeOK, FeaturesStep
<1>5. SwitchFacts'
  BY <1>1 DEF WorkerInv, SwitchFacts
<1> QED
  BY <1>1, <1>2, <1>4, <1>5 DEF WorkerInv, ThreadFacts, RulesetFacts,
     DirectivesDecide, DirectiveDecides, CustomRulesetKept, HasRuleset,
     TimersLive

(* The end of an answer closes the batch, and builds a handle only if      *)
(* rules came.                                                             *)
LEMMA AnswerEndsStep == WorkerInv /\ AnswerEnds => WorkerInv'
<1> SUFFICES ASSUME WorkerInv, AnswerEnds PROVE WorkerInv'
  OBVIOUS
<1>1. /\ UNCHANGED <<conf, phase, live, active, listening, allocated, armed,
                     open, examined>>
      /\ client = "polling" /\ client' = "idle" /\ ~batch' /\ known' = known
  BY DEF AnswerEnds, OnPostProcess, vars
<1>2. ~dirty => handle' = handle /\ ~dirty'
  BY DEF AnswerEnds, OnPostProcess, vars
<1>3. CurrentInv'
  BY CurrentNext DEF WorkerInv, AnswerEnds, Next
<1>4. TypeOK'
  BY <1>3 DEF CurrentInv, IInv
<1>5. WorkerTypeOK'
  BY Zenon, <1>1, <1>4 DEF WorkerInv, WorkerTypeOK
<1>6. ThreadFacts'
  BY <1>1 DEF WorkerInv, ThreadFacts
<1> QED
  BY <1>1, <1>2, <1>3, <1>5, <1>6 DEF WorkerInv, SwitchFacts, RulesetFacts,
     DirectivesDecide, DirectiveDecides, CustomRulesetKept, HasRuleset,
     TimersLive

(* SIGQUIT, and datadog_exit_worker up to the thread's end: no batch is    *)
(* open when the thread is joined.                                         *)
LEMMA ExitStep ==
  ASSUME WorkerInv, Quit \/ \E gently \in BOOLEAN : Shutdown(gently)
  PROVE  WorkerInv'
<1>1. /\ UNCHANGED <<conf, live, active, listening, allocated, armed, open,
                     examined>>
      /\ UNCHANGED vars
  BY DEF Quit, Shutdown
<1>2. \/ phase = "serving" /\ phase' = "quitting" /\ client' = client
      \/ client = "idle" /\ client' = "joined" /\ phase' = "joined"
  BY DEF Quit, Shutdown
<1>3. CurrentInv'
  BY <1>1, ConfigFramed DEF WorkerInv
<1>4. TypeOK'
  BY <1>3 DEF CurrentInv, IInv
<1>5. WorkerTypeOK'
  BY Zenon, <1>1, <1>2, <1>4 DEF WorkerInv, WorkerTypeOK
<1>6. ThreadFacts' /\ SwitchFacts'
  BY <1>1, <1>2 DEF WorkerInv, ThreadFacts, SwitchFacts, vars
<1> QED
  BY <1>1, <1>3, <1>5, <1>6 DEF WorkerInv, RulesetFacts, DirectivesDecide,
     DirectiveDecides, CustomRulesetKept, HasRuleset, TimersLive, vars

(* reset_global_tracer() *)
LEMMA ResetTracerStep == WorkerInv /\ ResetTracer => WorkerInv'
<1> SUFFICES ASSUME WorkerInv, ResetTracer PROVE WorkerInv'
  OBVIOUS
<1>1. /\ UNCHANGED <<conf, live, active, client>>
      /\ UNCHANGED vars
      /\ phase = "joined" /\ phase' = "exited"
      /\ listening' = {} /\ open' = {} /\ examined' = {} /\ allocated' = {}
  BY DEF ResetTracer
<1>2. armed' = {}
  BY DEF ResetTracer, Cancel, WorkerInv, TimersLive
<1>3. CurrentInv'
  BY <1>1, ConfigFramed DEF WorkerInv
<1>4. TypeOK'
  BY <1>3 DEF CurrentInv, IInv
<1>5. WorkerTypeOK'
  BY Zenon, <1>1, <1>2, <1>4 DEF WorkerInv, WorkerTypeOK
<1>6. ThreadFacts' /\ SwitchFacts'
  BY <1>1 DEF WorkerInv, ThreadFacts, SwitchFacts, vars
<1> QED
  BY <1>1, <1>2, <1>3, <1>5, <1>6 DEF WorkerInv, RulesetFacts,
     DirectivesDecide, DirectiveDecides, CustomRulesetKept, HasRuleset,
     TimersLive, vars

(* Every step preserves the invariant. *)
LEMMA WorkerInvNext == WorkerInv /\ [WorkerNext]_allVars => WorkerInv'
<1> SUFFICES ASSUME WorkerInv, [WorkerNext]_allVars PROVE WorkerInv'
  OBVIOUS
<1>1. CASE UNCHANGED allVars
  <2>1. CurrentInv'
    BY <1>1, ConfigFramed DEF WorkerInv, allVars
  <2>2. TypeOK'
    BY <2>1 DEF CurrentInv, IInv
  <2>3. WorkerTypeOK'
    BY Zenon, <1>1, <2>2 DEF WorkerInv, WorkerTypeOK, allVars, worker
  <2> QED
    BY <1>1, <2>1, <2>3 DEF WorkerInv, ThreadFacts, SwitchFacts, RulesetFacts,
       DirectivesDecide, DirectiveDecides, CustomRulesetKept, HasRuleset,
       TimersLive, allVars, vars, worker
<1> QED
  BY <1>1, InitWorkerStep, RequestStep, FireEventStep, RulesStepStep,
     FeaturesStepStep, AnswerEndsStep, ExitStep, ResetTracerStep
     DEF WorkerNext, Ended

-----------------------------------------------------------------------------
(* Results *)

(* The invariant holds throughout the life of a worker. *)
LEMMA WorkerInvariant == WorkerSpec => []WorkerInv
BY WorkerStart, WorkerInvNext, PTL DEF WorkerSpec

(* Every variable keeps its type; in particular only open requests are     *)
(* examined.                                                               *)
THEOREM WorkerTyped == WorkerSpec => []WorkerTypeOK
<1>1. WorkerInv => WorkerTypeOK
  BY DEF WorkerInv
<1> QED
  BY <1>1, WorkerInvariant, PTL

(* Whatever remote configuration sends and whenever, a request is examined *)
(* if datadog_appsec_enabled is on, is not if it is off, and runs the      *)
(* ruleset that a directive names.                                         *)
THEOREM DirectivesFinal == WorkerSpec => []DirectivesDecide
<1>1. WorkerInv => DirectivesDecide
  BY DEF WorkerInv
<1> QED
  BY <1>1, WorkerInvariant, PTL

(* When datadog_exit_worker destroys the tracer, the HTTP client's thread  *)
(* has ended outside any batch, and no timer outlives its event.           *)
THEOREM WorkerExitsQuietly == WorkerSpec => []ExitIsQuiet
<1>1. WorkerInv => ExitIsQuiet
  BY DEF WorkerInv, ThreadFacts, ExitIsQuiet, NoCallbackAtExit
<1> QED
  BY <1>1, WorkerInvariant, PTL

(* The promises about the WAF's configuration hold in the worker: requests *)
(* run one base ruleset, and between batches what on_update accepted.      *)
THEOREM WorkerConfigCurrent ==
  WorkerSpec => [](OneBase /\ HandleCurrent /\ AcceptedIsBuilt)
<1>1. WorkerInv => OneBase /\ HandleCurrent /\ AcceptedIsBuilt
  BY DEF WorkerInv, CurrentInv, IInv, TypeOK, HandleCurrent, AcceptedIsBuilt
<1> QED
  BY <1>1, WorkerInvariant, PTL

=============================================================================
