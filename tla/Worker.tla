------------------------------- MODULE Worker -------------------------------
(***************************************************************************)
(* The life of a worker process: its start (datadog_init_worker and        *)
(* initialize_security_library), requests that take the WAF's handle, the  *)
(* recurring events of the tracer (src/ngx_event_scheduler.cpp), remote    *)
(* configuration, and its exit.                                            *)
(*                                                                         *)
(* Two threads: nginx's, which runs timers and requests, and that of the   *)
(* tracer's HTTP client, which calls the listeners of remote configuration *)
(* with what the agent answered to a poll.  WafConfig, which this module   *)
(* extends, has the listeners of the WAF's configurations; its variables   *)
(* have their meaning once the library is live.                            *)
(***************************************************************************)
EXTENDS WafConfig, FiniteSets

CONSTANTS
  Requests,    \* requests that may be open at a time
  Events       \* recurring events of the tracer; "poll" polls the agent

ASSUME WorkerAssumption == "poll" \in Events

VARIABLES
  conf,        \* directives and environment of the security library
  phase,       \* of the worker: init, serving, quitting, joined, exited, failed
  live,        \* upd_waf_instance->live()
  active,      \* Library::active_
  listening,   \* listeners that were registered: "rules", "activation"
  client,      \* the HTTP client's thread: none, idle, polling or joined
  allocated,   \* events_: events that exist
  armed,       \* events whose timer is armed
  open,        \* requests being served
  examined     \* those of them that got a handle

worker == <<conf, phase, live, active, listening, client, allocated, armed,
            open, examined>>

allVars == <<vars, worker>>

Switch == {"unset", "on", "off"}

(* DD_APPSEC_ENABLED is not read if the directive is given *)
Configuration ==
  {c \in [enabled : Switch, ruleset : BOOLEAN, envEnabled : Switch] :
     c.enabled = "unset" \/ c.envEnabled = "unset"}

-----------------------------------------------------------------------------
(* Start *)

(* FinalizedConfigSettings: a directive wins over the environment *)
EnableStatus(c) == IF c.enabled # "unset" THEN c.enabled ELSE c.envEnabled

(* Mutant: remote configuration may always switch the WAF on and off *)
Listeners_Activation(c) ==
  IF EnableStatus(c) = "off" THEN {}
  ELSE {l \in {"rules", "activation"} : l = "rules" => ~c.ruleset}

(* make_tracer and subscribe_to_remote_config: only directives count       *)
Listeners(c) ==
  IF EnableStatus(c) = "off" THEN {}
  ELSE {l \in {"rules", "activation"} :
          IF l = "rules" THEN ~c.ruleset ELSE c.enabled = "unset"}

WorkerInit ==
  /\ Init
  /\ conf \in Configuration
  /\ phase = "init" /\ live = FALSE
  /\ active = TRUE                     \* the static initializer of active_
  /\ listening = {} /\ client = "none"
  /\ allocated = {} /\ armed = {} /\ open = {} /\ examined = {}

(* datadog_init_worker.  The ruleset or the tracer's configuration may be  *)
(* unusable; then nginx ends the worker.                                   *)
InitWorker ==
  /\ phase = "init"
  /\ \/ /\ live' = (EnableStatus(conf) # "off")
        /\ active' = IF EnableStatus(conf) = "off" THEN active
                     ELSE EnableStatus(conf) = "on"
        /\ listening' = Listeners(conf)
        /\ client' = "idle" /\ phase' = "serving"
        /\ allocated' = Events /\ armed' = Events
     \/ /\ phase' = "failed"
        /\ UNCHANGED <<live, active, listening, client, allocated, armed>>
  /\ UNCHANGED <<vars, conf, open, examined>>

-----------------------------------------------------------------------------
(* Requests *)

(* Library::get_handle gives the handle, or nothing *)
HasHandle == active /\ live

(* Context::maybe_create *)
StartRequest(r) ==
  /\ phase = "serving" /\ r \notin open
  /\ open' = open \cup {r}
  /\ examined' = IF HasHandle THEN examined \cup {r} ELSE examined
  /\ UNCHANGED <<vars, conf, phase, live, active, listening, client,
                 allocated, armed>>

EndRequest(r) ==
  /\ phase \in {"serving", "quitting"} /\ r \in open
  /\ open' = open \ {r} /\ examined' = examined \ {r}
  /\ UNCHANGED <<vars, conf, phase, live, active, listening, client,
                 allocated, armed>>

-----------------------------------------------------------------------------
(* Events *)

(* handle_event arms the timer again and calls the tracer *)
FireEvent(e) ==
  /\ phase \in {"serving", "quitting"} /\ e \in armed
  /\ client' = IF e = "poll" /\ client = "idle" THEN "polling" ELSE client
  /\ armed' = armed \cup {e}
  /\ UNCHANGED <<vars, conf, phase, live, active, listening, allocated,
                 open, examined>>

-----------------------------------------------------------------------------
(* Remote configuration, on the HTTP client's thread *)

Listening(l) == client = "polling" /\ l \in listening

RulesStep ==
  /\ Listening("rules")
  /\ \E p \in Remote : OnUpdate(p) \/ OnRevert(p)
  /\ UNCHANGED worker

(* AsmFeaturesListener: "/asm/enabled"; a revert is an update without it *)
FeaturesStep(enabled) ==
  /\ Listening("activation")
  /\ active' = enabled
  /\ batch' = TRUE
  /\ UNCHANGED <<builder, handle, dirty, failed, known, accepted, stale>>
  /\ UNCHANGED <<conf, phase, live, listening, client, allocated, armed, open,
                 examined>>

(* The end of an answer, which may have brought nothing *)
AnswerEnds ==
  /\ client = "polling"
  /\ OnPostProcess \/ (~batch /\ UNCHANGED vars)
  /\ client' = "idle"
  /\ UNCHANGED <<conf, phase, live, active, listening, allocated, armed, open,
                 examined>>

-----------------------------------------------------------------------------
(* Exit *)

(* nginx, external: SIGQUIT lets the requests end *)
Quit ==
  /\ phase = "serving"
  /\ phase' = "quitting"
  /\ UNCHANGED <<vars, conf, live, active, listening, client, allocated, armed,
                 open, examined>>

(* Mutant: the timers are like any other *)
Cancelable_Not == FALSE

(* Event::Event sets cancelable, so that the timer does not count *)
Cancelable == TRUE

(* nginx, external: what a worker waits for before it exits; SIGTERM does  *)
(* not wait                                                                *)
MayExit(gently) ==
  IF gently THEN phase = "quitting" /\ open = {} /\ (Cancelable \/ armed = {})
  ELSE phase \in {"serving", "quitting"}

(* Mutant: the thread is not waited for *)
Shutdown_Detached(gently) ==
  /\ MayExit(gently)
  /\ phase' = "joined"
  /\ UNCHANGED <<vars, conf, live, active, listening, client, allocated, armed,
                 open, examined>>

(* datadog_exit_worker: telemetry::shutdown() drains the HTTP client and   *)
(* joins its thread                                                        *)
Shutdown(gently) ==
  /\ MayExit(gently) /\ client = "idle"
  /\ client' = "joined" /\ phase' = "joined"
  /\ UNCHANGED <<vars, conf, live, active, listening, allocated, armed, open,
                 examined>>

(* ngx_event_del_timer, by the Cancel function or the destructor *)
Cancel(es) == armed \ es

(* ... and then reset_global_tracer() destroys the listeners and the       *)
(* scheduler; events that nobody cancelled are left to its destructor      *)
ResetTracer ==
  /\ phase = "joined"
  /\ armed' = Cancel(allocated) /\ allocated' = {}
  /\ listening' = {}
  /\ open' = {} /\ examined' = {}
  /\ phase' = "exited"
  /\ UNCHANGED <<vars, conf, live, active, client>>

Ended == phase \in {"exited", "failed"} /\ UNCHANGED allVars

WorkerNext ==
  \/ InitWorker
  \/ \E r \in Requests : StartRequest(r) \/ EndRequest(r)
  \/ \E e \in Events : FireEvent(e)
  \/ RulesStep \/ AnswerEnds
  \/ \E enabled \in BOOLEAN : FeaturesStep(enabled)
  \/ Quit
  \/ \E gently \in BOOLEAN : Shutdown(gently)
  \/ ResetTracer
  \/ Ended

(* Requests end, the agent's answers end, and nginx and the module's exit  *)
(* handler go on when they can.  Nobody has to send a signal.              *)
Fairness ==
  /\ WF_allVars(InitWorker) /\ WF_allVars(AnswerEnds) /\ WF_allVars(ResetTracer)
  /\ \A r \in Requests : WF_allVars(EndRequest(r))
  /\ SF_allVars(Shutdown(TRUE))

WorkerSpec == WorkerInit /\ [][WorkerNext]_allVars /\ Fairness

-----------------------------------------------------------------------------
(* Properties *)

(* Every variable has the type of what it stands for. *)
WorkerTypeOK ==
  /\ TypeOK
  /\ conf \in Configuration /\ live \in BOOLEAN /\ active \in BOOLEAN
  /\ phase \in {"init", "serving", "quitting", "joined", "exited", "failed"}
  /\ listening \subseteq {"rules", "activation"}
  /\ client \in {"none", "idle", "polling", "joined"}
  /\ allocated \subseteq Events /\ armed \subseteq Events
  /\ examined \subseteq open /\ open \subseteq Requests

(* What the directive datadog_appsec_enabled says is final: whatever       *)
(* remote configuration sends and whenever, every request is examined with *)
(* "on" and none with "off".                                               *)
DirectiveDecides ==
  /\ conf.enabled = "on" => examined = open
  /\ conf.enabled = "off" => examined = {}

(* "no custom ruleset => ruleset via rem cfg" (tracing_library.cpp:130):   *)
(* a ruleset that a directive names is the base of every WAF handle.       *)
CustomRulesetKept == conf.ruleset => ~HasRuleset(handle) /\ known = {}

(* The directives are final, whatever remote configuration sends and       *)
(* whenever: both who is examined and with which base ruleset.             *)
DirectivesDecide == DirectiveDecides /\ CustomRulesetKept

(* "the thread cannot call back into telemetry data that is about to be    *)
(* destroyed" (ngx_http_datadog_module.cpp:389): once the exit handler     *)
(* goes on to destroy the tracer, the HTTP client's thread is gone, and no *)
(* batch of configurations is half applied.                                *)
NoCallbackAtExit ==
  phase \in {"joined", "exited"} => client = "joined" /\ ~batch

(* A timer that can fire belongs to an event that exists, and none         *)
(* outlives the scheduler.                                                 *)
TimersLive == armed \subseteq allocated

(* A worker that exits leaves nothing behind that could call into the      *)
(* tracer it destroys: neither the HTTP client's thread nor a timer of an  *)
(* event that is gone.                                                     *)
ExitIsQuiet == NoCallbackAtExit /\ TimersLive

(* "otherwise a pending event will prevent shutdown"                       *)
(* (ngx_event_scheduler.cpp:30): a worker told to quit exits, although the *)
(* tracer's events keep arming their timers.                               *)
QuitEnds == phase = "quitting" ~> phase = "exited"

=============================================================================
