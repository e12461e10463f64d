----------------------------- MODULE WafConfig -----------------------------
(***************************************************************************)
(* The WAF's configuration in one worker: the builder that collects the    *)
(* configurations received by remote config, and the handle that requests  *)
(* run (UpdateableWafInstance in src/security/library.cpp, and the         *)
(* listeners of src/security/waf_remote_cfg.cpp that drive it).            *)
(*                                                                         *)
(* The remote configuration client of dd-trace-cpp, external, calls the    *)
(* listeners one configuration at a time (on_update, on_revert) and ends a *)
(* batch with on_post_process; it remembers which ones were accepted.      *)
(***************************************************************************)
EXTENDS Naturals

CONSTANTS
  AsmDD,      \* paths of rulesets, which contain "/ASM_DD/"
  Other,      \* paths of the products ASM and ASM_DATA
  Bundled,    \* kBundledRuleset
  Versions,   \* contents of a configuration
  Faults      \* parse: content is refused; add, build: libddwaf refuses

Remote == AsmDD \cup Other

Paths == Remote \cup {Bundled}

ASSUME ConfigAssumption ==
  /\ AsmDD \cap Other = {} /\ Bundled \notin Remote
  /\ Versions \subseteq Nat \ {0} /\ 1 \in Versions
  /\ Faults \subseteq {"parse", "add", "build"}

Absent == 0

VARIABLES
  builder,    \* builder_: the content at each path
  handle,     \* cur_handle_: the builder's contents when it was built
  dirty,      \* CurrentAppSecConfig::dirty_
  failed,     \* CurrentAppSecConfig::failed_
  batch,      \* the client has called a listener since on_post_process
  known,      \* paths the client has handed over and not reverted
  accepted,   \* content that on_update accepted last, at each path
  stale       \* history: the last attempt to build a handle failed

vars == <<builder, handle, dirty, failed, batch, known, accepted, stale>>

-----------------------------------------------------------------------------
(* UpdateableWafInstance *)

(* Mutant: the new content is merged with the old one *)
Add_Merge(b, p, v) == [b EXCEPT ![p] = @ + v]

Add(b, p, v) == [b EXCEPT ![p] = v]

Remove(b, p) == [b EXCEPT ![p] = Absent]

HasRuleset(b) == \E p \in AsmDD : b[p] # Absent

(* Mutant: the bundled ruleset is kept beside a remote one *)
MakeRoom_Keep(b, p) == b

(* A remote ruleset replaces the bundled one *)
MakeRoom(b, p) == IF p \in AsmDD THEN Remove(b, Bundled) ELSE b

(* update(): the bundled ruleset is used when there is no remote one *)
WithBase(b) == IF HasRuleset(b) THEN b ELSE Add(b, Bundled, 1)

(* Before the worker serves requests, init() has built a handle *)
Init ==
  /\ builder = WithBase([p \in Paths |-> Absent])
  /\ handle = builder
  /\ dirty = FALSE /\ failed = FALSE /\ batch = FALSE
  /\ known = {}
  /\ accepted = [p \in Remote |-> Absent]
  /\ stale = FALSE

-----------------------------------------------------------------------------
(* AsmConfigListener *)

(* What the builder has at the path after it refused the new content is    *)
(* libddwaf's choice: the old content or none.                             *)
UpdateFails(p) ==
  /\ "add" \in Faults
  /\ \E b \in {MakeRoom(builder, p), Remove(MakeRoom(builder, p), p)} :
       builder' = b
  /\ dirty' = TRUE /\ failed' = TRUE
  /\ accepted' = [accepted EXCEPT ![p] = Absent]

(* Mutant: no new handle is built for it *)
UpdateSucceeds_Clean(p, v) ==
  /\ builder' = Add(MakeRoom(builder, p), p, v)
  /\ accepted' = [accepted EXCEPT ![p] = v]
  /\ UNCHANGED <<dirty, failed>>

UpdateSucceeds(p, v) ==
  /\ builder' = Add(MakeRoom(builder, p), p, v)
  /\ dirty' = TRUE
  /\ accepted' = [accepted EXCEPT ![p] = v]
  /\ UNCHANGED failed

(* The key or the JSON is invalid: the configuration in use stays          *)
UpdateRejected(p) ==
  /\ "parse" \in Faults
  /\ accepted' = [accepted EXCEPT ![p] = Absent]
  /\ UNCHANGED <<builder, dirty, failed>>

OnUpdate(p) ==
  /\ \/ \E v \in Versions : UpdateSucceeds(p, v)
     \/ UpdateFails(p)
     \/ UpdateRejected(p)
  /\ known' = known \cup {p} /\ batch' = TRUE
  /\ UNCHANGED <<handle, stale>>

(* remove_config() fails, and leaves dirty_ alone, if there is nothing at  *)
(* the path: the update had failed.                                        *)
OnRevert(p) ==
  /\ p \in known
  /\ \/ /\ builder[p] # Absent
        /\ builder' = Remove(builder, p)
        /\ dirty' = TRUE
        /\ UNCHANGED failed
     \/ /\ builder[p] = Absent
        /\ failed' = TRUE
        /\ UNCHANGED <<builder, dirty>>
  /\ known' = known \ {p} /\ batch' = TRUE
  /\ accepted' = [accepted EXCEPT ![p] = Absent]
  /\ UNCHANGED <<handle, stale>>

-----------------------------------------------------------------------------
(* ConfigurationEndListener: consume_status() and regenerate_handle() *)

Regenerate ==
  \/ /\ builder' = WithBase(builder)
     /\ handle' = WithBase(builder)
     /\ stale' = FALSE
  \/ /\ "build" \in Faults          \* the bundled ruleset is refused
     /\ ~HasRuleset(builder)
     /\ \E b \in {builder, Remove(builder, Bundled)} : builder' = b
     /\ stale' = TRUE
     /\ UNCHANGED handle
  \/ /\ "build" \in Faults          \* the handle cannot be built
     /\ builder' = WithBase(builder)
     /\ stale' = TRUE
     /\ UNCHANGED handle

OnPostProcess ==
  /\ batch
  /\ \/ dirty /\ Regenerate
     \/ ~dirty /\ UNCHANGED <<builder, handle, stale>>
  /\ dirty' = FALSE /\ failed' = FALSE /\ batch' = FALSE
  /\ UNCHANGED <<known, accepted>>

Next ==
  \/ \E p \in Remote : OnUpdate(p) \/ OnRevert(p)
  \/ OnPostProcess

Spec == Init /\ [][Next]_vars

-----------------------------------------------------------------------------
(* Properties *)

(* Every variable has the type of the member it stands for. *)
TypeOK ==
  /\ builder \in [Paths -> Versions \cup {Absent}]
  /\ handle \in [Paths -> Versions \cup {Absent}]
  /\ dirty \in BOOLEAN /\ failed \in BOOLEAN /\ batch \in BOOLEAN
  /\ stale \in BOOLEAN
  /\ known \subseteq Remote
  /\ accepted \in [Remote -> Versions \cup {Absent}]

(* The WAF that requests run always has a base ruleset, and never two: the *)
(* bundled one exactly when no remote ruleset is there, whichever updates, *)
(* removals and builds fail and in whatever order they come.               *)
OneBase == (handle[Bundled] # Absent) <=> ~HasRuleset(handle)

(* "successfully applied config" (waf_remote_cfg.cpp:198): once the batch  *)
(* is over, requests run every configuration that on_update accepted, also *)
(* those of earlier batches, unless the last handle could not be built.    *)
AcceptedIsBuilt ==
  ~batch /\ ~stale => \A p \in Remote :
                        accepted[p] # Absent => handle[p] = accepted[p]

(* "even if it failed, update can have side effects"                       *)
(* (waf_remote_cfg.cpp:121): once the batch is over, nothing the builder   *)
(* holds or has lost is missing from the handle, unless that could not be  *)
(* built.                                                                  *)
HandleCurrent == ~batch /\ ~stale => handle = builder

=============================================================================
