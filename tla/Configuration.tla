--------------------------- MODULE Configuration ---------------------------
(***************************************************************************)
(* From the text of nginx's configuration and the environment to what a    *)
(* worker runs with: the directives of the module, in the order in which   *)
(* nginx reads them, the merge of the locations' configurations, the       *)
(* module's initialization in the master, and the settings and sampling    *)
(* rules made in a worker.                                                 *)
(*                                                                         *)
(* The text has one http block with a server that has two locations.  A    *)
(* directive may stand in any block, before, between and after the blocks  *)
(* it encloses, on the line of the directive before it or on a new one.    *)
(* The directive at position i of the text has argument i where only its   *)
(* identity matters (a rate, the value of a tag).                          *)
(***************************************************************************)
EXTENDS Integers, FiniteSets, SequencesExt

CONSTANTS
  MaxDirectives,  \* bound on the directives of a text
  Families,       \* families of directives; a text uses one of them
  UINT32_MAX, ULONG_MAX   \* of the machine, scaled down

ASSUME ConfigurationAssumption ==
  /\ MaxDirectives \in Nat
  /\ UINT32_MAX \in Nat /\ ULONG_MAX \in Nat /\ UINT32_MAX <= ULONG_MAX

VARIABLES
  family,      \* the family of directives the text uses
  environment, \* of the master: variables that are set
  phase,       \* parse, merged, master, worker or refused
  text,        \* history: the directives read so far, with block and line
  inside,      \* the block being read
  opened,      \* blocks that were opened so far
  main,        \* datadog_main_conf_t
  loc,         \* datadog_loc_conf_t of each block that was opened
  worker       \* what the worker runs with

vars == <<family, environment, phase, text, inside, opened, main, loc, worker>>

-----------------------------------------------------------------------------
(* Blocks *)

HTTP == 1

Blocks == 1..4

Parent == <<0, HTTP, 2, 2>>

Kind == <<"http", "server", "location", "location">>

Locations == {b \in Blocks : Kind[b] = "location"}

(* From a block outwards *)
Enclosing(b) == CASE b = HTTP -> <<b>>
                  [] b = 2 -> <<b, HTTP>>
                  [] OTHER -> <<b, 2, HTTP>>

-----------------------------------------------------------------------------
(* Directives *)

Anywhere == {"http", "server", "location"}

Unset == "unset"

(* Files that exist when the text is read, and thread pools of nginx *)
Files == {"file"}

Pools == {"pool"}

(* Numbers as texts.  strtoul takes a negative one and wraps it around *)
Numeral == [n \in {"0", "2", "500"} |-> CASE n = "0" -> 0 [] n = "2" -> 2
                                          [] n = "500" -> 500]

strtoul(t) == IF t = "-1" THEN ULONG_MAX ELSE Numeral[t]

(* Settings of the security library by the way they are given *)
StringSettings == {"ruleset_file", "blocked_template_json",
                   "blocked_template_html", "client_ip_header"}

RegexSettings == {"obfuscation_key_regex", "obfuscation_value_regex"}

BooleanSettings == {"appsec_enabled", "api_security_enabled"}

NumberSettings == {"waf_timeout", "proxy_sample_rate"}

Settings == StringSettings \cup RegexSettings \cup BooleanSettings
              \cup NumberSettings \cup {"stats_host_port"}

(* Names that stand for another directive *)
Alias == [opentelemetry_traces_sampler_ratio |-> "sample_rate",
          opentelemetry_attribute |-> "tag",
          opentelemetry_otlp_traces_endpoint |-> "agent_url"]

(* Names without an effect, and names that are refused *)
Ignored == {"opentelemetry_propagate", "datadog_enable"}

Deprecated == {"datadog_load_tracer"}

(* Where a command may stand and how many arguments it takes *)
Command ==
  [n \in {"sample_rate", "tag", "baggage_tags_keys", "propagation_styles",
          "agent_url", "tracing", "waf_thread_pool_name"}
         \cup Settings \cup DOMAIN Alias \cup Ignored \cup Deprecated |->
     CASE n = "sample_rate" -> [where |-> Anywhere, args |-> {1, 2}]
       [] n \in {"tag", "opentelemetry_attribute"} ->
            [where |-> Anywhere, args |-> {2}]
       [] n = "baggage_tags_keys" -> [where |-> Anywhere, args |-> 1..3]
       [] n = "propagation_styles" -> [where |-> {"http"}, args |-> 1..3]
       [] n \in {"tracing", "waf_thread_pool_name",
                 "opentelemetry_traces_sampler_ratio"} ->
            [where |-> Anywhere, args |-> {1}]
       [] n \in Ignored -> [where |-> Anywhere, args |-> {0}]
       [] n \in Deprecated -> [where |-> {"http", "server"}, args |-> {2}]
       [] OTHER -> [where |-> {"http"}, args |-> {1}]]

(* The configurations nginx creates when it opens a block *)
create_datadog_main_conf ==
  [styles |-> <<>>, locked |-> FALSE, rules |-> <<>>, agent_url |-> Unset,
   tags |-> <<>>, env |-> <<>>, conf |-> [s \in Settings |-> Unset]]

NoBaggage == [all |-> FALSE, keys |-> <<>>]

create_datadog_loc_conf ==
  [tracing |-> Unset, tags |-> <<>>, baggage |-> NoBaggage, rates |-> <<>>,
   pool |-> Unset, parent |-> 0, depth |-> 0]

(* What a handler leaves: the configurations, or an error *)
Failed == [ok |-> FALSE, main |-> main, loc |-> loc]

InMain(m) == [ok |-> TRUE, main |-> m, loc |-> loc]

InLoc(b, l) == [ok |-> TRUE, main |-> main, loc |-> [loc EXCEPT ![b] = l]]

-----------------------------------------------------------------------------
(* Handlers.  d is the directive: name, args, block, line and, in id, its  *)
(* position.                                                               *)

(* insert_or_assign *)
Assign(tags, k, v) ==
  [x \in DOMAIN tags \cup {k} |-> IF x = k THEN v ELSE tags[x]]

set_datadog_tag(d) ==
  IF d.args[2] = "uncompilable" THEN Failed
  ELSE InLoc(d.block, [loc[d.block] EXCEPT !.tags = Assign(@, d.args[1], d.id)])

set_datadog_baggage_tags(d) ==
  LET l == loc[d.block] IN
  CASE d.args = <<"all">> ->
         InLoc(d.block, [l EXCEPT !.baggage = [all |-> TRUE, keys |-> <<>>]])
    [] /\ d.args[1] = "select" /\ Len(d.args) > 1
       /\ ~l.baggage.all /\ \A i \in DOMAIN d.args : d.args[i] # "" ->
         InLoc(d.block, [l EXCEPT !.baggage.keys = @ \o Tail(d.args)])
    [] OTHER -> Failed

(* Two directives on the same line of the same block *)
SameLineIndex(rates, d) ==
  IF rates # <<>> /\ Last(rates).line = d.line THEN Last(rates).index + 1
  ELSE 0

set_datadog_sample_rate(d) ==
  LET l    == loc[d.block]
      rate == [id |-> d.id, line |-> d.line,
               cond |-> IF Len(d.args) = 2 THEN d.args[2] ELSE "on",
               index |-> SameLineIndex(l.rates, d)]
      rule == [depth |-> d.block, id |-> d.id,
               source |-> <<rate.line, rate.index>>]
  IN IF d.args[1] = "invalid" \/ rate.cond = "uncompilable" THEN Failed
     ELSE [ok |-> TRUE,
           main |-> [main EXCEPT !.rules = Append(@, rule)],
           loc |-> [loc EXCEPT ![d.block].rates = Append(@, rate)]]

(* Mutant: a second directive adds to the styles of the first *)
lock_propagation_styles_Open(m) == m

lock_propagation_styles(m) == [m EXCEPT !.locked = TRUE]

set_datadog_propagation_styles(d) ==
  IF \/ main.locked
     \/ \E i \in DOMAIN d.args : d.args[i] = "invalid"
     \/ \E s \in {main.styles \o d.args} : Cardinality(ToSet(s)) < Len(s)
  THEN Failed
  ELSE InMain(lock_propagation_styles([main EXCEPT !.styles = @ \o d.args]))

set_datadog_agent_url(d) ==
  IF d.args[1] = "" THEN Failed
  ELSE InMain([main EXCEPT !.agent_url = d.args[1]])

waf_thread_pool_name(d) ==
  IF d.args[1] \notin Pools THEN Failed
  ELSE InLoc(d.block, [loc[d.block] EXCEPT !.pool = d.args[1]])

(* nginx's slots refuse a directive that was given before *)
ngx_conf_set_flag_slot(d) ==
  IF loc[d.block].tracing # Unset \/ d.args[1] \notin {"on", "off"} THEN Failed
  ELSE InLoc(d.block, [loc[d.block] EXCEPT !.tracing = d.args[1]])

check_file_exists(name, value) ==
  name \in StringSettings \ {"client_ip_header"} => value \in Files

(* nginx's slot of the type of the setting *)
SlotTakes(name, value) ==
  CASE name \in BooleanSettings -> value \in {"on", "off"}
    [] name \in NumberSettings -> value \in DOMAIN Numeral
    [] OTHER -> TRUE

SettingSlot(d) ==
  IF \/ main.conf[d.name] # Unset \/ ~SlotTakes(d.name, d.args[1])
     \/ ~check_file_exists(d.name, d.args[1])
  THEN Failed
  ELSE InMain([main EXCEPT !.conf[d.name] = d.args[1]])

(* The handlers of the module's own commands *)
Handle(d) ==
  CASE d.name = "tag" -> set_datadog_tag(d)
    [] d.name = "baggage_tags_keys" -> set_datadog_baggage_tags(d)
    [] d.name = "sample_rate" -> set_datadog_sample_rate(d)
    [] d.name = "propagation_styles" -> set_datadog_propagation_styles(d)
    [] d.name = "agent_url" -> set_datadog_agent_url(d)
    [] d.name = "tracing" -> ngx_conf_set_flag_slot(d)
    [] d.name = "waf_thread_pool_name" -> waf_thread_pool_name(d)
    [] d.name \in Settings -> SettingSlot(d)
    [] d.name \in Ignored -> InMain(main)
    [] d.name \in Deprecated -> Failed

(* A known command, allowed here, with a right number of arguments *)
Dispatches(d) ==
  /\ d.name \in DOMAIN Command
  /\ Kind[d.block] \in Command[d.name].where
  /\ Len(d.args) \in Command[d.name].args

datadog_conf_handler(d) == IF Dispatches(d) THEN Handle(d) ELSE Failed

alias_directive(d) == datadog_conf_handler([d EXCEPT !.name = Alias[d.name]])

(* nginx's own dispatch *)
ngx_conf_handler(d) ==
  IF Dispatches(d) /\ d.name \in DOMAIN Alias THEN alias_directive(d)
  ELSE datadog_conf_handler(d)

-----------------------------------------------------------------------------
(* The text, as its author may write it *)

Texts(f) ==
  CASE f = "rates" ->
         [name : {"sample_rate"}, args : {<<"valid">>, <<"valid", "$c">>}]
           \cup [name : {"opentelemetry_traces_sampler_ratio"},
                 args : {<<"valid">>}]
    [] f = "tags" ->
         [name : {"tag", "opentelemetry_attribute"},
          args : {<<"component", "$v">>, <<"custom", "$v">>}]
    [] f = "baggage" ->
         [name : {"baggage_tags_keys"},
          args : {<<"all">>, <<"select", "k1">>, <<"select", "k2">>}]
           \cup [name : {"tracing"}, args : {<<"off">>}]
           \cup [name : {"waf_thread_pool_name"}, args : {<<"pool">>}]
    [] f = "main" ->
         [name : {"propagation_styles"},
          args : {<<"Datadog">>, <<"B3", "tracecontext">>}]
           \cup [name : {"opentelemetry_otlp_traces_endpoint", "agent_url"},
                 args : {<<"url">>}]
           \cup [name : Ignored, args : {<<>>}]
    [] f = "mistakes" ->
         [name : {"sample_rate"}, args : {<<"invalid">>, <<"valid", "uncompilable">>,
                                          <<"valid", "$c", "$c">>}]
           \cup [name : {"tag"}, args : {<<"custom", "uncompilable">>}]
           \cup [name : {"baggage_tags_keys"},
                 args : {<<"all", "k1">>, <<"select">>, <<"k1">>, <<"select", "">>}]
           \cup [name : {"propagation_styles"},
                 args : {<<"invalid">>, <<"B3", "B3">>}]
           \cup [name : {"agent_url"}, args : {<<"">>}]
           \cup [name : {"tracing"}, args : {<<"yes">>}]
           \cup [name : {"waf_thread_pool_name"}, args : {<<"">>, <<"other">>}]
           \cup [name : {"ruleset_file"}, args : {<<"nofile">>}]
           \cup [name : Deprecated, args : {<<"a", "b">>}]
           \cup [name : {"datadog_unknown"}, args : {<<>>}]
    [] f \in BooleanSettings -> [name : {f}, args : {<<"on">>, <<"off">>}]
    [] f \in NumberSettings -> [name : {f}, args : {<<"0">>, <<"2">>, <<"500">>}]
    [] f = "stats_host_port" ->
         [name : {f}, args : {<<"host">>, <<"host:1">>, <<"host:x">>}]
    [] f = "client_ip_header" -> [name : {f}, args : {<<"">>, <<"X_IP">>}]
    [] f \in StringSettings -> [name : {f}, args : {<<"file">>}]
    [] f \in RegexSettings -> [name : {f}, args : {<<"">>, <<"regex">>}]

(* What the environment may hold for a setting *)
Variables == {"", "on", "no", "2", "2x", "-1", "X_IP"}

Init ==
  /\ family \in Families
  /\ environment \in
       {<<>>} \cup (IF family \in Settings \ {"stats_host_port"}
                   THEN [{family} -> Variables] ELSE {})
  /\ phase = "parse" /\ text = <<>> /\ worker = [started |-> FALSE]
  /\ inside = HTTP /\ opened = {HTTP}
  /\ main = create_datadog_main_conf
  /\ loc = [b \in {HTTP} |-> create_datadog_loc_conf]

LastLine == IF text = <<>> THEN 1 ELSE Last(text).line

(* nginx reads a directive; an error ends the start of nginx *)
ReadDirective(t, line) ==
  LET d == [name |-> t.name, args |-> t.args, block |-> inside, line |-> line,
            id |-> Len(text) + 1]
      r == ngx_conf_handler(d)
  IN /\ phase = "parse" /\ Len(text) < MaxDirectives
     /\ text' = Append(text, d)
     /\ main' = r.main /\ loc' = r.loc
     /\ phase' = IF r.ok THEN "parse" ELSE "refused"
     /\ UNCHANGED <<family, environment, inside, opened, worker>>

OpenBlock ==
  /\ phase = "parse"
  /\ \E b \in Blocks \ opened :
       /\ Parent[b] = inside
       /\ \A c \in Blocks \ opened : c >= b     \* the blocks are alike
       /\ inside' = b /\ opened' = opened \cup {b}
       /\ loc' = [c \in opened \cup {b} |->
                   IF c = b THEN create_datadog_loc_conf ELSE loc[c]]
  /\ UNCHANGED <<family, environment, phase, text, main, worker>>

CloseBlock ==
  /\ phase = "parse" /\ inside # HTTP
  /\ \A b \in Blocks : Parent[b] = inside => b \in opened
  /\ inside' = Parent[inside]
  /\ UNCHANGED <<family, environment, phase, text, opened, main, loc, worker>>

-----------------------------------------------------------------------------
(* The end of the http block *)

MergeValue(conf, prev, default) ==
  IF conf # Unset THEN conf ELSE IF prev # Unset THEN prev ELSE default

(* Mutant: the tags of the enclosing block win *)
MergeTags_Parent(conf, prev) ==
  [k \in DOMAIN conf \cup DOMAIN prev |->
     IF k \in DOMAIN prev THEN prev[k] ELSE conf[k]]

MergeTags(conf, prev) ==
  [k \in DOMAIN conf \cup DOMAIN prev |->
     IF k \in DOMAIN conf THEN conf[k] ELSE prev[k]]

DefaultBaggage == [all |-> FALSE, keys |-> <<"user.id">>]

MergeBaggage(conf, prev) ==
  IF conf # NoBaggage THEN conf
  ELSE IF prev = NoBaggage THEN DefaultBaggage ELSE prev

merge_datadog_loc_conf(prev, conf, parent) ==
  [tracing |-> MergeValue(conf.tracing, prev.tracing, "on"),
   tags |-> MergeTags(conf.tags, prev.tags),
   baggage |-> MergeBaggage(conf.baggage, prev.baggage),
   rates |-> conf.rates,
   pool |-> MergeValue(conf.pool, prev.pool, Unset),
   parent |-> parent, depth |-> prev.depth + 1]

(* nginx merges a block after the one that encloses it *)
Merged(l) ==
  FoldLeft(LAMBDA m, b : [m EXCEPT ![b] =
             merge_datadog_loc_conf(m[Parent[b]], m[b], Parent[b])],
           l, <<2, 3, 4>>)

(* Tag values are positions in the text; 0 is the default value *)
default_tags == [k \in {"component"} |-> 0]

(* The locations are merged, then datadog_module_init adds the handlers    *)
(* and the default tags; allocating them may fail                          *)
EndHttp ==
  /\ phase = "parse" /\ inside = HTTP /\ opened = Blocks
  /\ loc' = Merged(loc)
  /\ \/ phase' = "merged" /\ main' = [main EXCEPT !.tags = default_tags]
     \/ phase' = "refused" /\ UNCHANGED main
  /\ UNCHANGED <<family, environment, text, inside, opened, worker>>

(* datadog_master_process_post_config keeps the environment for the        *)
(* workers.  It refuses nginx of another packager.                         *)
MasterInit ==
  /\ phase = "merged"
  /\ \/ phase' = "master" /\ main' = [main EXCEPT !.env = environment]
     \/ phase' = "refused" /\ UNCHANGED main
  /\ UNCHANGED <<family, environment, text, inside, opened, loc, worker>>

-----------------------------------------------------------------------------
(* The start of a worker *)

get_env(s) == IF s \in DOMAIN main.env THEN main.env[s] ELSE Unset

get_env_bool(s) ==
  IF get_env(s) \in {Unset, ""} THEN Unset
  ELSE IF get_env(s) \in {"1", "true", "yes", "on"} THEN "on" ELSE "off"

get_env_str(s) == IF get_env(s) = "" THEN Unset ELSE get_env(s)

get_env_unsigned(s, default) ==
  IF get_env(s) \in DOMAIN Numeral \cup {"-1"} THEN strtoul(get_env(s))
  ELSE default

(* Lower case, and dashes for underscores *)
normalize_configured_header(h) == IF h = "X_IP" THEN "x-ip" ELSE h

kDefaultWafTimeoutUsec == 1000000

(* Milliseconds in the text, microseconds in the environment *)
WafTimeout(given, s) ==
  IF given \in {Unset, "0"} THEN get_env_unsigned(s, kDefaultWafTimeoutUsec)
  ELSE Numeral[given] * 1000

StatsHostPort(t) ==
  CASE t = "host" -> "host:8125"
    [] t = "host:x" -> Unset                 \* not a port
    [] OTHER -> t

StringSetting(s) ==
  LET given == main.conf[s] IN
  IF given \notin {Unset, ""} THEN given
  ELSE IF get_env_str(s) = Unset THEN "" ELSE get_env_str(s)

(* FinalizedConfigSettings *)
FinalizedConfigSettings ==
  [s \in Settings |->
     LET given == main.conf[s] IN
     CASE s = "client_ip_header" -> normalize_configured_header(StringSetting(s))
       [] s \in StringSettings \ {"client_ip_header"} -> StringSetting(s)
       [] s \in RegexSettings ->
            IF given # Unset THEN given
            ELSE IF get_env(s) # Unset THEN get_env(s) ELSE "default"
       [] s = "appsec_enabled" ->
            IF given # Unset THEN given ELSE get_env_bool(s)
       [] s = "api_security_enabled" ->
            IF given # Unset THEN given
            ELSE IF get_env_bool(s) # Unset THEN get_env_bool(s) ELSE "on"
       [] s = "waf_timeout" -> WafTimeout(given, s)
       [] s = "proxy_sample_rate" ->
            IF given = Unset THEN get_env_unsigned(s, 300) ELSE Numeral[given]
       [] s = "stats_host_port" -> StatsHostPort(given)]

(* The limit of the API security limiter; 0: there is none *)
MaxPerMin(settings) ==
  IF settings["api_security_enabled"] # "on" THEN 0
  ELSE IF settings["proxy_sample_rate"] > UINT32_MAX THEN UINT32_MAX
  ELSE settings["proxy_sample_rate"]

(* Mutant: the depth is taken when the directive is read *)
DepthOf_Read(rule) == 0

(* A rule points to the depth of its block *)
DepthOf(rule) == loc[rule.depth].depth

(* make_tracer: a stable sort by descending depth *)
ByDepth(rules) ==
  FlattenSeq([i \in 1..3 |->
                SelectSeq(rules, LAMBDA r : DepthOf(r) = 3 - i)])

(* datadog_init_worker.  The ruleset or the tracer's configuration may be  *)
(* unusable, and the limiter's shared memory not set up.                   *)
InitWorker ==
  /\ phase = "master"
  /\ \/ \E zone \in BOOLEAN :
          LET settings == FinalizedConfigSettings IN
          /\ worker' = [started |-> TRUE, settings |-> settings,
                        limiter |-> IF settings["appsec_enabled"] # "off" /\ zone
                                    THEN MaxPerMin(settings) ELSE 0,
                        styles |-> main.styles, agent_url |-> main.agent_url,
                        rules |-> ByDepth(main.rules)]
          /\ phase' = "worker"
     \/ phase' = "refused" /\ UNCHANGED worker
  /\ UNCHANGED <<family, environment, text, inside, opened, main, loc>>

Next ==
  \/ \E t \in Texts(family), more \in IF family = "rates" THEN 0..1 ELSE {1} :
       ReadDirective(t, LastLine + more)
  \/ OpenBlock \/ CloseBlock \/ EndHttp \/ MasterInit \/ InitWorker

Spec == Init /\ [][Next]_vars

-----------------------------------------------------------------------------
(* A request *)

(* The blocks of a request, through the pointers of merge_datadog_loc_conf *)
Chain(b) ==
  LET p == loc[b].parent IN
  <<b>> \o IF p = 0 THEN <<>>
          ELSE <<p>> \o IF loc[p].parent = 0 THEN <<>> ELSE <<loc[p].parent>>

(* set_sample_rate_tag: the source of the first rate that is on for a      *)
(* request in block b; on has the rates whose expression gives "on"        *)
set_sample_rate_tag(b, on) ==
  LET rates == FlattenSeq([i \in DOMAIN Chain(b) |-> loc[Chain(b)[i]].rates])
      apply == SelectSeq(rates, LAMBDA r : r.cond = "on" \/ r.id \in on)
  IN IF apply = <<>> THEN <<>> ELSE <<Head(apply).line, Head(apply).index>>

(* The tracer's sampler: the first rule whose tag the span has *)
Sampled(source) ==
  LET match == SelectSeq(worker.rules, LAMBDA r : r.source = source)
  IN IF match = <<>> THEN 0 ELSE Head(match).id

(* on_exit_block: the tags of main, then those of the location; a value    *)
(* that is empty for the request sets nothing                              *)
add_script_tags(tags, empty, span) ==
  [k \in DOMAIN span \cup {j \in DOMAIN tags : tags[j] \notin empty} |->
     IF k \in DOMAIN tags /\ tags[k] \notin empty THEN tags[k] ELSE span[k]]

SpanTags(b, empty) ==
  add_script_tags(loc[b].tags, empty, add_script_tags(main.tags, empty, <<>>))

(* add_baggage_span_tags *)
add_baggage_span_tags(b, baggage) ==
  IF loc[b].baggage.all THEN baggage
  ELSE ToSet(loc[b].baggage.keys) \cap baggage

-----------------------------------------------------------------------------
(* Properties *)

(* Directives of the text that have an effect under this name *)
Written(name) ==
  SelectSeq(text, LAMBDA d : d.name = name \/ \E a \in DOMAIN Alias :
                                 a = d.name /\ Alias[a] = name)

(* Those of the innermost block around b that has any *)
Innermost(ds, b) ==
  LET in(c) == SelectSeq(ds, LAMBDA d : d.block = c)
      c == SelectInSeq(Enclosing(b), LAMBDA e : in(e) # <<>>)
  IN IF c = 0 THEN <<>> ELSE in(Enclosing(b)[c])

(* A request is sampled at the rate of the first datadog_sample_rate of    *)
(* the innermost block that has one whose condition is on for it, however  *)
(* directives are ordered, aliased or put on one line, as long as no line  *)
(* has those of two blocks: set_datadog_sample_rate names the rule,        *)
(* make_tracer orders it and set_sample_rate_tag selects it.               *)
RateApplies ==
  LET rates == Written("sample_rate")
      apart == \A i, j \in DOMAIN rates :
                 rates[i].line = rates[j].line => rates[i].block = rates[j].block
      expressions == {rates[i].id : i \in {j \in DOMAIN rates : Len(rates[j].args) = 2}}
  IN phase = "worker" /\ apart =>
       \A b \in Locations, on \in SUBSET expressions :
         LET best == Innermost(SelectSeq(rates, LAMBDA d : \/ Len(d.args) = 1
                                                           \/ d.id \in on), b)
         IN Sampled(set_sample_rate_tag(b, on)) =
              IF best = <<>> THEN 0 ELSE Head(best).id

(* The tracer tries the rules of a block before those of the blocks around *)
(* it, and those of blocks at one depth in the order of the text, though   *)
(* depths are known only after the merge (sampling_rule_t).                *)
DeeperFirst ==
  phase = "worker" =>
    \A i, j \in DOMAIN worker.rules :
      LET b == text[worker.rules[i].id].block
          c == text[worker.rules[j].id].block
      IN i < j => \/ Len(Enclosing(b)) > Len(Enclosing(c))
                  \/ /\ Len(Enclosing(b)) = Len(Enclosing(c))
                     /\ worker.rules[i].id < worker.rules[j].id

(* The sampling rule that a location refers to is its own, and the tracer  *)
(* has it in its place.                                                    *)
RatesDecided == RateApplies /\ DeeperFirst

(* A span of a location gets the tag that the innermost block set last, or *)
(* the default one if no block sets the tag or its value is empty for the  *)
(* request (merge_datadog_loc_conf, on_exit_block).                        *)
TagsInherited ==
  phase = "worker" =>
    \A b \in Locations, k \in {"component", "custom"},
       empty \in SUBSET {Written("tag")[i].id : i \in DOMAIN Written("tag")} :
      LET set == Innermost(SelectSeq(Written("tag"), LAMBDA d : d.args[1] = k), b)
          shown == IF set # <<>> /\ Last(set).id \notin empty
                   THEN {Last(set).id}
                   ELSE IF k \in DOMAIN default_tags THEN {0} ELSE {}
      IN {SpanTags(b, empty)[j] : j \in DOMAIN SpanTags(b, empty) \cap {k}} = shown

(* The baggage that becomes tags in a location is what the innermost block *)
(* with datadog_baggage_tags_keys selects, or the default keys: keys of    *)
(* two blocks are never mixed (merge_datadog_loc_conf).                    *)
BaggageInherited ==
  phase = "worker" =>
    \A b \in Locations, baggage \in SUBSET {"k1", "k2", "user.id"} :
      LET set == Innermost(Written("baggage_tags_keys"), b)
          keys == IF set = <<>> THEN {"user.id"}
                  ELSE IF Last(set).args = <<"all">> THEN baggage
                  ELSE UNION {ToSet(Tail(set[i].args)) : i \in DOMAIN set}
      IN add_baggage_span_tags(b, baggage) = baggage \cap keys

(* What a location adds to its spans is inherited from the innermost block *)
(* that says something, and from one block only.                           *)
Inherited == TagsInherited /\ BaggageInherited

(* The styles a worker propagates with are those of the one directive that *)
(* names styles, not a mixture of several (lock_propagation_styles), and   *)
(* its agent is the one named last, under either name (alias_directive).   *)
MainDecided ==
  phase = "worker" =>
    LET styles == Written("propagation_styles")
        urls   == Written("agent_url")
    IN /\ Len(styles) <= 1
       /\ worker.styles = IF styles = <<>> THEN <<>> ELSE Head(styles).args
       /\ worker.agent_url = IF urls = <<>> THEN Unset ELSE Last(urls).args[1]

(* A setting of the security library is what its directive says; one that  *)
(* is not given, or says nothing, leaves it to the environment; a variable *)
(* that cannot be read leaves it to the default (FinalizedConfigSettings). *)
SettingsDecided ==
  phase = "worker" =>
    \A s \in Settings :
      LET ds     == Written(s)
          silent == CASE s = "waf_timeout" -> {"0"}
                      [] s = "client_ip_header" -> {""}
                      [] s = "stats_host_port" -> {"host:x"}
                      [] OTHER -> {}
          given  == ds # <<>> /\ Head(ds).args[1] \notin silent
          value  == worker.settings[s]
          read   == /\ s \in DOMAIN environment
                    /\ CASE s \in NumberSettings -> environment[s] \in {"2", "-1"}
                         [] s \in RegexSettings -> TRUE
                         [] OTHER -> environment[s] # ""
      IN CASE s = "waf_timeout" ->
                value = IF given THEN 1000 * Numeral[Head(ds).args[1]]
                        ELSE IF read THEN strtoul(environment[s]) ELSE kDefaultWafTimeoutUsec
           [] s = "proxy_sample_rate" ->
                value = IF given THEN Numeral[Head(ds).args[1]]
                        ELSE IF read THEN strtoul(environment[s]) ELSE 300
           [] s \in BooleanSettings ->
                value = IF given THEN Head(ds).args[1]
                        ELSE IF read THEN IF environment[s] = "on" THEN "on" ELSE "off"
                        ELSE IF s = "appsec_enabled" THEN Unset ELSE "on"
           [] OTHER ->
                LET from == IF given THEN Head(ds).args[1]
                            ELSE IF read THEN environment[s]
                            ELSE IF s \in RegexSettings THEN "default"
                            ELSE IF s = "stats_host_port" THEN Unset ELSE ""
                IN value = CASE from = "X_IP" /\ s = "client_ip_header" -> "x-ip"
                             [] from = "host" -> "host:8125"
                             [] OTHER -> from

(* A worker runs with what directives, environment and defaults say, in    *)
(* this order, and hands the limiter a limit that fits its 32 bits.        *)
WorkerDecided ==
  /\ MainDecided /\ SettingsDecided
  /\ worker.started => worker.limiter \in 0..UINT32_MAX

=============================================================================
