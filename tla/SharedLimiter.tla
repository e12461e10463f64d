--------------------------- MODULE SharedLimiter ---------------------------
(***************************************************************************)
(* The API security rate limiter (src/security/shared_limiter.h): a token  *)
(* bucket in shared memory, used without a lock by the WAF threads of all  *)
(* workers (allow), set up under the zone's mutex by the first worker of a *)
(* generation (get_limiter), and zeroed by the master when nginx reloads   *)
(* its configuration (shared_limiter_zone_init), while the workers of the  *)
(* old generation are still serving requests.                              *)
(*                                                                         *)
(* An action is one access to shared memory.  Writes of the array of       *)
(* amounts are grouped: zeroing, fill, and the loop over the remainder.    *)
(***************************************************************************)
EXTENDS Integers, FiniteSets, Sums

CONSTANTS
  Old, New,            \* threads of the workers before and after the reload
  RefreshesPerMin,
  Limits,              \* values of api_security_proxy_sample_rate
  Word,                \* 2^32: the counters are uint32_t
  StartTick, MaxTick,  \* bounds of the clock
  ReloadDuringStart    \* may the reload overtake get_limiter() of Old?

Callers == Old \cup New

ASSUME LimiterAssumption ==
  /\ Old \cap New = {}
  /\ RefreshesPerMin \in Nat \ {0}
  /\ Word \in Nat \ {0}
  /\ Limits \subseteq 1 .. Word - 1   \* with 0 there is no limiter
  /\ StartTick \in Nat \ {0} /\ MaxTick \in Nat
  /\ ReloadDuringStart \in BOOLEAN

VARIABLES
  clock,     \* the value of now_tick()
  tr,        \* tokens_and_refresh
  max,       \* max_per_min
  amounts,   \* refresh_amounts
  mutex,     \* the holder of the zone's mutex, in a set
  master,    \* progress of the master's reload
  limit,     \* configured limit of the callers, old and new
  pc, tick, cur, i, extra, new,   \* of each caller: locals of refresh, allow
  granted,   \* calls of allow() that returned true
  minted,    \* tokens put into the bucket
  start      \* tick at which the bucket was last filled by get_limiter()

shared == <<tr, max, amounts, mutex>>
locals == <<tick, cur, i, extra, new>>
ghosts == <<granted, minted, start>>
vars == <<clock, shared, master, limit, pc, locals, ghosts>>

Periods == 0 .. RefreshesPerMin - 1

Bucket == [tokens : 0 .. Word - 1, last : Nat]

Empty == [tokens |-> 0, last |-> 0]

Zero == [p \in Periods |-> 0]

LimitOf(c) == IF c \in Old THEN limit.old ELSE limit.new

(* get_limiter() has returned *)
Serving == {"idle", "load", "refresh", "sum", "cap", "cas", "take"}

Init ==
  /\ clock = StartTick
  /\ tr = Empty /\ max = 0 /\ amounts = Zero
  /\ mutex = {} /\ master = "running"
  /\ limit \in [old : Limits, new : Limits]
  /\ pc = [c \in Callers |-> "start"]
  /\ tick = [c \in Callers |-> 0] /\ cur = [c \in Callers |-> Empty]
  /\ i = [c \in Callers |-> 0] /\ extra = [c \in Callers |-> 0]
  /\ new = [c \in Callers |-> Empty]
  /\ granted = 0 /\ minted = 0 /\ start = 0

Goto(c, l) == pc' = [pc EXCEPT ![c] = l]

Tick ==
  /\ clock < MaxTick
  /\ clock' = clock + 1
  /\ UNCHANGED <<shared, master, limit, pc, locals, ghosts>>

-----------------------------------------------------------------------------
(* get_limiter and initialize_shared_state *)

(* Mutant: the mutex is not taken *)
Lock_Shared(c) ==
  /\ pc[c] = "start"
  /\ c \in New => master = "reloaded"
  /\ Goto(c, IF max = 0 THEN "store" ELSE "unlock")
  /\ UNCHANGED <<clock, shared, master, limit, locals, ghosts>>

Lock(c) ==
  /\ pc[c] = "start" /\ mutex = {}
  /\ c \in New => master = "reloaded"     \* new workers are forked later
  /\ mutex' = {c}
  /\ Goto(c, IF max = 0 THEN "store" ELSE "unlock")
  /\ UNCHANGED <<clock, tr, max, amounts, master, limit, locals, ghosts>>

StoreTokens(c) ==
  /\ pc[c] = "store"
  /\ tr' = [tokens |-> LimitOf(c), last |-> clock]
  /\ minted' = minted + LimitOf(c) /\ start' = clock
  /\ Goto(c, "max")
  /\ UNCHANGED <<clock, max, amounts, mutex, master, limit, locals, granted>>

StoreMax(c) ==
  /\ pc[c] = "max"
  /\ max' = LimitOf(c)
  /\ Goto(c, "fill")
  /\ UNCHANGED <<clock, tr, amounts, mutex, master, limit, locals, ghosts>>

Fill(c) ==
  /\ pc[c] = "fill"
  /\ amounts' = [p \in Periods |-> LimitOf(c) \div RefreshesPerMin]
  /\ Goto(c, "spread")
  /\ UNCHANGED <<clock, tr, max, mutex, master, limit, locals, ghosts>>

(* The remainder goes to periods that are evenly spaced *)
Spread(c) ==
  LET remainder == LimitOf(c) % RefreshesPerMin
      hits(p) == {k \in 0 .. remainder - 1 :
                    (k * RefreshesPerMin) \div remainder = p}
  IN  /\ pc[c] = "spread"
      /\ amounts' = [p \in Periods |-> amounts[p] + Cardinality(hits(p))]
      /\ Goto(c, "unlock")
      /\ UNCHANGED <<clock, tr, max, mutex, master, limit, locals, ghosts>>

Unlock(c) ==
  /\ pc[c] = "unlock"
  /\ mutex' = {}
  /\ Goto(c, "idle")
  /\ UNCHANGED <<clock, tr, max, amounts, master, limit, locals, ghosts>>

-----------------------------------------------------------------------------
(* refresh *)

NowTick(c) ==
  /\ pc[c] = "idle"
  /\ tick' = [tick EXCEPT ![c] = clock]
  /\ Goto(c, "load")
  /\ UNCHANGED <<clock, shared, master, limit, cur, i, extra, new, ghosts>>

Load(c) ==
  /\ pc[c] = "load"
  /\ cur' = [cur EXCEPT ![c] = tr]
  /\ Goto(c, "refresh")
  /\ UNCHANGED <<clock, shared, master, limit, tick, i, extra, new, ghosts>>

(* Mutant: the loop is entered with a stale tick *)
Refresh_Always(c) ==
  /\ pc[c] = "refresh"
  /\ i' = [i EXCEPT ![c] = 1]
  /\ Goto(c, "sum")
  /\ UNCHANGED <<clock, shared, master, limit, tick, cur, extra, new, ghosts>>

(* while (tick > current.last_refresh) *)
Refresh(c) ==
  /\ pc[c] = "refresh"
  /\ \/ /\ tick[c] > cur[c].last
        /\ i' = [i EXCEPT ![c] = 1]
        /\ Goto(c, "sum")
     \/ /\ tick[c] <= cur[c].last
        /\ Goto(c, "take")
        /\ UNCHANGED i
  /\ UNCHANGED <<clock, shared, master, limit, tick, cur, extra, new, ghosts>>

More(c) == cur[c].last + i[c] <= tick[c] /\ extra[c] < max

(* One round of the loop over the periods that passed *)
Sum(c) ==
  LET index == (cur[c].last + i[c]) % RefreshesPerMin
  IN  /\ pc[c] = "sum" /\ More(c)
      /\ extra' = [extra EXCEPT ![c] = (extra[c] + amounts[index]) % Word]
      /\ i' = [i EXCEPT ![c] = i[c] + 1]
      /\ UNCHANGED <<clock, shared, master, limit, pc, tick, cur, new, ghosts>>

(* new_val is known; i and extra_tokens go out of scope *)
NewVal(c, tokens, l) ==
  /\ new' = [new EXCEPT ![c] = [tokens |-> tokens, last |-> tick[c]]]
  /\ i' = [i EXCEPT ![c] = 0]
  /\ extra' = [extra EXCEPT ![c] = 0]
  /\ Goto(c, l)
  /\ UNCHANGED <<clock, shared, master, limit, tick, cur, ghosts>>

(* Mutant: the bucket may overflow *)
SetNew_Uncapped(c) ==
  /\ pc[c] = "sum" /\ ~More(c)
  /\ NewVal(c, (cur[c].tokens + extra[c]) % Word, "cas")

(* Mutant: the tokens that were left are forgotten *)
SetNew_Forget(c) ==
  /\ pc[c] = "sum" /\ ~More(c)
  /\ NewVal(c, extra[c], IF extra[c] > max THEN "cap" ELSE "cas")

(* max_per_min is read to compare, and once more if new_val is capped *)
SetNew(c) ==
  LET sum == (cur[c].tokens + extra[c]) % Word
  IN  /\ pc[c] = "sum" /\ ~More(c)
      /\ NewVal(c, sum, IF sum > max THEN "cap" ELSE "cas")

Cap(c) ==
  /\ pc[c] = "cap"
  /\ NewVal(c, max, "cas")

(* compare_exchange_weak; a failure, which may be spurious, reloads cur *)
CasRefresh(c) ==
  /\ pc[c] = "cas"
  /\ \/ /\ tr = cur[c]
        /\ tr' = new[c]
        /\ cur' = [cur EXCEPT ![c] = new[c]]
        /\ minted' = IF new[c].tokens > cur[c].tokens
                     THEN minted + (new[c].tokens - cur[c].tokens) ELSE minted
        /\ Goto(c, "take")
     \/ /\ cur' = [cur EXCEPT ![c] = tr]
        /\ Goto(c, "refresh")
        /\ UNCHANGED <<tr, minted>>
  /\ new' = [new EXCEPT ![c] = Empty]
  /\ UNCHANGED <<clock, max, amounts, mutex, master, limit, tick, i, extra,
                 granted, start>>

-----------------------------------------------------------------------------
(* allow, after refresh() returned *)

(* tick and current go out of scope *)
Return(c) ==
  /\ Goto(c, "idle")
  /\ tick' = [tick EXCEPT ![c] = 0]
  /\ cur' = [cur EXCEPT ![c] = Empty]

(* Mutant: the new value is stored whatever happened since cur was read *)
Take_Store(c) ==
  /\ pc[c] = "take" /\ cur[c].tokens > 0
  /\ tr' = [tokens |-> cur[c].tokens - 1, last |-> cur[c].last]
  /\ granted' = granted + 1
  /\ Return(c)
  /\ UNCHANGED <<clock, max, amounts, mutex, master, limit, i, extra, new,
                 minted, start>>

Take(c) ==
  /\ pc[c] = "take" /\ cur[c].tokens > 0
  /\ \/ /\ tr = cur[c]
        /\ tr' = [tokens |-> cur[c].tokens - 1, last |-> cur[c].last]
        /\ granted' = granted + 1
        /\ Return(c)
     \/ /\ cur' = [cur EXCEPT ![c] = tr]
        /\ UNCHANGED <<pc, tick, tr, granted>>
  /\ UNCHANGED <<clock, max, amounts, mutex, master, limit, i, extra, new,
                 minted, start>>

Deny(c) ==
  /\ pc[c] = "take" /\ cur[c].tokens = 0
  /\ Return(c)
  /\ UNCHANGED <<clock, shared, master, limit, i, extra, new, ghosts>>

-----------------------------------------------------------------------------
(* shared_limiter_zone_init in the new cycle: StateType is constructed     *)
(* again over the one in use, member by member.                            *)

ZeroTokens ==
  /\ master = "running" /\ New # {}
  /\ ReloadDuringStart \/ \A c \in Old : pc[c] \in Serving
  /\ tr' = Empty
  /\ master' = "zero_max"
  /\ UNCHANGED <<clock, max, amounts, mutex, limit, pc, locals, ghosts>>

ZeroMax ==
  /\ master = "zero_max"
  /\ max' = 0
  /\ master' = "zero_amounts"
  /\ UNCHANGED <<clock, tr, amounts, mutex, limit, pc, locals, ghosts>>

ZeroAmounts ==
  /\ master = "zero_amounts"
  /\ amounts' = Zero
  /\ master' = "reloaded"
  /\ UNCHANGED <<clock, tr, max, mutex, limit, pc, locals, ghosts>>

Caller(c) ==
  \/ Lock(c) \/ StoreTokens(c) \/ StoreMax(c) \/ Fill(c) \/ Spread(c)
  \/ Unlock(c)
  \/ NowTick(c) \/ Load(c) \/ Refresh(c) \/ Sum(c) \/ SetNew(c)
  \/ Cap(c) \/ CasRefresh(c)
  \/ Take(c) \/ Deny(c)

Next ==
  \/ Tick
  \/ \E c \in Callers : Caller(c)
  \/ ZeroTokens \/ ZeroMax \/ ZeroAmounts

Spec == Init /\ [][Next]_vars

-----------------------------------------------------------------------------
(* Every variable has the type of the member or local it stands for. *)
TypeOK ==
  /\ clock \in Nat
  /\ tr \in Bucket /\ max \in 0 .. Word - 1 /\ amounts \in [Periods -> Nat]
  /\ mutex \subseteq Callers
  /\ master \in {"running", "zero_max", "zero_amounts", "reloaded"}
  /\ limit \in [old : Limits, new : Limits]
  /\ pc \in [Callers -> Serving \cup {"start", "store", "max", "fill",
                                      "spread", "unlock"}]
  /\ tick \in [Callers -> Nat] /\ cur \in [Callers -> Bucket]
  /\ i \in [Callers -> Nat] /\ extra \in [Callers -> Nat]
  /\ new \in [Callers -> Bucket]
  /\ granted \in Nat /\ minted \in Nat /\ start \in Nat

LargerLimit == IF limit.old > limit.new THEN limit.old ELSE limit.new

(* The bucket never holds more than a minute's worth of tokens, although   *)
(* refresh() adds to a value that may be stale and reads a limit that the  *)
(* master may be zeroing.                                                  *)
TokensBounded == tr.tokens <= LargerLimit

(* Every call of allow() that returns true took a token of its own: what   *)
(* was granted and what is left never exceeds what was put in.             *)
NoDoubleGrant == granted + tr.tokens <= minted

(* The tokens of the periods after tick s, up to t, if the amounts are a *)
Supply(a, s, t) ==
  SumTo([k \in Nat |-> a[(s + k) % RefreshesPerMin]], t - s)

(* The limiter's promise, as long as nginx is not reloaded: a full bucket, *)
(* and then the amounts of the periods that passed.                        *)
RateBound ==
  master = "running" /\ start # 0 /\ (\A c \in Old : pc[c] \in Serving) =>
    granted + tr.tokens <= limit.old + Supply(amounts, start, tr.last)

(* last_refresh never goes back, even if a caller that was delayed in      *)
(* refresh() resumes with an old tick; except when the master zeroes it.   *)
RefreshForward == [][tr' = Empty \/ tr'.last >= tr.last]_vars

(* As long as nginx is not reloaded, refresh() only ever adds tokens: a    *)
(* step that moves last_refresh leaves at least what was there.            *)
RefreshAdds ==
  [][master' = "running" /\ tr'.last > tr.last => tr'.tokens >= tr.tokens]_vars

(* Once get_limiter() has returned to a worker of the current generation,  *)
(* the limiter is set up completely: a minute's refreshes add up to the    *)
(* configured limit, and any two periods differ by one token at most.      *)
LimiterReady ==
  \A c \in Callers :
    /\ pc[c] \in Serving
    /\ IF master = "reloaded" THEN c \in New ELSE master = "running"
    => /\ max = LimitOf(c)
       /\ SumTo([k \in 1 .. RefreshesPerMin |-> amounts[k - 1]],
                RefreshesPerMin) = LimitOf(c)
       /\ \A p, q \in Periods : amounts[p] <= amounts[q] + 1

=============================================================================
