------------------------------ MODULE OAuthUsage ------------------------------
(***************************************************************************)
(* OAuthUsageCache of oauth_usage.py: requests name their token through    *)
(* get, and one background thread polls the usage endpoint for the last    *)
(* token, with a cooldown after each poll.                                 *)
(*                                                                         *)
(* A usage is told apart by the token it was fetched with.  The thread     *)
(* never ends, so _fetch_scheduled_at, which only decides whether to start *)
(* one, and _cached_at, which only guards that, are left out.              *)
(***************************************************************************)
EXTENDS Integers

CONSTANTS
    Tokens,
    Base,           \* _base_interval, in clock ticks
    MinCooldown,    \* MIN_COOLDOWN_SECONDS
    MaxBackoff,     \* MAX_BACKOFF_SECONDS
    RetryAfters,    \* Retry-After values a 429 may carry
    Nothing

ASSUME OAuthUsageAssumption ==
    /\ Base \in Nat \ {0} /\ MinCooldown \in Nat
    /\ MaxBackoff \in Nat \ {0} /\ MaxBackoff >= MinCooldown
    /\ RetryAfters \subseteq Nat
    /\ Nothing \notin Tokens \cup Nat

VARIABLES
    token,          \* _current_token and _token_hash
    usage,          \* _usage: the token it is for, and usage_stale
    backoff,        \* _base_interval * _backoff_multiplier
    retryAfter,     \* _retry_after_seconds
    phase,          \* the background thread: not started, sleeping, polling
    polled,         \* the token and hash the loop took before it slept
    remaining,      \* what is left of its sleep
    owed,           \* history: the wait the last poll's answer calls for
    gap             \* history: ticks since the last poll's answer

usageVars == <<token, usage, backoff, retryAfter, phase, polled, remaining, owed, gap>>

Larger(a, b) == IF a >= b THEN a ELSE b
Smaller(a, b) == IF a <= b THEN a ELSE b

\* No sleep is longer.
MaxSleep == Larger(Base, MaxBackoff)

Usages == [token : Tokens, stale : BOOLEAN]

\* Mutant: Retry-After replaces the backoff instead of raising it.
CooldownReplaced(b, r) ==
    IF b <= Base THEN Base
    ELSE Smaller(IF r = Nothing THEN Larger(b, MinCooldown) ELSE r, MaxBackoff)

\* _cooldown_seconds: the base interval when healthy; when failing, the backoff,
\* raised by a floor and by Retry-After, up to the cap.
Cooldown(b, r) ==
    IF b <= Base THEN Base
    ELSE LET wait == Larger(b, MinCooldown) IN
         Smaller(IF r = Nothing THEN wait ELSE Larger(wait, r), MaxBackoff)

UsageInit ==
    /\ token = Nothing /\ usage = Nothing
    /\ backoff = Base /\ retryAfter = Nothing
    /\ phase = "none" /\ polled = Nothing /\ remaining = 0
    /\ owed = 0 /\ gap = MaxSleep

\* Mutant: the token of the thread's first round is kept.
LoopTopOnce ==
    /\ phase' = "sleep"
    /\ polled' = IF polled = Nothing THEN token' ELSE polled
    /\ remaining' = Cooldown(backoff', retryAfter')

\* The top of _background_fetch_loop: the token is taken before the sleep.
LoopTop ==
    /\ phase' = "sleep"
    /\ polled' = token'
    /\ remaining' = Cooldown(backoff', retryAfter')

\* get: the token is the current one, and the first starts the thread.  What it
\* returns is the usage there is.
Get(t) ==
    /\ token' = t
    /\ UNCHANGED <<usage, backoff, retryAfter, owed, gap>>
    /\ IF phase = "none" THEN LoopTop ELSE UNCHANGED <<phase, polled, remaining>>

Tick ==
    /\ phase # "none" /\ (remaining > 0 \/ gap < MaxSleep)
    /\ remaining' = Larger(remaining - 1, 0)
    /\ gap' = Smaller(gap + 1, MaxSleep)
    /\ UNCHANGED <<token, usage, backoff, retryAfter, phase, polled, owed>>

\* _fetch_usage clears the last Retry-After before it asks.
StartPoll ==
    /\ phase = "sleep" /\ remaining = 0
    /\ phase' = "poll"
    /\ retryAfter' = Nothing
    /\ UNCHANGED <<token, usage, backoff, polled, remaining, owed, gap>>

Answered(wait) == phase = "poll" /\ owed' = wait /\ gap' = 0 /\ UNCHANGED token

\* Mutant: a success for a token no longer current is recorded.
RecordSuccessOfAny ==
    /\ usage' = [token |-> polled, stale |-> FALSE]
    /\ backoff' = Base /\ retryAfter' = Nothing

\* _record_success: a success for a token no longer current changes nothing.
RecordSuccess ==
    IF polled # token THEN UNCHANGED <<usage, backoff, retryAfter>>
    ELSE /\ usage' = [token |-> polled, stale |-> FALSE]
         /\ backoff' = Base /\ retryAfter' = Nothing

PollOk == Answered(0) /\ RecordSuccess /\ LoopTop

\* _record_failure, whatever the current token: usage_stale and the next backoff.
RecordFailure ==
    /\ usage' = IF usage = Nothing THEN Nothing ELSE [usage EXCEPT !.stale = TRUE]
    /\ backoff' = Smaller(2 * backoff, MaxBackoff)

\* A 429 is noted with its Retry-After, if it has a readable one; any other
\* failure without.
PollFails ==
    /\ \E r \in RetryAfters \cup {Nothing} :
          /\ Answered(IF r = Nothing THEN MinCooldown ELSE Larger(r, MinCooldown))
          /\ retryAfter' = r
    /\ RecordFailure /\ LoopTop

\* anthrouter restarts.
ProcessRestart ==
    /\ token' = Nothing /\ usage' = Nothing
    /\ backoff' = Base /\ retryAfter' = Nothing
    /\ phase' = "none" /\ polled' = Nothing /\ remaining' = 0
    /\ owed' = 0 /\ gap' = MaxSleep

Loop == StartPoll \/ PollOk \/ PollFails

UsageNext ==
    \/ \E t \in Tokens : Get(t)
    \/ Tick
    \/ Loop
    \/ ProcessRestart

\* Time passes, and the thread runs: a poll ends within USAGE_TIMEOUT_SECONDS.
UsageSpec == UsageInit /\ [][UsageNext]_usageVars /\ WF_usageVars(Tick) /\ WF_usageVars(Loop)

-----------------------------------------------------------------------------
(***************************************************************************)
(* Properties.                                                             *)
(***************************************************************************)

UsageTypeOK ==
    /\ token \in Tokens \cup {Nothing}
    /\ usage \in Usages \cup {Nothing}
    /\ backoff \in 1..MaxSleep
    /\ retryAfter \in RetryAfters \cup {Nothing}
    /\ phase \in {"none", "sleep", "poll"}
    /\ polled \in Tokens \cup {Nothing}
    /\ remaining \in 0..MaxSleep
    /\ owed \in Nat
    /\ gap \in 0..MaxSleep

\* After a failure the endpoint is left alone for the Retry-After it gave and for
\* MIN_COOLDOWN_SECONDS, up to the cap: Retry-After 0 cannot pin the loop at no
\* sleep, and a change of token does not cut the wait short.
RetryAfterKept == phase = "poll" => gap >= Smaller(owed, MaxBackoff)

\* A usage that is not stale is the answer of the last poll or of none since:
\* after a failed poll, no reader takes the old numbers for fresh ones.
FailureIsVisible ==
    backoff > Base /\ usage # Nothing => usage.stale

\* Only a success for the current token changes the cached usage or ends its
\* backoff.  (An interval over the cap leaves no room for one: a failed poll then
\* lowers the multiplier to the cap.)
OnlyOwnSuccess ==
    [][/\ usage' # usage /\ usage' # Nothing /\ ~usage'.stale => usage'.token = token
       /\ backoff' < Smaller(backoff, MaxBackoff) /\ phase' # "none" => polled = token]_usageVars

\* Once clients keep to one token, the cache has its usage, though polls of an
\* earlier one are under way, provided the endpoint goes on answering.
UsageCatchesUp ==
    \A t \in Tokens :
        <>[](token = t) /\ []<><<PollOk>>_usageVars => <>[](usage # Nothing /\ usage.token = t)
=============================================================================
