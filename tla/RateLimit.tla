------------------------------ MODULE RateLimit ------------------------------
(***************************************************************************)
(* rate_limit_check of StateStore: a fixed window for every user and       *)
(* action, in the memory of the process.  Handlers call it through         *)
(* RateLimiter.check and, for messages, HandlerContext.rate_limited, which *)
(* let administrators pass unseen.                                         *)
(*                                                                         *)
(* The clock is read once per call and the lock is never contended, so a   *)
(* call is one step.  Time is counted in ticks, TicksPerSecond of them in  *)
(* the second that retry_after is counted in; it does not go backwards.    *)
(***************************************************************************)
EXTENDS Integers, Sequences

CONSTANTS
    Actions,            \* keys of limit_map
    Limit,              \* RateLimitConfig: the limit of each action
    WindowSeconds,      \* window_seconds
    TicksPerSecond,
    MaxTime             \* bound on the clock

ASSUME RateAssumption ==
    /\ Limit \in [Actions -> Nat \ {0}]
    /\ WindowSeconds \in Nat \ {0}
    /\ TicksPerSecond \in Nat \ {0}
    /\ MaxTime \in Nat

VARIABLES
    now,
    rate,               \* the entry of each action, or NoEntry
    answer,             \* what the last call for the action returned, and when
    granted             \* the times of the calls that were let pass

rateVars == <<now, rate, answer, granted>>

Window == WindowSeconds * TicksPerSecond
NoEntry == [count |-> 0, start |-> 0]
NoAnswer == [allowed |-> TRUE, retry |-> 0, at |-> 0]

RateTypeOK ==
    /\ now \in 0..MaxTime
    /\ rate \in [Actions -> [count : Nat, start : 0..MaxTime]]
    /\ answer \in [Actions -> [allowed : BOOLEAN, retry : Nat, at : 0..MaxTime]]
    /\ granted \in [Actions -> Seq(0..MaxTime)]

RateInit ==
    /\ now = 0
    /\ rate = [a \in Actions |-> NoEntry]
    /\ answer = [a \in Actions |-> NoAnswer]
    /\ granted = [a \in Actions |-> <<>>]

\* A new key, or a window that is over
Opens(a) == rate[a] = NoEntry \/ now - rate[a].start >= Window

Within(a) == [rate[a] EXCEPT !.count = @ + 1]

\* A bug to be caught: the rest of a second is cut off.
RetryTruncated(a) == (rate[a].start + Window - now) \div TicksPerSecond

\* A bug to be caught: the time that has passed since the end of the window.
RetrySince(a) == (now - rate[a].start - Window) \div TicksPerSecond + 1

\* The guard against a clock set back, max(1, retry), has nothing to do: an
\* open window has an end that is still to come.
RetryAfter(a) == (rate[a].start + Window - now) \div TicksPerSecond + 1

Allow(a, entry) ==
    /\ rate' = [rate EXCEPT ![a] = entry]
    /\ answer' = [answer EXCEPT ![a] = [allowed |-> TRUE, retry |-> 0, at |-> now]]
    /\ granted' = [granted EXCEPT ![a] = Append(@, now)]
    /\ UNCHANGED now

\* A bug to be caught: one call too many.
BelowOrAtLimit(a) == rate[a].count <= Limit[a]

BelowLimit(a) == rate[a].count < Limit[a]

AllowFirst(a) == Opens(a) /\ Allow(a, [count |-> 1, start |-> now])
AllowNext(a) == ~ Opens(a) /\ BelowLimit(a) /\ Allow(a, Within(a))
Allowed(a) == AllowFirst(a) \/ AllowNext(a)

Refused(a) ==
    /\ ~ Opens(a) /\ ~ BelowLimit(a)
    /\ answer' = [answer EXCEPT
                    ![a] = [allowed |-> FALSE, retry |-> RetryAfter(a), at |-> now]]
    /\ UNCHANGED <<now, rate, granted>>

Tick ==
    /\ now < MaxTime
    /\ now' = now + 1
    /\ UNCHANGED <<rate, answer, granted>>

-----------------------------------------------------------------------------

\* Who is refused and comes back after the seconds he was told (ERR_RATE_LIMIT,
\* "try again in {seconds}s") is let pass, and he is told at most one second more
\* than he has to wait.  The one second too many happens: when the rest of the
\* window is a whole number of seconds, that many would do.
RetrySuffices ==
    \A a \in Actions :
        ~ answer[a].allowed =>
            /\ now >= answer[a].at + answer[a].retry * TicksPerSecond => Opens(a)
            /\ answer[a].at + (answer[a].retry - 1) * TicksPerSecond
                    <= rate[a].start + Window

\* Fixed windows: an interval of a window's length sees two of them at most, so
\* at most twice the limit, and one that starts with a window its limit.
CallsBounded ==
    \A a \in Actions : \A t \in 0..now :
        LET calls == {i \in DOMAIN granted[a] :
                        t <= granted[a][i] /\ granted[a][i] < t + Window}
            bound == IF t = rate[a].start THEN Limit[a] ELSE 2 * Limit[a]
        IN  \A i, k \in calls : k - i < bound
=============================================================================
