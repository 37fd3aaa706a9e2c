----------------------------- MODULE RateLimits -----------------------------
(***************************************************************************)
(* The two sliding windows of the backend: utils/rate_limiter.py, where a  *)
(* request to Binance waits for its turn, and utils/api_rate_limit.py,     *)
(* which refuses a dashboard's request and says when to come back.         *)
(*                                                                         *)
(* Time is kept as ages, in ticks of half a second: an entry older than    *)
(* its window counts one tick more, whatever its age, so no clock is       *)
(* needed.  A tick of this clock also stands for the microseconds between  *)
(* the end of a sleep and the reading of the time.                         *)
(***************************************************************************)
EXTENDS Integers, Sequences, SequencesExt

CONSTANTS Fetchers, MaxRequests, Window,        \* the waiting limiter
          LimitPlans,                           \* which limiter a run is about
          Tokens, Addresses,                    \* who may ask the API
          Limit,                                \* requests per caller and window
          GcEvery                               \* ticks between two collections

\* Both limiters let something through; a budget of no request at all would ask
\* for the oldest of none.
ASSUME LimitAssumption ==
    /\ {MaxRequests, Window, Limit, GcEvery} \subseteq Nat
    /\ MaxRequests > 0 /\ Limit > 0

VARIABLES lplan,
          requests,      \* RateLimiter.requests: ages, oldest first
          queue,         \* acquirers of the lock in order; the first one holds it
          holder,        \* what the holder does: "none", "sleeping"
          hits,          \* SlidingWindowLimiter._hits: ages per caller key
          lastGc,        \* age of _last_gc
          granted,       \* ages of the requests let through, per caller key
          promise        \* ticks until the time a refused caller was told, or NoPromise

lvars == <<lplan, requests, queue, holder, hits, lastGc, granted, promise>>
waiting == <<requests, queue, holder>>
refusing == <<hits, lastGc, granted, promise>>

\* client_key: the hash of a token if there is one, else the address the proxy
\* forwards or the peer's.
Callers == Tokens \union Addresses
ClientKey(token, forwarded, host) ==
    IF token \in Tokens THEN token ELSE IF forwarded \in Addresses THEN forwarded ELSE host

NoPromise == -1

\* Old entries are taken off the front, up to the first that is in the window.
FirstLive(ages) ==
    CHOOSE n \in 1..Len(ages) + 1 :
        /\ \A i \in 1..n - 1 : ages[i] > Window
        /\ n <= Len(ages) => ages[n] <= Window
Live(ages) == SubSeq(ages, FirstLive(ages), Len(ages))

LimitInit ==
    /\ lplan \in LimitPlans
    /\ requests = <<>> /\ queue = <<>> /\ holder = "none"
    /\ hits = [k \in {} |-> <<>>] /\ lastGc = GcEvery
    /\ granted = [k \in Callers |-> <<>>] /\ promise = [k \in Callers |-> NoPromise]

----------------------------------------------------------------------------
(* Waiting: all endpoints share the default limiter, every weight is 1.    *)

Acquire(f) ==
    /\ lplan = "fetch" /\ f \notin Range(queue)
    /\ queue' = Append(queue, f)
    /\ UNCHANGED <<lplan, requests, holder, refusing>>

\* The time would be read at the very microsecond an entry is Window old, which
\* then counts as in the window and as no reason to wait: left out.
Tie == Window \in Range(requests)

\* The first in the queue has the lock.  It goes ahead, or waits for the oldest
\* entry to leave the window while it keeps the lock.
Look ==
    /\ queue # <<>> /\ holder = "none" /\ ~Tie
    /\ LET live == Live(requests)
           waits == Len(live) + 1 > MaxRequests
       IN  \/ /\ waits
              /\ holder' = "sleeping" /\ requests' = live
              /\ UNCHANGED queue
           \/ /\ ~waits
              /\ requests' = Append(live, 0) /\ queue' = Tail(queue)
              /\ UNCHANGED holder
    /\ UNCHANGED <<lplan, refusing>>

\* The sleep ends when the oldest entry is Window old and the time is read a
\* little later; the request is then recorded whatever is left in the window.
Wake ==
    /\ holder = "sleeping" /\ requests[1] > Window
    /\ holder' = "none" /\ queue' = Tail(queue)
    /\ requests' = Append(Live(requests), 0)
    /\ UNCHANGED <<lplan, refusing>>

----------------------------------------------------------------------------
(* Refusing.                                                               *)

Hits(k) == IF k \in DOMAIN hits THEN Live(hits[k]) ELSE <<>>

\* Seconds until the oldest hit has left, rounded down, and one more.
RetryAfter(oldest) == LET seconds == (Window - oldest) \div 2 + 1
                      IN  IF seconds < 1 THEN 1 ELSE seconds

\* Mutant: those whose oldest hit is.
CollectedByOldest(h) ==
    IF lastGc < GcEvery THEN h
    ELSE [k \in {j \in DOMAIN h : h[j] # <<>> /\ Head(h[j]) <= Window} |-> h[k]]

\* Every GcEvery ticks the keys whose newest hit is old are forgotten.
Collected(h) ==
    IF lastGc < GcEvery THEN h
    ELSE [k \in {j \in DOMAIN h : h[j] # <<>> /\ Last(h[j]) <= Window} |-> h[k]]

Allowed(k) == Len(Hits(k)) < Limit

Allow(token, forwarded, host) ==
    /\ lplan = "api"
    /\ LET k == ClientKey(token, forwarded, host)
           with(ages) == [j \in DOMAIN hits \union {k} |-> IF j = k THEN ages ELSE hits[j]]
       IN  \/ /\ Allowed(k)
              /\ hits' = Collected(with(Append(Hits(k), 0)))
              /\ lastGc' = IF lastGc < GcEvery THEN lastGc ELSE 0
              /\ granted' = [granted EXCEPT ![k] = Append(Live(@), 0)]
              /\ promise' = [promise EXCEPT ![k] = NoPromise]
           \/ /\ ~Allowed(k)
              /\ hits' = with(Hits(k))
              /\ promise' = [promise EXCEPT ![k] = 2 * RetryAfter(Hits(k)[1])]
              /\ UNCHANGED <<lastGc, granted>>
    /\ UNCHANGED <<lplan, waiting>>

----------------------------------------------------------------------------

Older(ages) == [i \in 1..Len(ages) |-> IF ages[i] > Window THEN ages[i] ELSE ages[i] + 1]

TimePasses ==
    /\ requests' = Older(requests)
    /\ hits' = [k \in DOMAIN hits |-> Older(hits[k])]
    /\ lastGc' = IF lastGc < GcEvery THEN lastGc + 1 ELSE lastGc
    /\ granted' = [k \in Callers |-> Live(Older(granted[k]))]
    /\ promise' = [k \in Callers |-> IF promise[k] > 0 THEN promise[k] - 1 ELSE promise[k]]
    /\ UNCHANGED <<lplan, queue, holder>>

Nobody == "nobody"

LimitNext == \/ TimePasses \/ Look \/ Wake
             \/ \E f \in Fetchers : Acquire(f)
             \/ \E token \in Tokens \union {Nobody}, forwarded \in Addresses \union {Nobody},
                   host \in Addresses : Allow(token, forwarded, host)

LimitSpec == LimitInit /\ [][LimitNext]_lvars

\* Time passes, the lock is handed on in order, a sleeper is woken.
LimitFairness == WF_lvars(TimePasses) /\ WF_lvars(Look) /\ WF_lvars(Wake)

LimitFairSpec == LimitSpec /\ LimitFairness

----------------------------------------------------------------------------
(* Properties.                                                             *)

\* Type invariant; only a holder of the lock sleeps.
LimitTypeOK ==
    /\ \A i \in 1..Len(requests) : requests[i] \in 0..Window + 1
    /\ holder = "sleeping" => queue # <<>> /\ Len(requests) = MaxRequests
    /\ lastGc \in 0..GcEvery
    /\ DOMAIN hits \subseteq Callers
    /\ \A k \in DOMAIN hits : Len(hits[k]) <= Limit

\* Binance never receives more than MaxRequests requests within a window, though
\* the wait is for one entry only and the window is not counted again after it.
\* (At a tie, which the model leaves out, any number would go ahead.)
BinanceBudgetHolds == Len(Live(requests)) <= MaxRequests

\* No caller of the API gets more than Limit requests through within a window,
\* collections of the table included.
CallerBudgetHolds == \A k \in Callers : Len(granted[k]) <= Limit

\* A refused caller who comes back after the seconds it was told, and has not
\* been let through since, is let through.
RetryAfterIsEnough == \A k \in Callers : promise[k] = 0 => Allowed(k)

\* A fetch that waits for the budget gets its turn.
FetchGetsTurn == \A f \in Fetchers : (f \in Range(queue)) ~> (f \notin Range(queue))

\* The budgets of both limiters (rate_limiter.py, api_rate_limit.py) are
\* kept, and a caller that waits as it was told is served.
BudgetsHold == BinanceBudgetHolds /\ CallerBudgetHolds /\ RetryAfterIsEnough

=============================================================================
