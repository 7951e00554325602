------------------------------ MODULE RateLimiter ------------------------------
(***************************************************************************)
(* The in-memory rate limiter (rate_limit in app/routes.py, _rate_limit in *)
(* app/fc_support.py): the deque of one key, a sliding window.             *)
(*                                                                         *)
(* The identity endpoints call it from threads, which interleave between   *)
(* any two operations on the deque; /fdc/prepare and /contact call it from *)
(* the event loop, which interrupts no call. A key belongs to one of the   *)
(* two kinds of endpoint.                                                  *)
(***************************************************************************)
EXTENDS Integers, Sequences, FiniteSets

CONSTANTS
  Workers,   \* requests served at the same time
  Limit,     \* calls allowed per window
  Window,    \* window_s
  MaxTime,   \* bound on the state space: the clock stops here
  MaxCalls   \* bound on the state space: calls made

ASSUME LimiterAssumption ==
  /\ IsFiniteSet(Workers)
  /\ Limit \in Nat \ {0} /\ Window \in Nat /\ MaxTime \in Nat /\ MaxCalls \in Nat

VARIABLES
  endpoint, \* what serves this key: "threads" or the event "loop"
  hits,     \* _hits[key], oldest call first
  stage,    \* where each worker is in rate_limit
  started,  \* the `now` of each worker's call
  allowed,  \* the times of the calls let through so far
  calls,    \* calls made so far
  failed,   \* a call ended in an IndexError
  clock     \* time.monotonic()

vars == <<endpoint, hits, stage, started, allowed, calls, failed, clock>>

Stages == {"idle", "test", "head", "pop", "count", "append"}

Init ==
  /\ endpoint \in {"threads", "loop"}
  /\ hits = <<>>
  /\ stage = [w \in Workers |-> "idle"]
  /\ started = [w \in Workers |-> 0]
  /\ allowed = <<>>
  /\ calls = 0
  /\ failed = FALSE
  /\ clock = 0

\* A call is taken up and decided at once, for who looks at nothing else.
Asked == [w \in Workers |-> IF stage[w] = "idle" THEN -1 ELSE started[w]]

Promise == INSTANCE SlidingWindow WITH Callers <- Workers, asked <- Asked

Go(w, from, to) == stage[w] = from /\ stage' = [stage EXCEPT ![w] = to]
-----------------------------------------------------------------------------
\* Faulty variant: the loop is taken to interleave calls as threads do.
MayStartAlways == TRUE

\* The loop takes up no call before the one under way has ended.
MayStart == endpoint = "loop" => \A w \in Workers : stage[w] = "idle"

Call(w) ==
  /\ calls < MaxCalls
  /\ MayStart
  /\ Go(w, "idle", "test")
  /\ started' = [started EXCEPT ![w] = clock]
  /\ calls' = calls + 1
  /\ UNCHANGED <<endpoint, hits, allowed, failed, clock>>

\* `while q and ...`
TestQueue(w) ==
  /\ IF hits = <<>> THEN Go(w, "test", "count") ELSE Go(w, "test", "head")
  /\ UNCHANGED <<endpoint, hits, started, allowed, calls, failed, clock>>

\* Faulty variant: the entries of one more time unit are kept.
StaleLate(w) == started[w] - Head(hits) > Window + 1

Stale(w) == started[w] - Head(hits) > Window

\* `... now - q[0] > window_s`: the deque may have been emptied meanwhile.
TestHead(w) ==
  /\ IF hits = <<>> THEN Go(w, "head", "idle") /\ failed' = TRUE
     ELSE /\ IF Stale(w) THEN Go(w, "head", "pop") ELSE Go(w, "head", "count")
          /\ UNCHANGED failed
  /\ UNCHANGED <<endpoint, hits, started, allowed, calls, clock>>

\* Faulty variant: the stale entry is looked at, and stays.
PopPeeks(w) ==
  /\ Go(w, "pop", "test")
  /\ UNCHANGED <<endpoint, hits, started, allowed, calls, failed, clock>>

\* q.popleft(): what is first now, even if it is not what was looked at.
Pop(w) ==
  /\ IF hits = <<>>
     THEN Go(w, "pop", "idle") /\ failed' = TRUE /\ UNCHANGED hits
     ELSE Go(w, "pop", "test") /\ hits' = Tail(hits) /\ UNCHANGED failed
  /\ UNCHANGED <<endpoint, started, allowed, calls, clock>>

\* Faulty variant: one more call than the limit is let through.
CountOffByOne(w) ==
  /\ IF Len(hits) > Limit THEN Go(w, "count", "idle") ELSE Go(w, "count", "append")
  /\ UNCHANGED <<endpoint, hits, started, allowed, calls, failed, clock>>

\* `if len(q) >= limit: raise HTTPException(429)`
Count(w) ==
  /\ IF Len(hits) >= Limit THEN Go(w, "count", "idle") ELSE Go(w, "count", "append")
  /\ UNCHANGED <<endpoint, hits, started, allowed, calls, failed, clock>>

Add(w) ==
  /\ Go(w, "append", "idle")
  /\ hits' = Append(hits, started[w])
  /\ allowed' = Append(allowed, started[w])
  /\ UNCHANGED <<endpoint, started, calls, failed, clock>>

Tick ==
  /\ clock < MaxTime
  /\ clock' = clock + 1
  /\ UNCHANGED <<endpoint, hits, stage, started, allowed, calls, failed>>

Step(w) == TestQueue(w) \/ TestHead(w) \/ Pop(w) \/ Count(w) \/ Add(w)

Next ==
  \/ \E w \in Workers : Call(w) \/ Step(w)
  \/ Tick

Spec == Init /\ [][Next]_vars
-----------------------------------------------------------------------------
\* The types of the limiter's state.
TypeOK ==
  /\ endpoint \in {"threads", "loop"}
  /\ hits \in Seq(Nat) /\ allowed \in Seq(Nat)
  /\ stage \in [Workers -> Stages]
  /\ started \in [Workers -> Nat]
  /\ calls \in Nat /\ clock \in Nat
  /\ failed \in BOOLEAN

\* The number of calls let through from time t to t + Window.
AllowedFrom(t) == Cardinality({i \in DOMAIN allowed : allowed[i] \in t..(t + Window)})

\* SECURITY.md's limit: no window holds more than Limit calls let through.
WithinLimit == \A t \in 0..clock : AllowedFrom(t) <= Limit

\* On the event loop the limit is kept, whatever the times of the calls, and no
\* call raises anything but the 429 it is there for.
LoopWithinLimit == endpoint = "loop" => WithinLimit /\ ~failed

Appending == {w \in Workers : stage[w] = "append"}

\* Calls past the check and not yet recorded can overrun the limit, but each
\* worker by one: the deque never grows with the number of calls.
QueueIsBounded == Len(hits) + Cardinality(Appending) < Limit + Cardinality(Workers)

\* The deque decides as the whole history would: on the event loop a call is
\* let through, or refused, if and only if the calls let through in the window
\* before it, counted over all there ever were, are fewer than the limit, or
\* as many; the entries that were dropped make no difference.
ImplementsSlidingWindow == Promise!Spec
=============================================================================
