----------------------------- MODULE SlidingWindow -----------------------------
(***************************************************************************)
(* What rate_limit promises of one key, without a deque: a call bears the  *)
(* time at which it came in and is decided at once. On the event loop it   *)
(* is let through if and only if fewer than Limit of the calls let through *)
(* before it fall into its window, and none fails. Threads decide on what  *)
(* they have read of each other, so nothing is promised of their count.    *)
(***************************************************************************)
EXTENDS Integers, Sequences, FiniteSets

CONSTANTS Callers, Limit, Window

VARIABLES
  endpoint, \* what serves this key: "threads" or the event "loop"
  allowed,  \* the times of the calls let through
  asked,    \* the time of the call of each caller, or NoCall
  failed,   \* a call ended in an error
  clock

windowVars == <<endpoint, allowed, asked, failed, clock>>

NoCall == -1

Init ==
  /\ endpoint \in {"threads", "loop"}
  /\ allowed = <<>>
  /\ asked = [c \in Callers |-> NoCall]
  /\ failed = FALSE
  /\ clock = 0

\* The calls let through that fall into the window of a call at time t.
Recent(t) == {i \in DOMAIN allowed : t - allowed[i] <= Window}

Asks(c) == asked[c] # NoCall
OnLoop == endpoint = "loop"

Ask(c) ==
  /\ IF OnLoop THEN \A d \in Callers : ~Asks(d) ELSE ~Asks(c)
  /\ asked' = [asked EXCEPT ![c] = clock]
  /\ UNCHANGED <<endpoint, allowed, failed, clock>>

Allow(c) ==
  /\ Asks(c)
  /\ OnLoop => Cardinality(Recent(asked[c])) < Limit
  /\ allowed' = Append(allowed, asked[c])
  /\ asked' = [asked EXCEPT ![c] = NoCall]
  /\ UNCHANGED <<endpoint, failed, clock>>

Refuse(c) ==
  /\ Asks(c)
  /\ OnLoop => Cardinality(Recent(asked[c])) >= Limit
  /\ asked' = [asked EXCEPT ![c] = NoCall]
  /\ UNCHANGED <<endpoint, allowed, failed, clock>>

Fail(c) ==
  /\ Asks(c) /\ ~OnLoop
  /\ asked' = [asked EXCEPT ![c] = NoCall] /\ failed' = TRUE
  /\ UNCHANGED <<endpoint, allowed, clock>>

Tick == clock' = clock + 1 /\ UNCHANGED <<endpoint, allowed, asked, failed>>

Next ==
  \/ \E c \in Callers : Ask(c) \/ Allow(c) \/ Refuse(c) \/ Fail(c)
  \/ Tick

Spec == Init /\ [][Next]_windowVars
=============================================================================
