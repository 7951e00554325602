------------------------- MODULE SupportForm_proofs -------------------------
(***************************************************************************)
(* What the support form and the rate limiter under it keep, for every     *)
(* number of requests, every limit, window and order of steps: first the   *)
(* limiter alone (Spec), on threads and on the event loop; then the form   *)
(* (FormSpec), whose steps are steps of the limiter or leave it alone.     *)
(***************************************************************************)
EXTENDS SupportForm, FiniteSetTheorems, SequenceTheorems, TLAPS

-----------------------------------------------------------------------------
(***************************************************************************)
(* Sequences and finite sets                                               *)
(***************************************************************************)

\* What Append does to the elements and their indices.
LEMMA AppendFacts ==
  ASSUME NEW S, NEW s \in Seq(S), NEW e \in S
  PROVE  /\ Append(s, e) \in Seq(S)
         /\ Len(Append(s, e)) = Len(s) + 1
         /\ DOMAIN Append(s, e) = 1..(Len(s) + 1)
         /\ \A i \in 1..Len(s) : Append(s, e)[i] = s[i]
         /\ Append(s, e)[Len(s) + 1] = e
<1>1. Append(s, e) \in Seq(S) /\ Len(Append(s, e)) = Len(s) + 1
  BY AppendProperties
<1>2. Len(s) \in Nat
  BY LenProperties
<1>3. DOMAIN Append(s, e) = 1..(Len(s) + 1)
  BY <1>1, LenProperties
<1>4. \A i \in 1..Len(s) : Append(s, e)[i] = s[i]
  BY <1>2, AppendProperties
<1>5. Append(s, e)[Len(s) + 1] = e
  BY <1>2, AppendProperties
<1> QED
  BY <1>1, <1>3, <1>4, <1>5

\* What an Append adds to the elements of a sequence.
LEMMA RangeOfAppend ==
  ASSUME NEW S, NEW s \in Seq(S), NEW e \in S
  PROVE  Range(Append(s, e)) = Range(s) \cup {e}
<1>1. Len(s) \in Nat /\ DOMAIN s = 1..Len(s)
  BY LenProperties
<1>2. \A x \in Range(Append(s, e)) : x \in Range(s) \cup {e}
  <2> SUFFICES ASSUME NEW i \in 1..(Len(s) + 1)
               PROVE  Append(s, e)[i] \in Range(s) \cup {e}
    BY AppendFacts DEF Range
  <2>1. CASE i = Len(s) + 1
    BY <2>1, AppendFacts
  <2>2. CASE i \in 1..Len(s)
    BY <1>1, <2>2, AppendFacts DEF Range
  <2> QED
    BY <1>1, <2>1, <2>2
<1>3. \A x \in Range(s) : x \in Range(Append(s, e))
  <2> SUFFICES ASSUME NEW i \in 1..Len(s)
               PROVE  s[i] \in Range(Append(s, e))
    BY <1>1 DEF Range
  <2>1. i \in 1..(Len(s) + 1)
    BY <1>1
  <2> QED
    BY <2>1, AppendFacts DEF Range
<1>4. e \in Range(Append(s, e))
  <2>1. Len(s) + 1 \in 1..(Len(s) + 1)
    BY <1>1
  <2> QED
    BY <2>1, AppendFacts DEF Range
<1> QED
  BY <1>2, <1>3, <1>4

\* One element more, or one less, changes a finite set's size by one at most.
LEMMA OneMore ==
  ASSUME NEW S, IsFiniteSet(S), NEW T, NEW x, T \subseteq S \cup {x}
  PROVE  /\ IsFiniteSet(T) /\ Cardinality(T) \in Nat
         /\ Cardinality(S) \in Nat
         /\ Cardinality(T) <= Cardinality(S) + 1
<1>1. Cardinality(S) \in Nat
  BY FS_CardinalityType
<1>2. IsFiniteSet(S \cup {x}) /\ Cardinality(S \cup {x}) <= Cardinality(S) + 1
  BY <1>1, FS_AddElement
<1>3. IsFiniteSet(T) /\ Cardinality(T) <= Cardinality(S \cup {x})
  BY <1>2, FS_Subset
<1> QED
  BY <1>1, <1>2, <1>3, FS_CardinalityType

\* A part of a stretch of indices is no larger than the stretch is long.
LEMMA PartOfStretch ==
  ASSUME NEW m \in Nat, NEW n \in Nat, m <= n, NEW T, T \subseteq (m + 1)..n
  PROVE  /\ IsFiniteSet(T) /\ Cardinality(T) \in Nat
         /\ Cardinality(T) <= n - m
<1>1. /\ IsFiniteSet((m + 1)..n)
      /\ Cardinality((m + 1)..n) = IF m + 1 > n THEN 0 ELSE n - (m + 1) + 1
  <2>1. m + 1 \in Int /\ n \in Int
    OBVIOUS
  <2> QED
    BY <2>1, FS_Interval
<1>2. Cardinality((m + 1)..n) = n - m
  BY <1>1
<1>3. IsFiniteSet(T) /\ Cardinality(T) <= Cardinality((m + 1)..n)
  BY <1>1, FS_Subset
<1> QED
  BY <1>2, <1>3, FS_CardinalityType
-----------------------------------------------------------------------------
(***************************************************************************)
(* Types                                                                   *)
(***************************************************************************)

\* The initial state has the types.
LEMMA InitTypeOK == Init => TypeOK
<1> SUFFICES ASSUME Init PROVE TypeOK
  OBVIOUS
<1>1. <<>> \in Seq(Nat)
  BY EmptySeq
<1>2. 0 \in Nat
  OBVIOUS
<1> QED
  BY <1>1, <1>2 DEF Init, TypeOK, Stages

\* Every step keeps the types.
LEMMA NextTypeOK == TypeOK /\ [Next]_vars => TypeOK'
<1> SUFFICES ASSUME TypeOK, [Next]_vars PROVE TypeOK'
  OBVIOUS
<1> USE DEF TypeOK, Stages, Go
<1>1. ASSUME NEW w \in Workers, Call(w) PROVE TypeOK'
  BY <1>1 DEF Call
<1>2. ASSUME NEW w \in Workers, TestQueue(w) PROVE TypeOK'
  BY <1>2 DEF TestQueue
<1>3. ASSUME NEW w \in Workers, TestHead(w) PROVE TypeOK'
  BY <1>3 DEF TestHead
<1>4. ASSUME NEW w \in Workers, Pop(w) PROVE TypeOK'
  <2>1. CASE hits = <<>>
    BY <1>4, <2>1 DEF Pop
  <2>2. CASE hits # <<>>
    <3>1. Tail(hits) \in Seq(Nat)
      BY <2>2, HeadTailProperties
    <3> QED
      BY <1>4, <2>2, <3>1 DEF Pop
  <2> QED
    BY <2>1, <2>2
<1>5. ASSUME NEW w \in Workers, Count(w) PROVE TypeOK'
  BY <1>5 DEF Count
<1>6. ASSUME NEW w \in Workers, Add(w) PROVE TypeOK'
  <2>1. started[w] \in Nat
    OBVIOUS
  <2>2. Append(hits, started[w]) \in Seq(Nat) /\ Append(allowed, started[w]) \in Seq(Nat)
    BY <2>1, AppendFacts
  <2> QED
    BY <1>6, <2>2 DEF Add
<1>7. CASE Tick
  BY <1>7 DEF Tick
<1>8. CASE UNCHANGED vars
  BY <1>8 DEF vars
<1> QED
  BY <1>1, <1>2, <1>3, <1>4, <1>5, <1>6, <1>7, <1>8 DEF Next, Step

\* The limiter's state has its types, on threads and on the event loop.
THEOREM TypeCorrect == Spec => []TypeOK
<1> QED
  BY InitTypeOK, NextTypeOK, PTL DEF Spec
-----------------------------------------------------------------------------
(***************************************************************************)
(* The deque on threads                                                    *)
(***************************************************************************)

\* A worker that goes on to append, or has appended.
LEMMA AppendingFinite ==
  ASSUME TypeOK
  PROVE  /\ IsFiniteSet(Appending) /\ Cardinality(Appending) \in Nat
         /\ Cardinality(Workers) \in Nat
         /\ Cardinality(Appending) <= Cardinality(Workers)
BY LimiterAssumption, FS_Subset, FS_CardinalityType DEF Appending

\* QueueIsBounded needs nothing but itself: a worker passes the check only
\* under the limit, and all that can be past it are the workers.
LEMMA NextQueueIsBounded ==
  TypeOK /\ QueueIsBounded /\ [Next]_vars => QueueIsBounded'
<1> SUFFICES ASSUME TypeOK, QueueIsBounded, [Next]_vars PROVE QueueIsBounded'
  OBVIOUS
<1>1. TypeOK'
  BY NextTypeOK
<1>2. IsFiniteSet(Appending) /\ Cardinality(Appending) \in Nat /\ Cardinality(Workers) \in Nat
  BY AppendingFinite
<1>3. /\ Cardinality(Appending') \in Nat
      /\ Cardinality(Appending') <= Cardinality(Workers)
  <2>1. Appending' \subseteq Workers
    BY DEF Appending
  <2> QED
    BY <2>1, LimiterAssumption, FS_Subset, FS_CardinalityType
<1>4. Len(hits) \in Nat /\ Limit \in Nat
  BY LenProperties, LimiterAssumption DEF TypeOK
<1>5. ASSUME Appending' = Appending, Len(hits') \in Nat, Len(hits') <= Len(hits)
      PROVE  QueueIsBounded'
  BY <1>2, <1>4, <1>5 DEF QueueIsBounded
<1>6. ASSUME NEW w \in Workers, Call(w) PROVE QueueIsBounded'
  <2>1. Appending' = Appending
    BY <1>6 DEF Call, Go, Appending, TypeOK
  <2> QED
    BY <1>4, <1>5, <1>6, <2>1 DEF Call
<1>7. ASSUME NEW w \in Workers, TestQueue(w) PROVE QueueIsBounded'
  <2>1. Appending' = Appending
    BY <1>7 DEF TestQueue, Go, Appending, TypeOK
  <2> QED
    BY <1>4, <1>5, <1>7, <2>1 DEF TestQueue
<1>8. ASSUME NEW w \in Workers, TestHead(w) PROVE QueueIsBounded'
  <2>1. Appending' = Appending
    BY <1>8 DEF TestHead, Go, Appending, TypeOK
  <2> QED
    BY <1>4, <1>5, <1>8, <2>1 DEF TestHead
<1>9. ASSUME NEW w \in Workers, Pop(w) PROVE QueueIsBounded'
  <2>1. Appending' = Appending
    BY <1>9 DEF Pop, Go, Appending, TypeOK
  <2>2. Len(hits') \in Nat /\ Len(hits') <= Len(hits)
    <3>1. CASE hits = <<>>
      BY <1>4, <1>9, <3>1 DEF Pop
    <3>2. CASE hits # <<>>
      <4>1. Len(Tail(hits)) = Len(hits) - 1 /\ Tail(hits) \in Seq(Nat)
        BY <3>2, HeadTailProperties DEF TypeOK
      <4>2. Len(Tail(hits)) \in Nat
        BY <4>1, LenProperties
      <4> QED
        BY <1>4, <1>9, <3>2, <4>1, <4>2 DEF Pop
    <3> QED
      BY <3>1, <3>2
  <2> QED
    BY <1>5, <2>1, <2>2
<1>10. ASSUME NEW w \in Workers, Count(w) PROVE QueueIsBounded'
  <2>1. hits' = hits
    BY <1>10 DEF Count
  <2>2. CASE Len(hits) >= Limit
    <3>1. Appending' = Appending
      BY <1>10, <2>2 DEF Count, Go, Appending, TypeOK
    <3> QED
      BY <1>4, <1>5, <2>1, <3>1
  <2>3. CASE ~(Len(hits) >= Limit)
    BY <1>2, <1>3, <1>4, <2>1, <2>3 DEF QueueIsBounded
  <2> QED
    BY <2>2, <2>3
<1>11. ASSUME NEW w \in Workers, Add(w) PROVE QueueIsBounded'
  <2>1. Appending' = Appending \ {w} /\ w \in Appending
    BY <1>11 DEF Add, Go, Appending, TypeOK
  <2>2. Cardinality(Appending') = Cardinality(Appending) - 1
    BY <1>2, <2>1, FS_RemoveElement
  <2>3. Len(hits') = Len(hits) + 1
    <3>1. started[w] \in Nat
      BY DEF TypeOK
    <3> QED
      BY <1>11, <3>1, AppendFacts DEF Add, TypeOK
  <2> QED
    BY <1>2, <1>4, <2>2, <2>3 DEF QueueIsBounded
<1>12. CASE Tick
  BY <1>4, <1>5, <1>12 DEF Tick, Appending
<1>13. CASE UNCHANGED vars
  BY <1>4, <1>5, <1>13 DEF vars, Appending
<1> QED
  BY <1>6, <1>7, <1>8, <1>9, <1>10, <1>11, <1>12, <1>13 DEF Next, Step

\* At the start nobody appends, and the limit is not 0.
LEMMA InitQueueIsBounded == Init => QueueIsBounded
<1> SUFFICES ASSUME Init PROVE QueueIsBounded
  OBVIOUS
<1>1. Len(hits) = 0
  BY EmptySeq DEF Init
<1>2. Cardinality(Appending) = 0
  <2>1. Appending = {}
    BY DEF Init, Appending
  <2> QED
    BY <2>1, FS_EmptySet
<1>3. Cardinality(Workers) \in Nat
  BY LimiterAssumption, FS_CardinalityType
<1> QED
  BY <1>1, <1>2, <1>3, LimiterAssumption DEF QueueIsBounded

\* QueueIsBounded: however the threads interleave, the deque of one key holds
\* fewer than the limit and the threads together (rate_limit in routes.py).
THEOREM QueueBounded == Spec => []QueueIsBounded
<1> QED
  BY InitTypeOK, NextTypeOK, InitQueueIsBounded, NextQueueIsBounded, PTL DEF Spec
-----------------------------------------------------------------------------
(***************************************************************************)
(* The deque on the event loop                                             *)
(*                                                                         *)
(* There one call runs at a time, and the deque is exact: it holds the     *)
(* latest of the calls let through, and those it has dropped are out of    *)
(* every window that a call from now on can ask about.                     *)
(***************************************************************************)

\* How many of the calls let through have left the deque.
Gone == Len(allowed) - Len(hits)

HitsAreLast ==
  /\ Gone >= 0
  /\ \A i \in 1..Len(hits) : hits[i] = allowed[i + Gone]

InOrder ==
  /\ \A i, j \in 1..Len(allowed) : i <= j => allowed[i] <= allowed[j]
  /\ \A i \in 1..Len(allowed) : allowed[i] <= clock

GoneAreOld == \A i \in 1..Gone : clock - allowed[i] > Window

WindowsHold == \A t \in Nat : AllowedFrom(t) <= Limit

\* The call under way is the only one, no older than the calls before it, and
\* each test it has passed still holds.
InCall(w) ==
  /\ \A v \in Workers : stage[v] # "idle" => v = w
  /\ started[w] <= clock
  /\ \A i \in 1..Len(allowed) : allowed[i] <= started[w]
  /\ \A i \in 1..Gone : started[w] - allowed[i] > Window
  /\ stage[w] \in {"head", "pop"} => hits # <<>>
  /\ stage[w] = "pop" => Stale(w)
  /\ stage[w] = "count" => hits = <<>> \/ ~Stale(w)
  /\ stage[w] = "append" => Len(hits) < Limit

LoopInv ==
  /\ ~failed
  /\ HitsAreLast /\ InOrder /\ GoneAreOld /\ WindowsHold
  /\ \A w \in Workers : stage[w] # "idle" => InCall(w)

\* The lengths are numbers, and the deque's first entry is what is at hand.
LEMMA DequeFacts ==
  ASSUME TypeOK
  PROVE  /\ Len(hits) \in Nat /\ Len(allowed) \in Nat /\ Gone \in Int
         /\ DOMAIN allowed = 1..Len(allowed)
         /\ \A i \in 1..Len(hits) : hits[i] \in Nat
         /\ \A i \in 1..Len(allowed) : allowed[i] \in Nat
         /\ \A w \in Workers : started[w] \in Nat
         /\ Limit \in Nat \ {0} /\ Window \in Nat /\ clock \in Nat
         /\ hits # <<>> => Len(hits) >= 1 /\ Head(hits) = hits[1]
<1>1. Len(hits) \in Nat /\ Len(allowed) \in Nat /\ DOMAIN allowed = 1..Len(allowed)
  BY LenProperties DEF TypeOK
<1>2. \A i \in 1..Len(hits) : hits[i] \in Nat
  BY ElementOfSeq DEF TypeOK
<1>3. \A i \in 1..Len(allowed) : allowed[i] \in Nat
  BY ElementOfSeq DEF TypeOK
<1>4. hits # <<>> => Len(hits) >= 1
  BY <1>1, EmptySeq DEF TypeOK
<1> QED
  BY <1>1, <1>2, <1>3, <1>4, LimiterAssumption DEF TypeOK, Gone

\* Where a call stands matters to nobody else: a step that only moves it on
\* has to show what it has just tested.
LEMMA MovesOn ==
  ASSUME TypeOK, LoopInv, NEW w \in Workers, stage[w] # "idle",
         UNCHANGED <<hits, started, allowed, failed, clock>>,
         NEW to \in Stages, stage' = [stage EXCEPT ![w] = to],
         to \in {"head", "pop"} => hits # <<>>,
         to = "pop" => Stale(w),
         to = "count" => hits = <<>> \/ ~Stale(w),
         to = "append" => Len(hits) < Limit
  PROVE  LoopInv'
<1>1. InCall(w)
  BY DEF LoopInv
<1>2. ~failed' /\ HitsAreLast' /\ InOrder' /\ GoneAreOld' /\ WindowsHold'
  BY DEF LoopInv, HitsAreLast, InOrder, GoneAreOld, WindowsHold, AllowedFrom, Gone
<1>3. stage'[w] = to /\ \A v \in Workers \ {w} : stage'[v] = stage[v]
  BY DEF TypeOK
<1>4. ASSUME NEW v \in Workers, stage'[v] # "idle" PROVE InCall(v)'
  <2>1. v = w
    BY <1>1, <1>3, <1>4 DEF InCall
  <2>2. \A u \in Workers : stage'[u] # "idle" => u = w
    BY <1>1, <1>3 DEF InCall
  <2>3. Stale(w)' <=> Stale(w)
    BY DEF Stale
  <2> QED
    BY <1>1, <1>3, <2>1, <2>2, <2>3 DEF InCall, Gone
<1> QED
  BY <1>2, <1>4 DEF LoopInv

LEMMA LoopCall ==
  ASSUME TypeOK, LoopInv, endpoint = "loop", NEW w \in Workers, Call(w)
  PROVE  LoopInv'
<1>1. \A v \in Workers : stage[v] = "idle"
  BY DEF Call, MayStart
<1>2. /\ stage' = [stage EXCEPT ![w] = "test"] /\ started' = [started EXCEPT ![w] = clock]
      /\ UNCHANGED <<hits, allowed, failed, clock>>
  BY DEF Call, Go
<1>3. ~failed' /\ HitsAreLast' /\ InOrder' /\ GoneAreOld' /\ WindowsHold'
  BY <1>2 DEF LoopInv, HitsAreLast, InOrder, GoneAreOld, WindowsHold, AllowedFrom, Gone
<1>4. stage'[w] = "test" /\ started'[w] = clock /\ \A v \in Workers \ {w} : stage'[v] = "idle"
  BY <1>1, <1>2 DEF TypeOK
<1>5. InCall(w)'
  BY <1>2, <1>4, DequeFacts DEF InCall, LoopInv, InOrder, GoneAreOld, Gone
<1> QED
  BY <1>3, <1>4, <1>5 DEF LoopInv

LEMMA LoopTestQueue ==
  ASSUME TypeOK, LoopInv, NEW w \in Workers, TestQueue(w)
  PROVE  LoopInv'
<1>1. CASE hits = <<>>
  BY <1>1, MovesOn DEF TestQueue, Go, Stages
<1>2. CASE hits # <<>>
  BY <1>2, MovesOn DEF TestQueue, Go, Stages
<1> QED
  BY <1>1, <1>2

LEMMA LoopTestHead ==
  ASSUME TypeOK, LoopInv, NEW w \in Workers, TestHead(w)
  PROVE  LoopInv'
<1>1. hits # <<>>
  <2>1. stage[w] = "head"
    BY DEF TestHead, Go
  <2> QED
    BY <2>1 DEF LoopInv, InCall
<1>2. CASE Stale(w)
  BY <1>1, <1>2, MovesOn DEF TestHead, Go, Stages
<1>3. CASE ~Stale(w)
  BY <1>1, <1>3, MovesOn DEF TestHead, Go, Stages
<1> QED
  BY <1>2, <1>3

LEMMA LoopCount ==
  ASSUME TypeOK, LoopInv, NEW w \in Workers, Count(w)
  PROVE  LoopInv'
<1>1. CASE Len(hits) >= Limit
  BY <1>1, MovesOn DEF Count, Go, Stages
<1>2. CASE ~(Len(hits) >= Limit)
  <2>1. Len(hits) < Limit
    BY <1>2, DequeFacts
  <2> QED
    BY <1>2, <2>1, MovesOn DEF Count, Go, Stages
<1> QED
  BY <1>1, <1>2

\* What the call drops is out of the window, and stays out.
LEMMA LoopPop ==
  ASSUME TypeOK, LoopInv, NEW w \in Workers, Pop(w)
  PROVE  LoopInv'
<1> USE DequeFacts
<1>1. stage[w] = "pop" /\ InCall(w)
  BY DEF Pop, Go, LoopInv
<1>2. hits # <<>> /\ started[w] - hits[1] > Window
  BY <1>1 DEF InCall, Stale
<1>3. /\ hits' = Tail(hits) /\ stage' = [stage EXCEPT ![w] = "test"]
      /\ UNCHANGED <<started, allowed, failed, clock>>
  BY <1>2 DEF Pop, Go
<1>4. /\ Len(hits') = Len(hits) - 1
      /\ \A i \in 1..(Len(hits) - 1) : hits'[i] = hits[i + 1]
  BY <1>2, <1>3, HeadTailProperties DEF TypeOK
<1>5. Gone' = Gone + 1
  <2>1. Len(allowed') = Len(allowed) /\ Len(allowed) \in Int /\ Len(hits) \in Int
    BY <1>3
  <2> QED
    BY <1>4, <2>1 DEF Gone
<1>6. Gone >= 0 /\ \A i \in 1..Len(hits) : hits[i] = allowed[i + Gone]
  BY DEF LoopInv, HitsAreLast
<1>7. HitsAreLast'
  <2>1. ASSUME NEW i \in 1..(Len(hits) - 1) PROVE hits'[i] = allowed[i + (Gone + 1)]
    <3>1. hits[i + 1] = allowed[(i + 1) + Gone]
      BY <1>6
    <3>2. (i + 1) + Gone = i + (Gone + 1)
      OBVIOUS
    <3> QED
      BY <1>4, <3>1, <3>2
  <2>2. Gone + 1 >= 0 /\ allowed' = allowed
    BY <1>3, <1>6
  <2> QED
    BY <1>4, <1>5, <2>1, <2>2 DEF HitsAreLast
<1>8. \A i \in 1..(Gone + 1) : started[w] - allowed[i] > Window
  <2>1. hits[1] = allowed[Gone + 1]
    BY <1>2, <1>6
  <2>2. \A i \in 1..Gone : started[w] - allowed[i] > Window
    BY <1>1 DEF InCall
  <2> QED
    BY <1>2, <1>6, <2>1, <2>2
<1>9. \A i \in 1..(Gone + 1) : i \in 1..Len(allowed)
  BY <1>2, <1>6 DEF Gone
<1>10. GoneAreOld'
  <2>1. started[w] <= clock
    BY <1>1 DEF InCall
  <2> QED
    BY <1>3, <1>5, <1>8, <1>9, <2>1 DEF GoneAreOld
<1>11. ~failed' /\ InOrder' /\ WindowsHold'
  BY <1>3 DEF LoopInv, InOrder, WindowsHold, AllowedFrom
<1>12. stage'[w] = "test" /\ \A v \in Workers \ {w} : stage'[v] = stage[v]
  BY <1>3 DEF TypeOK
<1>13. InCall(w)'
  BY <1>1, <1>3, <1>5, <1>8, <1>12 DEF InCall
<1>14. \A v \in Workers : stage'[v] # "idle" => v = w
  BY <1>1, <1>12 DEF InCall
<1> QED
  BY <1>7, <1>10, <1>11, <1>13, <1>14 DEF LoopInv

\* A window that the new call falls into starts after all that has left the
\* deque: with the call, it holds no more than the deque does.
LEMMA LoopAdd ==
  ASSUME TypeOK, LoopInv, NEW w \in Workers, Add(w)
  PROVE  LoopInv'
<1> USE DequeFacts
<1>1. stage[w] = "append" /\ InCall(w)
  BY DEF Add, Go, LoopInv
<1> DEFINE now == started[w]
<1>2. /\ hits' = Append(hits, now) /\ allowed' = Append(allowed, now)
      /\ stage' = [stage EXCEPT ![w] = "idle"]
      /\ UNCHANGED <<started, failed, clock>>
  BY DEF Add, Go
<1>3. /\ Len(hits') = Len(hits) + 1 /\ hits'[Len(hits) + 1] = now
      /\ \A i \in 1..Len(hits) : hits'[i] = hits[i]
  <2>1. now \in Nat /\ hits \in Seq(Nat)
    BY DEF TypeOK
  <2> QED
    BY <1>2, <2>1, AppendFacts
<1>4. /\ Len(allowed') = Len(allowed) + 1 /\ allowed'[Len(allowed) + 1] = now
      /\ DOMAIN allowed' = 1..(Len(allowed) + 1)
      /\ \A i \in 1..Len(allowed) : allowed'[i] = allowed[i]
  <2>1. now \in Nat /\ allowed \in Seq(Nat)
    BY DEF TypeOK
  <2> QED
    BY <1>2, <2>1, AppendFacts
<1>5. Gone' = Gone /\ Gone >= 0 /\ Gone <= Len(allowed)
  BY <1>3, <1>4 DEF Gone, LoopInv, HitsAreLast
<1>6. HitsAreLast'
  <2>1. ASSUME NEW i \in 1..(Len(hits) + 1) PROVE hits'[i] = allowed'[i + Gone]
    <3>1. CASE i = Len(hits) + 1
      BY <1>3, <1>4, <3>1 DEF Gone
    <3>2. CASE i \in 1..Len(hits)
      <4>1. hits[i] = allowed[i + Gone]
        BY <3>2 DEF LoopInv, HitsAreLast
      <4>2. i + Gone \in 1..Len(allowed)
        BY <1>5, <3>2 DEF Gone
      <4> QED
        BY <1>3, <1>4, <3>2, <4>1, <4>2
    <3> QED
      BY <3>1, <3>2
  <2> QED
    BY <1>3, <1>5, <2>1 DEF HitsAreLast
<1>7. now <= clock /\ now \in Nat /\ \A i \in 1..Len(allowed) : allowed[i] <= now
  BY <1>1 DEF InCall
<1>8. InOrder'
  <2>1. ASSUME NEW i \in 1..(Len(allowed) + 1) PROVE allowed'[i] <= clock
    BY <1>4, <1>7, <2>1 DEF LoopInv, InOrder
  <2>2. ASSUME NEW i \in 1..(Len(allowed) + 1), NEW j \in 1..(Len(allowed) + 1), i <= j
        PROVE  allowed'[i] <= allowed'[j]
    <3>1. CASE j = Len(allowed) + 1
      BY <1>4, <1>7, <3>1
    <3>2. CASE j \in 1..Len(allowed)
      <4>1. i \in 1..Len(allowed)
        BY <2>2, <3>2
      <4>2. allowed[i] <= allowed[j]
        BY <2>2, <3>2, <4>1 DEF LoopInv, InOrder
      <4> QED
        BY <1>4, <3>2, <4>1, <4>2
    <3>3. j = Len(allowed) + 1 \/ j \in 1..Len(allowed)
      BY <2>2
    <3> QED
      BY <3>1, <3>2, <3>3
  <2>3. Len(allowed') = Len(allowed) + 1 /\ clock' = clock
    BY <1>2, <1>4
  <2> QED
    BY <2>1, <2>2, <2>3 DEF InOrder
<1>9. GoneAreOld'
  BY <1>2, <1>4, <1>5 DEF GoneAreOld, LoopInv
<1>10. WindowsHold'
  <2> SUFFICES ASSUME NEW t \in Nat PROVE AllowedFrom(t)' <= Limit
    BY DEF WindowsHold
  <2> DEFINE within == {i \in 1..(Len(allowed) + 1) : allowed'[i] \in t..(t + Window)}
  <2>1. AllowedFrom(t)' = Cardinality(within)
    BY <1>4 DEF AllowedFrom
  <2>2. CASE now \in t..(t + Window)
    <3>1. \A i \in 1..Gone : allowed'[i] < t
      <4> SUFFICES ASSUME NEW i \in 1..Gone PROVE allowed'[i] < t
        OBVIOUS
      <4>1. now - allowed[i] > Window /\ i \in 1..Len(allowed)
        BY <1>1, <1>5 DEF InCall
      <4> QED
        BY <1>4, <2>2, <4>1
    <3>2. within \subseteq (Gone + 1)..(Len(allowed) + 1)
      <4> SUFFICES ASSUME NEW i \in within PROVE i \in (Gone + 1)..(Len(allowed) + 1)
        OBVIOUS
      <4>1. i \in 1..(Len(allowed) + 1) /\ ~(allowed'[i] < t)
        <5>1. allowed'[i] \in t..(t + Window) /\ i \in 1..(Len(allowed) + 1)
          OBVIOUS
        <5> QED
          BY <5>1
      <4>2. i \notin 1..Gone
        BY <3>1, <4>1
      <4> QED
        BY <1>5, <4>1, <4>2
    <3>3. Cardinality(within) <= Len(allowed) + 1 - Gone /\ Cardinality(within) \in Nat
      <4>1. Gone \in Nat /\ Len(allowed) + 1 \in Nat /\ Gone <= Len(allowed) + 1
        BY <1>5
      <4> HIDE DEF within
      <4>2. Cardinality(within) \in Nat /\ Cardinality(within) <= (Len(allowed) + 1) - Gone
        BY <3>2, <4>1, PartOfStretch
      <4> QED
        BY <4>2
    <3>4. Len(hits) + 1 <= Limit
      BY <1>1 DEF InCall
    <3> HIDE DEF within
    <3> QED
      BY <2>1, <3>3, <3>4 DEF Gone
  <2>3. CASE now \notin t..(t + Window)
    <3>1. within = {i \in DOMAIN allowed : allowed[i] \in t..(t + Window)}
      <4>1. \A i \in 1..(Len(allowed) + 1) : i \in 1..Len(allowed) \/ i = Len(allowed) + 1
        OBVIOUS
      <4>2. \A i \in 1..Len(allowed) : i \in 1..(Len(allowed) + 1)
        OBVIOUS
      <4> QED
        BY <1>4, <2>3, <4>1, <4>2
    <3> QED
      BY <2>1, <3>1 DEF AllowedFrom, LoopInv, WindowsHold
  <2> QED
    BY <2>2, <2>3
<1>11. \A v \in Workers : stage'[v] = "idle"
  BY <1>1, <1>2 DEF InCall, TypeOK
<1> QED
  BY <1>2, <1>6, <1>8, <1>9, <1>10, <1>11 DEF LoopInv

\* Time makes nothing younger.
LEMMA LoopTick ==
  ASSUME TypeOK, LoopInv, Tick
  PROVE  LoopInv'
<1> USE DequeFacts
<1>1. clock' = clock + 1 /\ UNCHANGED <<hits, stage, started, allowed, failed>>
  BY DEF Tick
<1>2. ~failed' /\ HitsAreLast' /\ WindowsHold'
  BY <1>1 DEF LoopInv, HitsAreLast, WindowsHold, AllowedFrom, Gone
<1>3. InOrder'
  BY <1>1 DEF LoopInv, InOrder
<1>4. GoneAreOld'
  <2>1. \A i \in 1..Gone : i \in 1..Len(allowed)
    BY DEF Gone
  <2> QED
    BY <1>1, <2>1 DEF LoopInv, GoneAreOld, Gone
<1>5. ASSUME NEW w \in Workers, stage'[w] # "idle" PROVE InCall(w)'
  <2>1. InCall(w)
    BY <1>1, <1>5 DEF LoopInv
  <2>2. Stale(w)' <=> Stale(w)
    BY <1>1 DEF Stale
  <2> QED
    BY <1>1, <2>1, <2>2 DEF InCall, Gone
<1> QED
  BY <1>2, <1>3, <1>4, <1>5 DEF LoopInv

OnLoop == endpoint = "loop" => LoopInv

LEMMA InitOnLoop == Init => OnLoop
<1> SUFFICES ASSUME Init PROVE LoopInv
  BY DEF OnLoop
<1>1. Len(hits) = 0 /\ Len(allowed) = 0 /\ DOMAIN allowed = {}
  BY EmptySeq DEF Init
<1>2. \A t \in Nat : AllowedFrom(t) = 0
  <2> SUFFICES ASSUME NEW t \in Nat PROVE AllowedFrom(t) = 0
    OBVIOUS
  <2>1. {i \in DOMAIN allowed : allowed[i] \in t..(t + Window)} = {}
    BY <1>1
  <2> QED
    BY <2>1, FS_EmptySet DEF AllowedFrom
<1>3. WindowsHold
  BY <1>2, LimiterAssumption DEF WindowsHold
<1> QED
  BY <1>1, <1>3 DEF Init, LoopInv, HitsAreLast, InOrder, GoneAreOld, Gone

LEMMA NextOnLoop == TypeOK /\ OnLoop /\ [Next]_vars => OnLoop'
<1> SUFFICES ASSUME TypeOK, OnLoop, [Next]_vars, endpoint' = "loop" PROVE LoopInv'
  BY DEF OnLoop
<1>1. endpoint = "loop"
  BY DEF Next, Call, Step, TestQueue, TestHead, Pop, Count, Add, Tick, vars
<1>2. LoopInv
  BY <1>1 DEF OnLoop
<1>3. ASSUME NEW w \in Workers, Call(w) \/ Step(w) PROVE LoopInv'
  BY <1>1, <1>2, <1>3, LoopCall, LoopTestQueue, LoopTestHead, LoopPop, LoopCount, LoopAdd
     DEF Step
<1>4. CASE Tick
  BY <1>2, <1>4, LoopTick
<1>5. CASE UNCHANGED vars
  <2>1. \A w \in Workers : InCall(w)' <=> InCall(w)
    BY <1>5 DEF vars, InCall, Gone, Stale
  <2> QED
    BY <1>2, <1>5, <2>1
       DEF vars, LoopInv, HitsAreLast, InOrder, GoneAreOld, WindowsHold, AllowedFrom, Gone
<1> QED
  BY <1>3, <1>4, <1>5 DEF Next

\* LoopWithinLimit: on the event loop no window of window_s seconds holds more
\* calls let through than the limit, whatever their times, and no call ends in
\* an IndexError (/fdc/prepare in routes.py, /contact in fc_support.py).
THEOREM LoopKeepsLimit == Spec => []LoopWithinLimit
<1>1. TypeOK /\ OnLoop => LoopWithinLimit
  <2> SUFFICES ASSUME TypeOK, LoopInv PROVE WithinLimit /\ ~failed
    BY DEF OnLoop, LoopWithinLimit
  <2>1. \A t \in 0..clock : t \in Nat
    BY DEF TypeOK
  <2> QED
    BY <2>1 DEF LoopInv, WindowsHold, WithinLimit
<1> QED
  BY <1>1, InitTypeOK, NextTypeOK, InitOnLoop, NextOnLoop, PTL DEF Spec

-----------------------------------------------------------------------------
(***************************************************************************)
(* What is decided on the deque is what the whole history decides          *)
(***************************************************************************)

\* The calls let through that fall into the window of w's call.
RecentFor(w) == {i \in DOMAIN allowed : started[w] - allowed[i] <= Window}

LEMMA RecentFinite ==
  ASSUME TypeOK, NEW w \in Workers
  PROVE  IsFiniteSet(RecentFor(w)) /\ Cardinality(RecentFor(w)) \in Nat
<1>1. RecentFor(w) \subseteq (0 + 1)..Len(allowed)
  BY DequeFacts DEF RecentFor
<1>2. 0 \in Nat /\ Len(allowed) \in Nat /\ 0 <= Len(allowed)
  BY DequeFacts
<1> QED
  BY <1>1, <1>2, PartOfStretch

\* A call that finds the deque full has had that many before it in its window:
\* the first entry, not stale, is the oldest.
LEMMA RefusedWasFull ==
  ASSUME TypeOK, LoopInv, NEW w \in Workers, stage[w] = "count", Len(hits) >= Limit
  PROVE  Cardinality(RecentFor(w)) >= Limit
<1> USE DequeFacts
<1>1. InCall(w)
  BY DEF LoopInv
<1>2. hits # <<>> /\ started[w] - hits[1] <= Window
  <2>1. Len(hits) # 0
    OBVIOUS
  <2>2. hits # <<>>
    BY <2>1, EmptySeq
  <2>3. ~Stale(w)
    BY <1>1, <2>2 DEF InCall
  <2> QED
    BY <2>2, <2>3 DEF Stale
<1>3. Gone \in Nat /\ Gone + 1 \in 1..Len(allowed) /\ hits[1] = allowed[Gone + 1]
  BY <1>2 DEF LoopInv, HitsAreLast, Gone
<1>4. (Gone + 1)..Len(allowed) \subseteq RecentFor(w)
  <2> SUFFICES ASSUME NEW i \in (Gone + 1)..Len(allowed)
               PROVE  started[w] - allowed[i] <= Window /\ i \in 1..Len(allowed)
    BY DEF RecentFor
  <2>1. i \in 1..Len(allowed) /\ allowed[Gone + 1] <= allowed[i]
    BY <1>3 DEF LoopInv, InOrder
  <2> QED
    BY <1>2, <1>3, <2>1
<1>5. Cardinality((Gone + 1)..Len(allowed)) <= Cardinality(RecentFor(w))
  BY <1>4, RecentFinite, FS_Subset
<1>6. Cardinality((Gone + 1)..Len(allowed)) = Len(hits)
  <2>1. Cardinality((Gone + 1)..Len(allowed))
          = IF Gone + 1 > Len(allowed) THEN 0 ELSE Len(allowed) - (Gone + 1) + 1
    <3>1. Gone + 1 \in Int /\ Len(allowed) \in Int
      BY <1>3
    <3> QED
      BY <3>1, FS_Interval
  <2> QED
    BY <1>3, <2>1 DEF Gone
<1> QED
  BY <1>5, <1>6, RecentFinite

\* A call that finds room in the deque has had fewer than the limit before it:
\* what the deque has dropped is out of its window.
LEMMA AllowedHadRoom ==
  ASSUME TypeOK, LoopInv, NEW w \in Workers, stage[w] = "append"
  PROVE  Cardinality(RecentFor(w)) < Limit
<1> USE DequeFacts
<1>1. InCall(w) /\ Len(hits) < Limit
  BY DEF LoopInv, InCall
<1>2. Gone \in Nat /\ Gone <= Len(allowed)
  BY DEF LoopInv, HitsAreLast, Gone
<1>3. RecentFor(w) \subseteq (Gone + 1)..Len(allowed)
  <2> SUFFICES ASSUME NEW i \in 1..Len(allowed), started[w] - allowed[i] <= Window
               PROVE  i \in (Gone + 1)..Len(allowed)
    BY DEF RecentFor
  <2>1. i \notin 1..Gone
    BY <1>1 DEF InCall
  <2> QED
    BY <1>2, <2>1
<1>4. Cardinality(RecentFor(w)) <= Len(allowed) - Gone
  BY <1>2, <1>3, PartOfStretch
<1> QED
  BY <1>1, <1>4, RecentFinite DEF Gone

\* The window counts as the limiter does.
LEMMA SameCount == \A S : Promise!Cardinality(S) = Cardinality(S)
BY DEF Promise!Cardinality, Cardinality

\* What a caller has asked, when its worker moves on or ends.
LEMMA AskedMoves ==
  ASSUME TypeOK, NEW w \in Workers, stage[w] # "idle", NEW to \in Stages,
         stage' = [stage EXCEPT ![w] = to], started' = started
  PROVE  /\ Asked[w] = started[w] /\ Asked[w] # -1
         /\ to = "idle" => Asked' = [Asked EXCEPT ![w] = -1]
         /\ to # "idle" => Asked' = Asked
<1>1. stage'[w] = to /\ \A v \in Workers \ {w} : stage'[v] = stage[v]
  BY DEF TypeOK
<1>2. Asked[w] = started[w] /\ started[w] \in Nat
  BY DEF Asked, TypeOK
<1>3. ASSUME to = "idle" PROVE Asked' = [Asked EXCEPT ![w] = -1]
  BY <1>1, <1>3 DEF Asked
<1>4. ASSUME to # "idle" PROVE Asked' = Asked
  BY <1>1, <1>4 DEF Asked
<1> QED
  BY <1>2, <1>3, <1>4

\* Each step of a call is the decision, or nothing that matters.
LEMMA WindowCall ==
  ASSUME TypeOK, NEW w \in Workers, Call(w)
  PROVE  Promise!Ask(w)
<1>1. /\ stage[w] = "idle" /\ stage' = [stage EXCEPT ![w] = "test"]
      /\ started' = [started EXCEPT ![w] = clock]
      /\ UNCHANGED <<endpoint, allowed, failed, clock>>
      /\ endpoint = "loop" => \A v \in Workers : stage[v] = "idle"
  BY DEF Call, Go, MayStart
<1>2. Asked' = [Asked EXCEPT ![w] = clock]
  BY <1>1 DEF Asked, TypeOK
<1>3. \A v \in Workers : stage[v] = "idle" => Asked[v] = -1
  BY DEF Asked
<1> QED
  BY <1>1, <1>2, <1>3 DEF Promise!Ask, Promise!OnLoop, Promise!Asks, Promise!NoCall

LEMMA WindowStep ==
  ASSUME TypeOK, OnLoop, NEW w \in Workers, Step(w)
  PROVE  [Promise!Next]_(Promise!windowVars)
<1> USE DEF Promise!OnLoop, Promise!Asks, Promise!NoCall, Stages
<1>1. stage[w] # "idle" /\ UNCHANGED <<endpoint, started, clock>>
  BY DEF Step, TestQueue, TestHead, Pop, Count, Add, Go
<1>2. PICK to \in Stages : stage' = [stage EXCEPT ![w] = to]
  BY DEF Step, TestQueue, TestHead, Pop, Count, Add, Go
<1>3. /\ Asked[w] = started[w] /\ Asked[w] # -1
      /\ to = "idle" => Asked' = [Asked EXCEPT ![w] = -1]
      /\ to # "idle" => Asked' = Asked
  BY <1>1, <1>2, AskedMoves
<1>4. /\ Promise!Recent(Asked[w]) = RecentFor(w)
      /\ Promise!Cardinality(Promise!Recent(Asked[w])) = Cardinality(RecentFor(w))
  BY <1>3, SameCount DEF Promise!Recent, RecentFor
<1>5. stage'[w] = to
  BY <1>2 DEF TypeOK
<1>6. CASE to # "idle"
  <2>1. UNCHANGED <<allowed, failed>>
    BY <1>5, <1>6 DEF Step, TestQueue, TestHead, Pop, Count, Add, Go, TypeOK
  <2> QED
    BY <1>1, <1>3, <1>6, <2>1 DEF Promise!windowVars
<1>7. CASE to = "idle" /\ Add(w)
  <2>1. stage[w] = "append" /\ allowed' = Append(allowed, started[w]) /\ failed' = failed
    BY <1>7 DEF Add, Go
  <2>2. endpoint = "loop" => Promise!Cardinality(Promise!Recent(Asked[w])) < Limit
    BY <1>4, <2>1, AllowedHadRoom DEF OnLoop
  <2>3. Promise!Allow(w)
    BY <1>1, <1>3, <1>7, <2>1, <2>2 DEF Promise!Allow
  <2> QED
    BY <2>3 DEF Promise!Next
<1>8. CASE to = "idle" /\ Count(w)
  <2>1. stage[w] = "count" /\ Len(hits) >= Limit /\ UNCHANGED <<allowed, failed>>
    BY <1>5, <1>8 DEF Count, Go, TypeOK
  <2>2. endpoint = "loop" => Promise!Cardinality(Promise!Recent(Asked[w])) >= Limit
    BY <1>4, <2>1, RefusedWasFull DEF OnLoop
  <2>3. Promise!Refuse(w)
    BY <1>1, <1>3, <1>8, <2>1, <2>2 DEF Promise!Refuse
  <2> QED
    BY <2>3 DEF Promise!Next
<1>9. CASE to = "idle" /\ (TestHead(w) \/ Pop(w))
  <2>1. stage[w] \in {"head", "pop"} /\ hits = <<>> /\ failed' = TRUE /\ allowed' = allowed
    BY <1>5, <1>9 DEF TestHead, Pop, Go, TypeOK
  <2>2. endpoint # "loop"
    BY <1>1, <2>1 DEF OnLoop, LoopInv, InCall
  <2>3. Promise!Fail(w)
    BY <1>1, <1>3, <1>9, <2>1, <2>2 DEF Promise!Fail
  <2> QED
    BY <2>3 DEF Promise!Next
<1>10. ~(to = "idle" /\ TestQueue(w))
  BY <1>5 DEF TestQueue, Go, TypeOK
<1> QED
  BY <1>6, <1>7, <1>8, <1>9, <1>10 DEF Step

\* ImplementsSlidingWindow: the tests, the purge and the count of rate_limit
\* come to one decision, that of the whole history of calls let through; on
\* the event loop it is exact, for any limit, window and times of the calls.
THEOREM LimiterImplementsWindow == Spec => ImplementsSlidingWindow
<1>1. Init => Promise!Init
  BY DEF Init, Promise!Init, Promise!NoCall, Asked
<1>2. TypeOK /\ OnLoop /\ [Next]_vars => [Promise!Next]_(Promise!windowVars)
  <2> SUFFICES ASSUME TypeOK, OnLoop, [Next]_vars
               PROVE  [Promise!Next]_(Promise!windowVars)
    OBVIOUS
  <2>1. ASSUME NEW w \in Workers, Call(w) PROVE Promise!Next
    BY <2>1, WindowCall DEF Promise!Next
  <2>2. CASE Tick
    BY <2>2 DEF Tick, Asked, Promise!Next, Promise!Tick
  <2>3. CASE UNCHANGED vars
    BY <2>3 DEF vars, Asked, Promise!windowVars
  <2> QED
    BY <2>1, <2>2, <2>3, WindowStep DEF Next
<1>3. Spec => [](TypeOK /\ OnLoop)
  BY InitTypeOK, NextTypeOK, InitOnLoop, NextOnLoop, PTL DEF Spec
<1> QED
  BY <1>1, <1>2, <1>3, PTL DEF Spec, Promise!Spec, ImplementsSlidingWindow
-----------------------------------------------------------------------------
(***************************************************************************)
(* The form                                                                *)
(***************************************************************************)

FormTypeOK ==
  /\ configured \in BOOLEAN
  /\ bot \in [Workers -> BOOLEAN]
  /\ mail \in [Workers -> {"none", "team", "reply"}]
  /\ inbox \in Seq(Workers)
  /\ told \in [Workers -> {"nothing", "error", "ok"}]

\* The requests whose mail to the team is under way.
ToTeam == {w \in Workers : mail[w] = "team"}

\* Where a visitor's message is, at each point of the handler.
Handled(w) ==
  /\ endpoint = "loop" /\ stage[w] # "idle" => ~bot[w] /\ mail[w] = "none"
  /\ mail[w] # "none" => endpoint = "loop" /\ ~bot[w]
  /\ mail[w] = "reply" => w \in Range(inbox)
  /\ bot[w] => w \notin Range(inbox)
  /\ told[w] = "ok" /\ ~bot[w] => w \in Range(inbox)

\* A mail under way to the team was allowed, and so were those that are there.
MailsAreCounted == Len(inbox) + Cardinality(ToTeam) <= Len(allowed)

FormInv == FormTypeOK /\ (\A w \in Workers : Handled(w)) /\ MailsAreCounted

\* A step of the form is a step of the limiter, or none.
LEMMA FormStepIsLimiterStep == [FormNext]_<<vars, formVars>> => [Next]_vars
BY DEF FormNext, Honeypot, NotConfigured, Contact, Limited, Mail, Next, vars

\* SupportForm's FormSpec implements the limiter alone: the handler calls
\* _rate_limit and touches its deque in no other way.
THEOREM FormImplementsLimiter == FormSpec => Spec
<1>1. FormInit => Init
  BY DEF FormInit
<1> QED
  BY <1>1, FormStepIsLimiterStep, PTL DEF FormSpec, Spec

\* The same of the form's limiter, called before any mail is sent.
THEOREM FormKeepsWindow == FormSpec => ImplementsSlidingWindow
BY FormImplementsLimiter, LimiterImplementsWindow, PTL

\* The first mail is under way for as long as its request awaits it.
LEMMA ToTeamFinite ==
  /\ IsFiniteSet(ToTeam) /\ Cardinality(ToTeam) \in Nat
  /\ IsFiniteSet(ToTeam') /\ Cardinality(ToTeam') \in Nat
<1>1. ToTeam \subseteq Workers /\ ToTeam' \subseteq Workers
  BY DEF ToTeam
<1> QED
  BY <1>1, LimiterAssumption, FS_Subset, FS_CardinalityType

LEMMA InitFormInv == FormInit => FormInv
<1> SUFFICES ASSUME FormInit PROVE FormInv
  OBVIOUS
<1>1. inbox = <<>> /\ allowed = <<>> /\ \A w \in Workers : mail[w] = "none"
  BY DEF FormInit, Init
<1>2. Len(inbox) = 0 /\ Len(allowed) = 0 /\ inbox \in Seq(Workers) /\ Range(inbox) = {}
  <2>1. Len(inbox) = 0 /\ Len(allowed) = 0 /\ inbox \in Seq(Workers)
    BY <1>1, EmptySeq
  <2>2. DOMAIN inbox = {}
    BY <2>1, LenProperties
  <2> QED
    BY <2>1, <2>2 DEF Range
<1>3. Cardinality(ToTeam) = 0
  <2>1. ToTeam = {}
    BY <1>1 DEF ToTeam
  <2> QED
    BY <2>1, FS_EmptySet
<1>4. FormTypeOK
  BY <1>2 DEF FormInit, FormTypeOK
<1>5. MailsAreCounted
  BY <1>2, <1>3 DEF MailsAreCounted
<1>6. \A w \in Workers : Handled(w)
  BY <1>2 DEF FormInit, Init, Handled
<1> QED
  BY <1>4, <1>5, <1>6 DEF FormInv

\* The form answers at once, and no mail is sent.
LEMMA AnsweredAtOnce ==
  ASSUME TypeOK, FormInv, NEW w \in Workers, Honeypot(w) \/ NotConfigured(w)
  PROVE  FormInv'
<1>1. UNCHANGED <<configured, bot, mail, inbox, endpoint, stage, allowed>>
  BY DEF Honeypot, NotConfigured, vars
<1>2. FormTypeOK'
  BY <1>1 DEF FormInv, FormTypeOK, Honeypot, NotConfigured, Tell
<1>3. MailsAreCounted'
  BY <1>1 DEF FormInv, MailsAreCounted, ToTeam
<1>4. ASSUME NEW v \in Workers PROVE Handled(v)'
  <2>1. told'[v] = "ok" /\ ~bot[v] => told[v] = "ok"
    BY DEF Honeypot, NotConfigured, Tell, FormInv, FormTypeOK
  <2> QED
    BY <1>1, <2>1 DEF FormInv, Handled
<1> QED
  BY <1>2, <1>3, <1>4 DEF FormInv

\* A call is made for a visitor who is no bot and awaits no mail.
LEMMA ContactKeeps ==
  ASSUME TypeOK, FormInv, NEW w \in Workers, Contact(w)
  PROVE  FormInv'
<1>1. UNCHANGED <<configured, bot, mail, inbox, told, endpoint, allowed>>
  BY DEF Contact, Call, formVars
<1>2. FormTypeOK'
  BY <1>1 DEF FormInv, FormTypeOK
<1>3. MailsAreCounted'
  BY <1>1 DEF FormInv, MailsAreCounted, ToTeam
<1>4. ASSUME NEW v \in Workers PROVE Handled(v)'
  <2>1. v # w => stage'[v] = stage[v]
    BY DEF Contact, Call, Go, TypeOK
  <2>2. endpoint = "loop" /\ v = w => ~bot[v] /\ mail[v] = "none"
    BY DEF Contact, MaySend
  <2>3. Handled(v)
    BY DEF FormInv
  <2> QED
    BY <1>1, <2>1, <2>2, <2>3 DEF Handled
<1> QED
  BY <1>2, <1>3, <1>4 DEF FormInv

\* A request awaits its first mail from the step that records the call on.
LEMMA LimitedKeeps ==
  ASSUME TypeOK, FormInv, NEW w \in Workers, Limited(w)
  PROVE  FormInv'
<1>1. UNCHANGED <<configured, bot, inbox, endpoint>>
  BY DEF Limited, Step, TestQueue, TestHead, Pop, Count, Add
<1>2. stage[w] # "idle" /\ \A v \in Workers : v # w => stage'[v] = stage[v]
  BY DEF Limited, Step, TestQueue, TestHead, Pop, Count, Add, Go, TypeOK
<1>3. \A v \in Workers : told'[v] = "ok" => told[v] = "ok"
  BY DEF Limited, FormInv, FormTypeOK
<1>4. ASSUME endpoint = "loop", stage[w] = "append"
      PROVE  FormTypeOK' /\ MailsAreCounted' /\ \A v \in Workers : Handled(v)'
  <2>1. Add(w)
    BY <1>4 DEF Limited, Step, TestQueue, TestHead, Pop, Count, Go
  <2>2. mail' = [mail EXCEPT ![w] = "team"] /\ told' = told
    BY <1>4 DEF Limited
  <2>3. mail[w] = "none" /\ ~bot[w]
    BY <1>4 DEF FormInv, Handled
  <2>4. Len(allowed') = Len(allowed) + 1 /\ Len(allowed) \in Nat
    <3>1. started[w] \in Nat /\ allowed \in Seq(Nat)
      BY DEF TypeOK
    <3> QED
      BY <2>1, <3>1, AppendFacts, LenProperties DEF Add
  <2>5. Cardinality(ToTeam') <= Cardinality(ToTeam) + 1
    <3>1. ToTeam' \subseteq ToTeam \cup {w}
      BY <2>2 DEF ToTeam, FormInv, FormTypeOK
    <3> QED
      BY <3>1, ToTeamFinite, OneMore
  <2>6. Len(inbox) \in Nat
    BY LenProperties DEF FormInv, FormTypeOK
  <2>7. MailsAreCounted'
    BY <1>1, <2>4, <2>5, <2>6, ToTeamFinite DEF FormInv, MailsAreCounted
  <2>8. FormTypeOK'
    BY <1>1, <2>2 DEF FormInv, FormTypeOK
  <2>9. ASSUME NEW v \in Workers PROVE Handled(v)'
    <3>1. stage'[w] = "idle"
      BY <2>1 DEF Add, Go, TypeOK
    <3>2. mail'[w] = "team" /\ (v # w => mail'[v] = mail[v])
      BY <2>2 DEF FormInv, FormTypeOK
    <3>3. Handled(v)
      BY DEF FormInv
    <3> QED
      BY <1>1, <1>2, <1>4, <2>2, <2>3, <3>1, <3>2, <3>3 DEF Handled
  <2> QED
    BY <2>7, <2>8, <2>9
<1>5. ASSUME ~(endpoint = "loop" /\ stage[w] = "append")
      PROVE  FormTypeOK' /\ MailsAreCounted' /\ \A v \in Workers : Handled(v)'
  <2>1. mail' = mail
    BY <1>5 DEF Limited
  <2>2. FormTypeOK'
    BY <1>1, <2>1 DEF Limited, FormInv, FormTypeOK
  <2>3. Len(allowed) \in Nat /\ Len(allowed') \in Nat /\ Len(allowed') >= Len(allowed)
    <3>1. CASE allowed' = allowed
      BY <3>1, LenProperties DEF TypeOK
    <3>2. CASE Add(w)
      <4>1. started[w] \in Nat /\ allowed \in Seq(Nat)
        BY DEF TypeOK
      <4>2. Len(allowed) \in Nat /\ Len(allowed') = Len(allowed) + 1
        BY <3>2, <4>1, AppendFacts, LenProperties DEF Add
      <4> QED
        BY <4>2
    <3> QED
      BY <3>1, <3>2 DEF Limited, Step, TestQueue, TestHead, Pop, Count
  <2>4. Len(inbox) \in Nat
    BY LenProperties DEF FormInv, FormTypeOK
  <2>5. MailsAreCounted'
    <3>1. ToTeam' = ToTeam
      BY <2>1 DEF ToTeam
    <3> QED
      BY <1>1, <2>3, <2>4, <3>1, ToTeamFinite DEF FormInv, MailsAreCounted
  <2>6. ASSUME NEW v \in Workers PROVE Handled(v)'
    <3>1. Handled(v)
      BY DEF FormInv
    <3> QED
      BY <1>1, <1>2, <1>3, <2>1, <3>1 DEF Handled
  <2> QED
    BY <2>2, <2>5, <2>6
<1> QED
  BY <1>4, <1>5 DEF FormInv

\* A mail that the service takes is in the mailbox, whatever its answer.
LEMMA MailKeeps ==
  ASSUME TypeOK, FormInv, NEW w \in Workers, Mail(w)
  PROVE  FormInv'
<1>1. UNCHANGED <<configured, bot, endpoint, stage, allowed>>
  BY DEF Mail, vars
<1>2. mail[w] # "none" /\ endpoint = "loop" /\ ~bot[w] /\ stage[w] = "idle"
  BY DEF Mail, FormInv, Handled
<1>3. PICK taken, answered \in BOOLEAN :
       /\ inbox' = IF taken /\ mail[w] = "team" THEN Append(inbox, w) ELSE inbox
       /\ mail' = [mail EXCEPT ![w] =
            IF mail[w] = "team" /\ Proceed(w, taken, answered) THEN "reply" ELSE "none"]
       /\ IF mail[w] = "team" /\ Proceed(w, taken, answered) THEN UNCHANGED told
          ELSE Tell(w, IF Proceed(w, taken, answered) THEN "ok" ELSE "error")
  BY DEF Mail
<1> USE DEF Proceed
<1>4. /\ inbox \in Seq(Workers) /\ Append(inbox, w) \in Seq(Workers)
      /\ Len(inbox) \in Nat /\ Len(Append(inbox, w)) = Len(inbox) + 1
      /\ Range(Append(inbox, w)) = Range(inbox) \cup {w}
  BY LenProperties, AppendFacts, RangeOfAppend DEF FormInv, FormTypeOK
<1>5. FormTypeOK'
  BY <1>1, <1>3, <1>4 DEF FormInv, FormTypeOK, Tell
<1>6. /\ mail'[w] # "team" /\ (mail[w] = "reply" => mail'[w] = "none")
      /\ \A v \in Workers : v # w => mail'[v] = mail[v]
  BY <1>3 DEF FormInv, FormTypeOK
<1>7. MailsAreCounted'
  <2>1. Len(inbox) + Cardinality(ToTeam) <= Len(allowed) /\ Len(allowed) \in Nat
    BY LenProperties DEF FormInv, MailsAreCounted, TypeOK
  <2>2. CASE mail[w] = "team"
    <3>1. ToTeam' = ToTeam \ {w} /\ w \in ToTeam
      BY <1>6, <2>2 DEF ToTeam
    <3>2. Cardinality(ToTeam') = Cardinality(ToTeam) - 1
      BY <3>1, ToTeamFinite, FS_RemoveElement
    <3>3. Len(inbox') <= Len(inbox) + 1 /\ Len(inbox') \in Nat
      BY <1>3, <1>4
    <3> QED
      BY <1>1, <1>4, <2>1, <3>2, <3>3, ToTeamFinite DEF MailsAreCounted
  <2>3. CASE mail[w] # "team"
    <3>1. ToTeam' = ToTeam
      BY <1>6, <2>3 DEF ToTeam
    <3>2. inbox' = inbox
      BY <1>3, <2>3
    <3> QED
      BY <1>1, <2>1, <3>1, <3>2 DEF MailsAreCounted
  <2> QED
    BY <2>2, <2>3
<1>8. Range(inbox) \subseteq Range(inbox') /\ Range(inbox') \subseteq Range(inbox) \cup {w}
  BY <1>3, <1>4
<1>9. mail'[w] = "reply" => w \in Range(inbox')
  BY <1>3, <1>4 DEF FormInv, FormTypeOK
<1>10. told'[w] = "ok" => told[w] = "ok" \/ mail[w] = "reply"
  BY <1>2, <1>3 DEF FormInv, FormTypeOK, Tell
<1>11. \A v \in Workers : v # w => told'[v] = told[v]
  BY <1>3 DEF FormInv, FormTypeOK, Tell
<1>12. Handled(w)'
  BY <1>1, <1>2, <1>8, <1>9, <1>10 DEF FormInv, Handled
<1>13. ASSUME NEW v \in Workers, v # w PROVE Handled(v)'
  BY <1>1, <1>6, <1>8, <1>11, <1>13 DEF FormInv, Handled
<1> QED
  BY <1>5, <1>7, <1>12, <1>13 DEF FormInv

LEMMA NextFormInv == TypeOK /\ FormInv /\ [FormNext]_<<vars, formVars>> => FormInv'
<1> SUFFICES ASSUME TypeOK, FormInv, [FormNext]_<<vars, formVars>> PROVE FormInv'
  OBVIOUS
<1>1. CASE UNCHANGED <<endpoint, stage, allowed, formVars>>
  BY <1>1 DEF formVars, FormInv, FormTypeOK, Handled, MailsAreCounted, ToTeam
<1>2. CASE UNCHANGED <<vars, formVars>> \/ (Tick /\ UNCHANGED formVars)
  BY <1>1, <1>2 DEF vars, Tick
<1> QED
  BY <1>2, AnsweredAtOnce, ContactKeeps, LimitedKeeps, MailKeeps DEF FormNext

LEMMA FormAlways == FormSpec => [](TypeOK /\ FormInv)
<1>1. TypeOK /\ [FormNext]_<<vars, formVars>> => TypeOK'
  BY FormStepIsLimiterStep, NextTypeOK
<1>2. FormInit => TypeOK
  BY InitTypeOK DEF FormInit
<1> QED
  BY <1>1, <1>2, InitFormInv, NextFormInv, PTL DEF FormSpec

\* OkWasHeard: who is thanked has been heard, unless the honeypot was filled in
\* (contact in fc_support.py, whatever the mail service takes and answers).
THEOREM OkHeard == FormSpec => []OkWasHeard
<1>1. FormInv => OkWasHeard
  BY DEF FormInv, FormTypeOK, Handled, OkWasHeard
<1> QED
  BY <1>1, FormAlways, PTL

\* MailsWereAllowed: the team gets no more mails than _rate_limit has let calls
\* through, however many fail, are sent again or go unanswered.
THEOREM MailsAllowed == FormSpec => []MailsWereAllowed
<1>1. TypeOK /\ FormInv => MailsWereAllowed
  <2> SUFFICES ASSUME TypeOK, FormInv PROVE Len(inbox) <= Len(allowed)
    BY DEF MailsWereAllowed
  <2>1. Len(inbox) \in Nat /\ Len(allowed) \in Nat
    BY LenProperties DEF FormInv, FormTypeOK, TypeOK
  <2> QED
    BY <2>1, ToTeamFinite DEF FormInv, MailsAreCounted
<1> QED
  BY <1>1, FormAlways, PTL
-----------------------------------------------------------------------------
(***************************************************************************)
(* Every request comes to an end: what is left to do gets less             *)
(***************************************************************************)

At(s) == {w \in Workers : stage[w] = s}
Awaiting(m) == {w \in Workers : mail[w] = m}

\* What the limiter has yet to do at most. A popped entry sends its worker
\* round the purge loop again, and leaves one entry less for every worker.
Weigh(queue, test, head, pop, count, append) ==
  3 * queue + 8 * test + 7 * head + 6 * pop + 5 * count + 4 * append

LimiterWork ==
  Weigh(Len(hits), Cardinality(At("test")), Cardinality(At("head")),
        Cardinality(At("pop")), Cardinality(At("count")), Cardinality(At("append")))

FormWork ==
  3 * LimiterWork + 2 * Cardinality(Awaiting("team")) + Cardinality(Awaiting("reply"))

LEMMA CountsAreNat ==
  \A s : /\ IsFiniteSet(At(s)) /\ Cardinality(At(s)) \in Nat
         /\ IsFiniteSet(Awaiting(s)) /\ Cardinality(Awaiting(s)) \in Nat
<1> TAKE s
<1>1. At(s) \subseteq Workers /\ Awaiting(s) \subseteq Workers
  BY DEF At, Awaiting
<1> QED
  BY <1>1, LimiterAssumption, FS_Subset, FS_CardinalityType

\* A worker that goes on is counted at its new stage.
LEMMA GoCounts ==
  ASSUME TypeOK, NEW w \in Workers, NEW from, NEW to, from # to, Go(w, from, to)
  PROVE  /\ Cardinality(At(from)') = Cardinality(At(from)) - 1
         /\ Cardinality(At(to)') = Cardinality(At(to)) + 1
         /\ \A s : s # from /\ s # to => At(s)' = At(s)
<1>1. /\ stage[w] = from /\ stage'[w] = to
      /\ \A v \in Workers : v # w => stage'[v] = stage[v]
  BY DEF Go, TypeOK
<1>2. /\ At(from)' = At(from) \ {w} /\ w \in At(from)
      /\ At(to)' = At(to) \cup {w} /\ w \notin At(to)
  BY <1>1 DEF At
<1>3. \A s : s # from /\ s # to => At(s)' = At(s)
  BY <1>1 DEF At
<1>4. Cardinality(At(from) \ {w}) = Cardinality(At(from)) - 1
  BY <1>2, CountsAreNat, FS_RemoveElement
<1>5. Cardinality(At(to) \cup {w}) = Cardinality(At(to)) + 1
  BY <1>2, CountsAreNat, FS_AddElement
<1> QED
  BY <1>2, <1>3, <1>4, <1>5

\* The same of a mail.
LEMMA MailCounts ==
  ASSUME FormTypeOK, NEW w \in Workers,
         NEW from \in {"none", "team", "reply"}, NEW to \in {"none", "team", "reply"},
         mail[w] = from, from # to, mail' = [mail EXCEPT ![w] = to]
  PROVE  /\ Cardinality(Awaiting(from)') = Cardinality(Awaiting(from)) - 1
         /\ Cardinality(Awaiting(to)') = Cardinality(Awaiting(to)) + 1
         /\ \A s : s # from /\ s # to => Awaiting(s)' = Awaiting(s)
<1>1. mail'[w] = to /\ \A v \in Workers : v # w => mail'[v] = mail[v]
  BY DEF FormTypeOK
<1>2. /\ Awaiting(from)' = Awaiting(from) \ {w} /\ w \in Awaiting(from)
      /\ Awaiting(to)' = Awaiting(to) \cup {w} /\ w \notin Awaiting(to)
  BY <1>1 DEF Awaiting
<1>3. \A s : s # from /\ s # to => Awaiting(s)' = Awaiting(s)
  BY <1>1 DEF Awaiting
<1>4. Cardinality(Awaiting(from) \ {w}) = Cardinality(Awaiting(from)) - 1
  BY <1>2, CountsAreNat, FS_RemoveElement
<1>5. Cardinality(Awaiting(to) \cup {w}) = Cardinality(Awaiting(to)) + 1
  BY <1>2, CountsAreNat, FS_AddElement
<1> QED
  BY <1>2, <1>3, <1>4, <1>5

LEMMA WeighIsNat ==
  \A q, t, h, p, c, a \in Nat : Weigh(q, t, h, p, c, a) \in Nat
BY DEF Weigh

LEMMA WorkIsNat ==
  ASSUME TypeOK
  PROVE  LimiterWork \in Nat /\ FormWork \in Nat
<1>1. Len(hits) \in Nat
  BY LenProperties DEF TypeOK
<1>2. /\ Cardinality(At("test")) \in Nat /\ Cardinality(At("head")) \in Nat
      /\ Cardinality(At("pop")) \in Nat /\ Cardinality(At("count")) \in Nat
      /\ Cardinality(At("append")) \in Nat
  BY CountsAreNat
<1>3. LimiterWork \in Nat
  BY <1>1, <1>2, WeighIsNat DEF LimiterWork
<1>4. Cardinality(Awaiting("team")) \in Nat /\ Cardinality(Awaiting("reply")) \in Nat
  BY CountsAreNat
<1> QED
  BY <1>3, <1>4 DEF FormWork

LEMMA WorkIsNatAfter ==
  ASSUME TypeOK'
  PROVE  LimiterWork' \in Nat
<1>1. (TypeOK => LimiterWork \in Nat)'
  BY WorkIsNat, PTL
<1> QED
  BY <1>1

\* What a step of each kind takes away and puts in place.
LEMMA WeighLess ==
  \A q, t, h, p, c, a \in Nat :
    /\ Weigh(q, t - 1, h, p, c + 1, a) < Weigh(q, t, h, p, c, a)
    /\ Weigh(q, t - 1, h + 1, p, c, a) < Weigh(q, t, h, p, c, a)
    /\ Weigh(q, t, h - 1, p, c, a) < Weigh(q, t, h, p, c, a)
    /\ Weigh(q, t, h - 1, p + 1, c, a) < Weigh(q, t, h, p, c, a)
    /\ Weigh(q, t, h - 1, p, c + 1, a) < Weigh(q, t, h, p, c, a)
    /\ Weigh(q, t, h, p - 1, c, a) < Weigh(q, t, h, p, c, a)
    /\ Weigh(q - 1, t + 1, h, p - 1, c, a) < Weigh(q, t, h, p, c, a)
    /\ Weigh(q, t, h, p, c - 1, a) < Weigh(q, t, h, p, c, a)
    /\ Weigh(q, t, h, p, c - 1, a + 1) < Weigh(q, t, h, p, c, a)
    /\ Weigh(q + 1, t, h, p, c, a - 1) < Weigh(q, t, h, p, c, a)
BY DEF Weigh

\* Each step of a call leaves less to do, whatever the other threads have
\* made of the deque since the step before.
LEMMA StepLessens ==
  ASSUME TypeOK, NEW w \in Workers, Step(w)
  PROVE  LimiterWork' < LimiterWork
<1> DEFINE n(s) == Cardinality(At(s))
<1> DEFINE m(s) == Cardinality(At(s)')
<1>1. /\ n("test") \in Nat /\ n("head") \in Nat /\ n("pop") \in Nat
      /\ n("count") \in Nat /\ n("append") \in Nat /\ Len(hits) \in Nat
  BY CountsAreNat, LenProperties DEF TypeOK
<1>2. ASSUME NEW from, NEW to, from # to, Go(w, from, to)
      PROVE  /\ m(from) = n(from) - 1 /\ m(to) = n(to) + 1
             /\ \A s : s # from /\ s # to => m(s) = n(s)
  BY <1>2, GoCounts
<1>3. /\ hits # <<>> => Len(Tail(hits)) = Len(hits) - 1
      /\ Len(Append(hits, started[w])) = Len(hits) + 1
  BY LenProperties, HeadTailProperties, AppendFacts DEF TypeOK
<1>4. /\ LimiterWork = Weigh(Len(hits), n("test"), n("head"), n("pop"), n("count"), n("append"))
      /\ LimiterWork' = Weigh(Len(hits'), m("test"), m("head"), m("pop"), m("count"), m("append"))
  BY DEF LimiterWork
<1> HIDE DEF n, m
<1>5. ASSUME hits' = hits, Go(w, "test", "count")
      PROVE  LimiterWork' < LimiterWork
  <2>1. /\ m("test") = n("test") - 1
        /\ m("head") = n("head") /\ m("pop") = n("pop") /\ m("count") = n("count") + 1 /\ m("append") = n("append")
    BY <1>2, <1>5
  <2>2. LimiterWork' = Weigh(Len(hits), n("test") - 1, n("head"),
                             n("pop"), n("count") + 1, n("append"))
    BY <1>3, <1>4, <1>5, <2>1
  <2>3. Weigh(Len(hits), n("test") - 1, n("head"),
            n("pop"), n("count") + 1, n("append"))
          < Weigh(Len(hits), n("test"), n("head"), n("pop"), n("count"), n("append"))
    BY <1>1, WeighLess
  <2> QED
    BY <1>4, <2>2, <2>3
<1>6. ASSUME hits' = hits, Go(w, "test", "head")
      PROVE  LimiterWork' < LimiterWork
  <2>1. /\ m("test") = n("test") - 1
        /\ m("head") = n("head") + 1 /\ m("pop") = n("pop") /\ m("count") = n("count") /\ m("append") = n("append")
    BY <1>2, <1>6
  <2>2. LimiterWork' = Weigh(Len(hits), n("test") - 1, n("head") + 1,
                             n("pop"), n("count"), n("append"))
    BY <1>3, <1>4, <1>6, <2>1
  <2>3. Weigh(Len(hits), n("test") - 1, n("head") + 1,
            n("pop"), n("count"), n("append"))
          < Weigh(Len(hits), n("test"), n("head"), n("pop"), n("count"), n("append"))
    BY <1>1, WeighLess
  <2> QED
    BY <1>4, <2>2, <2>3
<1>7. ASSUME hits' = hits, Go(w, "head", "idle")
      PROVE  LimiterWork' < LimiterWork
  <2>1. /\ m("head") = n("head") - 1
        /\ m("test") = n("test") /\ m("pop") = n("pop") /\ m("count") = n("count") /\ m("append") = n("append")
    BY <1>2, <1>7
  <2>2. LimiterWork' = Weigh(Len(hits), n("test"), n("head") - 1,
                             n("pop"), n("count"), n("append"))
    BY <1>3, <1>4, <1>7, <2>1
  <2>3. Weigh(Len(hits), n("test"), n("head") - 1,
            n("pop"), n("count"), n("append"))
          < Weigh(Len(hits), n("test"), n("head"), n("pop"), n("count"), n("append"))
    BY <1>1, WeighLess
  <2> QED
    BY <1>4, <2>2, <2>3
<1>8. ASSUME hits' = hits, Go(w, "head", "pop")
      PROVE  LimiterWork' < LimiterWork
  <2>1. /\ m("head") = n("head") - 1
        /\ m("test") = n("test") /\ m("pop") = n("pop") + 1 /\ m("count") = n("count") /\ m("append") = n("append")
    BY <1>2, <1>8
  <2>2. LimiterWork' = Weigh(Len(hits), n("test"), n("head") - 1,
                             n("pop") + 1, n("count"), n("append"))
    BY <1>3, <1>4, <1>8, <2>1
  <2>3. Weigh(Len(hits), n("test"), n("head") - 1,
            n("pop") + 1, n("count"), n("append"))
          < Weigh(Len(hits), n("test"), n("head"), n("pop"), n("count"), n("append"))
    BY <1>1, WeighLess
  <2> QED
    BY <1>4, <2>2, <2>3
<1>9. ASSUME hits' = hits, Go(w, "head", "count")
      PROVE  LimiterWork' < LimiterWork
  <2>1. /\ m("head") = n("head") - 1
        /\ m("test") = n("test") /\ m("pop") = n("pop") /\ m("count") = n("count") + 1 /\ m("append") = n("append")
    BY <1>2, <1>9
  <2>2. LimiterWork' = Weigh(Len(hits), n("test"), n("head") - 1,
                             n("pop"), n("count") + 1, n("append"))
    BY <1>3, <1>4, <1>9, <2>1
  <2>3. Weigh(Len(hits), n("test"), n("head") - 1,
            n("pop"), n("count") + 1, n("append"))
          < Weigh(Len(hits), n("test"), n("head"), n("pop"), n("count"), n("append"))
    BY <1>1, WeighLess
  <2> QED
    BY <1>4, <2>2, <2>3
<1>10. ASSUME hits' = hits, Go(w, "pop", "idle")
      PROVE  LimiterWork' < LimiterWork
  <2>1. /\ m("pop") = n("pop") - 1
        /\ m("test") = n("test") /\ m("head") = n("head") /\ m("count") = n("count") /\ m("append") = n("append")
    BY <1>2, <1>10
  <2>2. LimiterWork' = Weigh(Len(hits), n("test"), n("head"),
                             n("pop") - 1, n("count"), n("append"))
    BY <1>3, <1>4, <1>10, <2>1
  <2>3. Weigh(Len(hits), n("test"), n("head"),
            n("pop") - 1, n("count"), n("append"))
          < Weigh(Len(hits), n("test"), n("head"), n("pop"), n("count"), n("append"))
    BY <1>1, WeighLess
  <2> QED
    BY <1>4, <2>2, <2>3
<1>11. ASSUME hits # <<>>, hits' = Tail(hits), Go(w, "pop", "test")
      PROVE  LimiterWork' < LimiterWork
  <2>1. /\ m("pop") = n("pop") - 1
        /\ m("test") = n("test") + 1 /\ m("head") = n("head") /\ m("count") = n("count") /\ m("append") = n("append")
    BY <1>2, <1>11
  <2>2. LimiterWork' = Weigh(Len(hits) - 1, n("test") + 1, n("head"),
                             n("pop") - 1, n("count"), n("append"))
    BY <1>3, <1>4, <1>11, <2>1
  <2>3. Weigh(Len(hits) - 1, n("test") + 1, n("head"),
            n("pop") - 1, n("count"), n("append"))
          < Weigh(Len(hits), n("test"), n("head"), n("pop"), n("count"), n("append"))
    BY <1>1, WeighLess
  <2> QED
    BY <1>4, <2>2, <2>3
<1>12. ASSUME hits' = hits, Go(w, "count", "idle")
      PROVE  LimiterWork' < LimiterWork
  <2>1. /\ m("count") = n("count") - 1
        /\ m("test") = n("test") /\ m("head") = n("head") /\ m("pop") = n("pop") /\ m("append") = n("append")
    BY <1>2, <1>12
  <2>2. LimiterWork' = Weigh(Len(hits), n("test"), n("head"),
                             n("pop"), n("count") - 1, n("append"))
    BY <1>3, <1>4, <1>12, <2>1
  <2>3. Weigh(Len(hits), n("test"), n("head"),
            n("pop"), n("count") - 1, n("append"))
          < Weigh(Len(hits), n("test"), n("head"), n("pop"), n("count"), n("append"))
    BY <1>1, WeighLess
  <2> QED
    BY <1>4, <2>2, <2>3
<1>13. ASSUME hits' = hits, Go(w, "count", "append")
      PROVE  LimiterWork' < LimiterWork
  <2>1. /\ m("count") = n("count") - 1
        /\ m("test") = n("test") /\ m("head") = n("head") /\ m("pop") = n("pop") /\ m("append") = n("append") + 1
    BY <1>2, <1>13
  <2>2. LimiterWork' = Weigh(Len(hits), n("test"), n("head"),
                             n("pop"), n("count") - 1, n("append") + 1)
    BY <1>3, <1>4, <1>13, <2>1
  <2>3. Weigh(Len(hits), n("test"), n("head"),
            n("pop"), n("count") - 1, n("append") + 1)
          < Weigh(Len(hits), n("test"), n("head"), n("pop"), n("count"), n("append"))
    BY <1>1, WeighLess
  <2> QED
    BY <1>4, <2>2, <2>3
<1>14. ASSUME hits' = Append(hits, started[w]), Go(w, "append", "idle")
      PROVE  LimiterWork' < LimiterWork
  <2>1. /\ m("append") = n("append") - 1
        /\ m("test") = n("test") /\ m("head") = n("head") /\ m("pop") = n("pop") /\ m("count") = n("count")
    BY <1>2, <1>14
  <2>2. LimiterWork' = Weigh(Len(hits) + 1, n("test"), n("head"),
                             n("pop"), n("count"), n("append") - 1)
    BY <1>3, <1>4, <1>14, <2>1
  <2>3. Weigh(Len(hits) + 1, n("test"), n("head"),
            n("pop"), n("count"), n("append") - 1)
          < Weigh(Len(hits), n("test"), n("head"), n("pop"), n("count"), n("append"))
    BY <1>1, WeighLess
  <2> QED
    BY <1>4, <2>2, <2>3
<1> QED
  BY <1>5, <1>6, <1>7, <1>8, <1>9, <1>10, <1>11, <1>12, <1>13, <1>14
     DEF Step, TestQueue, TestHead, Pop, Count, Add

\* A step of the limiter may begin the mail to the team, and no other.
LEMMA LimitedLessens ==
  ASSUME TypeOK, FormTypeOK, NEW w \in Workers, Limited(w)
  PROVE  FormWork' < FormWork
<1>1. TypeOK'
  BY NextTypeOK DEF Limited, Next
<1>2. /\ LimiterWork' < LimiterWork /\ LimiterWork \in Nat /\ LimiterWork' \in Nat
  BY <1>1, StepLessens, WorkIsNat, WorkIsNatAfter DEF Limited
<1> DEFINE team == Cardinality(Awaiting("team"))
           reply == Cardinality(Awaiting("reply"))
<1>3. team \in Nat /\ reply \in Nat
  BY CountsAreNat
<1>4. team' \in Nat /\ reply' \in Nat /\ team' <= team + 1 /\ reply' <= reply
  <2>1. CASE mail' = mail
    <3>1. Awaiting("team")' = Awaiting("team") /\ Awaiting("reply")' = Awaiting("reply")
      BY <2>1 DEF Awaiting
    <3> QED
      BY <1>3, <3>1
  <2>2. CASE mail' = [mail EXCEPT ![w] = "team"]
    <3>1. /\ Awaiting("team")' \subseteq Awaiting("team") \cup {w}
          /\ Awaiting("reply")' \subseteq Awaiting("reply")
      BY <2>2 DEF Awaiting, FormTypeOK
    <3>2. team' \in Nat /\ team' <= team + 1
      BY <3>1, CountsAreNat, OneMore
    <3>3. reply' \in Nat /\ reply' <= reply
      BY <3>1, CountsAreNat, FS_Subset, FS_CardinalityType
    <3> QED
      BY <3>2, <3>3
  <2> QED
    BY <2>1, <2>2 DEF Limited
<1>5. /\ FormWork = 3 * LimiterWork + 2 * team + reply
      /\ FormWork' = 3 * LimiterWork' + 2 * team' + reply'
  BY DEF FormWork
<1> HIDE DEF team, reply
<1>6. \A a, b, x, y, z, v \in Nat :
        a < b /\ y <= x + 1 /\ v <= z => 3 * a + 2 * y + v < 3 * b + 2 * x + z
  OBVIOUS
<1>7. 3 * LimiterWork' + 2 * team' + reply' < 3 * LimiterWork + 2 * team + reply
  BY <1>2, <1>3, <1>4, <1>6
<1> QED
  BY <1>5, <1>7

\* An answered mail, or one that timed out, is one less.
LEMMA MailLessens ==
  ASSUME TypeOK, FormTypeOK, NEW w \in Workers, Mail(w)
  PROVE  FormWork' < FormWork
<1> DEFINE team == Cardinality(Awaiting("team"))
           reply == Cardinality(Awaiting("reply"))
<1>1. team \in Nat /\ reply \in Nat /\ LimiterWork \in Nat
  BY CountsAreNat, WorkIsNat
<1>2. \/ mail[w] = "team" /\ mail' = [mail EXCEPT ![w] = "reply"]
      \/ mail[w] = "team" /\ mail' = [mail EXCEPT ![w] = "none"]
      \/ mail[w] = "reply" /\ mail' = [mail EXCEPT ![w] = "none"]
  BY DEF Mail, FormTypeOK
<1>3. \/ team' = team - 1 /\ reply' = reply + 1
      \/ team' = team - 1 /\ reply' = reply
      \/ team' = team /\ reply' = reply - 1
  <2>1. CASE mail[w] = "team" /\ mail' = [mail EXCEPT ![w] = "reply"]
    BY <2>1, MailCounts
  <2>2. CASE mail[w] = "team" /\ mail' = [mail EXCEPT ![w] = "none"]
    <3>1. team' = team - 1 /\ Awaiting("reply")' = Awaiting("reply")
      BY <2>2, MailCounts
    <3> QED
      BY <3>1
  <2>3. CASE mail[w] = "reply" /\ mail' = [mail EXCEPT ![w] = "none"]
    <3>1. reply' = reply - 1 /\ Awaiting("team")' = Awaiting("team")
      BY <2>3, MailCounts
    <3> QED
      BY <3>1
  <2> QED
    BY <1>2, <2>1, <2>2, <2>3
<1>4. LimiterWork' = LimiterWork
  BY DEF Mail, vars, LimiterWork, At
<1>5. /\ FormWork = 3 * LimiterWork + 2 * team + reply
      /\ FormWork' = 3 * LimiterWork' + 2 * team' + reply'
  BY DEF FormWork
<1> HIDE DEF team, reply
<1>6. \A a, x, z \in Nat :
        /\ 3 * a + 2 * (x - 1) + (z + 1) < 3 * a + 2 * x + z
        /\ 3 * a + 2 * (x - 1) + z < 3 * a + 2 * x + z
        /\ 3 * a + 2 * x + (z - 1) < 3 * a + 2 * x + z
  OBVIOUS
<1>7. 3 * LimiterWork + 2 * team' + reply' < 3 * LimiterWork + 2 * team + reply
  BY <1>1, <1>3, <1>6
<1> QED
  BY <1>4, <1>5, <1>7

\* Each step of a request that is under way, and none but the start of a call,
\* which takes one of the calls that are left, changes what is left to do.
RequestsAdvance ==
  /\ \A w \in Workers : Limited(w) \/ Mail(w) => FormWork' < FormWork
  /\ FormWork' = FormWork \/ FormWork' < FormWork \/ calls' = calls + 1

\* The safety core of RequestsEnd: between two calls the purge loops
\* (rate_limit in routes.py), however they interleave, and the two mails
\* (contact in fc_support.py) take finitely many steps, since each lessens a
\* natural number that no other step but the start of a call raises.
THEOREM WorkRunsOut ==
  FormSpec => [](FormWork \in Nat) /\ [][RequestsAdvance]_<<vars, formVars>>
<1>1. TypeOK /\ FormInv /\ [FormNext]_<<vars, formVars>>
        => [RequestsAdvance]_<<vars, formVars>>
  <2> SUFFICES ASSUME TypeOK, FormInv, FormNext PROVE RequestsAdvance
    OBVIOUS
  <2>1. FormTypeOK
    BY DEF FormInv
  <2>2. ASSUME NEW w \in Workers, Limited(w) \/ Mail(w) PROVE FormWork' < FormWork
    BY <2>1, <2>2, LimitedLessens, MailLessens
  <2>3. ASSUME UNCHANGED <<hits, stage, mail>> PROVE FormWork' = FormWork
    BY <2>3 DEF FormWork, LimiterWork, At, Awaiting
  <2>4. ASSUME NEW w \in Workers, Honeypot(w) \/ NotConfigured(w) PROVE FormWork' = FormWork
    BY <2>3, <2>4 DEF Honeypot, NotConfigured, vars
  <2>5. ASSUME NEW w \in Workers, Contact(w) PROVE calls' = calls + 1
    BY <2>5 DEF Contact, Call
  <2>6. Tick /\ UNCHANGED formVars => FormWork' = FormWork
    BY <2>3 DEF Tick, formVars
  <2>7. FormWork' = FormWork \/ FormWork' < FormWork \/ calls' = calls + 1
    <3>1. CASE \E w \in Workers : Honeypot(w) \/ NotConfigured(w)
      BY <2>4, <3>1
    <3>2. CASE \E w \in Workers : Contact(w)
      BY <2>5, <3>2
    <3>3. CASE \E w \in Workers : Limited(w) \/ Mail(w)
      BY <2>2, <3>3
    <3> QED
      BY <2>6, <3>1, <3>2, <3>3 DEF FormNext
  <2>8. \A w \in Workers : Limited(w) \/ Mail(w) => FormWork' < FormWork
    BY <2>2
  <2> QED
    BY <2>7, <2>8 DEF RequestsAdvance
<1>2. TypeOK => FormWork \in Nat
  BY WorkIsNat
<1> QED
  BY <1>1, <1>2, FormAlways, PTL DEF FormSpec
=============================================================================
