------------------------- MODULE SecretCacheProofs -------------------------
(***************************************************************************)
(* What SecretCache promises, for every number of threads and keys: a key   *)
(* is loaded by one thread at a time, and close is for good.                *)
(*                                                                         *)
(* TypeOK /\ OneLoadAtATime is inductive: a thread that loads a key is the  *)
(* one in flight, so the thread that ends a load wakes all who wait for it. *)
(* NothingKept needs it, since close wakes those who wait for a key in      *)
(* flight, and they must be all.                                            *)
(***************************************************************************)
EXTENDS SecretCache, TLAPS

LEMMA InitTyped == Init => TypeOK
<1> SUFFICES ASSUME Init PROVE TypeOK
  OBVIOUS
<1>1. Ended(None) \in Call
  BY DEF Ended, Call
<1> QED
  BY <1>1 DEF Init, TypeOK

\* Those that an outcome wakes have the type of a call.
LEMMA WokenTyped ==
    ASSUME TypeOK, NEW K \in SUBSET Keys, NEW o \in Outcome
    PROVE  Woken(K, o) \in [Threads -> Call]
BY DEF TypeOK, Woken, With, Call

LEMMA StepTyped == TypeOK /\ [Next]_vars => TypeOK'
<1> SUFFICES ASSUME TypeOK, [Next]_vars PROVE TypeOK'
  OBVIOUS
<1> USE DEF TypeOK, Call, Outcome, Goes, At, Ended, With, provider, entries
<1>1. ASSUME NEW t \in Threads, NEW k \in Keys, Resolve(t, k) PROVE TypeOK'
  BY <1>1 DEF Resolve
<1>2. ASSUME NEW t \in Threads, Lookup(t) PROVE TypeOK'
  <2>1. call[t].key \in Keys
    BY <1>2 DEF Lookup
  <2> QED
    BY <1>2, <2>1 DEF Lookup
<1>3. ASSUME NEW t \in Threads, GetClient(t) PROVE TypeOK'
  <2>1. call[t].key \in Keys
    BY <1>3 DEF GetClient
  <2> QED
    BY <1>3, <2>1 DEF GetClient
<1>4. ASSUME NEW t \in Threads, Fetch(t) PROVE TypeOK'
  <2>1. call[t].key \in Keys
    BY <1>4 DEF Fetch
  <2> QED
    BY <1>4, <2>1 DEF Fetch
<1>5. ASSUME NEW t \in Threads, FinishSuccessfulLoad(t) PROVE TypeOK'
  <2>1. call[t].key \in Keys
    BY <1>5 DEF FinishSuccessfulLoad
  <2>2. Woken({call[t].key}, "value") \in [Threads -> Call]
    BY <2>1, WokenTyped
  <2>3. call' \in [Threads -> Call]
    <3>1. At(call[t].key, "served") \in Call /\ Ended("closed") \in Call
      BY <2>1
    <3> HIDE DEF Call, Ended, At
    <3> QED
      BY <1>5, <2>2, <3>1 DEF FinishSuccessfulLoad
  <2> QED
    BY <1>5, <2>1, <2>3 DEF FinishSuccessfulLoad
<1>6. ASSUME NEW t \in Threads, FinishFailedLoad(t) PROVE TypeOK'
  <2>1. call[t].key \in Keys
    BY <1>6 DEF FinishFailedLoad
  <2>2. Woken({call[t].key}, "error") \in [Threads -> Call]
    BY <2>1, WokenTyped
  <2>3. call' \in [Threads -> Call]
    <3>1. Ended("error") \in Call /\ Ended("closed") \in Call
      OBVIOUS
    <3> HIDE DEF Call, Ended
    <3> QED
      BY <1>6, <2>2, <3>1 DEF FinishFailedLoad
  <2> QED
    BY <1>6, <2>1, <2>3 DEF FinishFailedLoad
<1>7. ASSUME NEW t \in Threads, Wake(t) PROVE TypeOK'
  <2>1. call[t].key \in Keys /\ call[t].outcome \in Outcome
    BY <1>7 DEF Wake
  <2> QED
    BY <1>7, <2>1 DEF Wake
<1>8. ASSUME NEW t \in Threads, Serve(t) PROVE TypeOK'
  BY <1>8 DEF Serve
<1>9. ASSUME NEW k \in Keys, Expire(k) PROVE TypeOK'
  BY <1>9 DEF Expire
<1>10. CASE Clear
  BY <1>10 DEF Clear
<1>11. CASE CloseResolver
  BY <1>11 DEF CloseResolver
<1>12. CASE CloseProvider
  <2>1. Woken({k \in Keys : inflight[k] # None}, "closed") \in [Threads -> Call]
    BY WokenTyped
  <2> QED
    BY <1>12, <2>1 DEF CloseProvider
<1>13. CASE CloseClient
  BY <1>13 DEF CloseClient
<1>14. CASE UNCHANGED vars
  BY <1>14 DEF vars
<1> QED
  BY <1>1, <1>2, <1>3, <1>4, <1>5, <1>6, <1>7, <1>8, <1>9, <1>10, <1>11, <1>12, <1>13, <1>14
  DEF Next, Steps

\* Every variable keeps its type.
THEOREM CacheTyped == Spec => []TypeOK
<1>1. Init => TypeOK
  BY InitTyped
<1>2. TypeOK /\ [Next]_vars => TypeOK'
  BY StepTyped
<1> QED
  BY <1>1, <1>2, PTL DEF Spec

-----------------------------------------------------------------------------

Loading == {"loading", "fetching", "loaded"}

\* A step that leaves the flights alone and begins no load and no wait, nor ends
\* a load, keeps the loads as they are.
LEMMA SameLoads ==
    ASSUME OneLoadAtATime, closed' \/ ~closed, inflight' = inflight,
           inflight \in [Keys -> Threads \cup {None}],
           \A t \in Threads :
               \/ /\ call'[t].key = call[t].key
                  /\ call'[t].at = call[t].at \/ {call[t].at, call'[t].at} \subseteq Loading
               \/ /\ call[t].at \notin Loading
                  /\ call'[t].at \notin Loading \cup {"waiting"}
    PROVE  OneLoadAtATime'
BY DEF OneLoadAtATime, Loads, Loading

\* When a load ends nobody is left who waits for it.
LEMMA LoadEnds ==
    ASSUME TypeOK, OneLoadAtATime, ~closed, closed' = closed, NEW t \in Threads,
           call[t].at \in Loading, call[t].key \in Keys,
           call'[t].at \notin Loading \cup {"waiting"},
           \A u \in Threads : u # t =>
               IF call[u].at = "waiting" /\ call[u].key = call[t].key
               THEN call'[u].at = "woken" ELSE call'[u] = call[u],
           inflight' = [inflight EXCEPT ![call[t].key] = None]
    PROVE  OneLoadAtATime'
<1> DEFINE k == call[t].key
<1>1. \A u \in Threads : call'[u].at \in Loading \cup {"waiting"} => u # t /\ call'[u] = call[u]
  BY DEF Loading
<1>2. \A u \in Threads : u # t /\ call[u].at \in Loading => call'[u] = call[u]
  BY DEF Loading
<1>3. \A u \in Threads : call'[u].at = "waiting" => call[u].key # k
  BY <1>1 DEF Loading
<1>4. \A l \in Keys : l # k => inflight'[l] = inflight[l]
  BY DEF TypeOK
<1>5. inflight[k] = t
  BY DEF OneLoadAtATime, Loads, Loading
<1>6. ASSUME NEW l \in Keys, NEW u \in Threads, Loads(u, l)' PROVE inflight'[l] = u
  <2>1. u # t /\ Loads(u, l)
    BY <1>1, <1>6 DEF Loads, Loading
  <2>2. inflight[l] = u
    BY <2>1 DEF OneLoadAtATime
  <2> QED
    BY <1>4, <1>5, <2>1, <2>2
<1>7. ASSUME NEW l \in Keys, NEW u \in Threads, call'[u].at = "waiting", call'[u].key = l
      PROVE  inflight'[l] # None
  <2>1. call[u].at = "waiting" /\ call[u].key = l /\ l # k
    BY <1>1, <1>3, <1>7
  <2>2. inflight[l] # None
    BY <2>1 DEF OneLoadAtATime
  <2> QED
    BY <1>4, <2>1, <2>2
<1>8. ASSUME NEW l \in Keys, inflight'[l] # None
      PROVE  call'[inflight'[l]].at \in Loading /\ call'[inflight'[l]].key = l
  <2>1. l # k
    BY <1>8 DEF TypeOK
  <2>2. inflight'[l] = inflight[l] /\ inflight[l] \in Threads
    BY <1>4, <1>8, <2>1 DEF TypeOK
  <2>3. Loads(inflight[l], l)
    BY <1>8, <2>2 DEF OneLoadAtATime
  <2>4. call'[inflight[l]] = call[inflight[l]]
    BY <1>2, <2>1, <2>2, <2>3 DEF Loads, Loading
  <2> QED
    BY <2>2, <2>3, <2>4 DEF Loads, Loading
<1>9. \A l \in Keys : inflight'[l] # None => Loads(inflight[l], l)'
  BY <1>8 DEF Loads, Loading
<1> QED
  BY <1>6, <1>7, <1>9 DEF OneLoadAtATime

LEMMA OneLoadStep == TypeOK /\ OneLoadAtATime /\ [Next]_vars => OneLoadAtATime'
<1> SUFFICES ASSUME TypeOK, OneLoadAtATime, [Next]_vars PROVE OneLoadAtATime'
  OBVIOUS
<1> USE DEF Goes, At, Ended, With, provider, entries
<1>t. call \in [Threads -> Call] /\ inflight \in [Keys -> Threads \cup {None}]
  BY DEF TypeOK
<1>1. ASSUME NEW t \in Threads, NEW k \in Keys, Resolve(t, k) PROVE OneLoadAtATime'
  BY <1>1, <1>t, SameLoads DEF Resolve, Loading
<1>2. ASSUME NEW t \in Threads, Lookup(t) PROVE OneLoadAtATime'
  <2> DEFINE k == call[t].key
  <2>1. k \in Keys /\ t # None /\ call[t].at = "resolving"
    BY <1>2, <1>t, NoneIsNobody DEF Lookup, Call
  <2>2. \A u \in Threads : u # t => call'[u] = call[u]
    BY <1>2, <1>t DEF Lookup
  <2>3. CASE call'[t].at \in {"ended", "served"} /\ inflight' = inflight
    BY <1>2, <1>t, <2>1, <2>2, <2>3, SameLoads DEF Lookup, Loading
  <2>4. CASE call'[t] = At(k, "waiting") /\ inflight' = inflight /\ inflight[k] # None
    BY <1>2, <1>t, <2>1, <2>2, <2>4 DEF Lookup, OneLoadAtATime, Loads
  <2>5. CASE call'[t] = At(k, "loading") /\ inflight' = [inflight EXCEPT ![k] = t]
             /\ inflight[k] = None
    <3>1. \A l \in Keys : inflight'[l] = IF l = k THEN t ELSE inflight[l]
      BY <1>t, <2>5
    <3>2. \A l \in Keys : inflight'[l] # None => Loads(inflight[l], l)'
      BY <1>2, <1>t, <2>1, <2>2, <2>5, <3>1 DEF Lookup, OneLoadAtATime, Loads
    <3>3. ASSUME NEW l \in Keys, NEW u \in Threads
          PROVE  /\ Loads(u, l)' => inflight'[l] = u
                 /\ call'[u].at = "waiting" /\ call'[u].key = l => inflight'[l] # None
      <4>1. CASE u = t
        BY <1>t, <2>1, <2>5, <3>1, <4>1 DEF Loads
      <4>2. CASE u # t
        <5>1. call'[u] = call[u] /\ ~closed
          BY <1>2, <2>2, <2>5, <4>2, <1>t, <2>1 DEF Lookup
        <5>2. Loads(u, l) => inflight[l] = u /\ l # k
          BY <5>1, <2>5, <2>1, NoneIsNobody DEF OneLoadAtATime
        <5>3. call[u].at = "waiting" /\ call[u].key = l => inflight[l] # None
          BY <5>1 DEF OneLoadAtATime
        <5> QED
          BY <3>1, <5>1, <5>2, <5>3, <2>1 DEF Loads
      <4> QED
        BY <4>1, <4>2
    <3> QED
      BY <3>2, <3>3 DEF OneLoadAtATime
  <2> QED
    BY <1>2, <1>t, <2>3, <2>4, <2>5 DEF Lookup, Joins
<1>3. ASSUME NEW t \in Threads, GetClient(t) PROVE OneLoadAtATime'
  BY <1>3, <1>t, SameLoads DEF GetClient, Loading
<1>4. ASSUME NEW t \in Threads, Fetch(t) PROVE OneLoadAtATime'
  BY <1>4, <1>t, SameLoads DEF Fetch, Loading
<1>5. ASSUME NEW t \in Threads, FinishSuccessfulLoad(t) PROVE OneLoadAtATime'
  <2>1. CASE closed
    BY <1>5, <2>1 DEF FinishSuccessfulLoad, OneLoadAtATime
  <2>2. CASE ~closed
    <3>1. call[t].key \in Keys
      BY <1>5, <1>t DEF FinishSuccessfulLoad, Call
    <3>2. call[t].at \in Loading /\ closed' = closed
      BY <1>5 DEF FinishSuccessfulLoad, Loading
    <3>3. PICK W : W = Woken({call[t].key}, "value")
      OBVIOUS
    <3>3a. /\ DOMAIN W = Threads
          /\ W = [u \in DOMAIN W |-> W[u]]
          /\ \A u \in Threads :
                 W[u] = IF call[u].at = "waiting" /\ call[u].key = call[t].key
                        THEN With(call[u].key, "woken", "value") ELSE call[u]
      BY <3>3 DEF Woken
    <3>3b. call' = [W EXCEPT ![t] = At(call[t].key, "served")]
      BY <1>5, <2>2, <3>3 DEF FinishSuccessfulLoad
    <3>4. \A u \in Threads : u # t =>
              IF call[u].at = "waiting" /\ call[u].key = call[t].key
              THEN call'[u].at = "woken" ELSE call'[u] = call[u]
      BY <3>3a, <3>3b
    <3>5. inflight' = [inflight EXCEPT ![call[t].key] = None]
      BY <1>5, <2>2 DEF FinishSuccessfulLoad
    <3>6. call'[t].at \notin Loading \cup {"waiting"}
      BY <3>3a, <3>3b DEF Loading
    <3> QED
      BY <2>2, <3>1, <3>2, <3>4, <3>5, <3>6, LoadEnds
  <2> QED
    BY <2>1, <2>2
<1>6. ASSUME NEW t \in Threads, FinishFailedLoad(t) PROVE OneLoadAtATime'
  <2>1. CASE closed
    BY <1>6, <2>1 DEF FinishFailedLoad, OneLoadAtATime
  <2>2. CASE ~closed
    <3>1. call[t].key \in Keys
      BY <1>6, <1>t DEF FinishFailedLoad, Call
    <3>2. call[t].at \in Loading /\ closed' = closed
      BY <1>6 DEF FinishFailedLoad, Loading
    <3>3. PICK W : W = Woken({call[t].key}, "error")
      OBVIOUS
    <3>3a. /\ DOMAIN W = Threads
          /\ W = [u \in DOMAIN W |-> W[u]]
          /\ \A u \in Threads :
                 W[u] = IF call[u].at = "waiting" /\ call[u].key = call[t].key
                        THEN With(call[u].key, "woken", "error") ELSE call[u]
      BY <3>3 DEF Woken
    <3>3b. call' = [W EXCEPT ![t] = Ended("error")]
      BY <1>6, <2>2, <3>3 DEF FinishFailedLoad
    <3>4. \A u \in Threads : u # t =>
              IF call[u].at = "waiting" /\ call[u].key = call[t].key
              THEN call'[u].at = "woken" ELSE call'[u] = call[u]
      BY <3>3a, <3>3b
    <3>5. inflight' = [inflight EXCEPT ![call[t].key] = None]
      BY <1>6, <2>2 DEF FinishFailedLoad
    <3>6. call'[t].at \notin Loading \cup {"waiting"}
      BY <3>3a, <3>3b DEF Loading
    <3> QED
      BY <2>2, <3>1, <3>2, <3>4, <3>5, <3>6, LoadEnds
  <2> QED
    BY <2>1, <2>2
<1>7. ASSUME NEW t \in Threads, Wake(t) PROVE OneLoadAtATime'
  BY <1>7, <1>t, SameLoads DEF Wake, Loading
<1>8. ASSUME NEW t \in Threads, Serve(t) PROVE OneLoadAtATime'
  BY <1>8, <1>t, SameLoads DEF Serve, Loading
<1>9. CASE UNCHANGED <<call, inflight, closed>>
  BY <1>9 DEF OneLoadAtATime, Loads
<1>10. CASE CloseProvider
  BY <1>10 DEF CloseProvider, OneLoadAtATime
<1> QED
  BY <1>1, <1>2, <1>3, <1>4, <1>5, <1>6, <1>7, <1>8, <1>9, <1>10
  DEF Next, Steps, Expire, Clear, CloseResolver, CloseClient, vars

\* While the provider is open a key is loaded by one thread at a time, the one
\* that the waiters for the key will be answered by.
THEOREM CacheLoadsOnce == Spec => []OneLoadAtATime
<1>1. Init => TypeOK /\ OneLoadAtATime
  BY InitTyped DEF Init, OneLoadAtATime, Loads, Ended
<1>2. TypeOK /\ OneLoadAtATime /\ [Next]_vars => (TypeOK /\ OneLoadAtATime)'
  BY StepTyped, OneLoadStep
<1> QED
  BY <1>1, <1>2, PTL DEF Spec

-----------------------------------------------------------------------------

LEMMA NothingKeptStep ==
    TypeOK /\ OneLoadAtATime /\ NothingKept /\ [Next]_vars => NothingKept'
<1> SUFFICES ASSUME TypeOK, OneLoadAtATime, NothingKept, [Next]_vars, closed'
             PROVE  /\ cache' = {}
                    /\ \A t \in Threads : call'[t].at # "waiting"
                    /\ client' = "open" => closing'
  BY DEF NothingKept
<1> USE DEF Goes, At, Ended, With, provider, entries
<1>t. call \in [Threads -> Call] /\ inflight \in [Keys -> Threads \cup {None}]
  BY DEF TypeOK
<1>1. CASE CloseProvider
  <2>1. call' = Woken({k \in Keys : inflight[k] # None}, "closed")
    BY <1>1 DEF CloseProvider
  <2>2. \A t \in Threads : call[t].at = "waiting" => inflight[call[t].key] # None /\ call[t].key \in Keys
    BY <1>1, <1>t DEF CloseProvider, OneLoadAtATime, Call
  <2>3. \A t \in Threads : call'[t].at # "waiting"
    BY <2>1, <2>2 DEF Woken
  <2> QED
    BY <1>1, <2>3 DEF CloseProvider
<1>2. CASE closed /\ \E t \in Threads : Steps(t) \/ \E k \in Keys : Resolve(t, k)
  BY <1>2, <1>t DEF Steps, Resolve, Lookup, GetClient, Fetch, FinishSuccessfulLoad,
     FinishFailedLoad, Wake, Serve, NothingKept
<1>3. CASE closed /\ ~\E t \in Threads : Steps(t) \/ \E k \in Keys : Resolve(t, k)
  BY <1>1, <1>3 DEF Next, Expire, Clear, CloseResolver, CloseClient, vars, NothingKept
<1> QED
  BY <1>1, <1>2, <1>3 DEF Next, Steps, Resolve, Lookup, GetClient, Fetch,
     FinishSuccessfulLoad, FinishFailedLoad, Wake, Serve, Expire, Clear, CloseResolver,
     CloseClient, vars

LEMMA NobodyServedStep == TypeOK /\ [Next]_vars => NobodyServed
<1> SUFFICES ASSUME TypeOK, [Next]_vars, NEW t \in Threads
             PROVE  /\ closed' /\ call'[t].at = "served" => call[t].at = "served"
                    /\ resolver_closed /\ call'[t] = Ended("value") => call[t] = Ended("value")
  BY DEF NobodyServed
<1> USE DEF Goes, At, Ended, With, provider, entries
<1>t. call \in [Threads -> Call]
  BY DEF TypeOK
<1>1. ASSUME NEW u \in Threads, Steps(u) \/ \E k \in Keys : Resolve(u, k)
      PROVE  /\ closed' /\ call'[t].at = "served" => call[t].at = "served"
             /\ resolver_closed /\ call'[t] = Ended("value") => call[t] = Ended("value")
  <2>1. CASE FinishSuccessfulLoad(u) \/ FinishFailedLoad(u)
    <3>1. PICK W, V : W = Woken({call[u].key}, "value") /\ V = Woken({call[u].key}, "error")
      OBVIOUS
    <3>2. \A f \in {W, V} :
              /\ DOMAIN f = Threads
              /\ f = [v \in DOMAIN f |-> f[v]]
              /\ f[t] = call[t] \/ f[t].at = "woken"
      BY <3>1 DEF Woken
    <3>3. \/ /\ closed
             /\ call' = [call EXCEPT ![u] = Ended("closed")]
          \/ /\ ~closed'
             /\ call' = [W EXCEPT ![u] = At(call[u].key, "served")]
             /\ call[u].at = "loaded"
          \/ /\ ~closed'
             /\ call' = [V EXCEPT ![u] = Ended("error")]
      BY <2>1, <3>1 DEF FinishSuccessfulLoad, FinishFailedLoad
    <3> QED
      BY <3>2, <3>3, <1>t
  <2>2. CASE ~(FinishSuccessfulLoad(u) \/ FinishFailedLoad(u))
    BY <1>1, <2>2, <1>t DEF Steps, Resolve, Lookup, GetClient, Fetch, Wake, Serve
  <2> QED
    BY <2>1, <2>2
<1> QED
  BY <1>1, <1>t DEF Next, Expire, Clear, CloseResolver, CloseProvider, CloseClient, vars, Woken

\* Close is for good although loads are under way.
THEOREM CacheClosedForGood == Spec => ClosedForGood
<1>1. Init => TypeOK /\ OneLoadAtATime /\ NothingKept
  BY InitTyped DEF Init, OneLoadAtATime, NothingKept, Loads, Ended
<1>2. TypeOK /\ OneLoadAtATime /\ NothingKept /\ [Next]_vars
          => (TypeOK /\ OneLoadAtATime /\ NothingKept)'
  BY StepTyped, OneLoadStep, NothingKeptStep
<1>3. TypeOK /\ OneLoadAtATime /\ NothingKept /\ [Next]_vars
          => [NothingKept' /\ NobodyServed]_vars
  BY NothingKeptStep, NobodyServedStep
<1> QED
  BY <1>1, <1>2, <1>3, PTL DEF Spec, ClosedForGood

=============================================================================
