---------------------------- MODULE SecretCache ----------------------------
(***************************************************************************)
(* SecretResolver over one caching provider with a client of its own (Key   *)
(* Vault or Databricks): concurrent resolutions, the single load in flight  *)
(* of a key, expiry, clear, and the two levels of close.                    *)
(*                                                                         *)
(* Every step is one section under a lock of the code, or a call outside    *)
(* of them.  A secret is not told apart from another: the cache holds one   *)
(* or none, and an entry may expire at any time.  Since a future is set     *)
(* once and leaves _inflight with it, its waiters are the calls that wait   *)
(* for the key, and setting it is to wake them with the outcome.            *)
(***************************************************************************)
EXTENDS FiniteSets

CONSTANTS Threads, Keys, None

ASSUME NoneIsNobody == None \notin Threads \cup Keys

VARIABLES
    call,            \* Threads -> the resolve of that thread, or how its last one ended
    cache,           \* keys with an entry, expired ones included
    fresh,           \* keys with an entry that has not expired
    inflight,        \* Keys -> the thread that loads it, or None
    client,          \* "absent", "open" or "closed"
    closed,          \* the provider's _closed
    closing,         \* close has taken the client and not closed it yet
    resolver_closed  \* the resolver's _closed

entries == <<cache, fresh>>
provider == <<entries, inflight, client, closed, closing>>
vars == <<call, provider, resolver_closed>>

-----------------------------------------------------------------------------

Outcome == {"value", "error", "closed"}

\* How the last call ended; None before the first.
Ended(outcome) == [at |-> "ended", key |-> None, outcome |-> outcome]
At(key, stage) == [at |-> stage, key |-> key, outcome |-> None]
\* A waiter whose future is set, or a leader whose loader is back.
With(key, stage, outcome) == [at |-> stage, key |-> key, outcome |-> outcome]

Goes(t, c) == call' = [call EXCEPT ![t] = c]

\* Seeded fault: nobody is told of a load that failed.
WokenByValue(keys, outcome) ==
    [t \in Threads |->
        IF call[t].at = "waiting" /\ call[t].key \in keys /\ outcome # "error"
        THEN With(call[t].key, "woken", outcome) ELSE call[t]]

\* The calls after those that wait for a key of `keys' got an outcome.
Woken(keys, outcome) ==
    [t \in Threads |->
        IF call[t].at = "waiting" /\ call[t].key \in keys
        THEN With(call[t].key, "woken", outcome) ELSE call[t]]

Init ==
    /\ call = [t \in Threads |-> Ended(None)]
    /\ cache = {}
    /\ fresh = {}
    /\ inflight = [k \in Keys |-> None]
    /\ client = "absent"
    /\ closed = FALSE
    /\ closing = FALSE
    /\ resolver_closed = FALSE

-----------------------------------------------------------------------------
(* resolve *)

\* The first section of SecretResolver.resolve.
Resolve(t, k) ==
    /\ call[t].at = "ended"
    /\ Goes(t, IF resolver_closed THEN Ended("closed") ELSE At(k, "resolving"))
    /\ UNCHANGED <<provider, resolver_closed>>

\* Seeded fault: only a call that finds a stale entry joins the load in flight.
JoinsOnExpiry(k) == inflight[k] # None /\ k \in cache

Joins(k) == inflight[k] # None

\* The first section of _cached: a fresh entry, the future in flight, or a new one.
Lookup(t) ==
    LET k == call[t].key
    IN  /\ call[t].at = "resolving"
        /\ \/ /\ closed
              /\ Goes(t, Ended("closed"))
              /\ UNCHANGED inflight
           \/ /\ ~closed /\ k \in fresh
              /\ Goes(t, At(k, "served"))
              /\ UNCHANGED inflight
           \/ /\ ~closed /\ k \notin fresh /\ Joins(k)
              /\ Goes(t, At(k, "waiting"))
              /\ UNCHANGED inflight
           \/ /\ ~closed /\ k \notin fresh /\ ~Joins(k)
              /\ Goes(t, At(k, "loading"))
              /\ inflight' = [inflight EXCEPT ![k] = t]
        /\ UNCHANGED <<entries, client, closed, closing, resolver_closed>>

\* _client, _resolved_getter: made once, never after close; making it may fail.
GetClient(t) ==
    LET k == call[t].key
    IN  /\ call[t].at = "loading"
        /\ \/ /\ ~closed
              /\ client' = "open"
              /\ Goes(t, At(k, "fetching"))
           \/ /\ Goes(t, With(k, "loaded", "error"))
              /\ UNCHANGED client
        /\ UNCHANGED <<entries, inflight, closed, closing, resolver_closed>>

\* The call of the client returns or raises, also while it is being closed.
Fetch(t) ==
    /\ call[t].at = "fetching"
    /\ \E outcome \in {"value", "error"} : Goes(t, With(call[t].key, "loaded", outcome))
    /\ UNCHANGED <<provider, resolver_closed>>

\* Seeded fault: a load that ends after close is stored like any other.
FinishUnchecked(t) ==
    LET k == call[t].key
    IN  /\ call[t].at = "loaded" /\ call[t].outcome = "value"
        /\ cache' = cache \cup {k}
        /\ fresh' = fresh \cup {k}
        /\ call' = [Woken({k}, "value") EXCEPT ![t] = At(k, "served")]
        /\ inflight' = [inflight EXCEPT ![k] = None]
        /\ UNCHANGED <<client, closed, closing, resolver_closed>>

\* _finish_successful_load
FinishSuccessfulLoad(t) ==
    LET k == call[t].key
    IN  /\ call[t].at = "loaded" /\ call[t].outcome = "value"
        /\ IF closed
           THEN /\ Goes(t, Ended("closed"))
                /\ UNCHANGED <<entries, inflight>>
           ELSE /\ cache' = cache \cup {k}
                /\ fresh' = fresh \cup {k}
                /\ call' = [Woken({k}, "value") EXCEPT ![t] = At(k, "served")]
                /\ inflight' = [inflight EXCEPT ![k] = None]
        /\ UNCHANGED <<client, closed, closing, resolver_closed>>

\* _finish_failed_load: after close the failure is told as the provider's being closed.
FinishFailedLoad(t) ==
    LET k == call[t].key
    IN  /\ call[t].at = "loaded" /\ call[t].outcome = "error"
        /\ IF closed
           THEN /\ Goes(t, Ended("closed"))
                /\ UNCHANGED inflight
           ELSE /\ call' = [Woken({k}, "error") EXCEPT ![t] = Ended("error")]
                /\ inflight' = [inflight EXCEPT ![k] = None]
        /\ UNCHANGED <<entries, client, closed, closing, resolver_closed>>

\* A waiter: future.result(), and the section after it.
Wake(t) ==
    /\ call[t].at = "woken"
    /\ Goes(t, IF call[t].outcome # "value" THEN Ended(call[t].outcome)
               ELSE IF closed THEN Ended("closed")
               ELSE At(call[t].key, "served"))
    /\ UNCHANGED <<provider, resolver_closed>>

\* The last section of SecretResolver.resolve.
Serve(t) ==
    /\ call[t].at = "served"
    /\ Goes(t, Ended(IF resolver_closed THEN "closed" ELSE "value"))
    /\ UNCHANGED <<provider, resolver_closed>>

-----------------------------------------------------------------------------
(* Time, clear and close *)

Expire(k) ==
    /\ k \in fresh
    /\ fresh' = fresh \ {k}
    /\ UNCHANGED <<call, cache, inflight, client, closed, closing, resolver_closed>>

Clear ==
    /\ cache # {}
    /\ cache' = {}
    /\ fresh' = {}
    /\ UNCHANGED <<call, inflight, client, closed, closing, resolver_closed>>

\* SecretResolver.close, up to the close of its providers.
CloseResolver ==
    /\ ~resolver_closed
    /\ resolver_closed' = TRUE
    /\ UNCHANGED <<call, provider>>

\* _mark_closed_locked, and the client taken in the same section: by the
\* resolver that owns the provider, or by whoever does.
CloseProvider ==
    /\ ~closed
    /\ closed' = TRUE
    /\ closing' = (client = "open")
    /\ cache' = {}
    /\ fresh' = {}
    /\ call' = Woken({k \in Keys : inflight[k] # None}, "closed")
    /\ inflight' = [k \in Keys |-> None]
    /\ UNCHANGED <<client, resolver_closed>>

\* _close_resources, outside the lock.
CloseClient ==
    /\ closing
    /\ closing' = FALSE
    /\ client' = "closed"
    /\ UNCHANGED <<call, entries, inflight, closed, resolver_closed>>

-----------------------------------------------------------------------------

Steps(t) ==
    \/ Lookup(t)
    \/ GetClient(t)
    \/ Fetch(t)
    \/ FinishSuccessfulLoad(t)
    \/ FinishFailedLoad(t)
    \/ Wake(t)
    \/ Serve(t)

Next ==
    \/ \E t \in Threads : Steps(t) \/ \E k \in Keys : Resolve(t, k)
    \/ \E k \in Keys : Expire(k)
    \/ Clear
    \/ CloseResolver
    \/ CloseProvider
    \/ CloseClient

Spec == Init /\ [][Next]_vars

\* Threads are scheduled and the client's calls return or raise.  Nobody has to
\* resolve or close anything.
FairSpec == Spec /\ \A t \in Threads : WF_vars(Steps(t))

-----------------------------------------------------------------------------
(* Properties *)

Call ==
    [at : {"ended"}, key : {None}, outcome : Outcome \cup {None}]
    \cup [at : {"resolving", "waiting", "loading", "fetching", "served"}, key : Keys,
          outcome : {None}]
    \cup [at : {"woken"}, key : Keys, outcome : Outcome]
    \cup [at : {"loaded"}, key : Keys, outcome : {"value", "error"}]

\* Type invariant.
TypeOK ==
    /\ call \in [Threads -> Call]
    /\ cache \subseteq Keys
    /\ fresh \subseteq cache
    /\ inflight \in [Keys -> Threads \cup {None}]
    /\ client \in {"absent", "open", "closed"}
    /\ closed \in BOOLEAN
    /\ closing \in BOOLEAN
    /\ resolver_closed \in BOOLEAN

Loads(t, k) == call[t].at \in {"loading", "fetching", "loaded"} /\ call[t].key = k

\* While the provider is open a key is loaded by one thread at a time, the one
\* that everybody else who asks waits for: however calls, failed loads, expiry
\* and clear interleave, a waiter never waits for a thread that is gone.
OneLoadAtATime ==
    ~closed =>
        \A k \in Keys :
            /\ inflight[k] # None => Loads(inflight[k], k)
            /\ \A t \in Threads :
                   /\ Loads(t, k) => inflight[k] = t
                   /\ call[t].at = "waiting" /\ call[t].key = k => inflight[k] # None

NothingKept ==
    closed =>
        /\ cache = {}
        /\ \A t \in Threads : call[t].at # "waiting"
        /\ client = "open" => closing

NobodyServed ==
    \A t \in Threads :
        /\ closed' /\ call'[t].at = "served" => call[t].at = "served"
        /\ resolver_closed /\ call'[t] = Ended("value") => call[t] = Ended("value")

\* Close is for good although loads are still under way: the provider keeps no
\* secret and no waiter and closes the client it has, makes no other, and from then
\* on serves nobody; nor does the resolver after its own close.
ClosedForGood == [][NothingKept' /\ NobodyServed]_vars

\* Every resolve ends, with a value or an error, whether its leader succeeds,
\* fails or is overtaken by close.
EveryoneAnswered == \A t \in Threads : call[t].at # "ended" ~> call[t].at = "ended"

=============================================================================
