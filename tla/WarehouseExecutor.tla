------------------------- MODULE WarehouseExecutor -------------------------
(***************************************************************************)
(* DatabricksWarehouseExecutor of the analytics template: statements that  *)
(* threads and tasks run on a SQL warehouse, their cancellation, and close.*)
(*                                                                         *)
(* An operation is one _submit (a caller's thread) or one _asubmit (a task *)
(* that holds a slot of the semaphore and sends its calls to a pool of one *)
(* more worker than there are slots).  A call is in flight from the moment *)
(* a thread makes it until the client returns; a task may stop waiting for *)
(* it earlier.  Time is not modelled: a deadline may pass whenever the     *)
(* code looks at it, and the poll deadline has passed after MaxPolls polls.*)
(* The other end, the warehouse, runs a statement from the execute call on.*)
(***************************************************************************)
EXTENDS Naturals, Sequences, FiniteSets

CONSTANTS
    SyncOps, AsyncOps,
    Closers,    \* threads that call close
    MaxConcurrentOperations,
    MaxOperations, \* bound: operations of Ops that are begun or given up
    MaxPolls    \* bound: polls of one operation before its deadline

ASSUME OperationsAssumption == SyncOps \cap AsyncOps = {} /\ IsFiniteSet(AsyncOps)
ASSUME ConcurrencyAssumption == MaxConcurrentOperations \in Nat \ {0}
ASSUME PollsAssumption == MaxPolls \in Nat

Ops == SyncOps \cup AsyncOps

VARIABLES
    stage,     \* Ops -> where the operation stands
    polls,     \* Ops -> polls made
    active,    \* Ops -> its entry in _active_operations: "absent", "untracked" or "tracked"
    statement, \* Ops -> its statement in the warehouse
    queue,     \* calls waiting for a worker
    running,   \* calls in flight
    handling,  \* tasks in their `except asyncio.CancelledError'
    excused,   \* history: operations that gave up on their statement and may say why
    closed, close_finished, client,
    closer,    \* Closers -> where the call of close stands
    requested  \* operations whose statement close asked to cancel

calls == <<queue, running>>
leaving == <<handling, excused>>
closing == <<closed, close_finished, client, closer, requested>>
vars == <<stage, polls, active, statement, calls, leaving, closing>>

-----------------------------------------------------------------------------

Kinds == {"execute", "get", "cancel", "confirm"}
\* `handler': made in an `except asyncio.CancelledError'.
Call == [op : Ops, kind : Kinds, handler : BOOLEAN]

\* The kind of call whose answer an operation in a stage waits for.
Awaited(s) ==
    CASE s \in {"submitting", "recovering"} -> "execute"
      [] s = "checking" -> "get"
      [] s = "cancelling" -> "cancel"
      [] s = "confirming" -> "confirm"
      [] OTHER -> "none"

\* Seeded fault: a cancelled task gives its slot back before its statement is settled.
SlotUntilCancelled(o) == stage[o] \in {"submitting", "polling", "checking"}

\* Inside `async with self._semaphore'.
HoldsSlot(o) == stage[o] \notin {"new", "ended"}

SlotFree == Cardinality({o \in AsyncOps : HoldsSlot(o)}) < MaxConcurrentOperations

Init ==
    /\ stage = [o \in Ops |-> "new"]
    /\ polls = [o \in Ops |-> 0]
    /\ active = [o \in Ops |-> "absent"]
    /\ statement = [o \in Ops |-> "none"]
    /\ queue = <<>>
    /\ running = {}
    /\ handling = {}
    /\ excused = {}
    /\ closed = FALSE
    /\ close_finished = FALSE
    /\ client = "open"
    /\ closer = [c \in Closers |-> "new"]
    /\ requested = {}

-----------------------------------------------------------------------------
(* Calls of the client.  `returned' is the call that a step brings back.    *)

CallOf(o, kind) == [op |-> o, kind |-> kind, handler |-> o \in handling]

Removed(seq, i) == SubSeq(seq, 1, i - 1) \o SubSeq(seq, i + 1, Len(seq))

\* Cancelling the future of a call that has no worker yet takes the call back (an
\* operation has one at most); a submission is shielded.
StillQueued(o) ==
    LET withdrawn == {i \in DOMAIN queue : queue[i].op = o /\ queue[i].kind # "execute"}
    IN  IF withdrawn = {} THEN queue ELSE Removed(queue, CHOOSE i \in withdrawn : TRUE)

Issue(call, returned) ==
    IF call.op \in SyncOps
    THEN /\ running' = (running \ returned) \cup {call}
         /\ queue' = queue
    ELSE /\ running' = running \ returned
         /\ queue' = Append(StillQueued(call.op), call)

Returned(returned) ==
    /\ running' = running \ returned
    /\ queue' = queue

GoesTo(o, s) == stage' = [stage EXCEPT ![o] = s]

Tracked(o) == active' = [active EXCEPT ![o] = "tracked"]

\* Seeded fault: an operation that runs out of time stays in _active_operations.
EndsActive(o, returned) ==
    /\ GoesTo(o, "ended")
    /\ active' = [active EXCEPT ![o] = IF returned = {} THEN @ ELSE "absent"]
    /\ running' = running \ returned
    /\ queue' = StillQueued(o)

\* The finally clause, and the end of `async with'.
Ends(o, returned) ==
    /\ GoesTo(o, "ended")
    /\ active' = [active EXCEPT ![o] = "absent"]
    /\ running' = running \ returned
    /\ queue' = StillQueued(o)

\* A worker of the pool takes the next call.
StartCall ==
    /\ queue # <<>>
    /\ Cardinality({c \in running : c.op \in AsyncOps}) < MaxConcurrentOperations + 1
    /\ running' = running \cup {Head(queue)}
    /\ queue' = Tail(queue)
    /\ statement' = IF Head(queue).kind = "execute"
                    THEN [statement EXCEPT ![Head(queue).op] = "running"] ELSE statement
    /\ UNCHANGED <<stage, polls, active, leaving, closing>>

\* The warehouse finishes a statement, or finishes stopping it; one whose
\* operation has ended is left as it is, since nobody asks for its state.
StatementEnds(o) ==
    /\ stage[o] # "ended"
    /\ statement[o] \in {"running", "stopping"}
    /\ statement' = [statement EXCEPT ![o] = "ended"]
    /\ UNCHANGED <<stage, polls, active, calls, leaving, closing>>

-----------------------------------------------------------------------------
(* An operation *)

Arrives(o) ==
    /\ stage[o] = "new"
    /\ Cardinality({p \in Ops : stage[p] # "new"}) < MaxOperations

Begin(o) ==
    /\ Arrives(o)
    /\ o \in AsyncOps => SlotFree
    /\ IF closed
       THEN /\ GoesTo(o, "ended")
            /\ UNCHANGED <<active, statement, calls>>
       ELSE /\ GoesTo(o, "submitting")
            /\ active' = [active EXCEPT ![o] = "untracked"]
            /\ Issue(CallOf(o, "execute"), {})
            /\ statement' = [statement EXCEPT ![o] = IF o \in SyncOps THEN "running" ELSE @]
    /\ UNCHANGED <<polls, leaving, closing>>

\* A call whose answer nobody waits for any more.
Forgotten(c) ==
    \/ Awaited(stage[c.op]) # c.kind
    \/ c.kind # "execute" /\ c.handler # (c.op \in handling)

Executed(c) ==
    LET o == c.op
    IN  /\ c.kind = "execute"
        /\ \/ /\ stage[o] = "submitting"
              /\ statement[o] = "ended"
              /\ Ends(o, {c})
           \/ /\ stage[o] = "submitting"
              /\ statement[o] # "ended"
              /\ ~closed
              /\ Tracked(o)
              /\ GoesTo(o, "polling")
              /\ Returned({c})
           \/ /\ \/ stage[o] = "submitting" /\ statement[o] # "ended" /\ closed
                 \/ stage[o] = "recovering"
              /\ Tracked(o)
              /\ GoesTo(o, "cancelling")
              /\ Issue(CallOf(o, "cancel"), {c})
        /\ UNCHANGED <<polls, statement, leaving, closing>>

Poll(o) ==
    /\ stage[o] = "polling"
    /\ polls[o] < MaxPolls
    /\ polls' = [polls EXCEPT ![o] = @ + 1]
    /\ GoesTo(o, "checking")
    /\ Issue(CallOf(o, "get"), {})
    /\ UNCHANGED <<active, statement, leaving, closing>>

PollDeadline(o) ==
    /\ stage[o] = "polling"
    /\ GoesTo(o, "cancelling")
    /\ Issue(CallOf(o, "cancel"), {})
    /\ UNCHANGED <<polls, active, statement, leaving, closing>>

Checked(c) ==
    LET o == c.op
    IN  /\ c.kind = "get"
        /\ ~Forgotten(c)
        /\ \/ statement[o] = "ended" /\ Ends(o, {c})
           \/ /\ statement[o] # "ended"
              /\ GoesTo(o, "polling")
              /\ Returned({c})
              /\ UNCHANGED active
        /\ UNCHANGED <<polls, statement, leaving, closing>>

Stopped(o) ==
    statement' = [statement EXCEPT ![o] = IF @ = "running" THEN "stopping" ELSE @]

CancelAccepted(c) ==
    LET o == c.op
    IN  /\ c.kind = "cancel"
        /\ Stopped(o)
        /\ \/ /\ ~Forgotten(c)
              /\ GoesTo(o, "confirming")
              /\ Issue(CallOf(o, "confirm"), {c})
           \/ /\ Forgotten(c)
              /\ Returned({c})
              /\ UNCHANGED stage
        /\ UNCHANGED <<polls, active, leaving, closing>>

\* A statement that has not ended is asked about again until the grace is over.
Confirmed(c) ==
    LET o == c.op
    IN  /\ c.kind = "confirm"
        /\ ~Forgotten(c)
        /\ \/ Ends(o, {c})
           \/ /\ statement[o] # "ended"
              /\ Issue(CallOf(o, "confirm"), {c})
              /\ UNCHANGED <<stage, active>>
        /\ UNCHANGED <<polls, statement, leaving, closing>>

GivesUp(o) == excused' = excused \cup {o} /\ UNCHANGED handling

\* The client raises: the operation ends with what is known of its statement.
CallFails(c) ==
    /\ ~Forgotten(c)
    /\ Ends(c.op, {c})
    /\ GivesUp(c.op)
    /\ UNCHANGED <<polls, statement, closing>>

\* The answer, or the exception, of a call that is no longer awaited.
Dropped(c) ==
    /\ Forgotten(c)
    /\ Returned({c})
    /\ UNCHANGED <<stage, polls, active, statement, leaving, closing>>

\* asyncio.wait_for of a task that cancels its statement.
GraceExpires(o) ==
    /\ o \in AsyncOps
    /\ stage[o] \in {"recovering", "cancelling", "confirming"}
    /\ Ends(o, {})
    /\ GivesUp(o)
    /\ UNCHANGED <<polls, statement, closing>>

Handles(o) == handling' = handling \cup {o} /\ UNCHANGED excused

\* Seeded fault: a task that is cancelled while it submits leaves at once.
NothingToRecover(o) ==
    \/ /\ stage[o] = "submitting"
       /\ Ends(o, {})
       /\ UNCHANGED leaving
    \/ /\ stage[o] \in {"polling", "checking", "cancelling", "confirming"} /\ o \notin handling
       /\ GoesTo(o, "cancelling")
       /\ Issue([CallOf(o, "cancel") EXCEPT !.handler = TRUE], {})
       /\ Handles(o)
       /\ UNCHANGED active
    \/ /\ stage[o] # "ended" /\ o \in handling
       /\ Ends(o, {})
       /\ GivesUp(o)

\* CancelledError: its handler cancels the statement, even if a deadline or
\* close had that begun already; in the handler it ends the task.
Interrupted(o) ==
    \/ /\ stage[o] = "submitting"
       /\ GoesTo(o, "recovering")
       /\ Handles(o)
       /\ UNCHANGED <<active, calls>>
    \/ /\ stage[o] \in {"polling", "checking", "cancelling", "confirming"} /\ o \notin handling
       /\ GoesTo(o, "cancelling")
       /\ Issue([CallOf(o, "cancel") EXCEPT !.handler = TRUE], {})
       /\ Handles(o)
       /\ UNCHANGED active
    \/ /\ stage[o] # "ended" /\ o \in handling
       /\ Ends(o, {})
       /\ GivesUp(o)

CancelTask(o) ==
    /\ o \in AsyncOps
    /\ \/ Interrupted(o)
       \/ /\ Arrives(o) /\ ~SlotFree   \* waiting for the semaphore
          /\ GoesTo(o, "ended")
          /\ UNCHANGED <<active, calls, leaving>>
    /\ UNCHANGED <<polls, statement, closing>>

-----------------------------------------------------------------------------
(* close *)

Close(c) ==
    /\ closer[c] = "new"
    /\ closed' = TRUE
    /\ closer' = [closer EXCEPT ![c] = IF close_finished THEN "returned"
                                       ELSE IF closed THEN "waiting" ELSE "cancelling"]
    /\ UNCHANGED <<stage, polls, active, statement, calls, leaving,
                   close_finished, client, requested>>

\* The state it reads afterwards only tells close when to stop asking.
CancelActive(c, o) ==
    /\ closer[c] = "cancelling"
    /\ active[o] = "tracked"
    /\ o \notin requested
    /\ requested' = requested \cup {o}
    /\ \/ Stopped(o)
       \/ UNCHANGED statement   \* the call raises
    /\ UNCHANGED <<stage, polls, active, calls, leaving, closed, close_finished, client, closer>>

\* Nothing is active, the grace is over, or the client raises.
StopCancelling(c) ==
    /\ closer[c] = "cancelling"
    /\ closer' = [closer EXCEPT ![c] = "draining"]
    /\ UNCHANGED <<stage, polls, active, statement, calls, leaving,
                   closed, close_finished, client, requested>>

\* Seeded fault: close does not wait for operations whose statements it cancelled.
RequestedDrained == \A o \in Ops : active[o] = "absent" \/ o \in requested

Drained == \A o \in Ops : active[o] = "absent"

\* ThreadPoolExecutor.shutdown(cancel_futures=True)
ShutDownPool(c) ==
    /\ closer[c] = "draining"
    /\ Drained
    /\ queue' = <<>>
    /\ closer' = [closer EXCEPT ![c] = "joining"]
    /\ UNCHANGED <<stage, polls, active, statement, running, leaving,
                   closed, close_finished, client, requested>>

CloseClient(c) ==
    /\ closer[c] = "joining"
    /\ {d \in running : d.op \in AsyncOps} = {}
    /\ client' = "closed"
    /\ close_finished' = TRUE
    /\ closer' = [closer EXCEPT ![c] = "returned"]
    /\ UNCHANGED <<stage, polls, active, statement, calls, leaving, closed, requested>>

FindsClosed(c) ==
    /\ closer[c] = "waiting"
    /\ close_finished
    /\ closer' = [closer EXCEPT ![c] = "returned"]
    /\ UNCHANGED <<stage, polls, active, statement, calls, leaving,
                   closed, close_finished, client, requested>>

-----------------------------------------------------------------------------

Returns(o) ==
    \E c \in running :
        /\ c.op = o
        /\ \/ Executed(c)
           \/ Checked(c)
           \/ CancelAccepted(c)
           \/ Confirmed(c)
           \/ CallFails(c)
           \/ Dropped(c)

Waits(o) == Poll(o) \/ PollDeadline(o) \/ GraceExpires(o)

Closes(c) ==
    \/ StopCancelling(c)
    \/ ShutDownPool(c)
    \/ CloseClient(c)
    \/ FindsClosed(c)

Next ==
    \/ StartCall
    \/ \E o \in Ops :
        \/ Begin(o)
        \/ Waits(o)
        \/ Returns(o)
        \/ CancelTask(o)
        \/ StatementEnds(o)
    \/ \E c \in Closers :
        \/ Close(c)
        \/ Closes(c)
        \/ \E o \in Ops : CancelActive(c, o)

Spec == Init /\ [][Next]_vars

\* Calls of the client return or raise, the event loop and the threads are
\* scheduled, and deadlines pass.  Nobody has to call, cancel or close, and a
\* statement need not end.
Fairness ==
    /\ WF_vars(StartCall)
    /\ \A o \in Ops : WF_vars(Waits(o)) /\ WF_vars(Returns(o))
    /\ \A c \in Closers : WF_vars(Closes(c))

FairSpec == Spec /\ Fairness

-----------------------------------------------------------------------------
(* Properties *)

\* Type invariant.
TypeOK ==
    /\ stage \in [Ops -> {"new", "submitting", "recovering", "polling", "checking",
                          "cancelling", "confirming", "ended"}]
    /\ polls \in [Ops -> 0 .. MaxPolls]
    /\ active \in [Ops -> {"absent", "untracked", "tracked"}]
    /\ statement \in [Ops -> {"none", "running", "stopping", "ended"}]
    /\ queue \in Seq(Call)
    /\ running \subseteq Call
    /\ handling \subseteq AsyncOps
    /\ excused \subseteq Ops
    /\ closed \in BOOLEAN
    /\ close_finished \in BOOLEAN
    /\ client \in {"open", "closed"}
    /\ closer \in [Closers -> {"new", "waiting", "cancelling", "draining", "joining", "returned"}]
    /\ requested \subseteq Ops

\* Once the client is closed, or any call of close has returned, no thread is in
\* a call of the client and none will make one: neither an operation, nor a
\* worker left behind by a task that stopped waiting for it.
NothingAfterClose ==
    client = "closed" \/ (\E c \in Closers : closer[c] = "returned") =>
        /\ running = {}
        /\ queue = <<>>
        /\ \A o \in Ops : stage[o] \in {"new", "ended"}

\* A statement is left running by an operation that has ended only if the client
\* raised, the grace was over or the task was cancelled a second time: never by
\* a first cancellation or a deadline, whenever they come.
NoSilentOrphans ==
    \A o \in Ops : stage[o] = "ended" /\ statement[o] = "running" => o \in excused

\* No more statements than slots run in the warehouse at a time, those excepted
\* that were left behind with an excuse.
StatementsBounded ==
    Cardinality({o \in AsyncOps \ excused : statement[o] = "running"}) <= MaxConcurrentOperations

\* Every operation that began ends, and every call of close returns, whatever the
\* warehouse does with the statements.
EverythingEnds ==
    []<>(/\ \A o \in Ops : stage[o] \in {"new", "ended"}
         /\ \A c \in Closers : closer[c] \in {"new", "returned"})

=============================================================================
