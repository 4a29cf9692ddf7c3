----------------------- MODULE WarehouseExecutorProofs -----------------------
(***************************************************************************)
(* What WarehouseExecutor promises, for every number of threads, tasks,     *)
(* slots and calls of close: nothing happens after close, no statement is   *)
(* left behind without an excuse, and the slots bound the statements.       *)
(*                                                                         *)
(* The strengthening follows the calls of the client: a submission is made  *)
(* once, and while it waits for a worker its task has asked for nothing     *)
(* else; a thread awaits the one call that it has in flight; a statement    *)
(* whose stop is being confirmed has been stopped; and once close has found *)
(* nothing active, no operation is there to make a call.                    *)
(***************************************************************************)
EXTENDS WarehouseExecutor, FiniteSetTheorems, SequenceTheorems, TLAPS

AsyncCall == {c \in Call : c.op \in AsyncOps}
QueueOfTasks == queue \in Seq(AsyncCall)

\* An operation that has not begun has left no trace, and is active until it ends.
Begun ==
    /\ \A o \in Ops :
        /\ stage[o] = "new" => statement[o] = "none" /\ o \notin handling
        /\ active[o] = "absent" <=> stage[o] \in {"new", "ended"}
    /\ \A c \in running \cup Range(queue) : stage[c.op] # "new"

\* What a thread has in flight is what it awaits.
ThreadsAwait ==
    \A c \in running : c.op \in SyncOps =>
        c = [op |-> c.op, kind |-> Awaited(stage[c.op]), handler |-> FALSE]

OneSubmission(q) ==
    \A i, j \in DOMAIN q :
        q[i].kind = "execute" /\ q[j].kind = "execute" /\ q[i].op = q[j].op => i = j

\* A submission that waits for a worker is the only one of its operation, and the
\* operation is still submitting or has given up.
SubmittedOnce ==
    /\ OneSubmission(queue)
    /\ \A c \in Range(queue) : c.kind = "execute" =>
        /\ stage[c.op] \in {"submitting", "recovering", "ended"}
        /\ stage[c.op] = "ended" => c.op \in excused
        /\ \A d \in running : d.op = c.op => d.kind # "execute"

StoppedFirst == \A o \in Ops : stage[o] = "confirming" => statement[o] # "running"

\* Once close has found nothing active, nothing is, and nothing is queued.
ClosedDown ==
    /\ \A c \in Closers :
        /\ closer[c] # "new" => closed
        /\ closer[c] = "returned" => close_finished
        /\ closer[c] = "joining" => Drained /\ queue = <<>>
    /\ client = "closed" => close_finished
    /\ close_finished => closed /\ Drained /\ queue = <<>> /\ running = {}

Holders == {o \in AsyncOps : HoldsSlot(o)}
SlotsBounded == Cardinality(Holders) <= MaxConcurrentOperations

Orderly ==
    /\ TypeOK
    /\ QueueOfTasks
    /\ Begun
    /\ ThreadsAwait
    /\ SubmittedOnce
    /\ StoppedFirst
    /\ NoSilentOrphans
    /\ ClosedDown
    /\ SlotsBounded

-----------------------------------------------------------------------------
(* The queue                                                                *)

\* What is left of a queue without its i-th call, in terms of indices.
LEMMA RemovedFacts ==
    ASSUME NEW S, NEW q \in Seq(S), NEW i \in DOMAIN q
    PROVE  /\ Removed(q, i) \in Seq(S)
           /\ Range(Removed(q, i)) \subseteq Range(q)
           /\ OneSubmission(q) => OneSubmission(Removed(q, i))
<1> DEFINE before == SubSeq(q, 1, i - 1)
           after == SubSeq(q, i + 1, Len(q))
           left == Removed(q, i)
<1>1. Len(q) \in Nat /\ DOMAIN q = 1 .. Len(q) /\ i \in 1 .. Len(q)
  BY LenProperties
<1>2. /\ before \in Seq(S) /\ Len(before) = i - 1
      /\ \A k \in 1 .. i - 1 : before[k] = q[k]
  <2>1. \A k \in 1 .. i - 1 : q[k] \in S
    BY <1>1, ElementOfSeq
  <2>2. 1 \in Int /\ i - 1 \in Int
    BY <1>1
  <2>3. /\ before \in Seq(S) /\ Len(before) = (IF 1 <= i - 1 THEN (i - 1) - 1 + 1 ELSE 0)
        /\ \A k \in 1 .. (i - 1) - 1 + 1 : before[k] = q[1 + k - 1]
    BY <2>1, <2>2, SubSeqProperties
  <2> QED
    BY <1>1, <2>3
<1>3. /\ after \in Seq(S) /\ Len(after) = Len(q) - i
      /\ \A k \in 1 .. Len(q) - i : after[k] = q[k + i]
  <2>1. \A k \in i + 1 .. Len(q) : q[k] \in S
    BY <1>1, ElementOfSeq
  <2>2. i + 1 \in Int /\ Len(q) \in Int
    BY <1>1
  <2>3. /\ after \in Seq(S) /\ Len(after) = (IF i + 1 <= Len(q) THEN Len(q) - (i + 1) + 1 ELSE 0)
        /\ \A k \in 1 .. Len(q) - (i + 1) + 1 : after[k] = q[(i + 1) + k - 1]
    BY <2>1, <2>2, SubSeqProperties
  <2> QED
    BY <1>1, <2>3
<1> HIDE DEF before, after
<1>4. /\ left \in Seq(S) /\ Len(left) = Len(q) - 1
      /\ \A k \in 1 .. Len(q) - 1 : left[k] = IF k < i THEN q[k] ELSE q[k + 1]
  <2>1. left = before \o after
    BY DEF Removed, before, after
  <2>2. /\ before \o after \in Seq(S)
        /\ Len(before \o after) = Len(before) + Len(after)
        /\ \A k \in 1 .. Len(before) + Len(after) :
              (before \o after)[k] = IF k <= Len(before) THEN before[k] ELSE after[k - Len(before)]
    BY <1>2, <1>3, ConcatProperties
  <2>3. left \in Seq(S) /\ Len(left) = Len(q) - 1
    BY <1>1, <1>2, <1>3, <2>1, <2>2
  <2>4. ASSUME NEW k \in 1 .. Len(q) - 1 PROVE left[k] = IF k < i THEN q[k] ELSE q[k + 1]
    <3> HIDE DEF left
    <3>1. left[k] = IF k <= i - 1 THEN before[k] ELSE after[k - (i - 1)]
      BY <1>1, <1>2, <1>3, <2>1, <2>2
    <3>2. CASE k < i
      BY <1>1, <1>2, <3>1, <3>2
    <3>3. CASE ~(k < i)
      <4>1. k - (i - 1) \in 1 .. Len(q) - i /\ (k - (i - 1)) + i = k + 1 /\ ~(k <= i - 1)
        BY <1>1, <3>3
      <4> QED
        BY <1>3, <3>1, <3>3, <4>1
    <3> QED
      BY <3>2, <3>3
  <2> HIDE DEF left
  <2> QED
    BY <2>3, <2>4
<1> HIDE DEF left
<1>5. DOMAIN left = 1 .. Len(q) - 1
  BY <1>4, <1>1, LenProperties
<1>6. Range(left) \subseteq Range(q)
  BY <1>1, <1>4, <1>5 DEF Range
<1>7. ASSUME OneSubmission(q) PROVE OneSubmission(left)
  BY <1>1, <1>4, <1>5, <1>7 DEF OneSubmission
<1> QED
  BY <1>4, <1>6, <1>7 DEF left

\* The queue without the calls of an operation that are taken back.
LEMMA StillQueuedFacts ==
    ASSUME NEW S, queue \in Seq(S), NEW o
    PROVE  /\ StillQueued(o) \in Seq(S)
           /\ Range(StillQueued(o)) \subseteq Range(queue)
           /\ OneSubmission(queue) => OneSubmission(StillQueued(o))
<1> DEFINE withdrawn == {i \in DOMAIN queue : queue[i].op = o /\ queue[i].kind # "execute"}
           first == CHOOSE i \in withdrawn : TRUE
<1>1. CASE withdrawn = {}
  BY <1>1 DEF StillQueued
<1>2. CASE withdrawn # {}
  <2>1. first \in withdrawn
    BY <1>2
  <2>2. first \in DOMAIN queue
    BY <2>1
  <2>3. StillQueued(o) = Removed(queue, first)
    BY <1>2 DEF StillQueued
  <2> HIDE DEF first, withdrawn
  <2> QED
    BY <2>2, <2>3, RemovedFacts
<1> QED
  BY <1>1, <1>2

\* A queue with one more call.
LEMMA AppendFacts ==
    ASSUME NEW S, NEW q \in Seq(S), NEW c \in S
    PROVE  /\ Append(q, c) \in Seq(S)
           /\ Range(Append(q, c)) \subseteq Range(q) \cup {c}
           /\ OneSubmission(q) /\ (c.kind = "execute" => \A d \in Range(q) : d.op # c.op)
                => OneSubmission(Append(q, c))
<1>1. /\ Append(q, c) \in Seq(S) /\ Len(Append(q, c)) = Len(q) + 1
      /\ \A i \in 1 .. Len(q) : Append(q, c)[i] = q[i]
      /\ Append(q, c)[Len(q) + 1] = c
  BY AppendProperties
<1>2. Len(q) \in Nat /\ DOMAIN q = 1 .. Len(q) /\ DOMAIN Append(q, c) = 1 .. Len(q) + 1
  BY <1>1, LenProperties
<1>3. Range(Append(q, c)) \subseteq Range(q) \cup {c}
  BY <1>1, <1>2 DEF Range
<1>4. ASSUME OneSubmission(q), c.kind = "execute" => \A d \in Range(q) : d.op # c.op
      PROVE  OneSubmission(Append(q, c))
  <2> SUFFICES ASSUME NEW i \in DOMAIN Append(q, c), NEW j \in DOMAIN Append(q, c),
                      Append(q, c)[i].kind = "execute", Append(q, c)[j].kind = "execute",
                      Append(q, c)[i].op = Append(q, c)[j].op
               PROVE  i = j
    BY DEF OneSubmission
  <2>1. CASE i \in 1 .. Len(q) /\ j \in 1 .. Len(q)
    BY <1>1, <1>2, <1>4, <2>1 DEF OneSubmission
  <2>2. CASE i = Len(q) + 1 /\ j \in 1 .. Len(q)
    BY <1>1, <1>2, <1>4, <2>2 DEF Range
  <2>3. CASE i \in 1 .. Len(q) /\ j = Len(q) + 1
    BY <1>1, <1>2, <1>4, <2>3 DEF Range
  <2> QED
    BY <1>2, <2>1, <2>2, <2>3
<1> QED
  BY <1>1, <1>3, <1>4

\* A queue without its first call, which was the only submission of its operation.
LEMMA TailFacts ==
    ASSUME NEW S, NEW q \in Seq(S), q # <<>>
    PROVE  /\ Head(q) \in S /\ Head(q) \in Range(q)
           /\ Tail(q) \in Seq(S)
           /\ Range(Tail(q)) \subseteq Range(q)
           /\ OneSubmission(q) =>
                /\ OneSubmission(Tail(q))
                /\ \A d \in Range(Tail(q)) :
                      d.kind = "execute" /\ Head(q).kind = "execute" => d.op # Head(q).op
<1>1. /\ Head(q) \in S /\ Tail(q) \in Seq(S) /\ Len(Tail(q)) = Len(q) - 1
      /\ \A i \in 1 .. Len(Tail(q)) : Tail(q)[i] = q[i + 1]
  BY HeadTailProperties
<1>2. Len(q) \in Nat /\ DOMAIN q = 1 .. Len(q) /\ DOMAIN Tail(q) = 1 .. Len(q) - 1
  BY <1>1, LenProperties
<1>3. Len(q) # 0
  BY EmptySeq
<1>4. 1 \in DOMAIN q /\ Head(q) = q[1]
  BY <1>2, <1>3
<1>5. Range(Tail(q)) \subseteq Range(q)
  BY <1>1, <1>2 DEF Range
<1>6. ASSUME OneSubmission(q)
      PROVE  /\ OneSubmission(Tail(q))
             /\ \A d \in Range(Tail(q)) :
                   d.kind = "execute" /\ Head(q).kind = "execute" => d.op # Head(q).op
  <2>1. OneSubmission(Tail(q))
    BY <1>1, <1>2, <1>6 DEF OneSubmission
  <2>2. \A i \in DOMAIN Tail(q) : i + 1 \in DOMAIN q /\ i + 1 # 1 /\ Tail(q)[i] = q[i + 1]
    BY <1>1, <1>2
  <2> QED
    BY <1>4, <1>6, <2>1, <2>2 DEF OneSubmission, Range
<1> QED
  BY <1>1, <1>4, <1>5, <1>6 DEF Range

-----------------------------------------------------------------------------
(* Steps of an operation that has begun                                     *)

Stages == {"new", "submitting", "recovering", "polling", "checking", "cancelling",
           "confirming", "ended"}

\* What such a step does, whichever it is: the operation goes to stage s, its
\* entry becomes a and its statement x.
MovesTo(o, s, a, x) ==
    /\ stage' = [stage EXCEPT ![o] = s]
    /\ active' = [active EXCEPT ![o] = a]
    /\ a = "absent" <=> s = "ended"
    /\ statement' = [statement EXCEPT ![o] = x]
    /\ x = "running" => statement[o] = "running" /\ s # "confirming"
    /\ x = "running" /\ s = "ended" => o \in excused'
    /\ o \in SyncOps => \A c \in running' : c.op = o =>
           c = [op |-> o, kind |-> Awaited(s), handler |-> FALSE]
    /\ \A c \in Range(queue') : c.op = o /\ c.kind = "execute" =>
           s \in {"submitting", "recovering"} \/ (s = "ended" /\ o \in excused')

Moves(o) ==
    /\ stage[o] \notin {"new", "ended"}
    /\ \E s \in Stages \ {"new"}, a \in {"absent", "untracked", "tracked"},
          x \in {"none", "running", "stopping", "ended"} : MovesTo(o, s, a, x)
    /\ polls' \in [Ops -> 0 .. MaxPolls]
    /\ queue' \in Seq(AsyncCall)
    /\ OneSubmission(queue')
    /\ \A c \in Range(queue') : c \in Range(queue) \/ (c.op = o /\ c.kind # "execute")
    /\ \A c \in running' : c \in running \/ (c \in Call /\ c.op = o /\ c.kind # "execute")
    /\ handling' \subseteq AsyncOps /\ handling' \subseteq handling \cup {o}
    /\ excused \subseteq excused' /\ excused' \subseteq Ops
    /\ UNCHANGED closing

\* Calls that wait are calls of tasks.
LEMMA WaitingTyped ==
    ASSUME QueueOfTasks
    PROVE  /\ Range(queue) \subseteq AsyncCall
           /\ queue \in Seq(Call)
<1>1. \A i \in DOMAIN queue : queue[i] \in AsyncCall
  BY LenProperties, ElementOfSeq DEF QueueOfTasks
<1>2. AsyncCall \subseteq Call
  BY DEF AsyncCall
<1> QED
  BY <1>1, <1>2, SeqMonotonic DEF Range, QueueOfTasks

\* An operation that has begun is active, so no call of close is past its drain.
LEMMA NobodyJoins ==
    ASSUME TypeOK, Begun, ClosedDown, NEW o \in Ops, stage[o] \notin {"new", "ended"}
    PROVE  /\ \A c \in Closers : closer[c] \notin {"joining", "returned"}
           /\ client = "open" /\ ~close_finished
<1>1. active[o] # "absent"
  BY DEF Begun
<1>2. ~Drained
  BY <1>1 DEF Drained
<1> QED
  BY <1>2 DEF ClosedDown, TypeOK

\* Whoever has left or not reached its slot does not get into one.
LEMMA SlotsKept ==
    ASSUME SlotsBounded, \A p \in AsyncOps : HoldsSlot(p)' => HoldsSlot(p)
    PROVE  SlotsBounded'
<1>1. Holders' \in SUBSET Holders
  BY DEF Holders
<1>2. Holders \in SUBSET AsyncOps
  BY DEF Holders
<1>3. IsFiniteSet(Holders)
  BY <1>2, FS_Subset, OperationsAssumption
<1>4. /\ Cardinality(Holders') <= Cardinality(Holders)
      /\ IsFiniteSet(Holders')
  BY <1>1, <1>3, FS_Subset
<1>5. Cardinality(Holders) \in Nat /\ Cardinality(Holders') \in Nat
  BY <1>3, <1>4, FS_CardinalityType
<1>6. MaxConcurrentOperations \in Nat
  BY ConcurrencyAssumption
<1> DEFINE before == Cardinality(Holders)
<1>7. Cardinality(Holders') <= MaxConcurrentOperations
  BY <1>4, <1>5, <1>6 DEF SlotsBounded
<1> QED
  BY <1>7 DEF SlotsBounded

LEMMA KeptByMove ==
    ASSUME Orderly, NEW o \in Ops, Moves(o)
    PROVE  Orderly'
<1> USE DEF Orderly
<1>1. PICK s \in Stages \ {"new"}, a \in {"absent", "untracked", "tracked"},
           x \in {"none", "running", "stopping", "ended"} : MovesTo(o, s, a, x)
  BY DEF Moves
<1>2. /\ stage \in [Ops -> Stages] /\ active \in [Ops -> {"absent", "untracked", "tracked"}]
      /\ statement \in [Ops -> {"none", "running", "stopping", "ended"}]
  BY DEF TypeOK, Stages
<1>3. /\ \A p \in Ops : stage'[p] = IF p = o THEN s ELSE stage[p]
      /\ \A p \in Ops : active'[p] = IF p = o THEN a ELSE active[p]
      /\ \A p \in Ops : statement'[p] = IF p = o THEN x ELSE statement[p]
  BY <1>1, <1>2 DEF MovesTo
<1>4. /\ stage' \in [Ops -> Stages] /\ active' \in [Ops -> {"absent", "untracked", "tracked"}]
      /\ statement' \in [Ops -> {"none", "running", "stopping", "ended"}]
  BY <1>1, <1>2 DEF MovesTo
<1>5. QueueOfTasks'
  BY DEF Moves, QueueOfTasks
<1>6. Range(queue) \subseteq AsyncCall /\ Range(queue)' \subseteq AsyncCall /\ queue' \in Seq(Call)
  <2>1. Range(queue) \subseteq AsyncCall
    BY WaitingTyped
  <2>2. \A i \in DOMAIN queue' : queue'[i] \in AsyncCall
    BY LenProperties, ElementOfSeq DEF Moves
  <2>3. AsyncCall \subseteq Call
    BY DEF AsyncCall
  <2> QED
    BY <2>1, <2>2, <2>3, SeqMonotonic DEF Range, Moves
<1>7. running \subseteq Call /\ running' \subseteq Call
  BY DEF TypeOK, Moves
<1>8. \A c \in Call : c.op \in Ops /\ c.kind \in Kinds
  BY DEF Call
<1>9. TypeOK'
  BY <1>4, <1>6, <1>7 DEF TypeOK, Moves, Stages, closing
<1>10. Begun'
  <2>1. \A p \in Ops : stage'[p] = "new" => statement'[p] = "none" /\ p \notin handling'
    BY <1>3 DEF Begun, Moves
  <2>2. \A p \in Ops : active'[p] = "absent" <=> stage'[p] \in {"new", "ended"}
    BY <1>1, <1>3 DEF Begun, MovesTo
  <2>3. \A c \in running' \cup Range(queue') : stage'[c.op] # "new"
    <3> SUFFICES ASSUME NEW c \in running' \cup Range(queue') PROVE stage'[c.op] # "new"
      OBVIOUS
    <3>1. c.op = o \/ c \in running \cup Range(queue)
      BY DEF Moves
    <3>2. c.op \in Ops
      BY <1>6, <1>7, <1>8 DEF AsyncCall
    <3> QED
      BY <1>3, <3>1, <3>2 DEF Begun
  <2> QED
    BY <2>1, <2>2, <2>3 DEF Begun
<1>11. ThreadsAwait'
  <2> SUFFICES ASSUME NEW c \in running', c.op \in SyncOps
               PROVE  c = [op |-> c.op, kind |-> Awaited(stage'[c.op]), handler |-> FALSE]
    BY DEF ThreadsAwait, Awaited
  <2>1. CASE c.op = o
    BY <1>1, <1>3, <2>1 DEF MovesTo
  <2>2. CASE c.op # o
    <3>1. c \in running /\ c.op \in Ops
      BY <1>7, <1>8, <2>2 DEF Moves
    <3> QED
      BY <1>3, <2>2, <3>1 DEF ThreadsAwait
  <2> QED
    BY <2>1, <2>2
<1>12. SubmittedOnce'
  <2>1. OneSubmission(queue)'
    BY DEF Moves, OneSubmission
  <2> SUFFICES ASSUME NEW c \in Range(queue'), c.kind = "execute"
               PROVE  /\ stage'[c.op] \in {"submitting", "recovering", "ended"}
                      /\ stage'[c.op] = "ended" => c.op \in excused'
                      /\ \A d \in running' : d.op = c.op => d.kind # "execute"
    BY <2>1 DEF SubmittedOnce
  <2>2. c \in Range(queue) /\ c.op \in Ops
    BY <1>6, <1>8 DEF Moves, AsyncCall
  <2>3. \A d \in running' : d.op = c.op => d.kind # "execute"
    BY <2>2 DEF SubmittedOnce, Moves
  <2>4. CASE c.op = o
    BY <1>1, <1>3, <2>2, <2>3, <2>4 DEF MovesTo
  <2>5. CASE c.op # o
    BY <1>3, <2>2, <2>3, <2>5 DEF SubmittedOnce, Moves
  <2> QED
    BY <2>4, <2>5
<1>13. StoppedFirst'
  BY <1>1, <1>3 DEF StoppedFirst, MovesTo
<1>14. NoSilentOrphans'
  BY <1>1, <1>3 DEF NoSilentOrphans, MovesTo, Moves
<1>15. ClosedDown'
  <2>1. /\ \A c \in Closers : closer[c] \notin {"joining", "returned"}
        /\ client = "open" /\ ~close_finished
    BY NobodyJoins DEF Moves
  <2> QED
    BY <2>1 DEF ClosedDown, Moves, closing
<1>16. SlotsBounded'
  <2>1. \A p \in AsyncOps : p \in Ops
    BY DEF Ops
  <2>2. \A p \in AsyncOps : HoldsSlot(p)' => HoldsSlot(p)
    BY <1>3, <2>1 DEF HoldsSlot, Moves
  <2> QED
    BY <2>2, SlotsKept
<1> QED
  BY <1>5, <1>9, <1>10, <1>11, <1>12, <1>13, <1>14, <1>15, <1>16

\* Asking the client for something but a submission.
LEMMA IssueFacts ==
    ASSUME TypeOK, QueueOfTasks, OneSubmission(queue), NEW call \in Call, NEW returned,
           call.kind # "execute", Issue(call, returned)
    PROVE  /\ queue' \in Seq(AsyncCall) /\ OneSubmission(queue')
           /\ \A c \in Range(queue') : c \in Range(queue) \/ c = call
           /\ \A c \in running' : (c \in running /\ c \notin returned) \/ c = call
<1>1. CASE call.op \in SyncOps
  BY <1>1 DEF Issue, QueueOfTasks
<1>2. CASE call.op \notin SyncOps
  <2>1. call \in AsyncCall
    BY <1>2 DEF AsyncCall, Call, Ops
  <2>2. /\ StillQueued(call.op) \in Seq(AsyncCall)
        /\ Range(StillQueued(call.op)) \subseteq Range(queue)
        /\ OneSubmission(StillQueued(call.op))
    BY StillQueuedFacts DEF QueueOfTasks
  <2>3. queue' = Append(StillQueued(call.op), call) /\ running' = running \ returned
    BY <1>2 DEF Issue
  <2> QED
    BY <2>1, <2>2, <2>3, AppendFacts
<1> QED
  BY <1>1, <1>2

\* Taking back what an operation that ends had asked for.
LEMMA WithdrawnFacts ==
    ASSUME QueueOfTasks, OneSubmission(queue), NEW o, queue' = StillQueued(o)
    PROVE  /\ queue' \in Seq(AsyncCall) /\ OneSubmission(queue')
           /\ \A c \in Range(queue') : c \in Range(queue)
BY StillQueuedFacts DEF QueueOfTasks

\* An operation of a thread has one call in flight, the one it awaits.
LEMMA OneInFlight ==
    ASSUME ThreadsAwait, NEW c \in running, NEW d \in running, c.op \in SyncOps, d.op = c.op
    PROVE  d = c /\ c.kind = Awaited(stage[c.op])
<1>1. c = [op |-> c.op, kind |-> Awaited(stage[c.op]), handler |-> FALSE]
  BY DEF ThreadsAwait
<1>2. d = [op |-> d.op, kind |-> Awaited(stage[d.op]), handler |-> FALSE]
  BY DEF ThreadsAwait
<1>3. [op |-> c.op, kind |-> Awaited(stage[c.op]), handler |-> FALSE].kind = Awaited(stage[c.op])
  OBVIOUS
<1> QED
  BY <1>1, <1>2, <1>3

LEMMA CallTyped ==
    ASSUME NEW c \in Call
    PROVE  c.op \in Ops /\ c.kind \in Kinds /\ c.handler \in BOOLEAN
BY DEF Call

\* An operation that awaits nothing, in a thread, has nothing in flight.
LEMMA NothingInFlight ==
    ASSUME TypeOK, ThreadsAwait, NEW o \in SyncOps, Awaited(stage[o]) = "none", NEW c \in running
    PROVE  c.op # o
<1>1. c.kind # "none"
  BY CallTyped DEF TypeOK, Kinds
<1> QED
  BY <1>1, OneInFlight

LEMMA CallOfTyped ==
    ASSUME TypeOK, NEW o \in Ops, NEW kind \in Kinds
    PROVE  /\ CallOf(o, kind) \in Call /\ CallOf(o, kind).op = o /\ CallOf(o, kind).kind = kind
           /\ o \in SyncOps => CallOf(o, kind) = [op |-> o, kind |-> kind, handler |-> FALSE]
<1>1. o \in SyncOps => o \notin handling
  BY OperationsAssumption DEF TypeOK
<1>2. ASSUME NEW asked \in BOOLEAN
      PROVE  LET call == [op |-> o, kind |-> kind, handler |-> asked]
             IN  call \in Call /\ call.op = o /\ call.kind = kind
  BY DEF Call
<1>3. CASE o \in handling
  <2>1. CallOf(o, kind) = [op |-> o, kind |-> kind, handler |-> TRUE]
    BY <1>3 DEF CallOf
  <2>2. o \notin SyncOps
    BY <1>1, <1>3
  <2> QED
    BY <1>2, <2>1, <2>2
<1>4. CASE o \notin handling
  <2>0. (o \in handling) = FALSE
    BY <1>4
  <2>1. CallOf(o, kind) = [op |-> o, kind |-> kind, handler |-> FALSE]
    BY <2>0, Zenon DEF CallOf
  <2> QED
    BY <1>2, <2>1
<1> QED
  BY <1>3, <1>4

\* An operation that has stopped submitting has no submission in the queue.
LEMMA NotWaiting ==
    ASSUME TypeOK, QueueOfTasks, SubmittedOnce, NEW o \in Ops,
           stage[o] \notin {"submitting", "recovering", "ended"} 
              \/ (\E c \in running : c.op = o /\ c.kind = "execute"),
           NEW d \in Range(queue), d.op = o
    PROVE  d.kind # "execute"
BY DEF SubmittedOnce

\* An operation goes on to a stage and asks the client for something.
LEMMA MovesByIssue ==
    ASSUME Orderly, NEW o \in Ops, stage[o] \notin {"new", "ended"},
           NEW s \in {"cancelling", "checking", "confirming"},
           NEW call \in Call, call.op = o, call.kind = Awaited(s),
           o \in SyncOps => call = CallOf(o, Awaited(s)),
           NEW returned, Issue(call, returned), GoesTo(o, s),
           o \in SyncOps => \A c \in running : c.op = o => c \in returned,
           stage[o] \notin {"submitting", "recovering"}
              \/ (\E c \in running : c.op = o /\ c.kind = "execute"),
           active' = active \/ Tracked(o),
           Stopped(o) \/ (statement' = statement /\ s # "confirming"),
           polls' \in [Ops -> 0 .. MaxPolls],
           handling' \subseteq AsyncOps, handling' \subseteq handling \cup {o},
           excused' = excused, UNCHANGED closing
    PROVE  Moves(o)
<1> USE DEF Orderly
<1>1. Awaited(s) \in Kinds \ {"execute"}
  BY DEF Awaited, Kinds
<1>2. /\ queue' \in Seq(AsyncCall) /\ OneSubmission(queue')
      /\ \A c \in Range(queue') : c \in Range(queue) \/ c = call
      /\ \A c \in running' : (c \in running /\ c \notin returned) \/ c = call
  BY <1>1, IssueFacts DEF SubmittedOnce
<1>3. o \in SyncOps => call = [op |-> o, kind |-> Awaited(s), handler |-> FALSE]
  BY <1>1, CallOfTyped
<1>4. o \in SyncOps => \A c \in running' : c.op = o =>
           c = [op |-> o, kind |-> Awaited(s), handler |-> FALSE]
  BY <1>2, <1>3
<1>5. \A c \in Range(queue') : ~(c.op = o /\ c.kind = "execute")
  <2> SUFFICES ASSUME NEW c \in Range(queue'), c.op = o PROVE c.kind # "execute"
    OBVIOUS
  <2>1. CASE c = call
    BY <1>1, <2>1
  <2>2. CASE c \in Range(queue)
    BY <2>2, NotWaiting
  <2> QED
    BY <1>2, <2>1, <2>2
<1>6. PICK a \in {"untracked", "tracked"} : active' = [active EXCEPT ![o] = a]
  <2>1. CASE active' = active
    <3>1. active[o] \in {"untracked", "tracked"} /\ active = [active EXCEPT ![o] = active[o]]
      BY DEF TypeOK, Begun
    <3> QED
      BY <2>1, <3>1
  <2>2. CASE Tracked(o)
    BY <2>2 DEF Tracked
  <2> QED
    BY <2>1, <2>2
<1>7. PICK x \in {"none", "running", "stopping", "ended"} :
         /\ statement' = [statement EXCEPT ![o] = x]
         /\ x = "running" => statement[o] = "running" /\ s # "confirming"
  <2>1. CASE statement' = statement /\ s # "confirming"
    <3>1. /\ statement[o] \in {"none", "running", "stopping", "ended"}
          /\ statement = [statement EXCEPT ![o] = statement[o]]
      BY DEF TypeOK
    <3> QED
      BY <2>1, <3>1
  <2>2. CASE Stopped(o)
    <3> DEFINE y == IF statement[o] = "running" THEN "stopping" ELSE statement[o]
    <3>1. y \in {"none", "running", "stopping", "ended"} /\ y # "running"
      BY DEF TypeOK
    <3>2. statement' = [statement EXCEPT ![o] = y]
      BY <2>2 DEF Stopped, TypeOK
    <3> HIDE DEF y
    <3> QED
      BY <3>1, <3>2
  <2> QED
    BY <2>1, <2>2
<1>8. MovesTo(o, s, a, x)
  BY <1>4, <1>5, <1>6, <1>7 DEF MovesTo, GoesTo
<1>9. s \in Stages \ {"new"} /\ a \in {"absent", "untracked", "tracked"}
  BY DEF Stages
<1>10. \E s_ \in Stages \ {"new"}, a_ \in {"absent", "untracked", "tracked"},
         x_ \in {"none", "running", "stopping", "ended"} : MovesTo(o, s_, a_, x_)
  BY <1>8, <1>9
<1>11. /\ \A c \in Range(queue') : c \in Range(queue) \/ (c.op = o /\ c.kind # "execute")
       /\ \A c \in running' : c \in running \/ (c \in Call /\ c.op = o /\ c.kind # "execute")
       /\ excused \subseteq excused' /\ excused' \subseteq Ops
  BY <1>1, <1>2 DEF TypeOK
<1> QED
  BY <1>2, <1>10, <1>11 DEF Moves

\* An operation ends, and what it knows of its statement excuses it or has ended.
LEMMA MovesByEnding ==
    ASSUME Orderly, NEW o \in Ops, stage[o] \notin {"new", "ended"},
           NEW returned, Ends(o, returned),
           statement[o] # "running" \/ o \in excused',
           o \in SyncOps => \A c \in running : c.op = o => c \in returned,
           o \in excused' \/ stage[o] \notin {"submitting", "recovering"} 
              \/ (\E c \in running : c.op = o /\ c.kind = "execute"),
           UNCHANGED <<polls, statement, handling, closing>>,
           excused' = excused \/ excused' = excused \cup {o}
    PROVE  Moves(o)
<1> USE DEF Orderly
<1>1. /\ queue' \in Seq(AsyncCall) /\ OneSubmission(queue')
      /\ \A c \in Range(queue') : c \in Range(queue)
  BY WithdrawnFacts DEF Ends, SubmittedOnce
<1>2. running' = running \ returned
  BY DEF Ends
<1>3. o \in SyncOps => \A c \in running' : c.op # o
  BY <1>2
<1>4. \A c \in Range(queue') : c.op = o /\ c.kind = "execute" => o \in excused'
  BY <1>1, NotWaiting DEF SubmittedOnce
<1>5. statement[o] \in {"none", "running", "stopping", "ended"}
  BY DEF TypeOK
<1>6. MovesTo(o, "ended", "absent", statement[o])
  <2>1. stage' = [stage EXCEPT ![o] = "ended"] /\ active' = [active EXCEPT ![o] = "absent"]
    BY DEF Ends, GoesTo
  <2>2. statement' = [statement EXCEPT ![o] = statement[o]]
    BY DEF TypeOK
  <2> QED
    BY <1>3, <1>4, <2>1, <2>2 DEF MovesTo
<1>7. \E s \in Stages \ {"new"}, a \in {"absent", "untracked", "tracked"},
        x \in {"none", "running", "stopping", "ended"} : MovesTo(o, s, a, x)
  <2>1. "ended" \in Stages \ {"new"}
    BY DEF Stages
  <2> QED
    BY <1>5, <1>6, <2>1
<1>8. /\ \A c \in Range(queue') : c \in Range(queue) \/ (c.op = o /\ c.kind # "execute")
      /\ \A c \in running' : c \in running \/ (c \in Call /\ c.op = o /\ c.kind # "execute")
  BY <1>1, <1>2
<1>9. /\ polls' \in [Ops -> 0 .. MaxPolls]
      /\ handling' \subseteq AsyncOps /\ handling' \subseteq handling \cup {o}
      /\ excused \subseteq excused' /\ excused' \subseteq Ops
      /\ UNCHANGED closing
  BY DEF TypeOK
<1> QED
  BY <1>1, <1>7, <1>8, <1>9 DEF Moves

-----------------------------------------------------------------------------
(* The actions of an operation                                              *)

LEMMA KeptByPoll ==
    ASSUME Orderly, NEW o \in Ops, Poll(o)
    PROVE  Orderly'
<1> USE DEF Orderly
<1>1. Awaited("checking") = "get" /\ Awaited(stage[o]) = "none" /\ "get" \in Kinds
  BY DEF Poll, Awaited, Kinds
<1>2. o \in SyncOps => \A c \in running : c.op # o
  BY <1>1, NothingInFlight
<1>3. polls' \in [Ops -> 0 .. MaxPolls]
  <2>1. polls[o] + 1 \in 0 .. MaxPolls
    BY PollsAssumption DEF Poll, TypeOK
  <2> QED
    BY <2>1 DEF Poll, TypeOK
<1>4. CallOf(o, "get") \in Call /\ CallOf(o, "get").op = o /\ CallOf(o, "get").kind = "get"
  BY <1>1, CallOfTyped
<1>5. Moves(o)
  BY <1>1, <1>2, <1>3, <1>4, MovesByIssue DEF Poll, TypeOK, leaving
<1> QED
  BY <1>5, KeptByMove

LEMMA KeptByPollDeadline ==
    ASSUME Orderly, NEW o \in Ops, PollDeadline(o)
    PROVE  Orderly'
<1> USE DEF Orderly
<1>1. Awaited("cancelling") = "cancel" /\ Awaited(stage[o]) = "none" /\ "cancel" \in Kinds
  BY DEF PollDeadline, Awaited, Kinds
<1>2. o \in SyncOps => \A c \in running : c.op # o
  BY <1>1, NothingInFlight
<1>3. CallOf(o, "cancel") \in Call /\ CallOf(o, "cancel").op = o /\ CallOf(o, "cancel").kind = "cancel"
  BY <1>1, CallOfTyped
<1>4. Moves(o)
  BY <1>1, <1>2, <1>3, MovesByIssue DEF PollDeadline, TypeOK, leaving
<1> QED
  BY <1>4, KeptByMove

\* An operation has an answer and goes on to poll.
LEMMA MovesByReturn ==
    ASSUME Orderly, NEW c \in running, stage[c.op] \notin {"new", "ended"},
           GoesTo(c.op, "polling"), Returned({c}),
           stage[c.op] \notin {"submitting", "recovering"} \/ c.kind = "execute",
           active' = active \/ Tracked(c.op),
           UNCHANGED <<polls, statement, leaving, closing>>
    PROVE  Moves(c.op)
<1> USE DEF Orderly
<1>1. c \in Call /\ c.op \in Ops
  BY CallTyped DEF TypeOK
<1> DEFINE o == c.op
<1>2. queue' = queue /\ running' = running \ {c}
  BY DEF Returned
<1>3. o \in SyncOps => \A d \in running' : d.op # o
  BY <1>2, OneInFlight
<1>4. \A d \in Range(queue') : ~(d.op = o /\ d.kind = "execute")
  BY <1>1, <1>2, NotWaiting
<1>5. PICK a \in {"untracked", "tracked"} : active' = [active EXCEPT ![o] = a]
  <2>1. CASE active' = active
    <3>1. active[o] \in {"untracked", "tracked"} /\ active = [active EXCEPT ![o] = active[o]]
      BY <1>1 DEF TypeOK, Begun
    <3> QED
      BY <2>1, <3>1
  <2>2. CASE Tracked(o)
    BY <2>2 DEF Tracked
  <2> QED
    BY <2>1, <2>2
<1>6. /\ statement[o] \in {"none", "running", "stopping", "ended"}
      /\ statement' = [statement EXCEPT ![o] = statement[o]]
  BY <1>1 DEF TypeOK
<1>7. MovesTo(o, "polling", a, statement[o])
  BY <1>3, <1>4, <1>5, <1>6 DEF MovesTo, GoesTo
<1>8. "polling" \in Stages \ {"new"} /\ a \in {"absent", "untracked", "tracked"}
  BY DEF Stages
<1>9. \E s_ \in Stages \ {"new"}, a_ \in {"absent", "untracked", "tracked"},
        x_ \in {"none", "running", "stopping", "ended"} : MovesTo(o, s_, a_, x_)
  BY <1>6, <1>7, <1>8
<1>10. /\ queue' \in Seq(AsyncCall) /\ OneSubmission(queue')
       /\ \A d \in Range(queue') : d \in Range(queue) \/ (d.op = o /\ d.kind # "execute")
       /\ \A d \in running' : d \in running \/ (d \in Call /\ d.op = o /\ d.kind # "execute")
  BY <1>2 DEF QueueOfTasks, SubmittedOnce
<1>11. /\ polls' \in [Ops -> 0 .. MaxPolls]
       /\ handling' \subseteq AsyncOps /\ handling' \subseteq handling \cup {o}
       /\ excused \subseteq excused' /\ excused' \subseteq Ops
       /\ UNCHANGED closing
  BY DEF TypeOK, leaving
<1> QED
  BY <1>9, <1>10, <1>11 DEF Moves

LEMMA KeptByExecuted ==
    ASSUME Orderly, NEW c \in running, Executed(c)
    PROVE  Orderly'
<1> USE DEF Orderly
<1> DEFINE o == c.op
<1>1. c \in Call /\ o \in Ops /\ c.kind = "execute" /\ "cancel" \in Kinds
      /\ Awaited("cancelling") = "cancel"
  BY CallTyped DEF TypeOK, Executed, Kinds, Awaited
<1>2. o \in SyncOps => \A d \in running : d.op = o => d \in {c}
  BY OneInFlight
<1>3. UNCHANGED <<polls, statement, leaving, closing>>
  BY DEF Executed
<1>4. CASE stage[o] = "submitting" /\ statement[o] = "ended" /\ Ends(o, {c})
  <2>1. UNCHANGED <<polls, statement, handling, closing>> /\ excused' = excused
    BY <1>3 DEF leaving
  <2>2. Moves(o)
    BY <1>1, <1>2, <1>4, <2>1, MovesByEnding
  <2> QED
    BY <1>1, <2>2, KeptByMove
<1>5. CASE stage[o] = "submitting" /\ Tracked(o) /\ GoesTo(o, "polling") /\ Returned({c})
  <2>1. Moves(o)
    BY <1>1, <1>3, <1>5, MovesByReturn
  <2> QED
    BY <1>1, <2>1, KeptByMove
<1>6. CASE /\ stage[o] \in {"submitting", "recovering"} /\ Tracked(o)
           /\ GoesTo(o, "cancelling") /\ Issue(CallOf(o, "cancel"), {c})
  <2>1. CallOf(o, "cancel") \in Call /\ CallOf(o, "cancel").op = o /\ CallOf(o, "cancel").kind = "cancel"
    BY <1>1, CallOfTyped
  <2>2. /\ polls' \in [Ops -> 0 .. MaxPolls] /\ excused' = excused /\ UNCHANGED closing
        /\ handling' \subseteq AsyncOps /\ handling' \subseteq handling \cup {o}
        /\ statement' = statement
    BY <1>3 DEF TypeOK, leaving
  <2>3. Moves(o)
    BY <1>1, <1>2, <1>6, <2>1, <2>2, MovesByIssue
  <2> QED
    BY <1>1, <2>3, KeptByMove
<1> QED
  BY <1>4, <1>5, <1>6 DEF Executed

\* An operation that is answered is at work.
LEMMA AnsweredWorks ==
    ASSUME TypeOK, NEW c \in running, ~Forgotten(c)
    PROVE  /\ c \in Call /\ c.op \in Ops
           /\ Awaited(stage[c.op]) = c.kind
           /\ stage[c.op] \notin {"new", "ended", "polling"}
           /\ c.kind # "execute" => stage[c.op] \notin {"submitting", "recovering"}
           /\ c.kind = "confirm" => stage[c.op] = "confirming"
<1>1. c \in Call /\ c.op \in Ops /\ c.kind \in Kinds
  BY CallTyped DEF TypeOK
<1>2. Awaited(stage[c.op]) = c.kind
  BY DEF Forgotten
<1>3. stage[c.op] \in {"new", "submitting", "recovering", "polling", "checking", "cancelling",
                       "confirming", "ended"}
  BY <1>1 DEF TypeOK
<1> QED
  BY <1>1, <1>2, <1>3 DEF Awaited, Kinds

LEMMA KeptByChecked ==
    ASSUME Orderly, NEW c \in running, Checked(c)
    PROVE  Orderly'
<1> USE DEF Orderly
<1> DEFINE o == c.op
<1>1. /\ c \in Call /\ o \in Ops /\ c.kind = "get"
      /\ stage[o] \notin {"new", "ended", "submitting", "recovering"}
  BY AnsweredWorks DEF Checked
<1>2. o \in SyncOps => \A d \in running : d.op = o => d \in {c}
  BY OneInFlight
<1>3. UNCHANGED <<polls, statement, leaving, closing>>
  BY DEF Checked
<1>4. CASE statement[o] = "ended" /\ Ends(o, {c})
  <2>1. UNCHANGED <<polls, statement, handling, closing>> /\ excused' = excused
    BY <1>3 DEF leaving
  <2>2. Moves(o)
    BY <1>1, <1>2, <1>4, <2>1, MovesByEnding
  <2> QED
    BY <1>1, <2>2, KeptByMove
<1>5. CASE GoesTo(o, "polling") /\ Returned({c}) /\ UNCHANGED active
  <2>1. Moves(o)
    BY <1>1, <1>3, <1>5, MovesByReturn
  <2> QED
    BY <1>1, <2>1, KeptByMove
<1> QED
  BY <1>4, <1>5 DEF Checked

LEMMA KeptByConfirmed ==
    ASSUME Orderly, NEW c \in running, Confirmed(c)
    PROVE  Orderly'
<1> USE DEF Orderly
<1> DEFINE o == c.op
<1>1. /\ c \in Call /\ o \in Ops /\ stage[o] = "confirming" /\ statement[o] # "running"
      /\ "confirm" \in Kinds /\ Awaited("confirming") = "confirm"
  BY AnsweredWorks DEF Confirmed, StoppedFirst, Kinds, Awaited
<1>2. o \in SyncOps => \A d \in running : d.op = o => d \in {c}
  BY OneInFlight
<1>3. UNCHANGED <<polls, statement, leaving, closing>>
  BY DEF Confirmed
<1>4. CASE Ends(o, {c})
  <2>1. UNCHANGED <<polls, statement, handling, closing>> /\ excused' = excused
    BY <1>3 DEF leaving
  <2>2. Moves(o)
    BY <1>1, <1>2, <1>4, <2>1, MovesByEnding
  <2> QED
    BY <1>1, <2>2, KeptByMove
<1>5. CASE Issue(CallOf(o, "confirm"), {c}) /\ UNCHANGED <<stage, active>>
  <2>1. CallOf(o, "confirm") \in Call /\ CallOf(o, "confirm").op = o /\ CallOf(o, "confirm").kind = "confirm"
    BY <1>1, CallOfTyped
  <2>2. /\ polls' \in [Ops -> 0 .. MaxPolls] /\ excused' = excused /\ UNCHANGED closing
        /\ handling' \subseteq AsyncOps /\ handling' \subseteq handling \cup {o}
    BY <1>3 DEF TypeOK, leaving
  <2>3. GoesTo(o, "confirming") /\ Stopped(o)
    BY <1>1, <1>3, <1>5 DEF TypeOK, GoesTo, Stopped
  <2>4. Moves(o)
    BY <1>1, <1>2, <1>5, <2>1, <2>2, <2>3, MovesByIssue
  <2> QED
    BY <1>1, <2>4, KeptByMove
<1> QED
  BY <1>4, <1>5 DEF Confirmed

LEMMA KeptByCallFails ==
    ASSUME Orderly, NEW c \in running, CallFails(c)
    PROVE  Orderly'
<1> USE DEF Orderly
<1>1. c.op \in Ops /\ stage[c.op] \notin {"new", "ended"}
  BY AnsweredWorks DEF CallFails
<1>2. c.op \in SyncOps => \A d \in running : d.op = c.op => d \in {c}
  BY OneInFlight
<1>3. /\ Ends(c.op, {c}) /\ UNCHANGED <<polls, statement, handling, closing>>
      /\ excused' = excused \cup {c.op}
  BY DEF CallFails, GivesUp
<1>4. Moves(c.op)
  BY <1>1, <1>2, <1>3, MovesByEnding
<1> QED
  BY <1>1, <1>4, KeptByMove

LEMMA KeptByGraceExpires ==
    ASSUME Orderly, NEW o \in Ops, GraceExpires(o)
    PROVE  Orderly'
<1> USE DEF Orderly
<1>1. o \notin SyncOps /\ stage[o] \notin {"new", "ended"}
  BY OperationsAssumption DEF GraceExpires
<1>2. /\ Ends(o, {}) /\ UNCHANGED <<polls, statement, handling, closing>>
      /\ excused' = excused \cup {o}
  BY DEF GraceExpires, GivesUp
<1>3. Moves(o)
  BY <1>1, <1>2, MovesByEnding
<1> QED
  BY <1>3, KeptByMove

LEMMA KeptByInterrupted ==
    ASSUME Orderly, NEW o \in AsyncOps, Interrupted(o), UNCHANGED <<polls, statement, closing>>
    PROVE  Orderly'
<1> USE DEF Orderly
<1>1. o \in Ops /\ o \notin SyncOps /\ "cancel" \in Kinds /\ Awaited("cancelling") = "cancel"
  BY OperationsAssumption DEF Ops, Kinds, Awaited
<1>2. CASE /\ stage[o] = "submitting" /\ GoesTo(o, "recovering") /\ Handles(o)
           /\ UNCHANGED <<active, calls>>
  <2>1. active[o] \in {"untracked", "tracked"} /\ active' = [active EXCEPT ![o] = active[o]]
    BY <1>1, <1>2 DEF TypeOK, Begun
  <2>2. /\ statement[o] \in {"none", "running", "stopping", "ended"}
        /\ statement' = [statement EXCEPT ![o] = statement[o]]
    BY <1>1 DEF TypeOK
  <2>3. MovesTo(o, "recovering", active[o], statement[o])
    BY <1>1, <1>2, <2>1, <2>2 DEF MovesTo, GoesTo
  <2>4. "recovering" \in Stages \ {"new"} /\ active[o] \in {"absent", "untracked", "tracked"}
    BY <2>1 DEF Stages
  <2>5. \E s_ \in Stages \ {"new"}, a_ \in {"absent", "untracked", "tracked"},
          x_ \in {"none", "running", "stopping", "ended"} : MovesTo(o, s_, a_, x_)
    BY <2>2, <2>3, <2>4
  <2>6. /\ queue' \in Seq(AsyncCall) /\ OneSubmission(queue')
        /\ \A d \in Range(queue') : d \in Range(queue) \/ (d.op = o /\ d.kind # "execute")
        /\ \A d \in running' : d \in running \/ (d \in Call /\ d.op = o /\ d.kind # "execute")
    BY <1>2 DEF QueueOfTasks, SubmittedOnce, calls
  <2>7. /\ polls' \in [Ops -> 0 .. MaxPolls]
        /\ handling' \subseteq AsyncOps /\ handling' \subseteq handling \cup {o}
        /\ excused \subseteq excused' /\ excused' \subseteq Ops
        /\ UNCHANGED closing
    BY <1>2 DEF TypeOK, Handles
  <2>8. Moves(o)
    BY <1>2, <2>5, <2>6, <2>7 DEF Moves
  <2> QED
    BY <1>1, <2>8, KeptByMove
<1>3. CASE /\ stage[o] \in {"polling", "checking", "cancelling", "confirming"}
           /\ GoesTo(o, "cancelling")
           /\ Issue([CallOf(o, "cancel") EXCEPT !.handler = TRUE], {})
           /\ Handles(o)
           /\ UNCHANGED active
  <2> DEFINE call == [CallOf(o, "cancel") EXCEPT !.handler = TRUE]
  <2>1. ASSUME NEW r \in Call
        PROVE  LET given == [r EXCEPT !.handler = TRUE]
               IN  given \in Call /\ given.op = r.op /\ given.kind = r.kind
    BY DEF Call
  <2>2. call \in Call /\ call.op = o /\ call.kind = "cancel"
    <3>1. CallOf(o, "cancel") \in Call /\ CallOf(o, "cancel").op = o /\ CallOf(o, "cancel").kind = "cancel"
      BY <1>1, CallOfTyped
    <3> QED
      BY <2>1, <3>1
  <2>3. /\ polls' \in [Ops -> 0 .. MaxPolls] /\ excused' = excused
        /\ handling' \subseteq AsyncOps /\ handling' \subseteq handling \cup {o}
    BY <1>3 DEF TypeOK, Handles
  <2>4. Issue(call, {})
    BY <1>3
  <2> HIDE DEF call
  <2>5. Moves(o)
    BY <1>1, <1>3, <2>2, <2>3, <2>4, MovesByIssue
  <2> QED
    BY <1>1, <2>5, KeptByMove
<1>4. CASE stage[o] # "ended" /\ o \in handling /\ Ends(o, {}) /\ GivesUp(o)
  <2>1. stage[o] \notin {"new", "ended"}
    BY <1>1, <1>4 DEF Begun
  <2>2. UNCHANGED <<polls, statement, handling, closing>> /\ excused' = excused \cup {o}
    BY <1>4 DEF GivesUp
  <2>3. Moves(o)
    BY <1>1, <1>4, <2>1, <2>2, MovesByEnding
  <2> QED
    BY <1>1, <2>3, KeptByMove
<1> QED
  BY <1>2, <1>3, <1>4 DEF Interrupted

-----------------------------------------------------------------------------
(* Steps that leave the operations where they are                           *)

\* Calls come back to nobody, and statements end or are stopped.
LEMMA KeptAside ==
    ASSUME Orderly, running' \subseteq running, requested' \subseteq Ops,
           UNCHANGED <<stage, polls, active, queue, leaving, closed, close_finished, client, closer>>,
           statement' \in [Ops -> {"none", "running", "stopping", "ended"}],
           \A p \in Ops : /\ statement[p] = "none" => statement'[p] = "none"
                          /\ statement'[p] = "running" => statement[p] = "running"
    PROVE  Orderly'
<1> USE DEF Orderly
<1>1. TypeOK'
  BY DEF TypeOK, leaving
<1>2. QueueOfTasks'
  BY DEF QueueOfTasks
<1>3. Begun'
  BY DEF Begun, leaving
<1>4. ThreadsAwait'
  BY DEF ThreadsAwait
<1>5. SubmittedOnce'
  BY DEF SubmittedOnce, leaving
<1>6. StoppedFirst' /\ NoSilentOrphans'
  BY DEF StoppedFirst, NoSilentOrphans, leaving
<1>7. ClosedDown'
  BY DEF ClosedDown, Drained
<1>8. SlotsBounded'
  BY SlotsKept DEF HoldsSlot
<1> QED
  BY <1>1, <1>2, <1>3, <1>4, <1>5, <1>6, <1>7, <1>8

\* Asking the warehouse to stop a statement.
LEMMA StoppedFacts ==
    ASSUME TypeOK, NEW o \in Ops, Stopped(o) \/ UNCHANGED statement
    PROVE  /\ statement' \in [Ops -> {"none", "running", "stopping", "ended"}]
           /\ \A p \in Ops : /\ statement[p] = "none" => statement'[p] = "none"
                             /\ statement'[p] = "running" => statement[p] = "running"
BY DEF TypeOK, Stopped

LEMMA KeptByStatementEnds ==
    ASSUME Orderly, NEW o \in Ops, StatementEnds(o)
    PROVE  Orderly'
<1>1. /\ statement' \in [Ops -> {"none", "running", "stopping", "ended"}]
      /\ \A p \in Ops : /\ statement[p] = "none" => statement'[p] = "none"
                        /\ statement'[p] = "running" => statement[p] = "running"
  BY DEF Orderly, TypeOK, StatementEnds
<1>2. running' \subseteq running /\ requested' \subseteq Ops
  BY DEF Orderly, TypeOK, StatementEnds, calls, closing
<1>3. UNCHANGED <<stage, polls, active, queue, leaving, closed, close_finished, client, closer>>
  BY DEF StatementEnds, calls, closing
<1> QED
  BY <1>1, <1>2, <1>3, KeptAside

LEMMA KeptByDropped ==
    ASSUME Orderly, NEW c \in running, Dropped(c)
    PROVE  Orderly'
<1>1. running' \subseteq running /\ requested' \subseteq Ops /\ UNCHANGED statement
  BY DEF Orderly, TypeOK, Dropped, Returned, closing
<1>2. UNCHANGED <<stage, polls, active, queue, leaving, closed, close_finished, client, closer>>
  BY DEF Dropped, Returned, closing
<1>3. /\ statement' \in [Ops -> {"none", "running", "stopping", "ended"}]
      /\ \A p \in Ops : /\ statement[p] = "none" => statement'[p] = "none"
                        /\ statement'[p] = "running" => statement[p] = "running"
  BY <1>1 DEF Orderly, TypeOK
<1> QED
  BY <1>1, <1>2, <1>3, KeptAside

LEMMA KeptByCancelAccepted ==
    ASSUME Orderly, NEW c \in running, CancelAccepted(c)
    PROVE  Orderly'
<1> USE DEF Orderly
<1> DEFINE o == c.op
<1>1. /\ c \in Call /\ o \in Ops /\ Stopped(o) /\ UNCHANGED <<polls, active, leaving, closing>>
      /\ c.kind = "cancel"
  BY CallTyped DEF TypeOK, CancelAccepted
<1>2. CASE ~Forgotten(c) /\ GoesTo(o, "confirming") /\ Issue(CallOf(o, "confirm"), {c})
  <2>1. stage[o] \notin {"new", "ended", "submitting", "recovering"}
    BY <1>1, <1>2, AnsweredWorks
  <2>2. "confirm" \in Kinds /\ Awaited("confirming") = "confirm"
    BY DEF Kinds, Awaited
  <2>3. CallOf(o, "confirm") \in Call /\ CallOf(o, "confirm").op = o /\ CallOf(o, "confirm").kind = "confirm"
    BY <1>1, <2>2, CallOfTyped
  <2>4. o \in SyncOps => \A d \in running : d.op = o => d \in {c}
    BY OneInFlight
  <2>5. /\ polls' \in [Ops -> 0 .. MaxPolls] /\ excused' = excused /\ UNCHANGED closing
        /\ handling' \subseteq AsyncOps /\ handling' \subseteq handling \cup {o}
    BY <1>1 DEF TypeOK, leaving
  <2>6. Moves(o)
    BY <1>1, <1>2, <2>1, <2>2, <2>3, <2>4, <2>5, MovesByIssue
  <2> QED
    BY <1>1, <2>6, KeptByMove
<1>3. CASE Returned({c}) /\ UNCHANGED stage
  <2>1. running' \subseteq running /\ requested' \subseteq Ops
    BY <1>1, <1>3 DEF TypeOK, Returned, closing
  <2>2. UNCHANGED <<stage, polls, active, queue, leaving, closed, close_finished, client, closer>>
    BY <1>1, <1>3 DEF Returned, closing
  <2>3. /\ statement' \in [Ops -> {"none", "running", "stopping", "ended"}]
        /\ \A p \in Ops : /\ statement[p] = "none" => statement'[p] = "none"
                          /\ statement'[p] = "running" => statement[p] = "running"
    BY <1>1, StoppedFacts
  <2> QED
    BY <2>1, <2>2, <2>3, KeptAside
<1> QED
  BY <1>2, <1>3 DEF CancelAccepted

LEMMA KeptByCancelActive ==
    ASSUME Orderly, NEW c \in Closers, NEW o \in Ops, CancelActive(c, o)
    PROVE  Orderly'
<1>1. running' \subseteq running /\ requested' \subseteq Ops
  BY DEF Orderly, TypeOK, CancelActive, calls
<1>2. UNCHANGED <<stage, polls, active, queue, leaving, closed, close_finished, client, closer>>
  BY DEF CancelActive, calls
<1>3. /\ statement' \in [Ops -> {"none", "running", "stopping", "ended"}]
      /\ \A p \in Ops : /\ statement[p] = "none" => statement'[p] = "none"
                        /\ statement'[p] = "running" => statement[p] = "running"
  BY StoppedFacts DEF Orderly, CancelActive
<1> QED
  BY <1>1, <1>2, <1>3, KeptAside

\* A worker takes a call: a submission starts the statement of an operation that
\* waits for it or has given it up.
LEMMA KeptByStartCall ==
    ASSUME Orderly, StartCall
    PROVE  Orderly'
<1> USE DEF Orderly
<1> DEFINE c == Head(queue)
<1>1. /\ c \in AsyncCall /\ c \in Range(queue) /\ Tail(queue) \in Seq(AsyncCall)
      /\ Range(Tail(queue)) \subseteq Range(queue) /\ OneSubmission(Tail(queue))
      /\ \A d \in Range(Tail(queue)) : d.kind = "execute" /\ c.kind = "execute" => d.op # c.op
  BY TailFacts DEF StartCall, QueueOfTasks, SubmittedOnce
<1>2. queue' = Tail(queue) /\ running' = running \cup {c} /\ queue # <<>>
  BY DEF StartCall
<1>3. c \in Call /\ c.op \in Ops /\ c.op \in AsyncOps /\ c.op \notin SyncOps
  BY <1>1, CallTyped, OperationsAssumption DEF AsyncCall
<1>4. /\ UNCHANGED <<stage, polls, active, handling, excused>>
      /\ UNCHANGED <<closed, close_finished, client, closer, requested>>
  BY DEF StartCall, leaving, closing
<1>5. statement' = IF c.kind = "execute" THEN [statement EXCEPT ![c.op] = "running"] ELSE statement
  BY DEF StartCall
<1>6. \A p \in Ops : statement'[p] = IF p = c.op /\ c.kind = "execute" THEN "running" ELSE statement[p]
  BY <1>3, <1>5 DEF TypeOK
<1>7. c.kind = "execute" =>
        /\ stage[c.op] \in {"submitting", "recovering", "ended"}
        /\ stage[c.op] = "ended" => c.op \in excused
  BY <1>1 DEF SubmittedOnce
<1> HIDE DEF c
<1>8. TypeOK'
  <2>1. statement' \in [Ops -> {"none", "running", "stopping", "ended"}]
    BY <1>3, <1>5 DEF TypeOK
  <2>2. queue' \in Seq(Call)
    <3>1. AsyncCall \subseteq Call
      BY DEF AsyncCall
    <3> QED
      BY <1>1, <1>2, <3>1, SeqMonotonic
  <2> QED
    BY <1>2, <1>3, <1>4, <2>1, <2>2 DEF TypeOK
<1>9. QueueOfTasks'
  BY <1>1, <1>2 DEF QueueOfTasks
<1>10. Begun'
  <2>1. stage[c.op] # "new"
    BY <1>1 DEF Begun
  <2>2. \A d \in running' \cup Range(queue') : d \in running \cup Range(queue)
    BY <1>1, <1>2
  <2> QED
    BY <1>4, <1>6, <2>1, <2>2 DEF Begun
<1>11. ThreadsAwait'
  BY <1>2, <1>3, <1>4 DEF ThreadsAwait
<1>12. SubmittedOnce'
  <2>1. OneSubmission(queue)'
    BY <1>1, <1>2 DEF OneSubmission
  <2>2. \A d \in Range(queue') : d.kind = "execute" =>
          \A e \in running' : e.op = d.op => e.kind # "execute"
    BY <1>1, <1>2 DEF SubmittedOnce
  <2> QED
    BY <1>1, <1>2, <1>4, <2>1, <2>2 DEF SubmittedOnce
<1>13. StoppedFirst' /\ NoSilentOrphans'
  BY <1>4, <1>6, <1>7 DEF StoppedFirst, NoSilentOrphans
<1>14. ClosedDown'
  BY <1>2, <1>4 DEF ClosedDown
<1>15. SlotsBounded'
  BY <1>4, SlotsKept DEF HoldsSlot
<1> QED
  BY <1>8, <1>9, <1>10, <1>11, <1>12, <1>13, <1>14, <1>15

-----------------------------------------------------------------------------
(* Beginnings                                                               *)

\* An operation is refused, or cancelled, before it has begun.
LEMMA KeptByLeaving ==
    ASSUME Orderly, NEW o \in Ops, stage[o] = "new", GoesTo(o, "ended"),
           UNCHANGED <<polls, active, statement, calls, leaving, closing>>
    PROVE  Orderly'
<1> USE DEF Orderly
<1>1. /\ stage \in [Ops -> Stages] /\ stage' \in [Ops -> Stages]
      /\ \A p \in Ops : stage'[p] = IF p = o THEN "ended" ELSE stage[p]
  BY DEF TypeOK, Stages, GoesTo
<1>2. \A c \in running \cup Range(queue) : c.op # o /\ c.op \in Ops
  <2>1. Range(queue) \subseteq Call
    BY WaitingTyped DEF AsyncCall
  <2> QED
    BY <2>1, CallTyped DEF Begun, TypeOK
<1>3. TypeOK'
  BY <1>1 DEF TypeOK, Stages, calls, leaving, closing
<1>4. QueueOfTasks' /\ StoppedFirst'
  BY <1>1 DEF QueueOfTasks, StoppedFirst, calls
<1>5. Begun'
  BY <1>1, <1>2 DEF Begun, calls, leaving
<1>6. ThreadsAwait'
  BY <1>1, <1>2 DEF ThreadsAwait, calls
<1>7. SubmittedOnce'
  BY <1>1, <1>2 DEF SubmittedOnce, calls, leaving
<1>8. NoSilentOrphans'
  BY <1>1 DEF NoSilentOrphans, Begun, leaving
<1>9. ClosedDown'
  BY DEF ClosedDown, Drained, calls, closing
<1>10. SlotsBounded'
  <2>1. \A p \in AsyncOps : p \in Ops
    BY DEF Ops
  <2>2. \A p \in AsyncOps : HoldsSlot(p)' => HoldsSlot(p)
    BY <1>1, <2>1 DEF HoldsSlot
  <2> QED
    BY <2>2, SlotsKept
<1> QED
  BY <1>3, <1>4, <1>5, <1>6, <1>7, <1>8, <1>9, <1>10

LEMMA KeptByBegin ==
    ASSUME Orderly, NEW o \in Ops, Begin(o)
    PROVE  Orderly'
<1> USE DEF Orderly
<1>1. stage[o] = "new" /\ UNCHANGED <<polls, leaving, closing>> /\ (o \in AsyncOps => SlotFree)
  BY DEF Begin, Arrives
<1>2. CASE closed
  <2>1. GoesTo(o, "ended") /\ UNCHANGED <<active, statement, calls>>
    BY <1>2 DEF Begin
  <2> QED
    BY <1>1, <2>1, KeptByLeaving
<1>3. CASE ~closed
  <2> DEFINE call == CallOf(o, "execute")
  <2>1. /\ GoesTo(o, "submitting") /\ active' = [active EXCEPT ![o] = "untracked"]
        /\ Issue(call, {})
        /\ statement' = [statement EXCEPT ![o] = IF o \in SyncOps THEN "running" ELSE @]
    BY <1>3 DEF Begin
  <2>2. "execute" \in Kinds /\ Awaited("submitting") = "execute"
    BY DEF Kinds, Awaited
  <2>3. /\ call \in Call /\ call.op = o /\ call.kind = "execute"
        /\ o \in SyncOps => call = [op |-> o, kind |-> "execute", handler |-> FALSE]
    BY <2>2, CallOfTyped
  <2> HIDE DEF call
  <2>4. Range(queue) \subseteq AsyncCall /\ Range(queue) \subseteq Call
    BY WaitingTyped DEF AsyncCall
  <2>5. \A c \in running \cup Range(queue) : c.op # o /\ c.op \in Ops
    BY <1>1, <2>4, CallTyped DEF Begun, TypeOK
  <2>6. /\ queue' \in Seq(AsyncCall) /\ OneSubmission(queue')
        /\ \A c \in Range(queue') : c \in Range(queue) \/ (c = call /\ o \in AsyncOps)
        /\ \A c \in running' : c \in running \/ (c = call /\ o \in SyncOps)
    <3>1. CASE o \in SyncOps
      <4>1. queue' = queue /\ running' = running \cup {call}
        BY <2>1, <2>3, <3>1 DEF Issue
      <4> QED
        BY <3>1, <4>1 DEF QueueOfTasks, SubmittedOnce
    <3>2. CASE o \notin SyncOps
      <4>1. queue' = Append(StillQueued(o), call) /\ running' = running
        BY <2>1, <2>3, <3>2 DEF Issue
      <4>2. o \in AsyncOps /\ call \in AsyncCall
        BY <2>3, <3>2 DEF Ops, AsyncCall
      <4>3. /\ StillQueued(o) \in Seq(AsyncCall) /\ OneSubmission(StillQueued(o))
            /\ Range(StillQueued(o)) \subseteq Range(queue)
        BY StillQueuedFacts DEF QueueOfTasks, SubmittedOnce
      <4>4. \A d \in Range(StillQueued(o)) : d.op # call.op
        BY <2>3, <2>5, <4>3
      <4>5. /\ queue' \in Seq(AsyncCall) /\ OneSubmission(queue')
            /\ Range(queue') \subseteq Range(StillQueued(o)) \cup {call}
        BY <4>1, <4>2, <4>3, <4>4, AppendFacts
      <4> QED
        BY <4>1, <4>2, <4>3, <4>5
    <3> QED
      BY <3>1, <3>2
  <2>7. /\ stage' \in [Ops -> Stages] /\ active' \in [Ops -> {"absent", "untracked", "tracked"}]
        /\ statement' \in [Ops -> {"none", "running", "stopping", "ended"}]
    <3>1. (IF o \in SyncOps THEN "running" ELSE statement[o]) \in {"none", "running", "stopping", "ended"}
      BY DEF TypeOK
    <3> QED
      BY <2>1, <3>1 DEF TypeOK, Stages, GoesTo
  <2>8. /\ \A p \in Ops : stage'[p] = IF p = o THEN "submitting" ELSE stage[p]
        /\ \A p \in Ops : active'[p] = IF p = o THEN "untracked" ELSE active[p]
        /\ \A p \in Ops : p # o => statement'[p] = statement[p]
    BY <2>1 DEF TypeOK, GoesTo
  <2>9. TypeOK'
    <3>1. running' \subseteq Call
      BY <2>3, <2>6 DEF TypeOK
    <3>2. queue' \in Seq(Call)
      <4>1. AsyncCall \subseteq Call
        BY DEF AsyncCall
      <4> QED
        BY <2>6, <4>1, SeqMonotonic
    <3> QED
      BY <1>1, <2>7, <3>1, <3>2 DEF TypeOK, Stages, leaving, closing
  <2>10. QueueOfTasks'
    BY <2>6 DEF QueueOfTasks
  <2>11. Begun'
    <3>1. \A c \in running' \cup Range(queue') : c.op \in Ops /\ (c.op = o \/ stage[c.op] # "new")
      BY <2>3, <2>5, <2>6 DEF Begun
    <3> QED
      BY <1>1, <2>8, <3>1 DEF Begun, leaving
  <2>12. ThreadsAwait'
    <3> SUFFICES ASSUME NEW c \in running', c.op \in SyncOps
                 PROVE  c = [op |-> c.op, kind |-> Awaited(stage'[c.op]), handler |-> FALSE]
      BY DEF ThreadsAwait, Awaited
    <3>1. CASE c = call /\ o \in SyncOps
      BY <2>2, <2>3, <2>8, <3>1
    <3>2. CASE c \in running
      BY <2>5, <2>8, <3>2 DEF ThreadsAwait
    <3> QED
      BY <2>6, <3>1, <3>2
  <2>13. SubmittedOnce'
    <3>1. OneSubmission(queue)'
      BY <2>6 DEF OneSubmission
    <3> SUFFICES ASSUME NEW c \in Range(queue'), c.kind = "execute"
                 PROVE  /\ stage'[c.op] \in {"submitting", "recovering", "ended"}
                        /\ stage'[c.op] = "ended" => c.op \in excused'
                        /\ \A d \in running' : d.op = c.op => d.kind # "execute"
      BY <3>1 DEF SubmittedOnce
    <3>2. CASE c = call /\ o \in AsyncOps
      <4>1. o \notin SyncOps
        BY <3>2, OperationsAssumption
      <4> QED
        BY <2>3, <2>5, <2>6, <2>8, <3>2, <4>1
    <3>3. CASE c \in Range(queue)
      BY <1>1, <2>3, <2>5, <2>6, <2>8, <3>3 DEF SubmittedOnce, leaving
    <3> QED
      BY <2>6, <3>2, <3>3
  <2>14. StoppedFirst' /\ NoSilentOrphans'
    BY <1>1, <2>8 DEF StoppedFirst, NoSilentOrphans, leaving
  <2>15. ClosedDown'
    BY <1>1, <1>3 DEF ClosedDown, TypeOK, closing
  <2>16. SlotsBounded'
    <3>1. CASE o \in SyncOps
      <4>1. \A p \in AsyncOps : p \in Ops /\ p # o
        BY <3>1, OperationsAssumption DEF Ops
      <4>2. \A p \in AsyncOps : HoldsSlot(p)' => HoldsSlot(p)
        BY <2>8, <4>1 DEF HoldsSlot
      <4> QED
        BY <4>2, SlotsKept
    <3>2. CASE o \in AsyncOps
      <4>1. Cardinality(Holders) < MaxConcurrentOperations
        BY <1>1, <3>2 DEF SlotFree, Holders
      <4>2. IsFiniteSet(Holders)
        <5>1. Holders \in SUBSET AsyncOps
          BY DEF Holders
        <5> QED
          BY <5>1, FS_Subset, OperationsAssumption
      <4>3. /\ IsFiniteSet(Holders \cup {o})
            /\ Cardinality(Holders \cup {o}) =
                 IF o \in Holders THEN Cardinality(Holders) ELSE Cardinality(Holders) + 1
        BY <4>2, FS_AddElement
      <4>4. Holders' \in SUBSET (Holders \cup {o})
        BY <2>8 DEF Holders, HoldsSlot, Ops
      <4>5. IsFiniteSet(Holders') /\ Cardinality(Holders') <= Cardinality(Holders \cup {o})
        BY <4>3, <4>4, FS_Subset
      <4>6. Cardinality(Holders) \in Nat /\ Cardinality(Holders') \in Nat
        BY <4>2, <4>5, FS_CardinalityType
      <4>7. MaxConcurrentOperations \in Nat
        BY ConcurrencyAssumption
      <4>8. Cardinality(Holders') <= MaxConcurrentOperations
        BY <4>1, <4>3, <4>5, <4>6, <4>7
      <4> QED
        BY <4>8 DEF SlotsBounded
    <3> QED
      BY <3>1, <3>2 DEF Ops
  <2> QED
    BY <2>9, <2>10, <2>11, <2>12, <2>13, <2>14, <2>15, <2>16
<1> QED
  BY <1>2, <1>3 DEF TypeOK

LEMMA KeptByCancelTask ==
    ASSUME Orderly, NEW o \in Ops, CancelTask(o)
    PROVE  Orderly'
<1>1. o \in AsyncOps /\ UNCHANGED <<polls, statement, closing>>
  BY DEF CancelTask
<1>2. CASE Interrupted(o)
  BY <1>1, <1>2, KeptByInterrupted
<1>3. CASE /\ Arrives(o) /\ GoesTo(o, "ended") /\ UNCHANGED <<active, calls, leaving>>
  <2>1. stage[o] = "new"
    BY <1>3 DEF Arrives
  <2> QED
    BY <1>1, <1>3, <2>1, KeptByLeaving
<1> QED
  BY <1>2, <1>3 DEF CancelTask

-----------------------------------------------------------------------------
(* close                                                                    *)

\* A step of close that leaves the operations alone and may only empty the queue.
LEMMA KeptByClosing ==
    ASSUME Orderly, queue' = queue \/ queue' = <<>>, ClosedDown',
           UNCHANGED <<stage, polls, active, statement, running, leaving, requested>>,
           closed' \in BOOLEAN, close_finished' \in BOOLEAN, client' \in {"open", "closed"},
           closer' \in [Closers -> {"new", "waiting", "cancelling", "draining", "joining", "returned"}]
    PROVE  Orderly'
<1> USE DEF Orderly
<1>1. QueueOfTasks' /\ queue' \in Seq(Call) /\ Range(queue') \subseteq Range(queue)
      /\ OneSubmission(queue')
  <2>1. CASE queue' = queue
    BY <2>1, WaitingTyped DEF QueueOfTasks, SubmittedOnce
  <2>2. CASE queue' = <<>>
    <3>1. DOMAIN <<>> = {} /\ <<>> \in Seq(AsyncCall) /\ <<>> \in Seq(Call)
      BY EmptySeq
    <3>2. Range(<<>>) = {} /\ OneSubmission(<<>>)
      BY <3>1 DEF Range, OneSubmission
    <3> QED
      BY <2>2, <3>1, <3>2 DEF QueueOfTasks
  <2> QED
    BY <2>1, <2>2
<1>2. TypeOK'
  BY <1>1 DEF TypeOK, leaving
<1>3. Begun'
  BY <1>1 DEF Begun, leaving
<1>4. ThreadsAwait'
  BY DEF ThreadsAwait
<1>5. SubmittedOnce'
  BY <1>1 DEF SubmittedOnce, leaving
<1>6. StoppedFirst' /\ NoSilentOrphans'
  BY DEF StoppedFirst, NoSilentOrphans, leaving
<1>7. SlotsBounded'
  BY SlotsKept DEF HoldsSlot
<1> QED
  BY <1>1, <1>2, <1>3, <1>4, <1>5, <1>6, <1>7

\* Every call of close that changes nothing but itself and, the first, `closed'.
LEMMA KeptByClose ==
    ASSUME Orderly, NEW c \in Closers,
           Close(c) \/ StopCancelling(c) \/ FindsClosed(c)
    PROVE  Orderly'
<1> USE DEF Orderly
<1>1. closer \in [Closers -> {"new", "waiting", "cancelling", "draining", "joining", "returned"}]
  BY DEF TypeOK
<1>2. /\ queue' = queue /\ close_finished' = close_finished /\ client' = client
      /\ UNCHANGED <<stage, polls, active, statement, running, leaving, requested>>
      /\ closed => closed'
  BY DEF Close, StopCancelling, FindsClosed, calls
<1>3. closed' \in BOOLEAN /\ close_finished' \in BOOLEAN /\ client' \in {"open", "closed"}
  BY DEF TypeOK, Close, StopCancelling, FindsClosed
<1>4. PICK s \in {"waiting", "cancelling", "draining", "returned"} :
          /\ closer' = [closer EXCEPT ![c] = s]
          /\ s = "returned" => close_finished
          /\ closed'
  BY DEF Close, StopCancelling, FindsClosed, ClosedDown
<1>5. closer' \in [Closers -> {"new", "waiting", "cancelling", "draining", "joining", "returned"}]
      /\ \A d \in Closers : closer'[d] = IF d = c THEN s ELSE closer[d]
  BY <1>1, <1>4
<1>6. ClosedDown'
  BY <1>2, <1>4, <1>5 DEF ClosedDown, Drained
<1> QED
  BY <1>2, <1>3, <1>5, <1>6, KeptByClosing

LEMMA KeptByShutDownPool ==
    ASSUME Orderly, NEW c \in Closers, ShutDownPool(c)
    PROVE  Orderly'
<1> USE DEF Orderly
<1>1. closer \in [Closers -> {"new", "waiting", "cancelling", "draining", "joining", "returned"}]
  BY DEF TypeOK
<1>2. closer' \in [Closers -> {"new", "waiting", "cancelling", "draining", "joining", "returned"}]
      /\ \A d \in Closers : closer'[d] = IF d = c THEN "joining" ELSE closer[d]
  BY <1>1 DEF ShutDownPool
<1>3. ClosedDown'
  BY <1>2 DEF ClosedDown, Drained, ShutDownPool
<1>4. closed' \in BOOLEAN /\ close_finished' \in BOOLEAN /\ client' \in {"open", "closed"}
  BY DEF TypeOK, ShutDownPool
<1> QED
  BY <1>2, <1>3, <1>4, KeptByClosing DEF ShutDownPool

\* With no operation active and no worker busy, no call is in flight at all.
LEMMA KeptByCloseClient ==
    ASSUME Orderly, NEW c \in Closers, CloseClient(c)
    PROVE  Orderly'
<1> USE DEF Orderly
<1>1. closer \in [Closers -> {"new", "waiting", "cancelling", "draining", "joining", "returned"}]
  BY DEF TypeOK
<1>2. closer' \in [Closers -> {"new", "waiting", "cancelling", "draining", "joining", "returned"}]
      /\ \A d \in Closers : closer'[d] = IF d = c THEN "returned" ELSE closer[d]
  BY <1>1 DEF CloseClient
<1>3. Drained /\ queue = <<>> /\ closed
  BY DEF ClosedDown, CloseClient
<1>4. ASSUME NEW d \in running PROVE FALSE
  <2>1. d.op \in Ops
    BY CallTyped DEF TypeOK
  <2>2. d.op \notin AsyncOps
    BY DEF CloseClient
  <2>3. stage[d.op] \in {"new", "ended"}
    BY <1>3, <2>1 DEF Drained, Begun
  <2>4. Awaited(stage[d.op]) = "none"
    BY <2>3 DEF Awaited
  <2> QED
    BY <2>1, <2>2, <2>4, NothingInFlight DEF Ops
<1>5. ClosedDown'
  BY <1>2, <1>3, <1>4 DEF ClosedDown, Drained, CloseClient, calls
<1>6. closed' \in BOOLEAN /\ close_finished' \in BOOLEAN /\ client' \in {"open", "closed"}
  BY DEF TypeOK, CloseClient
<1> QED
  BY <1>2, <1>5, <1>6, KeptByClosing DEF CloseClient, calls

-----------------------------------------------------------------------------
(* The theorems                                                             *)

LEMMA InitOrderly == Init => Orderly
<1> SUFFICES ASSUME Init PROVE Orderly
  OBVIOUS
<1> USE DEF Init
<1>1. DOMAIN <<>> = {} /\ <<>> \in Seq(AsyncCall) /\ <<>> \in Seq(Call)
  BY EmptySeq
<1>2. Range(queue) = {} /\ OneSubmission(queue)
  BY <1>1 DEF Range, OneSubmission
<1>3. TypeOK
  <2>1. 0 \in 0 .. MaxPolls
    BY PollsAssumption
  <2>2. queue \in Seq(Call)
    BY <1>1
  <2> HIDE DEF Init
  <2>3. /\ polls = [o \in Ops |-> 0] /\ stage = [o \in Ops |-> "new"]
        /\ active = [o \in Ops |-> "absent"] /\ statement = [o \in Ops |-> "none"]
        /\ closer = [c \in Closers |-> "new"]
    BY DEF Init
  <2>4. polls \in [Ops -> 0 .. MaxPolls]
    BY <2>1, <2>3
  <2>5. running = {} /\ handling = {} /\ excused = {} /\ requested = {}
        /\ closed = FALSE /\ close_finished = FALSE /\ client = "open"
    BY DEF Init
  <2> QED
    BY <2>2, <2>3, <2>4, <2>5 DEF TypeOK
<1>4. QueueOfTasks /\ ThreadsAwait /\ StoppedFirst /\ NoSilentOrphans
  BY <1>1 DEF QueueOfTasks, ThreadsAwait, StoppedFirst, NoSilentOrphans
<1>5. Begun /\ SubmittedOnce
  BY <1>2 DEF Begun, SubmittedOnce
<1>6. ClosedDown
  BY DEF ClosedDown
<1>7. SlotsBounded
  <2>1. Holders = {}
    BY DEF Holders, HoldsSlot, Ops
  <2>2. Cardinality(Holders) = 0
    BY <2>1, FS_EmptySet
  <2> QED
    BY <2>2, ConcurrencyAssumption DEF SlotsBounded
<1> QED
  BY <1>3, <1>4, <1>5, <1>6, <1>7 DEF Orderly

LEMMA StepOrderly == Orderly /\ [Next]_vars => Orderly'
<1> SUFFICES ASSUME Orderly, [Next]_vars PROVE Orderly'
  OBVIOUS
<1>1. CASE StartCall
  BY <1>1, KeptByStartCall
<1>2. ASSUME NEW o \in Ops, Begin(o) \/ Waits(o) \/ CancelTask(o) \/ StatementEnds(o) PROVE Orderly'
  BY <1>2, KeptByBegin, KeptByPoll, KeptByPollDeadline, KeptByGraceExpires, KeptByCancelTask,
     KeptByStatementEnds DEF Waits
<1>3. ASSUME NEW o \in Ops, Returns(o) PROVE Orderly'
  BY <1>3, KeptByExecuted, KeptByChecked, KeptByCancelAccepted, KeptByConfirmed, KeptByCallFails,
     KeptByDropped DEF Returns
<1>4. ASSUME NEW c \in Closers, Close(c) \/ Closes(c) PROVE Orderly'
  BY <1>4, KeptByClose, KeptByShutDownPool, KeptByCloseClient DEF Closes
<1>5. ASSUME NEW c \in Closers, NEW o \in Ops, CancelActive(c, o) PROVE Orderly'
  BY <1>5, KeptByCancelActive
<1>6. CASE UNCHANGED vars
  <2>1. UNCHANGED <<stage, polls, active, statement, running, queue, leaving, requested,
                    closed, close_finished, client, closer>>
    BY <1>6 DEF vars, calls, closing
  <2>2. /\ closed' \in BOOLEAN /\ close_finished' \in BOOLEAN /\ client' \in {"open", "closed"}
        /\ closer' \in [Closers -> {"new", "waiting", "cancelling", "draining", "joining", "returned"}]
        /\ ClosedDown'
    BY <2>1 DEF Orderly, TypeOK, ClosedDown, Drained
  <2> QED
    BY <2>1, <2>2, KeptByClosing
<1> QED
  BY <1>1, <1>2, <1>3, <1>4, <1>5, <1>6 DEF Next

\* The strengthening is an invariant of the executor.
THEOREM AlwaysOrderly == Spec => []Orderly
BY InitOrderly, StepOrderly, PTL DEF Spec

\* Every variable keeps its type.
THEOREM ExecutorTyped == Spec => []TypeOK
<1>1. Orderly => TypeOK
  BY DEF Orderly
<1> QED
  BY <1>1, AlwaysOrderly, PTL

\* After close no operation and no abandoned worker uses the client.
THEOREM CloseIsQuiet == Spec => []NothingAfterClose
<1>1. Orderly => NothingAfterClose
  <2> SUFFICES ASSUME Orderly, client = "closed" \/ (\E c \in Closers : closer[c] = "returned")
               PROVE  /\ running = {} /\ queue = <<>>
                      /\ \A o \in Ops : stage[o] \in {"new", "ended"}
    BY DEF NothingAfterClose
  <2>1. Drained /\ queue = <<>> /\ running = {}
    BY DEF Orderly, ClosedDown
  <2> QED
    BY <2>1 DEF Orderly, Begun, Drained
<1> QED
  BY <1>1, AlwaysOrderly, PTL

\* Neither a deadline nor a first cancellation leaves a statement running.
THEOREM StatementsSettled == Spec => []NoSilentOrphans
<1>1. Orderly => NoSilentOrphans
  BY DEF Orderly
<1> QED
  BY <1>1, AlwaysOrderly, PTL

\* The semaphore of the tasks bounds what they have running in the warehouse, what
\* they left behind with an excuse excepted.
THEOREM SlotsBoundStatements == Spec => []StatementsBounded
<1>1. Orderly => StatementsBounded
  <2> SUFFICES ASSUME Orderly PROVE StatementsBounded
    OBVIOUS
  <2> DEFINE run == {o \in AsyncOps \ excused : statement[o] = "running"}
  <2>1. run \in SUBSET Holders
    <3> SUFFICES ASSUME NEW o \in run PROVE o \in Holders
      OBVIOUS
    <3>1. o \in AsyncOps /\ o \in Ops /\ o \notin excused /\ statement[o] = "running"
      BY DEF Ops
    <3>2. stage[o] # "new" /\ stage[o] # "ended"
      BY <3>1 DEF Orderly, Begun, NoSilentOrphans
    <3> QED
      BY <3>1, <3>2 DEF Holders, HoldsSlot
  <2>2. Holders \in SUBSET AsyncOps
    BY DEF Holders
  <2>3. IsFiniteSet(Holders)
    BY <2>2, FS_Subset, OperationsAssumption
  <2>4. Cardinality(run) <= Cardinality(Holders) /\ IsFiniteSet(run)
    <3> HIDE DEF run
    <3> QED
      BY <2>1, <2>3, FS_Subset
  <2>5. Cardinality(run) \in Nat /\ Cardinality(Holders) \in Nat
    <3> HIDE DEF run
    <3> QED
      BY <2>3, <2>4, FS_CardinalityType
  <2>6. Cardinality(run) <= MaxConcurrentOperations
    <3>1. Cardinality(Holders) <= MaxConcurrentOperations /\ MaxConcurrentOperations \in Nat
      BY ConcurrencyAssumption DEF Orderly, SlotsBounded
    <3> HIDE DEF run
    <3> QED
      BY <2>4, <2>5, <3>1
  <2> QED
    BY <2>6 DEF StatementsBounded
<1> QED
  BY <1>1, AlwaysOrderly, PTL

=============================================================================
