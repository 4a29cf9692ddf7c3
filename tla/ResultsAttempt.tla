--------------------------- MODULE ResultsAttempt ---------------------------
(***************************************************************************)
(* The attempt protocol of the agentkit results directory: evaluations that *)
(* begin, publish and complete an attempt, each file at a time, and gates   *)
(* that read the evidence of the latest one.  A process may stop, or a call *)
(* raise, between any two steps; files survive it and its flock does not.   *)
(*                                                                         *)
(* A step is one atomic change of the directory (os.replace of a scratch    *)
(* file, unlink) or one read of a file.  Of a file the model keeps what a   *)
(* reader tells apart: whose attempt it names, and which bytes it holds.    *)
(***************************************************************************)
EXTENDS FiniteSets

CONSTANTS Attempts, Gates, None, Pending, Legacy, Scored, Edited

VARIABLES
    legacy,      \* the directory has records from before the protocol
    pointer,     \* .latest-attempt: the attempt it names, or None
    transition,  \* .attempt-transition exists
    state,       \* .attempt-<id>: None, Pending, or the results that it binds
    results,     \* the results file of an attempt: its bytes, or None
    writer,      \* the holder of the exclusive flock, or None
    stage,       \* Attempts -> how far the evaluation has come
    gate,        \* Gates -> the read under way, or what the last one returned
    latest       \* history: the last attempt whose begin changed the directory

directory == <<legacy, pointer, transition, state, results, latest>>
vars == <<directory, writer, stage, gate>>

-----------------------------------------------------------------------------

Bytes == {Scored, Edited}
\* What a complete attempt binds: its results file and the digest of its bytes.
Bound == [file : Attempts, digest : Bytes]

\* The marks that a file may hold are not attempts or results.
ASSUME MarksAreNotData ==
    /\ None \notin Attempts \cup Bytes \cup Bound \cup {Pending}
    /\ Pending \notin Bound

Reading == {"locked", "unmoved", "pointed", "bound", "answered"}
Idle == [at |-> "idle", attempt |-> None, answer |-> None]

Init ==
    /\ legacy \in BOOLEAN
    /\ pointer = None
    /\ transition = FALSE
    /\ state = [a \in Attempts |-> None]
    /\ results = [a \in Attempts |-> None]
    /\ writer = None
    /\ stage = [a \in Attempts |-> "new"]
    /\ gate = [g \in Gates |-> Idle]
    /\ latest = None

\* Who has the shared flock: the gates that are reading.
Readers == {g \in Gates : gate[g].at # "idle"}

-----------------------------------------------------------------------------
(* begin_results_attempt, under the exclusive flock *)

\* Seeded fault: begin takes the flock without waiting for anyone.
FreeAtOnce == TRUE

ExclusiveFree == writer = None /\ Readers = {}

GoesTo(a, next) == stage' = [stage EXCEPT ![a] = next]

Begin(a) ==
    /\ stage[a] = "new"
    /\ ExclusiveFree
    /\ writer' = a
    /\ GoesTo(a, "locked")
    /\ UNCHANGED <<directory, gate>>

\* os.replace of the pointer, when there is one.
MovePointer(a) ==
    /\ stage[a] = "locked"
    /\ IF pointer # None
       THEN /\ pointer' = None
            /\ transition' = TRUE
            /\ latest' = a
       ELSE UNCHANGED <<pointer, transition, latest>>
    /\ GoesTo(a, "moved")
    /\ UNCHANGED <<legacy, state, results, writer, gate>>

WriteMarker(a) ==
    /\ stage[a] = "moved"
    /\ transition' = TRUE
    /\ latest' = a
    /\ GoesTo(a, "marked")
    /\ UNCHANGED <<legacy, pointer, state, results, writer, gate>>

WritePending(a) ==
    /\ stage[a] = "marked"
    /\ state' = [state EXCEPT ![a] = Pending]
    /\ GoesTo(a, "stated")
    /\ UNCHANGED <<legacy, pointer, transition, results, latest, writer, gate>>

WritePointer(a) ==
    /\ stage[a] = "stated"
    /\ pointer' = a
    /\ GoesTo(a, "pointed")
    /\ UNCHANGED <<legacy, transition, state, results, latest, writer, gate>>

\* The marker goes, and the flock with the end of the block.
RemoveMarker(a) ==
    /\ stage[a] = "pointed"
    /\ transition
    /\ transition' = FALSE
    /\ writer' = IF writer = a THEN None ELSE writer
    /\ GoesTo(a, "begun")
    /\ UNCHANGED <<legacy, pointer, state, results, latest, gate>>

-----------------------------------------------------------------------------
(* The end of an evaluation, without the flock *)

WriteResults(a) ==
    /\ stage[a] = "begun"
    /\ results' = [results EXCEPT ![a] = Scored]
    /\ GoesTo(a, "written")
    /\ UNCHANGED <<legacy, pointer, transition, state, latest, writer, gate>>

\* Seeded fault: the attempt that completes is taken to be the latest.
LatestOwnState(a) == pointer

\* _attempt_state_path of the attempt that completes.
OwnState(a) == a

\* complete_results_attempt: the bytes as they are now, into its own state.
Complete(a) ==
    /\ stage[a] = "written"
    /\ OwnState(a) # None
    /\ state' = [state EXCEPT ![OwnState(a)] = [file |-> a, digest |-> results[a]]]
    /\ GoesTo(a, "done")
    /\ UNCHANGED <<legacy, pointer, transition, results, latest, writer, gate>>

\* The process stops or a call raises: the flock is released, the files stay.
Fail(a) ==
    /\ stage[a] \notin {"new", "done", "failed"}
    /\ writer' = IF writer = a THEN None ELSE writer
    /\ GoesTo(a, "failed")
    /\ UNCHANGED <<directory, gate>>

\* Somebody edits a results file, once.
EditResults(a) ==
    /\ results[a] = Scored
    /\ results' = [results EXCEPT ![a] = Edited]
    /\ UNCHANGED <<legacy, pointer, transition, state, latest, writer, stage, gate>>

-----------------------------------------------------------------------------
(* load_gate_results, under the shared flock *)

Reads(g, at, attempt, answer) ==
    gate' = [gate EXCEPT ![g] = [at |-> at, attempt |-> attempt, answer |-> answer]]

\* The read raises or has nothing to return; the flock is released.
Refuses(g) == gate' = [gate EXCEPT ![g] = Idle]

SharedFree == writer = None

StartRead(g) ==
    /\ gate[g].at = "idle"
    /\ SharedFree
    /\ Reads(g, "locked", None, None)
    /\ UNCHANGED <<directory, writer, stage>>

CheckMarker(g) ==
    /\ gate[g].at = "locked"
    /\ IF transition THEN Refuses(g) ELSE Reads(g, "unmoved", None, None)
    /\ UNCHANGED <<directory, writer, stage>>

HasAttemptMetadata == \E a \in Attempts : state[a] # None

\* The pointer; without one, the newest record of a directory that never had any.
ReadPointer(g) ==
    /\ gate[g].at = "unmoved"
    /\ IF pointer # None THEN Reads(g, "pointed", pointer, None)
       ELSE IF ~HasAttemptMetadata /\ legacy THEN Reads(g, "answered", None, Legacy)
       ELSE Refuses(g)
    /\ UNCHANGED <<directory, writer, stage>>

ReadState(g) ==
    LET s == state[gate[g].attempt]
    IN  /\ gate[g].at = "pointed"
        /\ IF s \in Bound THEN Reads(g, "bound", gate[g].attempt, s) ELSE Refuses(g)
        /\ UNCHANGED <<directory, writer, stage>>

\* The file it names must hold the bytes it binds, and name the attempt.
ReadResults(g) ==
    LET s == gate[g].answer
    IN  /\ gate[g].at = "bound"
        /\ IF results[s.file] = s.digest /\ s.file = gate[g].attempt
           THEN Reads(g, "answered", gate[g].attempt, s) ELSE Refuses(g)
        /\ UNCHANGED <<directory, writer, stage>>

\* The answer leaves the block, or the gate stops while it reads.
EndRead(g) ==
    /\ gate[g].at # "idle"
    /\ Refuses(g)
    /\ UNCHANGED <<directory, writer, stage>>

-----------------------------------------------------------------------------

Evaluation(a) ==
    \/ Begin(a)
    \/ MovePointer(a)
    \/ WriteMarker(a)
    \/ WritePending(a)
    \/ WritePointer(a)
    \/ RemoveMarker(a)
    \/ WriteResults(a)
    \/ Complete(a)
    \/ Fail(a)

Gate(g) ==
    \/ StartRead(g)
    \/ CheckMarker(g)
    \/ ReadPointer(g)
    \/ ReadState(g)
    \/ ReadResults(g)
    \/ EndRead(g)

Next ==
    \/ \E a \in Attempts : Evaluation(a) \/ EditResults(a)
    \/ \E g \in Gates : Gate(g)

Spec == Init /\ [][Next]_vars

-----------------------------------------------------------------------------
(* Properties *)

Stage == {"new", "locked", "moved", "marked", "stated", "pointed", "begun", "written",
          "done", "failed"}

\* Type invariant.
TypeOK ==
    /\ legacy \in BOOLEAN
    /\ pointer \in Attempts \cup {None}
    /\ transition \in BOOLEAN
    /\ state \in [Attempts -> Bound \cup {None, Pending}]
    /\ results \in [Attempts -> Bytes \cup {None}]
    /\ writer \in Attempts \cup {None}
    /\ stage \in [Attempts -> Stage]
    /\ gate \in [Gates -> [at : Reading \cup {"idle"}, attempt : Attempts \cup {None},
                           answer : Bound \cup {None, Legacy}]]
    /\ latest \in Attempts \cup {None}

\* A gate is answered only with the bytes that the latest attempt completed with,
\* or with a record from before the protocol while no attempt has touched the
\* directory: whatever begins were interrupted, and whichever older attempt
\* completes meanwhile, older evidence never passes for the latest.
EvidenceIsNewest ==
    \A g \in Gates : gate[g].at = "answered" =>
        \/ gate[g].answer = Legacy /\ latest = None
        \/ /\ latest # None
           /\ gate[g].answer = state[latest]
           /\ gate[g].answer.file = latest

\* An evaluation that completes as the latest attempt is what a gate will find:
\* no marker or pointer that an interrupted begin left behind hides it, and no
\* older evaluation that completes after it takes its place.
FinishedIsReadable ==
    latest # None /\ stage[latest] = "done" /\ writer = None =>
        /\ ~transition
        /\ pointer = latest
        /\ state[latest] \in Bound /\ state[latest].file = latest

=============================================================================
