------------------------ MODULE ResultsAttemptProofs ------------------------
(***************************************************************************)
(* What ResultsAttempt promises, for every number of evaluations and gates, *)
(* whatever is interrupted: a gate is answered by the latest attempt only,  *)
(* and an attempt that completes as the latest one can be read.             *)
(*                                                                         *)
(* The strengthening says what the flock and the order of the writes keep:  *)
(* the files move under one writer while no gate reads, the pointer never   *)
(* names an older attempt, a directory that an attempt has touched shows it *)
(* by a marker or by a state, and what a gate has read is still true.       *)
(***************************************************************************)
EXTENDS ResultsAttempt, TLAPS

Beginning == {"locked", "moved", "marked", "stated", "pointed"}

\* One writer, and only while no gate reads.
Locked ==
    /\ \A a \in Attempts : stage[a] \in Beginning => writer = a
    /\ writer # None => Readers = {}

\* The files of the latest attempt, and of one that is beginning.
Files ==
    /\ pointer # None => pointer = latest
    /\ latest # None => transition \/ state[latest] # None
    /\ \A a \in Attempts :
        /\ stage[a] = "moved" => pointer = None
        /\ stage[a] \in {"marked", "stated", "pointed"} => latest = a
        /\ stage[a] \in {"stated", "pointed"} => state[a] # None
        /\ stage[a] = "pointed" => pointer = a
        /\ stage[a] \in {"begun", "written", "done"} /\ latest = a
               => ~transition /\ pointer = a
        /\ stage[a] \in {"written", "done"} => results[a] # None

\* Only an attempt that is done has bound its results, for good.
Bindings ==
    \A a \in Attempts :
        /\ stage[a] = "done" => state[a] \in Bound
        /\ state[a] \in Bound => stage[a] = "done" /\ state[a].file = a

\* What a gate has read so far is what it would read again.
Read ==
    \A g \in Gates :
        /\ gate[g].at = "unmoved" => ~transition
        /\ gate[g].at \in {"pointed", "bound"} => gate[g].attempt = latest /\ latest # None
        /\ gate[g].at = "bound" => gate[g].answer = state[latest] /\ state[latest] \in Bound
        /\ gate[g].at = "answered" /\ latest # None => state[latest] \in Bound

Safe == TypeOK /\ Locked /\ Files /\ Bindings /\ Read /\ EvidenceIsNewest

-----------------------------------------------------------------------------

LEMMA InitSafe == Init => Safe
<1> SUFFICES ASSUME Init PROVE Safe
  OBVIOUS
<1> USE MarksAreNotData DEF Init
<1>1. TypeOK
  BY DEF TypeOK, Stage, Reading, Idle
<1>2. Locked
  BY DEF Locked, Beginning
<1>3. Files
  BY DEF Files
<1>4. Bindings
  BY DEF Bindings
<1>5. Read /\ EvidenceIsNewest
  BY DEF Read, EvidenceIsNewest, Idle
<1> QED
  BY <1>1, <1>2, <1>3, <1>4, <1>5 DEF Safe

LEMMA TypeStep == TypeOK /\ Files /\ [Next]_vars => TypeOK'
<1> SUFFICES ASSUME TypeOK, Files, [Next]_vars PROVE TypeOK'
  OBVIOUS
<1> USE DEF TypeOK, Stage, Reading, Idle, GoesTo, Reads, Refuses, directory
<1>1. ASSUME NEW a \in Attempts, Begin(a) PROVE TypeOK'
  BY <1>1 DEF Begin
<1>2. ASSUME NEW a \in Attempts, MovePointer(a) PROVE TypeOK'
  BY <1>2 DEF MovePointer
<1>3. ASSUME NEW a \in Attempts, WriteMarker(a) PROVE TypeOK'
  BY <1>3 DEF WriteMarker
<1>4. ASSUME NEW a \in Attempts, WritePending(a) PROVE TypeOK'
  BY <1>4 DEF WritePending
<1>5. ASSUME NEW a \in Attempts, WritePointer(a) PROVE TypeOK'
  BY <1>5 DEF WritePointer
<1>6. ASSUME NEW a \in Attempts, RemoveMarker(a) PROVE TypeOK'
  BY <1>6 DEF RemoveMarker
<1>7. ASSUME NEW a \in Attempts, WriteResults(a) PROVE TypeOK'
  BY <1>7 DEF WriteResults, Bytes
<1>8. ASSUME NEW a \in Attempts, Complete(a) PROVE TypeOK'
  <2>1. results[a] \in Bytes
    BY <1>8 DEF Complete, Files
  <2>2. [file |-> a, digest |-> results[a]] \in Bound
    BY <2>1 DEF Bound
  <2> QED
    BY <1>8, <2>2 DEF Complete, OwnState
<1>9. ASSUME NEW a \in Attempts, Fail(a) PROVE TypeOK'
  BY <1>9 DEF Fail
<1>10. ASSUME NEW a \in Attempts, EditResults(a) PROVE TypeOK'
  BY <1>10 DEF EditResults, Bytes
<1>11. ASSUME NEW g \in Gates, StartRead(g) PROVE TypeOK'
  BY <1>11 DEF StartRead
<1>12. ASSUME NEW g \in Gates, CheckMarker(g) PROVE TypeOK'
  BY <1>12 DEF CheckMarker
<1>13. ASSUME NEW g \in Gates, ReadPointer(g) PROVE TypeOK'
  BY <1>13 DEF ReadPointer
<1>14. ASSUME NEW g \in Gates, ReadState(g) PROVE TypeOK'
  BY <1>14 DEF ReadState
<1>15. ASSUME NEW g \in Gates, ReadResults(g) PROVE TypeOK'
  BY <1>15 DEF ReadResults
<1>16. ASSUME NEW g \in Gates, EndRead(g) PROVE TypeOK'
  BY <1>16 DEF EndRead
<1>17. CASE UNCHANGED vars
  BY <1>17 DEF vars, directory
<1> QED
  BY <1>1, <1>2, <1>3, <1>4, <1>5, <1>6, <1>7, <1>8, <1>9, <1>10, <1>11, <1>12, <1>13, <1>14, <1>15, <1>16, <1>17
  DEF Next, Evaluation, Gate

LEMMA LockedStep == TypeOK /\ Locked /\ [Next]_vars => Locked'
<1> SUFFICES ASSUME TypeOK, Locked, [Next]_vars PROVE Locked'
  OBVIOUS
<1> USE MarksAreNotData DEF TypeOK, Locked, Beginning, Readers, Idle, GoesTo, Reads, Refuses, directory
<1>1. ASSUME NEW a \in Attempts, Begin(a) PROVE Locked'
  BY <1>1 DEF Begin, ExclusiveFree
<1>2. ASSUME NEW a \in Attempts, MovePointer(a) PROVE Locked'
  BY <1>2 DEF MovePointer
<1>3. ASSUME NEW a \in Attempts, WriteMarker(a) PROVE Locked'
  BY <1>3 DEF WriteMarker
<1>4. ASSUME NEW a \in Attempts, WritePending(a) PROVE Locked'
  BY <1>4 DEF WritePending
<1>5. ASSUME NEW a \in Attempts, WritePointer(a) PROVE Locked'
  BY <1>5 DEF WritePointer
<1>6. ASSUME NEW a \in Attempts, RemoveMarker(a) PROVE Locked'
  BY <1>6 DEF RemoveMarker
<1>7. ASSUME NEW a \in Attempts, WriteResults(a) PROVE Locked'
  BY <1>7 DEF WriteResults
<1>8. ASSUME NEW a \in Attempts, Complete(a) PROVE Locked'
  BY <1>8 DEF Complete
<1>9. ASSUME NEW a \in Attempts, Fail(a) PROVE Locked'
  BY <1>9 DEF Fail
<1>10. ASSUME NEW a \in Attempts, EditResults(a) PROVE Locked'
  BY <1>10 DEF EditResults
<1>11. ASSUME NEW g \in Gates, StartRead(g) PROVE Locked'
  BY <1>11 DEF StartRead, SharedFree
<1>12. ASSUME NEW g \in Gates, CheckMarker(g) PROVE Locked'
  BY <1>12 DEF CheckMarker
<1>13. ASSUME NEW g \in Gates, ReadPointer(g) PROVE Locked'
  BY <1>13 DEF ReadPointer
<1>14. ASSUME NEW g \in Gates, ReadState(g) PROVE Locked'
  BY <1>14 DEF ReadState
<1>15. ASSUME NEW g \in Gates, ReadResults(g) PROVE Locked'
  BY <1>15 DEF ReadResults
<1>16. ASSUME NEW g \in Gates, EndRead(g) PROVE Locked'
  BY <1>16 DEF EndRead
<1>17. CASE UNCHANGED vars
  BY <1>17 DEF vars, directory
<1> QED
  BY <1>1, <1>2, <1>3, <1>4, <1>5, <1>6, <1>7, <1>8, <1>9, <1>10, <1>11, <1>12, <1>13, <1>14, <1>15, <1>16, <1>17
  DEF Next, Evaluation, Gate

LEMMA FilesStep == TypeOK /\ Locked /\ Files /\ Bindings /\ [Next]_vars => Files'
<1> SUFFICES ASSUME TypeOK, Locked, Files, Bindings, [Next]_vars PROVE Files'
  OBVIOUS
<1> USE MarksAreNotData DEF TypeOK, Locked, Beginning, Files, GoesTo, directory
<1>1. ASSUME NEW a \in Attempts, Begin(a) PROVE Files'
  BY <1>1 DEF Begin
<1>2. ASSUME NEW a \in Attempts, MovePointer(a) PROVE Files'
  BY <1>2 DEF MovePointer
<1>3. ASSUME NEW a \in Attempts, WriteMarker(a) PROVE Files'
  BY <1>3 DEF WriteMarker
<1>4. ASSUME NEW a \in Attempts, WritePending(a) PROVE Files'
  BY <1>4 DEF WritePending
<1>5. ASSUME NEW a \in Attempts, WritePointer(a) PROVE Files'
  BY <1>5 DEF WritePointer
<1>6. ASSUME NEW a \in Attempts, RemoveMarker(a) PROVE Files'
  BY <1>6 DEF RemoveMarker
<1>7. ASSUME NEW a \in Attempts, WriteResults(a) PROVE Files'
  BY <1>7 DEF WriteResults, Bytes
<1>8. ASSUME NEW a \in Attempts, Complete(a) PROVE Files'
  <2>1. [file |-> a, digest |-> results[a]] \in Bound
    BY <1>8 DEF Complete, Bound
  <2>2. \A b \in Attempts : state[b] # None => state'[b] # None
    BY <1>8, <2>1 DEF Complete, OwnState
  <2> QED
    BY <1>8, <2>2 DEF Complete, OwnState
<1>9. ASSUME NEW a \in Attempts, Fail(a) PROVE Files'
  BY <1>9 DEF Fail
<1>10. ASSUME NEW a \in Attempts, EditResults(a) PROVE Files'
  BY <1>10 DEF EditResults, Bytes
<1>11. ASSUME NEW g \in Gates, StartRead(g) PROVE Files'
  BY <1>11 DEF StartRead
<1>12. ASSUME NEW g \in Gates, CheckMarker(g) PROVE Files'
  BY <1>12 DEF CheckMarker
<1>13. ASSUME NEW g \in Gates, ReadPointer(g) PROVE Files'
  BY <1>13 DEF ReadPointer
<1>14. ASSUME NEW g \in Gates, ReadState(g) PROVE Files'
  BY <1>14 DEF ReadState
<1>15. ASSUME NEW g \in Gates, ReadResults(g) PROVE Files'
  BY <1>15 DEF ReadResults
<1>16. ASSUME NEW g \in Gates, EndRead(g) PROVE Files'
  BY <1>16 DEF EndRead
<1>17. CASE UNCHANGED vars
  BY <1>17 DEF vars, directory
<1> QED
  BY <1>1, <1>2, <1>3, <1>4, <1>5, <1>6, <1>7, <1>8, <1>9, <1>10, <1>11, <1>12, <1>13, <1>14, <1>15, <1>16, <1>17
  DEF Next, Evaluation, Gate

LEMMA BindingsStep == TypeOK /\ Files /\ Bindings /\ [Next]_vars => Bindings'
<1> SUFFICES ASSUME TypeOK, Files, Bindings, [Next]_vars PROVE Bindings'
  OBVIOUS
<1> USE MarksAreNotData DEF TypeOK, Files, Bindings, Bound, GoesTo, directory
<1>1. ASSUME NEW a \in Attempts, Begin(a) PROVE Bindings'
  BY <1>1 DEF Begin
<1>2. ASSUME NEW a \in Attempts, MovePointer(a) PROVE Bindings'
  BY <1>2 DEF MovePointer
<1>3. ASSUME NEW a \in Attempts, WriteMarker(a) PROVE Bindings'
  BY <1>3 DEF WriteMarker
<1>4. ASSUME NEW a \in Attempts, WritePending(a) PROVE Bindings'
  BY <1>4 DEF WritePending
<1>5. ASSUME NEW a \in Attempts, WritePointer(a) PROVE Bindings'
  BY <1>5 DEF WritePointer
<1>6. ASSUME NEW a \in Attempts, RemoveMarker(a) PROVE Bindings'
  BY <1>6 DEF RemoveMarker
<1>7. ASSUME NEW a \in Attempts, WriteResults(a) PROVE Bindings'
  BY <1>7 DEF WriteResults
<1>8. ASSUME NEW a \in Attempts, Complete(a) PROVE Bindings'
  BY <1>8 DEF Complete, OwnState
<1>9. ASSUME NEW a \in Attempts, Fail(a) PROVE Bindings'
  BY <1>9 DEF Fail
<1>10. ASSUME NEW a \in Attempts, EditResults(a) PROVE Bindings'
  BY <1>10 DEF EditResults
<1>11. ASSUME NEW g \in Gates, StartRead(g) PROVE Bindings'
  BY <1>11 DEF StartRead
<1>12. ASSUME NEW g \in Gates, CheckMarker(g) PROVE Bindings'
  BY <1>12 DEF CheckMarker
<1>13. ASSUME NEW g \in Gates, ReadPointer(g) PROVE Bindings'
  BY <1>13 DEF ReadPointer
<1>14. ASSUME NEW g \in Gates, ReadState(g) PROVE Bindings'
  BY <1>14 DEF ReadState
<1>15. ASSUME NEW g \in Gates, ReadResults(g) PROVE Bindings'
  BY <1>15 DEF ReadResults
<1>16. ASSUME NEW g \in Gates, EndRead(g) PROVE Bindings'
  BY <1>16 DEF EndRead
<1>17. CASE UNCHANGED vars
  BY <1>17 DEF vars, directory
<1> QED
  BY <1>1, <1>2, <1>3, <1>4, <1>5, <1>6, <1>7, <1>8, <1>9, <1>10, <1>11, <1>12, <1>13, <1>14, <1>15, <1>16, <1>17
  DEF Next, Evaluation, Gate

LEMMA ReadStep == Safe /\ [Next]_vars => Read' /\ EvidenceIsNewest'
<1> SUFFICES ASSUME Safe, [Next]_vars PROVE Read' /\ EvidenceIsNewest'
  OBVIOUS
<1> USE MarksAreNotData DEF Safe, TypeOK, Locked, Readers, Files, Bindings, Read, EvidenceIsNewest,
        Beginning, Idle, GoesTo, Reads, Refuses, directory
<1>1. ASSUME NEW a \in Attempts, Begin(a) PROVE Read' /\ EvidenceIsNewest'
  BY <1>1 DEF Begin
<1>2. ASSUME NEW a \in Attempts, MovePointer(a) PROVE Read' /\ EvidenceIsNewest'
  BY <1>2 DEF MovePointer
<1>3. ASSUME NEW a \in Attempts, WriteMarker(a) PROVE Read' /\ EvidenceIsNewest'
  BY <1>3 DEF WriteMarker
<1>4. ASSUME NEW a \in Attempts, WritePending(a) PROVE Read' /\ EvidenceIsNewest'
  BY <1>4 DEF WritePending
<1>5. ASSUME NEW a \in Attempts, WritePointer(a) PROVE Read' /\ EvidenceIsNewest'
  BY <1>5 DEF WritePointer
<1>6. ASSUME NEW a \in Attempts, RemoveMarker(a) PROVE Read' /\ EvidenceIsNewest'
  BY <1>6 DEF RemoveMarker
<1>7. ASSUME NEW a \in Attempts, WriteResults(a) PROVE Read' /\ EvidenceIsNewest'
  BY <1>7 DEF WriteResults
<1>8. ASSUME NEW a \in Attempts, Complete(a) PROVE Read' /\ EvidenceIsNewest'
  BY <1>8 DEF Complete, OwnState
<1>9. ASSUME NEW a \in Attempts, Fail(a) PROVE Read' /\ EvidenceIsNewest'
  BY <1>9 DEF Fail
<1>10. ASSUME NEW a \in Attempts, EditResults(a) PROVE Read' /\ EvidenceIsNewest'
  BY <1>10 DEF EditResults
<1>11. ASSUME NEW g \in Gates, StartRead(g) PROVE Read' /\ EvidenceIsNewest'
  BY <1>11 DEF StartRead
<1>12. ASSUME NEW g \in Gates, CheckMarker(g) PROVE Read' /\ EvidenceIsNewest'
  BY <1>12 DEF CheckMarker
<1>13. ASSUME NEW g \in Gates, ReadPointer(g) PROVE Read' /\ EvidenceIsNewest'
  BY <1>13 DEF ReadPointer, HasAttemptMetadata
<1>14. ASSUME NEW g \in Gates, ReadState(g) PROVE Read' /\ EvidenceIsNewest'
  BY <1>14 DEF ReadState
<1>15. ASSUME NEW g \in Gates, ReadResults(g) PROVE Read' /\ EvidenceIsNewest'
  BY <1>15 DEF ReadResults
<1>16. ASSUME NEW g \in Gates, EndRead(g) PROVE Read' /\ EvidenceIsNewest'
  BY <1>16 DEF EndRead
<1>17. CASE UNCHANGED vars
  BY <1>17 DEF vars, directory
<1> QED
  BY <1>1, <1>2, <1>3, <1>4, <1>5, <1>6, <1>7, <1>8, <1>9, <1>10, <1>11, <1>12, <1>13, <1>14, <1>15, <1>16, <1>17
  DEF Next, Evaluation, Gate

LEMMA SafeStep == Safe /\ [Next]_vars => Safe'
BY TypeStep, LockedStep, FilesStep, BindingsStep, ReadStep DEF Safe

LEMMA AlwaysSafe == Spec => []Safe
<1>1. Init => Safe
  BY InitSafe
<1>2. Safe /\ [Next]_vars => Safe'
  BY SafeStep
<1> QED
  BY <1>1, <1>2, PTL DEF Spec

\* Every file and every flock keeps its type.
THEOREM AttemptsTyped == Spec => []TypeOK
<1>1. Safe => TypeOK
  BY DEF Safe
<1> QED
  BY <1>1, AlwaysSafe, PTL

\* Older evidence never passes for the latest: a gate is answered with what the
\* latest attempt bound, or with a record older than every attempt.
THEOREM GateSeesNewest == Spec => []EvidenceIsNewest
<1>1. Safe => EvidenceIsNewest
  BY DEF Safe
<1> QED
  BY <1>1, AlwaysSafe, PTL

\* An attempt that completes as the latest is the one that a gate will find.
THEOREM GateFindsFinished == Spec => []FinishedIsReadable
<1>1. Safe => FinishedIsReadable
  BY MarksAreNotData DEF Safe, TypeOK, Files, Bindings, FinishedIsReadable
<1> QED
  BY <1>1, AlwaysSafe, PTL

=============================================================================
