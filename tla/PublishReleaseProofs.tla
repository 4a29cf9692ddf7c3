------------------------ MODULE PublishReleaseProofs ------------------------
(***************************************************************************)
(* What PublishRelease promises, for every set of builds and any number of *)
(* interrupted runs, late uploads and faults: a marked version is whole,   *)
(* and what was published stays.                                           *)
(*                                                                         *)
(* The strengthening follows the order of the files. A run that has left   *)
(* the wheel behind found its own wheel in the volume, or one that changed *)
(* on the way; Verify excludes the latter, and then the checksum can only  *)
(* be its own as well. A manifest is sent from that point on, so whenever  *)
(* it lands, even late, the files beside it are those of its build.        *)
(***************************************************************************)
EXTENDS PublishRelease, TLAPS

Run == [build : Builds, at : {"looking", "comparing", "uploading", "verifying", "reading back"},
        file : Files]

TypeOK ==
    /\ DOMAIN volume = Files
    /\ volume = [f \in Files |-> volume[f]]
    /\ run = Idle \/ run \in Run
    /\ \A u \in late : u.file \in Files
    /\ published \subseteq Builds

\* The wheel in the volume is that of build b, and so is the checksum.
Holds(b) == volume["wheel"] = Artifacts[b]["wheel"] /\ volume["checksum"] = Artifacts[b]["checksum"]

\* What a run knows of the volume when it is past the wheel, and past Verify.
RunKnows ==
    run \in Run =>
        /\ At("comparing") => run.file # "manifest"
        /\ At("verifying") \/ At("reading back") => run.file = "manifest"
        /\ At("verifying") \/ run.file = "checksum"
               => volume["wheel"] \in {Local["wheel"], Corrupted}
        /\ run.file = "manifest" /\ (At("uploading") \/ At("reading back"))
               => Holds(run.build)

\* A manifest that may still land was sent beside the other files of its build.
LateKnows ==
    \A u \in late : u.file = "manifest" =>
        \E b \in Builds : u.bytes = Artifacts[b]["manifest"] /\ Holds(b)

\* The inductive invariant.
Ordered == TypeOK /\ RunKnows /\ LateKnows /\ MarkedIsWhole /\ PublishedStays

-----------------------------------------------------------------------------

\* Idle is no run.
LEMMA IdleIsNoRun == Idle \notin Run
<1>1. Idle.at = "idle"
  BY DEF Idle
<1> QED
  BY <1>1 DEF Run

\* Who is at a call of publish is a run.
LEMMA AtIsRun ==
    ASSUME TypeOK, run.at # "idle"
    PROVE  run \in Run /\ run.file \in Files /\ run.build \in Builds
<1>1. run # Idle
  BY DEF Idle
<1> QED
  BY <1>1 DEF TypeOK, Run

\* A run moves with its build, and what is in the volume stays.
LEMMA RunMoves ==
    ASSUME NEW s \in {"looking", "comparing", "uploading", "verifying", "reading back"},
           NEW f \in Files, run \in Run, Goes(s, f)
    PROVE  run' \in Run /\ run'.at = s /\ run'.file = f /\ run'.build = run.build
BY DEF Run, Goes

\* What is in the volume stays as it is.
VolumeKept ==
    /\ DOMAIN volume' = Files
    /\ volume' = [f \in Files |-> volume'[f]]
    /\ \A f \in Files : volume[f] # None => volume'[f] = volume[f]

\* ... and with it what was published.
LEMMA PublishedKept ==
    ASSUME Ordered, VolumeKept, published' = published
    PROVE  PublishedStays'
<1> SUFFICES ASSUME NEW b \in published PROVE volume' = [f \in Files |-> Artifacts[b][f]]
  BY DEF PublishedStays
<1>1. \A f \in Files : volume[f] = Artifacts[b][f] /\ Artifacts[b][f] # None
  BY CorruptionShows DEF Ordered, PublishedStays, TypeOK
<1>2. \A f \in Files : volume'[f] = Artifacts[b][f]
  BY <1>1 DEF VolumeKept
<1>3. volume' = [f \in Files |-> volume'[f]]
  BY DEF VolumeKept
<1> QED
  BY <1>2, <1>3

\* Who leaves what is in the volume alone keeps all that is known of it.
LEMMA KnowledgeKept ==
    ASSUME Ordered, VolumeKept,
           late' \subseteq late, published' = published,
           run' = run \/ run' = Idle, MarkedIsWhole'
    PROVE  Ordered'
<1> USE IdleIsNoRun, CorruptionShows DEF Ordered
<1>1. \A b \in Builds : Holds(b) => Holds(b)'
  BY DEF Holds, Files, VolumeKept
<1>2. TypeOK'
  BY DEF TypeOK, VolumeKept
<1>3. RunKnows'
  <2> SUFFICES ASSUME run' = run, run \in Run PROVE RunKnows'
    BY DEF RunKnows
  <2>1. run.build \in Builds /\ Local["wheel"] # None /\ Corrupted # None
    BY DEF Run, Files, Local
  <2> QED
    BY <1>1, <2>1 DEF RunKnows, At, Local, Files, VolumeKept
<1>4. LateKnows'
  BY <1>1 DEF LateKnows
<1>5. PublishedStays'
  BY PublishedKept
<1> QED
  BY <1>2, <1>3, <1>4, <1>5

\* A file of a build that lands where none was leaves a version that is whole: the
\* manifest only lands beside the other two.
LEMMA WholeAfterLanding ==
    ASSUME Ordered, NEW f \in Files, NEW bytes, Lands(f, bytes),
           f = "manifest" => \E b \in Builds : bytes \in {Artifacts[b]["manifest"], Corrupted} /\ Holds(b)
    PROVE  /\ VolumeKept
           /\ volume'[f] = bytes
           /\ MarkedIsWhole'
<1> USE CorruptionShows DEF Ordered
<1>1. /\ DOMAIN volume' = Files /\ volume' = [g \in Files |-> volume'[g]]
      /\ \A g \in Files : volume'[g] = IF g = f THEN bytes ELSE volume[g]
      /\ volume[f] = None
  BY DEF TypeOK, Lands
<1>2. MarkedIsWhole'
  <2>1. CASE f = "manifest"
    <3>1. PICK b \in Builds : bytes \in {Artifacts[b]["manifest"], Corrupted} /\ Holds(b)
      BY <2>1
    <3> QED
      BY <1>1, <2>1, <3>1 DEF MarkedIsWhole, Holds, Files
  <2>2. CASE f # "manifest"
    <3> SUFFICES ASSUME volume["manifest"] # None PROVE MarkedIsWhole'
      BY <1>1, <2>2 DEF MarkedIsWhole, Files
    <3>1. \A g \in Files : volume[g] # None
      BY DEF MarkedIsWhole, Files
    <3> QED
      BY <1>1, <3>1
  <2> QED
    BY <2>1, <2>2
<1> QED
  BY <1>1, <1>2 DEF VolumeKept

\* A run that goes on when its file is in the volume, as it was sent or changed.
LEMMA RunFollows ==
    ASSUME Ordered, run \in Run, Follows(run.file), late' = late, published' = published,
           VolumeKept,
           run.file = "wheel" => volume'["wheel"] \in {Local["wheel"], Corrupted},
           run.file = "manifest" => Holds(run.build),
           MarkedIsWhole'
    PROVE  Ordered'
<1> USE IdleIsNoRun, CorruptionShows
<1>1. run.build \in Builds /\ run.file \in Files
  BY DEF Run
<1>2. PICK s \in {"looking", "verifying", "reading back"}, f \in Files :
          /\ Goes(s, f)
          /\ \/ run.file = "wheel" /\ s = "looking" /\ f = "checksum"
             \/ run.file = "checksum" /\ s = "verifying" /\ f = "manifest"
             \/ run.file = "manifest" /\ s = "reading back" /\ f = "manifest"
  BY <1>1 DEF Follows, Files
<1>3. run' \in Run /\ run'.at = s /\ run'.file = f /\ run'.build = run.build
  BY <1>2, RunMoves
<1>5. \A b \in Builds : Holds(b) => Holds(b)'
  BY DEF Holds, Files, VolumeKept
<1>6. RunKnows'
  <2>1. run.file = "checksum" => volume["wheel"] \in {Local["wheel"], Corrupted}
    BY DEF Ordered, RunKnows
  <2>2. Local["wheel"] # None /\ Corrupted # None /\ Local' = Local
    BY <1>1, <1>3 DEF Local, Files
  <2>3. run.file \in {"wheel", "checksum"} => volume'["wheel"] \in {Local["wheel"], Corrupted}
    BY <2>1, <2>2 DEF Files, VolumeKept
  <2> QED
    BY <1>1, <1>2, <1>3, <1>5, <2>2, <2>3 DEF RunKnows, At
<1>7. TypeOK'
  BY <1>3 DEF Ordered, TypeOK, VolumeKept
<1>8. LateKnows'
  BY <1>5 DEF Ordered, LateKnows
<1>9. PublishedStays'
  BY PublishedKept
<1> QED
  BY <1>6, <1>7, <1>8, <1>9 DEF Ordered

-----------------------------------------------------------------------------

\* Nothing is uploaded and nobody publishes.
LEMMA InitOrdered == Init => Ordered
<1> SUFFICES ASSUME Init PROVE Ordered
  OBVIOUS
<1>1. TypeOK
  BY DEF Init, TypeOK
<1>2. RunKnows
  BY IdleIsNoRun DEF Init, RunKnows
<1> QED
  BY <1>1, <1>2 DEF Init, Ordered, LateKnows, MarkedIsWhole, PublishedStays, Files

\* Looking for the object tells the publisher what to do next.
LEMMA LookKeeps == Ordered /\ Look => Ordered'
<1> SUFFICES ASSUME Ordered, Look PROVE Ordered'
  OBVIOUS
<1>1. run \in Run /\ run.at = "looking" /\ run.file \in Files
  BY AtIsRun DEF Ordered, Look, At
<1>2. VolumeKept /\ late' = late /\ published' = published /\ MarkedIsWhole'
  BY DEF Ordered, TypeOK, Look, VolumeKept, MarkedIsWhole
<1>3. CASE Raises
  BY <1>2, <1>3, KnowledgeKept DEF Raises
<1>4. ASSUME NEW s \in {"looking", "comparing", "uploading"}, NEW f \in Files, Goes(s, f),
             \/ s = "looking" /\ f = "wheel"
             \/ s # "looking" /\ f = run.file /\ f # "manifest"
      PROVE  Ordered'
  <2>1. run' \in Run /\ run'.at = s /\ run'.file = f /\ run'.build = run.build
    BY <1>1, <1>4, RunMoves
  <2>2. TypeOK' /\ LateKnows'
    BY <1>2, <2>1 DEF Ordered, TypeOK, LateKnows, VolumeKept, Holds, Look
  <2>3. RunKnows'
    BY <1>1, <1>4, <2>1 DEF Ordered, RunKnows, At, Local, Look
  <2> QED
    BY <1>2, <2>2, <2>3, PublishedKept DEF Ordered
<1> QED
  BY <1>1, <1>3, <1>4 DEF Look, Files, Run

\* An upload adds a whole object where none was, after those that come before it.
LEMMA UploadKeeps == Ordered /\ Upload => Ordered'
<1> SUFFICES ASSUME Ordered, Upload PROVE Ordered'
  OBVIOUS
<1>1. run \in Run /\ run.at = "uploading" /\ run.file \in Files /\ run.build \in Builds
  BY AtIsRun DEF Ordered, Upload, At
<1>2. late' = late /\ published' = published
  BY DEF Upload
<1>3. run.file = "manifest" => Holds(run.build)
  BY <1>1 DEF Ordered, RunKnows, At
<1>4. CASE volume' = volume /\ Raises
  <2>1. VolumeKept /\ MarkedIsWhole'
    BY <1>4 DEF Ordered, TypeOK, VolumeKept, MarkedIsWhole
  <2> QED
    BY <1>2, <1>4, <2>1, KnowledgeKept DEF Raises
<1>5. ASSUME NEW bytes \in {Local[run.file], Corrupted}, Lands(run.file, bytes),
             Follows(run.file) \/ Raises
      PROVE  Ordered'
  <2>1. VolumeKept /\ volume'[run.file] = bytes /\ MarkedIsWhole'
    BY <1>1, <1>3, <1>5, WholeAfterLanding DEF Local
  <2>2. CASE Raises
    BY <1>2, <2>1, <2>2, KnowledgeKept DEF Raises
  <2>3. CASE Follows(run.file)
    BY <1>1, <1>2, <1>3, <1>5, <2>1, <2>3, RunFollows
  <2> QED
    BY <1>5, <2>2, <2>3
<1> QED
  BY <1>4, <1>5 DEF Upload

\* An object found is compared by what is stored.
LEMMA CompareKeeps == Ordered /\ Compare => Ordered'
<1> SUFFICES ASSUME Ordered, Compare PROVE Ordered'
  OBVIOUS
<1>1. run \in Run /\ run.at = "comparing"
  BY AtIsRun DEF Ordered, Compare, At
<1>2. VolumeKept /\ volume' = volume /\ late' = late /\ published' = published /\ MarkedIsWhole'
  BY DEF Ordered, TypeOK, Compare, VolumeKept, MarkedIsWhole
<1>3. CASE Raises
  BY <1>2, <1>3, KnowledgeKept DEF Raises
<1>4. CASE volume[run.file] = Local[run.file] /\ Follows(run.file)
  <2>1. run.file # "manifest"
    BY <1>1 DEF Ordered, RunKnows, At
  <2> QED
    BY <1>1, <1>2, <1>4, <2>1, RunFollows
<1> QED
  BY <1>3, <1>4 DEF Compare

\* The checksum decides: a wheel that it matches is the one that was sent.
LEMMA VerifyKeeps == Ordered /\ Verify => Ordered'
<1> SUFFICES ASSUME Ordered, Verify PROVE Ordered'
  OBVIOUS
<1>1. run \in Run /\ run.at = "verifying" /\ run.build \in Builds
  BY AtIsRun DEF Ordered, Verify, At
<1>2. VolumeKept /\ volume' = volume /\ late' = late /\ published' = published /\ MarkedIsWhole'
  BY DEF Ordered, TypeOK, Verify, VolumeKept, MarkedIsWhole
<1>3. CASE Raises
  BY <1>2, <1>3, KnowledgeKept DEF Raises
<1>4. CASE /\ volume["wheel"] \in DOMAIN DigestOf
           /\ volume["checksum"] = DigestOf[volume["wheel"]]
           /\ Goes("uploading", "manifest")
  <2>1. run' \in Run /\ run'.at = "uploading" /\ run'.file = "manifest" /\ run'.build = run.build
    BY <1>1, <1>4, RunMoves DEF Files
  <2>2. volume["wheel"] \in {Artifacts[run.build]["wheel"], Corrupted}
    BY <1>1 DEF Ordered, RunKnows, At, Local
  <2>3. Holds(run.build)
    BY <1>1, <1>4, <2>2, CorruptionShows DEF Holds
  <2>4. RunKnows'
    BY <1>2, <2>1, <2>3 DEF RunKnows, At, Holds
  <2>5. TypeOK' /\ LateKnows'
    BY <1>2, <2>1 DEF Ordered, TypeOK, LateKnows, VolumeKept, Holds
  <2> QED
    BY <1>2, <2>4, <2>5, PublishedKept DEF Ordered
<1> QED
  BY <1>3, <1>4 DEF Verify

\* A publisher goes on only from an object it has read back whole.
LEMMA ReadBackKeeps == Ordered /\ ReadBack => Ordered'
<1> SUFFICES ASSUME Ordered, ReadBack PROVE Ordered'
  OBVIOUS
<1>1. /\ run \in Run /\ run.at = "reading back" /\ run.build \in Builds
      /\ run' = Idle /\ volume' = volume /\ late' = late
  BY AtIsRun DEF Ordered, ReadBack, At
<1>2. TypeOK' /\ RunKnows' /\ LateKnows' /\ MarkedIsWhole'
  <2>1. published' \subseteq Builds
    BY <1>1 DEF Ordered, TypeOK, ReadBack
  <2>2. TypeOK'
    BY <1>1, <2>1 DEF Ordered, TypeOK
  <2>3. RunKnows'
    BY <1>1, IdleIsNoRun DEF RunKnows
  <2> QED
    BY <1>1, <2>2, <2>3 DEF Ordered, LateKnows, MarkedIsWhole, Holds
<1>3. PublishedStays'
  <2> SUFFICES ASSUME NEW b \in published' PROVE volume = [f \in Files |-> Artifacts[b][f]]
    BY <1>1 DEF PublishedStays
  <2>1. CASE b \in published
    BY <2>1 DEF Ordered, PublishedStays
  <2>2. CASE b = run.build /\ volume["manifest"] = Artifacts[b]["manifest"]
    <3>1. run.file = "manifest"
      BY <1>1 DEF Ordered, RunKnows, At
    <3>2. \A f \in Files : volume[f] = Artifacts[b][f]
      BY <1>1, <2>2, <3>1 DEF Ordered, RunKnows, At, Holds, Files
    <3> QED
      BY <3>2 DEF Ordered, TypeOK
  <2> QED
    BY <2>1, <2>2 DEF ReadBack, Local
<1> QED
  BY <1>2, <1>3 DEF Ordered

\* A run that stops while it sends its manifest leaves it under way beside the other
\* files of its build.
LEMMA StopKeeps == Ordered /\ Stop => Ordered'
<1> SUFFICES ASSUME Ordered, Stop PROVE Ordered'
  OBVIOUS
<1>1. run \in Run /\ run.file \in Files /\ run.build \in Builds
  BY AtIsRun DEF Ordered, Stop, At
<1>2. run' = Idle /\ volume' = volume /\ published' = published
  BY DEF Stop
<1>3. \A u \in late' \ late : At("uploading") /\ u.file = run.file /\ u.bytes = Local[run.file]
  BY DEF Stop
<1>4. LateKnows'
  <2> SUFFICES ASSUME NEW u \in late', u.file = "manifest"
               PROVE  \E b \in Builds : u.bytes = Artifacts[b]["manifest"] /\ Holds(b)
    BY <1>2 DEF LateKnows, Holds
  <2>1. CASE u \in late
    BY <2>1 DEF Ordered, LateKnows
  <2>2. CASE u \notin late
    BY <1>1, <1>3, <2>2 DEF Ordered, RunKnows, Local
  <2> QED
    BY <2>1, <2>2
<1>5. TypeOK' /\ RunKnows' /\ MarkedIsWhole' /\ PublishedStays'
  BY <1>1, <1>2, <1>3, IdleIsNoRun DEF Ordered, TypeOK, RunKnows, MarkedIsWhole, PublishedStays
<1> QED
  BY <1>4, <1>5 DEF Ordered

\* A request that was given up on lands where its publisher was.
LEMMA LandsLateKeeps == Ordered /\ LandsLate => Ordered'
<1> SUFFICES ASSUME Ordered, NEW u \in late, late' = late \ {u},
                    Lands(u.file, u.bytes) \/ UNCHANGED volume,
                    run' = run, published' = published
             PROVE  Ordered'
  BY DEF LandsLate
<1>1. u.file \in Files
  BY DEF Ordered, TypeOK
<1>2. CASE UNCHANGED volume
  <2>1. VolumeKept /\ MarkedIsWhole'
    BY <1>2 DEF Ordered, TypeOK, VolumeKept, MarkedIsWhole
  <2> QED
    BY <2>1, KnowledgeKept
<1>3. CASE Lands(u.file, u.bytes)
  <2>1. u.file = "manifest" =>
            \E b \in Builds : u.bytes \in {Artifacts[b]["manifest"], Corrupted} /\ Holds(b)
    BY DEF Ordered, LateKnows
  <2>2. VolumeKept /\ MarkedIsWhole'
    BY <1>1, <1>3, <2>1, WholeAfterLanding
  <2> QED
    BY <2>2, KnowledgeKept
<1> QED
  BY <1>2, <1>3

\* A publisher starts with nothing done.
LEMMA PublishKeeps == Ordered /\ (\E b \in Builds : Publish(b)) => Ordered'
<1> SUFFICES ASSUME Ordered, NEW b \in Builds, Publish(b) PROVE Ordered'
  OBVIOUS
<1>1. /\ volume' = volume /\ late' = late /\ published' = published
      /\ run' = [build |-> b, at |-> "looking", file |-> "manifest"]
  BY DEF Publish
<1>2. run' \in Run /\ run'.at = "looking" /\ run'.file = "manifest"
  BY <1>1 DEF Run, Files
<1> QED
  BY ZenonT(40), <1>1, <1>2
     DEF Ordered, TypeOK, RunKnows, LateKnows, MarkedIsWhole, PublishedStays, At, Holds

\* No step breaks the order.
LEMMA StepOrdered == Ordered /\ [Next]_vars => Ordered'
<1> SUFFICES ASSUME Ordered, [Next]_vars PROVE Ordered'
  OBVIOUS
<1>1. CASE Continues
  BY <1>1, LookKeeps, UploadKeeps, CompareKeeps, VerifyKeeps, ReadBackKeeps DEF Continues
<1>2. CASE UNCHANGED vars
  BY <1>2 DEF vars, Ordered, TypeOK, RunKnows, LateKnows, MarkedIsWhole, PublishedStays,
              At, Local, Holds
<1> QED
  BY <1>1, <1>2, PublishKeeps, StopKeeps, LandsLateKeeps DEF Next

-----------------------------------------------------------------------------

\* What a run knows of the volume when it is past a file holds in every reachable state.
THEOREM AlwaysOrdered == Spec => []Ordered
<1> QED
  BY InitOrdered, StepOrdered, PTL DEF Spec

\* A version that is marked complete holds the files of one build, however many runs of
\* any builds were interrupted, resumed and overtaken by their own uploads.
THEOREM MarkedVersionsAreWhole == Spec => []MarkedIsWhole
<1>1. Ordered => MarkedIsWhole
  BY DEF Ordered
<1> QED
  BY <1>1, AlwaysOrdered, PTL

\* What publish returned for stays as it was published, file by file.
THEOREM PublishedForGood == Spec => []PublishedStays
<1>1. Ordered => PublishedStays
  BY DEF Ordered
<1> QED
  BY <1>1, AlwaysOrdered, PTL

=============================================================================
