--------------------------- MODULE PublishRelease ---------------------------
(***************************************************************************)
(* scripts/publish_release.py: one version of the SDK published file by    *)
(* file to a volume that has no transactions, the manifest last.           *)
(*                                                                         *)
(* The workflow runs one publish at a time and anyone may run it again,    *)
(* with the same build or another of the same version.  A run may stop     *)
(* anywhere, an upload may land after its run is gone or change the bytes, *)
(* an answer may be lost, and `ls' says "absent" whenever it fails.  The   *)
(* volume is external: it creates a file whole or not at all, and does not *)
(* overwrite it (Runner.upload).                                           *)
(***************************************************************************)
EXTENDS Naturals

CONSTANTS
    Builds,
    Artifacts,  \* Builds -> bytes of each file of the release
    DigestOf,   \* bytes of a wheel -> bytes of the checksum file that matches
    MaxFaults,  \* bound: faults of the volume and of runs together
    Corrupted, None

Files == {"wheel", "checksum", "manifest"}

\* Bytes that were changed on the way are no file that a build has, and no checksum
\* file matches a wheel that was changed.
ASSUME CorruptionShows ==
    /\ Corrupted \notin DOMAIN DigestOf \cup {None}
    /\ \A b \in Builds, f \in Files : Artifacts[b][f] \notin {Corrupted, None}
    /\ \A b \in Builds : DigestOf[Artifacts[b]["wheel"]] = Artifacts[b]["checksum"]

VARIABLES
    volume,    \* Files -> bytes, or None
    run,       \* the run of publish: its build, its next call and the file it is at
    late,      \* uploads under way whose run is gone
    faults,
    published  \* history: builds whose publish returned

vars == <<volume, run, late, faults, published>>

Idle == [at |-> "idle"]
At(s) == run.at = s
Goes(s, f) == run' = [run EXCEPT !.at = s, !.file = f]
Raises == run' = Idle
Local == Artifacts[run.build]

Fault == faults < MaxFaults /\ faults' = faults + 1

Init ==
    /\ volume = [f \in Files |-> None]
    /\ run = Idle
    /\ late = {}
    /\ faults = 0
    /\ published = {}

-----------------------------------------------------------------------------

Publish(b) ==
    /\ At("idle")
    /\ run' = [build |-> b, at |-> "looking", file |-> "manifest"]
    /\ UNCHANGED <<volume, late, faults, published>>

\* DatabricksRunner.exists
Exists(f, answer) ==
    \/ answer = (volume[f] # None) /\ UNCHANGED faults
    \/ answer = FALSE /\ volume[f] # None /\ Fault

\* The completion marker first; of the other files, whether to resume.
Look ==
    /\ At("looking")
    /\ \E answer \in BOOLEAN :
        /\ Exists(run.file, answer)
        /\ IF run.file = "manifest"
           THEN IF answer THEN Raises ELSE Goes("looking", "wheel")
           ELSE Goes(IF answer THEN "comparing" ELSE "uploading", run.file)
    /\ UNCHANGED <<volume, late, published>>

\* What follows when a file is in the volume.
Follows(f) ==
    CASE f = "wheel" -> Goes("looking", "checksum")
      [] f = "checksum" -> Goes("verifying", "manifest")
      [] f = "manifest" -> Goes("reading back", "manifest")

\* Seeded fault: cp --overwrite.
LandsOver(f, bytes) == volume' = [volume EXCEPT ![f] = bytes]

Lands(f, bytes) == volume[f] = None /\ volume' = [volume EXCEPT ![f] = bytes]

Upload ==
    /\ At("uploading")
    /\ \/ Lands(run.file, Local[run.file]) /\ Follows(run.file) /\ UNCHANGED faults
       \/ Lands(run.file, Local[run.file]) /\ Raises /\ Fault   \* the answer is lost
       \/ Lands(run.file, Corrupted) /\ Follows(run.file) /\ Fault
       \/ volume[run.file] # None /\ Raises /\ UNCHANGED <<volume, faults>>
    /\ UNCHANGED <<late, published>>

\* Seeded fault: a file that is there already is a reason to refuse.
NeverResume ==
    /\ At("comparing")
    /\ Raises
    /\ UNCHANGED <<volume, late, faults, published>>

\* _publish_or_resume, of a file that is there.
Compare ==
    /\ At("comparing")
    /\ IF volume[run.file] = Local[run.file] THEN Follows(run.file) ELSE Raises
    /\ UNCHANGED <<volume, late, faults, published>>

\* Seeded fault: the wheel in the volume is not checked before the marker.
VerifyNothing ==
    /\ At("verifying")
    /\ Goes("uploading", "manifest")
    /\ UNCHANGED <<volume, late, faults, published>>

\* _verify_uploaded_checksum: by what the volume holds, not what was sent.
Verify ==
    /\ At("verifying")
    /\ IF volume["wheel"] \in DOMAIN DigestOf /\ volume["checksum"] = DigestOf[volume["wheel"]]
       THEN Goes("uploading", "manifest")
       ELSE Raises
    /\ UNCHANGED <<volume, late, faults, published>>

\* publish compares the manifest once more, and returns or raises.
ReadBack ==
    /\ At("reading back")
    /\ published' = published \cup {b \in {run.build} : volume["manifest"] = Local["manifest"]}
    /\ run' = Idle
    /\ UNCHANGED <<volume, late, faults>>

\* The run is cancelled, or a call of it fails; what it was uploading may still land.
Stop ==
    /\ ~At("idle")
    /\ Fault
    /\ run' = Idle
    /\ late' = late \cup {u \in [file : {run.file}, bytes : {Local[run.file]}] : At("uploading")}
    /\ UNCHANGED <<volume, published>>

LandsLate ==
    /\ \E u \in late :
        /\ late' = late \ {u}
        /\ Lands(u.file, u.bytes) \/ UNCHANGED volume
    /\ UNCHANGED <<run, faults, published>>

Continues == Look \/ Upload \/ Compare \/ Verify \/ ReadBack

Next == (\E b \in Builds : Publish(b)) \/ Continues \/ Stop \/ LandsLate

Spec == Init /\ [][Next]_vars

\* Runs that are not stopped go on, and every build is tried again and again.
FairSpec == Spec /\ WF_vars(Continues) /\ \A b \in Builds : SF_vars(Publish(b))

-----------------------------------------------------------------------------
(* Properties *)

\* A version that is marked complete holds the wheel and the checksum of one build,
\* and with a manifest that arrived as sent, all that one build has: never files of two
\* builds, however runs of them were interrupted, resumed and overtaken.
MarkedIsWhole ==
    volume["manifest"] # None =>
        \E b \in Builds : \A f \in Files :
            volume[f] = Artifacts[b][f] \/ (f = "manifest" /\ volume[f] = Corrupted)

\* What publish returned for stays what it published, and nobody else publishes
\* the version with other files.
PublishedStays == \A b \in published : volume = [f \in Files |-> Artifacts[b][f]]

\* While the wheel and the checksum arrive as sent, running a build again after every
\* interruption completes the version.
Resumed == <>(volume["manifest"] # None \/ Corrupted \in {volume["wheel"], volume["checksum"]})

=============================================================================
