------------------------- MODULE MCPublishRelease -------------------------
(* Three builds of a version: two with the same wheel and other manifests,  *)
(* and one of a different commit.                                           *)
EXTENDS PublishRelease, TLC

MCDigestOf == "wheel 1" :> "digest 1" @@ "wheel 2" :> "digest 2"
Built(wheel, manifest) ==
    "wheel" :> wheel @@ "checksum" :> MCDigestOf[wheel] @@ "manifest" :> manifest
MCArtifacts ==
    "build" :> Built("wheel 1", "manifest 1") @@
    "rebuild" :> Built("wheel 1", "manifest 2") @@
    "other" :> Built("wheel 2", "manifest 3")
=============================================================================
