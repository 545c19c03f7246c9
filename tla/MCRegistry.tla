----------------------------- MODULE MCRegistry -----------------------------
(* Small instances of Registry: a call takes up to one unit of time.        *)
EXTENDS Registry, TLC

Entry(digest, os, arch) == [digest |-> digest, os |-> os, arch |-> arch]
Image(config, size)     == [config |-> config, size |-> size, manifests |-> <<>>]
Index(entries)          == [config |-> NoDigest, size |-> 0, manifests |-> entries]
attestation             == Entry("att", "unknown", "unknown")

(* plain is a single image; multi an index with the preferred platform in  *)
(* the middle; arm one without it; broken one whose entry has no usable    *)
(* digest; nested an index of an index.                                    *)
MCDocument ==
    ("plain" :> Image("c1", 1)
     @@ "multi" :> Index(<<attestation, Entry("d-arm", "linux", "arm64"),
                           Entry("d-amd", "linux", "amd64"), attestation>>)
     @@ "arm" :> Index(<<attestation, Entry("d-arm", "linux", "arm64")>>)
     @@ "broken" :> Index(<<Entry("bad", "linux", "amd64")>>)
     @@ "nested" :> Index(<<Entry("multi", "none", "none")>>)
     @@ "d-arm" :> Image("c2", 2)
     @@ "d-amd" :> Image("c3", 3)
     @@ "att" :> Image("c4", 0))
MCImagesOf ==
    LET M(config, size, preferred) == [config |-> config, size |-> size, preferred |-> preferred]
    IN  [p \in Pushes |->
            CASE p = "plain" -> {M("c1", 1, FALSE)}
              [] p = "multi" -> {M("c2", 2, FALSE), M("c3", 3, TRUE)}
              [] p = "arm"   -> {M("c2", 2, FALSE)}
              [] OTHER       -> {}]
Symmetry == Permutations(Workers)
=============================================================================
