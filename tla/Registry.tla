------------------------------ MODULE Registry ------------------------------
(***************************************************************************)
(* Service.imageLabels: reading the labels and the size of a pushed image  *)
(* over the OCI distribution API, by several workers at once.  They share  *)
(* one ecr.Authenticator, whose mutex is held while a token is fetched;    *)
(* the header is then used for up to three requests, for the manifest of   *)
(* the tag, for the manifest an index points to and for the config blob.   *)
(*                                                                         *)
(* now is the time of the registry, the clock of the process is ahead of   *)
(* it by drift.  Only calls take time; a call ends within CallTimeout.     *)
(***************************************************************************)
EXTENDS Integers, FiniteSets, Sequences

CONSTANTS
    Workers,
    CallTimeout,  \* tokenAPITimeout and defaultTimeout
    tokenSkew,
    tokenFallbackTTL,
    TokenLife,    \* how long the registry honours a token
    MaxDrift,     \* bound: how far the clock of the process is off
    MaxTime,      \* bound: when the clock stops
    Pushes,       \* the images the tag is moved to, one after the other
    Document,     \* Document[x]: the manifest of a push or of a digest
    ImagesOf,     \* ImagesOf[p]: the images of push p, one for each platform
    BadDigests,   \* digests that validateDigest rejects
    Free, NoToken, NoDigest

ASSUME RegistryConstants ==
    /\ IsFiniteSet(Workers) /\ Free \notin Workers
    /\ CallTimeout \in Nat \ {0} /\ tokenSkew \in Nat /\ tokenFallbackTTL \in Nat
    /\ TokenLife \in Nat /\ MaxDrift \in Nat /\ MaxTime \in Nat
    /\ NoToken \notin Int

(* The skew pays for the three requests and for the clock, and the token   *)
(* outlives the fallback by the requests and the fetch.  In the code: 300  *)
(* seconds, 3 * 30 seconds, 12 hours and 1 hour.                           *)
ASSUME SkewCovers ==
    /\ tokenSkew >= 3 * CallTimeout + MaxDrift
    /\ TokenLife >= tokenFallbackTTL + 4 * CallTimeout

VARIABLES
    now, drift,
    tag,        \* the push the tag points to
    lock,       \* who holds Authenticator.mu
    token,      \* Authenticator.token: when the registry stops honouring it
    expiresAt,  \* Authenticator.expiresAt, by the clock of the process
    pc,         \* pc[w]: idle, waiting, fetching, manifest, index, config
    begun,      \* begun[w]: when the lookup began
    since,      \* since[w]: when the wait or the call began
    header,     \* header[w]: the token of the header
    doc,        \* doc[w]: the manifest read last
    origin,     \* history: origin[w], the push whose manifest was read first
    result      \* result[w]: none, failed or the metadata read

auth == <<lock, token, expiresAt>>
vars == <<now, drift, tag, lock, token, expiresAt,
          pc, begun, since, header, doc, origin, result>>

Calls == {"manifest", "index", "config"}
None  == [status |-> "none"]
Err   == [status |-> "failed"]
Metadata(labels, size) == [status |-> "ok", labels |-> labels, size |-> size]

Init ==
    /\ now = 0
    /\ drift \in -MaxDrift .. MaxDrift
    /\ tag \in Pushes
    /\ lock = Free
    /\ token = NoToken
    /\ expiresAt = 0
    /\ pc = [w \in Workers |-> "idle"]
    /\ begun = [w \in Workers |-> 0]
    /\ since = [w \in Workers |-> 0]
    /\ header = [w \in Workers |-> NoToken]
    /\ doc = [w \in Workers |-> NoDigest]
    /\ origin = [w \in Workers |-> NoDigest]
    /\ result = [w \in Workers |-> None]

-----------------------------------------------------------------------------
(* Manifests *)

isAttestation(d)       == "unknown" \in {d.os, d.arch}
isPreferredPlatform(d) == d.os = "linux" /\ d.arch = "amd64"

(* The manifest to read when m is an index: the preferred platform, or the *)
(* first entry, of those that are images.  NoDigest: m is not an index.    *)
imageDigest(m) ==
    LET images    == {k \in DOMAIN m.manifests :
                         m.manifests[k].digest # NoDigest /\ ~isAttestation(m.manifests[k])}
        preferred == {k \in images : isPreferredPlatform(m.manifests[k])}
        pick      == IF preferred # {} THEN preferred ELSE images
    IN  IF m.config # NoDigest \/ pick = {}
        THEN NoDigest
        ELSE m.manifests[CHOOSE k \in pick : \A l \in pick : k <= l].digest

(* What ImagesOf stands for: a push is an image, or an index of which each *)
(* entry that leads to an image is one, for the platform it names.         *)
ASSUME PushedImages ==
    \A p \in Pushes :
        LET entries == Document[p].manifests
            images  == {k \in DOMAIN entries :
                          /\ ~isAttestation(entries[k])
                          /\ entries[k].digest \notin BadDigests \cup {NoDigest}
                          /\ Document[entries[k].digest].config # NoDigest}
            Image(d, preferred) == [config |-> Document[d].config, size |-> Document[d].size,
                                    preferred |-> preferred]
        IN  /\ DOMAIN entries \subseteq Nat
            /\ ImagesOf[p] =
                 IF Document[p].config # NoDigest THEN {Image(p, FALSE)}
                 ELSE {Image(entries[k].digest, isPreferredPlatform(entries[k])) : k \in images}

-----------------------------------------------------------------------------
(* The lookups *)

(* Resolve returns and its variables are gone.                             *)
Return(w, r) ==
    /\ pc' = [pc EXCEPT ![w] = "idle"]
    /\ result' = [result EXCEPT ![w] = r]
    /\ begun' = [begun EXCEPT ![w] = 0]
    /\ since' = [since EXCEPT ![w] = 0]
    /\ header' = [header EXCEPT ![w] = NoToken]
    /\ doc' = [doc EXCEPT ![w] = NoDigest]

Call(w, c) ==
    /\ pc' = [pc EXCEPT ![w] = c]
    /\ since' = [since EXCEPT ![w] = now]

(* The call of w has its deadline ahead.                                   *)
InTime(w) == now < since[w] + CallTimeout

(* imageLabels asks the router, the router the client; a registry without  *)
(* resolver and a reference that is not usable in a URL end it at once.    *)
Lookup(w, supported, valid) ==
    /\ pc[w] = "idle"
    /\ origin' = [origin EXCEPT ![w] = NoDigest]
    /\ \/ ~(supported /\ valid) /\ Return(w, Err)
       \/ /\ supported /\ valid
          /\ Call(w, "waiting")
          /\ begun' = [begun EXCEPT ![w] = now]
          /\ result' = [result EXCEPT ![w] = None]
          /\ UNCHANGED <<header, doc>>
    /\ UNCHANGED <<now, drift, tag, auth>>

(* Mutant of Turn: the mutex does not cover the fetch.                     *)
NoTurns(w) == pc[w] = "waiting"

(* AuthHeader has the mutex.  A mutex that was waited for goes to the one  *)
(* who waits longest.                                                      *)
Turn(w) ==
    /\ pc[w] = "waiting" /\ lock = Free
    /\ \A v \in Workers : pc[v] = "waiting" => since[w] <= since[v]
Usable == token # NoToken /\ now + drift < expiresAt

(* The cached token is used and the mutex released again.                  *)
UseToken(w) ==
    /\ Turn(w) /\ Usable
    /\ header' = [header EXCEPT ![w] = token]
    /\ Call(w, "manifest")
    /\ UNCHANGED <<now, drift, tag, auth, begun, doc, origin, result>>

(* A new token is asked for, with the mutex held.                          *)
FetchToken(w) ==
    /\ Turn(w) /\ ~Usable
    /\ lock' = w
    /\ Call(w, "fetching")
    /\ UNCHANGED <<now, drift, tag, token, expiresAt, begun, header, doc, origin, result>>

(* The call fails, times out, or answers without authorization data.       *)
FetchFails(w) ==
    /\ pc[w] = "fetching"
    /\ lock' = Free
    /\ Return(w, Err)
    /\ UNCHANGED <<now, drift, tag, token, expiresAt, origin>>

(* Mutant of ReusedUntil: the token is reused until it expires.            *)
ReusedToTheEnd(dies, reported) ==
    IF reported THEN dies ELSE now + drift + tokenFallbackTTL

ReusedUntil(dies, reported) ==
    IF reported THEN dies - tokenSkew ELSE now + drift + tokenFallbackTTL

(* The registry issued the token at some moment of the call and may report *)
(* its expiry.                                                             *)
FetchAnswers(w, issued, reported) ==
    /\ pc[w] = "fetching"
    /\ token' = issued + TokenLife
    /\ expiresAt' = ReusedUntil(issued + TokenLife, reported)
    /\ header' = [header EXCEPT ![w] = issued + TokenLife]
    /\ lock' = Free
    /\ Call(w, "manifest")
    /\ UNCHANGED <<now, drift, tag, begun, doc, origin, result>>

(* getJSON fails: no answer in time, a status that is not 200, a body over *)
(* the limit, or one that is not exactly one JSON value.                   *)
GetFails(w) ==
    /\ pc[w] \in Calls
    /\ Return(w, Err)
    /\ UNCHANGED <<now, drift, tag, auth, origin>>

(* The document d is kept and the next call made for it.                   *)
Continue(w, d, c) ==
    /\ doc' = [doc EXCEPT ![w] = d]
    /\ Call(w, c)
    /\ UNCHANGED <<begun, header, result>>

(* The config blob of the manifest d is asked for, if it has a valid one.  *)
ReadConfig(w, d) ==
    \/ Document[d].config \in BadDigests \cup {NoDigest} /\ Return(w, Err)
    \/ Document[d].config \notin BadDigests \cup {NoDigest} /\ Continue(w, d, "config")

(* The manifest of the tag arrives; an index is followed one level down.   *)
GotManifest(w) ==
    LET d == imageDigest(Document[tag])
    IN  /\ pc[w] = "manifest"
        /\ \/ d = NoDigest /\ ReadConfig(w, tag)
           \/ d \in BadDigests /\ Return(w, Err)
           \/ d \notin BadDigests \cup {NoDigest} /\ Continue(w, d, "index")
        /\ origin' = [origin EXCEPT ![w] = tag]
        /\ UNCHANGED <<now, drift, tag, auth>>

(* Mutant of Followed: the second request asks for the tag again.          *)
TagAgain(w) == tag

(* The document the second manifest request asks for.                      *)
Followed(w) == doc[w]

GotIndexed(w) ==
    /\ pc[w] = "index"
    /\ ReadConfig(w, Followed(w))
    /\ UNCHANGED <<now, drift, tag, auth, origin>>

(* The labels of the config blob and the size of the manifest's layers.    *)
GotConfig(w) ==
    /\ pc[w] = "config"
    /\ Return(w, Metadata(Document[doc[w]].config, Document[doc[w]].size))
    /\ UNCHANGED <<now, drift, tag, auth, origin>>

-----------------------------------------------------------------------------
(* The environment *)

(* Another image is pushed with the same tag.                              *)
MoveTag(p) ==
    /\ tag # p
    /\ tag' = p
    /\ UNCHANGED <<now, drift, auth, pc, begun, since, header, doc, origin, result>>

(* Mutant of Patient: a token fetch has no timeout.                        *)
FetchUnbounded(w) == pc[w] \in Calls => InTime(w)

(* Time may pass for w: no deadline of its own call does.                  *)
Patient(w) == pc[w] \in Calls \cup {"fetching"} => InTime(w)

(* Nobody is about to take the mutex and every call has time left.         *)
Tick ==
    /\ now < MaxTime
    /\ \A w \in Workers : Patient(w) /\ ~Turn(w)
    /\ now' = now + 1
    /\ UNCHANGED <<drift, tag, auth, pc, begun, since, header, doc, origin, result>>

Next ==
    \/ \E w \in Workers :
        \/ \E supported, valid \in BOOLEAN : Lookup(w, supported, valid)
        \/ UseToken(w) \/ FetchToken(w) \/ FetchFails(w)
        \/ \E issued \in since[w] .. now, reported \in BOOLEAN : FetchAnswers(w, issued, reported)
        \/ GetFails(w) \/ GotManifest(w) \/ GotIndexed(w) \/ GotConfig(w)
    \/ \E p \in Pushes : MoveTag(p)
    \/ Tick

Spec == Init /\ [][Next]_vars

-----------------------------------------------------------------------------
(* Properties *)

(* The header is read once and used for up to three requests, and the      *)
(* token in it was cached by another worker, perhaps hours ago: the        *)
(* registry still honours it whenever it serves one of them, although the  *)
(* clock of the process is off.                                            *)
TokenHonoured == \A w \in Workers : pc[w] \in Calls => now <= header[w]

(* A burst of pushes costs one GetAuthorizationToken call: however the     *)
(* workers meet at the mutex, a token is replaced only when it can no      *)
(* longer be reused.                                                       *)
OneFetchPerToken == [][token' # token => ~Usable]_vars

(* Labels and size are those of one image of the push whose manifest was   *)
(* read first, although the tag may be moved between the requests: the     *)
(* linux/amd64 image if there is one, and never an attestation.            *)
OneImage ==
    \A w \in Workers : result[w].status = "ok" =>
        \E m \in ImagesOf[origin[w]] :
            /\ result[w] = Metadata(m.config, m.size)
            /\ m.preferred \/ ~\E n \in ImagesOf[origin[w]] : n.preferred

(* No lookup holds its event up for longer than its own four calls and the *)
(* token calls of the workers before it at the mutex, which it cannot      *)
(* leave, however many of the calls hang.                                  *)
LookupBounded ==
    \A w \in Workers : pc[w] # "idle" =>
        now - begun[w] <= (Cardinality(Workers) + 3) * CallTimeout

=============================================================================
