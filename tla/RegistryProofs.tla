--------------------------- MODULE RegistryProofs ---------------------------
(***************************************************************************)
(* Proofs about Registry, for any number of workers, any manifests and any *)
(* timeouts that satisfy SkewCovers.                                       *)
(***************************************************************************)
EXTENDS Registry, FiniteSetTheorems, TLAPS

-----------------------------------------------------------------------------
(* Clocks, deadlines and the mutex *)

Label == {"idle", "waiting", "fetching"} \cup Calls

TypeInv ==
    /\ now \in Nat
    /\ drift \in Int /\ -MaxDrift <= drift /\ drift <= MaxDrift
    /\ token \in Int \cup {NoToken}
    /\ expiresAt \in Int
    /\ lock \in Workers \cup {Free}
    /\ pc \in [Workers -> Label]
    /\ begun \in [Workers -> Nat]
    /\ since \in [Workers -> Nat]
    /\ header \in [Workers -> Int \cup {NoToken}]

(* A call began in the past and is within its timeout.                     *)
DeadlineInv ==
    \A w \in Workers :
        /\ since[w] <= now
        /\ pc[w] \in Calls \cup {"fetching"} => now <= since[w] + CallTimeout

(* A worker that fetches holds the mutex, and nobody else does.            *)
MutexInv == \A w \in Workers : pc[w] = "fetching" <=> lock = w

(* While it may be reused the token lasts for three requests.              *)
TokenInv ==
    token # NoToken => token \in Int /\ expiresAt - drift + 3 * CallTimeout <= token

(* The header lasts for the requests that are left.                        *)
HeaderInv ==
    \A w \in Workers :
        /\ pc[w] = "manifest" => header[w] \in Int /\ since[w] + 3 * CallTimeout <= header[w]
        /\ pc[w] = "index" => header[w] \in Int /\ since[w] + 2 * CallTimeout <= header[w]
        /\ pc[w] = "config" => header[w] \in Int /\ since[w] + CallTimeout <= header[w]

(* A token is fetched only when there is none to reuse, and for as long as *)
(* the fetch lasts there is none.                                          *)
FetchInv == lock # Free => ~Usable

ClockInv == TypeInv /\ DeadlineInv /\ MutexInv /\ TokenInv /\ HeaderInv /\ FetchInv

(* The clock starts with no token and no call.                             *)
LEMMA InitClock == Init => ClockInv
<1> SUFFICES ASSUME Init PROVE ClockInv
    OBVIOUS
<1>1. TypeInv
    BY RegistryConstants DEF Init, TypeInv, Label
<1>2. DeadlineInv /\ MutexInv /\ HeaderInv /\ TokenInv /\ FetchInv
    BY RegistryConstants DEF Init, DeadlineInv, MutexInv, HeaderInv, TokenInv, FetchInv, Calls
<1> QED
    BY <1>1, <1>2 DEF ClockInv

(* A lookup ends: its call is over, and the mutex is free if it held it.   *)
LEMMA ReturnClock ==
    ASSUME ClockInv, NEW w \in Workers, NEW r, Return(w, r),
           UNCHANGED <<now, drift, token, expiresAt>>,
           \/ pc[w] # "fetching" /\ lock' = lock
           \/ pc[w] = "fetching" /\ lock' = Free
    PROVE  ClockInv'
<1>1. /\ pc' = [pc EXCEPT ![w] = "idle"]
      /\ begun' = [begun EXCEPT ![w] = 0]
      /\ since' = [since EXCEPT ![w] = 0]
      /\ header' = [header EXCEPT ![w] = NoToken]
    BY DEF Return
<1>2. TypeInv'
    BY <1>1 DEF ClockInv, TypeInv, Label
<1>3. DeadlineInv'
    BY <1>1 DEF ClockInv, TypeInv, DeadlineInv, Calls
<1>4. MutexInv'
    BY <1>1, RegistryConstants DEF ClockInv, TypeInv, MutexInv
<1>5. TokenInv' /\ FetchInv'
    BY DEF ClockInv, TokenInv, FetchInv, Usable
<1>6. HeaderInv'
    BY <1>1 DEF ClockInv, TypeInv, HeaderInv
<1> QED
    BY <1>2, <1>3, <1>4, <1>5, <1>6 DEF ClockInv

(* The next call of a lookup begins: it does not concern the mutex, and    *)
(* the header lasts for the requests that are left.                        *)
LEMMA CallClock ==
    ASSUME ClockInv, NEW w \in Workers, NEW c \in Calls, Call(w, c),
           UNCHANGED <<now, drift, token, expiresAt, begun, lock>>,
           pc[w] # "fetching",
           header' \in [Workers -> Int \cup {NoToken}],
           \A v \in Workers \ {w} : header'[v] = header[v],
           header'[w] \in Int,
           c = "manifest" => now + 3 * CallTimeout <= header'[w],
           c = "index" => now + 2 * CallTimeout <= header'[w],
           c = "config" => now + CallTimeout <= header'[w]
    PROVE  ClockInv'
<1>1. pc' = [pc EXCEPT ![w] = c] /\ since' = [since EXCEPT ![w] = now]
    BY DEF Call
<1>2. TypeInv'
    BY <1>1 DEF ClockInv, TypeInv, Label
<1>3. DeadlineInv'
    BY <1>1, RegistryConstants DEF ClockInv, TypeInv, DeadlineInv
<1>4. MutexInv'
    BY <1>1 DEF ClockInv, TypeInv, MutexInv, Calls
<1>5. TokenInv' /\ FetchInv'
    BY DEF ClockInv, TokenInv, FetchInv, Usable
<1>6. HeaderInv'
    BY <1>1, RegistryConstants DEF ClockInv, TypeInv, HeaderInv
<1> QED
    BY <1>2, <1>3, <1>4, <1>5, <1>6 DEF ClockInv

(* A lookup begins by waiting for the mutex.                               *)
LEMMA LookupClock ==
    ASSUME ClockInv, NEW w \in Workers, NEW supported \in BOOLEAN, NEW valid \in BOOLEAN,
           Lookup(w, supported, valid)
    PROVE  ClockInv'
<1>1. CASE Return(w, Err)
    BY <1>1, ReturnClock DEF Lookup, auth
<1>2. CASE Call(w, "waiting") /\ begun' = [begun EXCEPT ![w] = now] /\ UNCHANGED header
    <2>1. /\ pc' = [pc EXCEPT ![w] = "waiting"] /\ since' = [since EXCEPT ![w] = now]
          /\ pc[w] = "idle" /\ UNCHANGED <<now, drift, lock, token, expiresAt>>
        BY <1>2 DEF Call, Lookup, auth
    <2>2. TypeInv'
        BY <1>2, <2>1 DEF ClockInv, TypeInv, Label
    <2>3. DeadlineInv' /\ MutexInv' /\ HeaderInv'
        BY <1>2, <2>1 DEF ClockInv, TypeInv, DeadlineInv, MutexInv, HeaderInv, Calls
    <2>4. TokenInv' /\ FetchInv'
        BY <2>1 DEF ClockInv, TokenInv, FetchInv, Usable
    <2> QED
        BY <2>2, <2>3, <2>4 DEF ClockInv
<1> QED
    BY <1>1, <1>2 DEF Lookup

(* A cached token that may be reused lasts for the three requests.         *)
LEMMA UseTokenClock ==
    ASSUME ClockInv, NEW w \in Workers, UseToken(w)
    PROVE  ClockInv'
<1>1. /\ token \in Int /\ now + 3 * CallTimeout <= token
      /\ pc[w] = "waiting" /\ header' = [header EXCEPT ![w] = token]
    BY RegistryConstants DEF UseToken, Turn, Usable, ClockInv, TypeInv, TokenInv
<1>2. header' \in [Workers -> Int \cup {NoToken}] /\ header'[w] = token
    BY <1>1 DEF ClockInv, TypeInv
<1> QED
    BY <1>1, <1>2, CallClock DEF UseToken, auth, Calls, ClockInv, TypeInv

(* A fetch takes the mutex, which was free.                                *)
LEMMA FetchTokenClock ==
    ASSUME ClockInv, NEW w \in Workers, FetchToken(w)
    PROVE  ClockInv'
<1>1. /\ pc' = [pc EXCEPT ![w] = "fetching"] /\ since' = [since EXCEPT ![w] = now]
      /\ lock = Free /\ lock' = w /\ ~Usable
      /\ UNCHANGED <<now, drift, token, expiresAt, begun, header>>
    BY DEF FetchToken, Turn, Call
<1>2. TypeInv'
    BY <1>1 DEF ClockInv, TypeInv, Label
<1>3. DeadlineInv' /\ HeaderInv'
    BY <1>1, RegistryConstants DEF ClockInv, TypeInv, DeadlineInv, HeaderInv
<1>4. MutexInv'
    BY <1>1, RegistryConstants DEF ClockInv, TypeInv, MutexInv
<1>5. TokenInv' /\ FetchInv'
    BY <1>1 DEF ClockInv, TokenInv, FetchInv, Usable
<1> QED
    BY <1>2, <1>3, <1>4, <1>5 DEF ClockInv

(* A new token outlives its own reuse by three requests, whether its       *)
(* expiry is reported or the fallback is used.                             *)
LEMMA FetchAnswersClock ==
    ASSUME ClockInv, NEW w \in Workers, NEW issued \in since[w] .. now,
           NEW reported \in BOOLEAN, FetchAnswers(w, issued, reported)
    PROVE  ClockInv'
<1> DEFINE dies == issued + TokenLife
<1>1. /\ pc[w] = "fetching" /\ pc' = [pc EXCEPT ![w] = "manifest"]
      /\ since' = [since EXCEPT ![w] = now]
      /\ token' = dies /\ expiresAt' = ReusedUntil(dies, reported)
      /\ header' = [header EXCEPT ![w] = dies]
      /\ lock' = Free /\ UNCHANGED <<now, drift, begun>>
    BY DEF FetchAnswers, Call
<1>2. /\ now \in Nat /\ since[w] \in Nat /\ issued \in Int /\ drift \in Int
      /\ now <= issued + CallTimeout /\ dies \in Int
      /\ CallTimeout \in Nat /\ tokenSkew \in Nat /\ tokenFallbackTTL \in Nat
      /\ MaxDrift \in Nat /\ TokenLife \in Nat /\ -MaxDrift <= drift
    BY <1>1, RegistryConstants DEF ClockInv, TypeInv, DeadlineInv
<1>3. /\ now + 3 * CallTimeout <= dies
      /\ expiresAt' \in Int /\ expiresAt' - drift + 3 * CallTimeout <= dies
    BY <1>1, <1>2, SkewCovers DEF ReusedUntil
<1> HIDE DEF dies
<1>4. TypeInv'
    BY <1>1, <1>2, <1>3 DEF ClockInv, TypeInv, Label, Calls
<1>5. DeadlineInv'
    BY <1>1, <1>2 DEF ClockInv, TypeInv, DeadlineInv
<1>6. MutexInv'
    BY <1>1, RegistryConstants DEF ClockInv, TypeInv, MutexInv
<1>7. HeaderInv'
    BY <1>1, <1>2, <1>3 DEF ClockInv, TypeInv, HeaderInv
<1>8. TokenInv' /\ FetchInv'
    BY <1>1, <1>2, <1>3 DEF TokenInv, FetchInv
<1> QED
    BY <1>4, <1>5, <1>6, <1>7, <1>8 DEF ClockInv

(* The manifests arrive: each request pays for itself.                     *)
LEMMA GotClock ==
    ASSUME ClockInv, NEW w \in Workers, GotManifest(w) \/ GotIndexed(w) \/ GotConfig(w)
    PROVE  ClockInv'
<1>1. pc[w] \in Calls /\ UNCHANGED <<now, drift, token, expiresAt, lock>>
    BY DEF GotManifest, GotIndexed, GotConfig, Calls, auth
<1>2. /\ now \in Nat /\ since[w] \in Nat /\ CallTimeout \in Nat
      /\ now <= since[w] + CallTimeout /\ header[w] \in Int
    BY <1>1, RegistryConstants DEF ClockInv, TypeInv, DeadlineInv, HeaderInv, Calls
<1>3. ASSUME NEW r, Return(w, r) PROVE ClockInv'
    BY <1>1, <1>3, ReturnClock DEF Calls
<1>4. ASSUME NEW d, NEW c \in {"index", "config"}, Continue(w, d, c),
             pc[w] = "manifest" \/ (pc[w] = "index" /\ c = "config")
      PROVE  ClockInv'
    <2>1. Call(w, c) /\ begun' = begun /\ header' = header
        BY <1>4 DEF Continue
    <2>2. /\ c = "index" => now + 2 * CallTimeout <= header[w]
          /\ c = "config" => now + CallTimeout <= header[w]
        BY <1>2, <1>4 DEF ClockInv, HeaderInv
    <2>3. header \in [Workers -> Int \cup {NoToken}]
        BY DEF ClockInv, TypeInv
    <2> QED
        BY <1>1, <1>2, <1>4, <2>1, <2>2, <2>3, CallClock DEF Calls
<1>5. CASE GotManifest(w)
    BY <1>3, <1>4, <1>5 DEF GotManifest, ReadConfig
<1>6. CASE GotIndexed(w)
    BY <1>3, <1>4, <1>6 DEF GotIndexed, ReadConfig
<1>7. CASE GotConfig(w)
    BY <1>3, <1>7 DEF GotConfig
<1> QED
    BY <1>5, <1>6, <1>7

(* Time passes only while no call is at its deadline.                      *)
LEMMA TickClock ==
    ASSUME ClockInv, Tick
    PROVE  ClockInv'
<1>1. /\ now' = now + 1
      /\ \A w \in Workers : Patient(w)
      /\ UNCHANGED <<drift, lock, token, expiresAt, pc, begun, since, header>>
    BY DEF Tick, auth
<1>2. TypeInv'
    BY <1>1 DEF ClockInv, TypeInv
<1>3. DeadlineInv'
    BY <1>1, RegistryConstants DEF ClockInv, TypeInv, DeadlineInv, Patient, InTime
<1>4. MutexInv' /\ TokenInv' /\ HeaderInv'
    BY <1>1 DEF ClockInv, MutexInv, TokenInv, HeaderInv
<1>5. FetchInv'
    BY <1>1 DEF ClockInv, TypeInv, FetchInv, Usable
<1> QED
    BY <1>2, <1>3, <1>4, <1>5 DEF ClockInv

(* Every step keeps clocks, deadlines, mutex and tokens in order.          *)
LEMMA NextClock == ClockInv /\ [Next]_vars => ClockInv'
<1> SUFFICES ASSUME ClockInv, [Next]_vars PROVE ClockInv'
    OBVIOUS
<1>1. CASE UNCHANGED vars
    BY <1>1 DEF vars, ClockInv, TypeInv, DeadlineInv, MutexInv, TokenInv, HeaderInv, FetchInv,
                Usable
<1>2. ASSUME NEW w \in Workers, FetchFails(w) \/ GetFails(w)
      PROVE  ClockInv'
    BY <1>2, ReturnClock DEF FetchFails, GetFails, auth, Calls
<1>3. ASSUME NEW p \in Pushes, MoveTag(p)
      PROVE  ClockInv'
    BY <1>3 DEF MoveTag, auth, ClockInv, TypeInv, DeadlineInv, MutexInv, TokenInv, HeaderInv,
                FetchInv, Usable
<1>4. CASE Next
    BY <1>2, <1>3, <1>4, LookupClock, UseTokenClock, FetchTokenClock, FetchAnswersClock,
       GotClock, TickClock DEF Next
<1> QED
    BY <1>1, <1>4

(* Clocks, deadlines, mutex and tokens in every state.                     *)
LEMMA ClockAlways == Spec => []ClockInv
BY InitClock, NextClock, PTL DEF Spec

(* No request is sent with a token the registry has stopped honouring,     *)
(* however long ago and by whom the token was cached.                      *)
THEOREM TokensHonoured == Spec => []TokenHonoured
<1>1. ClockInv => TokenHonoured
    <2> SUFFICES ASSUME ClockInv, NEW w \in Workers, pc[w] \in Calls
                 PROVE  now <= header[w]
        BY DEF TokenHonoured
    <2> QED
        BY RegistryConstants DEF ClockInv, TypeInv, DeadlineInv, HeaderInv, Calls
<1> QED
    BY <1>1, ClockAlways, PTL

(* A token is replaced only when it can no longer be reused: the workers   *)
(* that meet at the mutex fetch one.                                       *)
THEOREM TokenFetchedOnce == Spec => OneFetchPerToken
<1>1. ClockInv /\ [Next]_vars => [token' # token => ~Usable]_vars
    <2> SUFFICES ASSUME ClockInv, [Next]_vars, token' # token PROVE ~Usable
        OBVIOUS
    <2>1. \E w \in Workers : pc[w] = "fetching"
        BY DEF Next, vars, auth, Lookup, UseToken, FetchToken, FetchFails, FetchAnswers,
               GetFails, GotManifest, GotIndexed, GotConfig, MoveTag, Tick
    <2> QED
        BY <2>1, RegistryConstants DEF ClockInv, MutexInv, FetchInv
<1> QED
    BY <1>1, ClockAlways, PTL DEF Spec, OneFetchPerToken

-----------------------------------------------------------------------------
(* The image that is read *)

(* A set of entries has a first one.                                       *)
LEMMA FirstEntry ==
    ASSUME NEW S, S \subseteq Nat, S # {}
    PROVE  \E k \in S : \A l \in S : k <= l
<1>1. PICK k \in S : \A l \in S : ~(<<l, k>> \in OpToRel(<, Nat))
    BY NatLessThanWellFounded, WFMin
<1>2. \A l \in S : ~(l < k)
    BY <1>1 DEF OpToRel
<1> QED
    BY <1>2

(* The metadata of document d is that of an image of push p, and of the    *)
(* preferred one if there is one.                                          *)
Represents(d, p) ==
    \E m \in ImagesOf[p] :
        /\ m.config = Document[d].config /\ m.size = Document[d].size
        /\ m.preferred \/ ~\E n \in ImagesOf[p] : n.preferred

(* A push that is an image represents itself.                              *)
LEMMA PlainImage ==
    ASSUME NEW p \in Pushes, Document[p].config # NoDigest
    PROVE  Represents(p, p)
<1> DEFINE m == [config |-> Document[p].config, size |-> Document[p].size, preferred |-> FALSE]
<1>1. ImagesOf[p] = {m}
    BY PushedImages
<1>2. ~\E n \in ImagesOf[p] : n.preferred
    BY <1>1
<1> QED
    BY <1>1, <1>2 DEF Represents

(* The entry imageDigest picks leads to an image of the push: to the       *)
(* preferred platform's if there is one, never to an attestation.          *)
LEMMA FollowedImage ==
    ASSUME NEW p \in Pushes, NEW d, d = imageDigest(Document[p]),
           d \notin BadDigests \cup {NoDigest}, Document[d].config # NoDigest
    PROVE  Represents(d, p)
<1> DEFINE entries   == Document[p].manifests
           images    == {k \in DOMAIN entries :
                           entries[k].digest # NoDigest /\ ~isAttestation(entries[k])}
           preferred == {k \in images : isPreferredPlatform(entries[k])}
           pick      == IF preferred # {} THEN preferred ELSE images
           first     == CHOOSE k \in pick : \A l \in pick : k <= l
           usable    == {k \in DOMAIN entries :
                           /\ ~isAttestation(entries[k])
                           /\ entries[k].digest \notin BadDigests \cup {NoDigest}
                           /\ Document[entries[k].digest].config # NoDigest}
           Image(k)  == [config |-> Document[entries[k].digest].config,
                         size |-> Document[entries[k].digest].size,
                         preferred |-> isPreferredPlatform(entries[k])]
<1>1. Document[p].config = NoDigest /\ pick # {} /\ d = entries[first].digest
    BY DEF imageDigest
<1>2. DOMAIN entries \subseteq Nat /\ ImagesOf[p] = {Image(k) : k \in usable}
    BY <1>1, PushedImages
<1>3. first \in pick
    <2>1. pick \subseteq Nat
        BY <1>2
    <2>2. \E k \in pick : \A l \in pick : k <= l
        BY <1>1, <2>1, FirstEntry
    <2> QED
        BY <2>2
<1> HIDE DEF first
<1>4. first \in images /\ (preferred # {} => first \in preferred)
    BY <1>3
<1>5. first \in usable
    BY <1>1, <1>4
<1>6. Image(first) \in ImagesOf[p]
    BY <1>2, <1>5
<1>7. CASE preferred # {}
    <2>1. isPreferredPlatform(entries[first])
        BY <1>4, <1>7
    <2> QED
        BY <1>1, <1>6, <2>1 DEF Represents
<1>8. CASE preferred = {}
    <2>1. \A k \in usable : ~isPreferredPlatform(entries[k])
        BY <1>8
    <2>2. ASSUME NEW n \in ImagesOf[p] PROVE ~n.preferred
        <3>1. PICK k \in usable : n = Image(k)
            BY <1>2
        <3> QED
            BY <3>1, <2>1
    <2> QED
        BY <1>1, <1>6, <2>2 DEF Represents
<1> QED
    BY <1>7, <1>8

(* What a lookup is reading: the document its first manifest names.        *)
ImageInv ==
    /\ pc \in [Workers -> Label] /\ tag \in Pushes
    /\ DOMAIN doc = Workers /\ DOMAIN origin = Workers /\ DOMAIN result = Workers
    /\ \A w \in Workers :
         /\ pc[w] # "idle" => result[w] = None
         /\ pc[w] \in {"index", "config"} => origin[w] \in Pushes
         /\ pc[w] = "index" => /\ doc[w] = imageDigest(Document[origin[w]])
                               /\ doc[w] \notin BadDigests \cup {NoDigest}
         /\ pc[w] = "config" => Represents(doc[w], origin[w])
         /\ result[w].status = "ok" =>
              \E d : Represents(d, origin[w])
                       /\ result[w] = Metadata(Document[d].config, Document[d].size)

(* Initially nothing was read.                                             *)
LEMMA InitImage == Init => ImageInv
BY DEF Init, ImageInv, Label, None

(* A lookup fails.                                                         *)
LEMMA ErrImage ==
    ASSUME ImageInv, NEW w \in Workers, Return(w, Err), tag' \in Pushes,
           DOMAIN origin' = Workers, \A v \in Workers \ {w} : origin'[v] = origin[v]
    PROVE  ImageInv'
BY DEF ImageInv, Return, Label, Err

(* The next call of a lookup is made.                                      *)
LEMMA CallImage ==
    ASSUME ImageInv, NEW w \in Workers, NEW c \in Label, Call(w, c), result[w] = None,
           tag' = tag, result' = result,
           DOMAIN doc' = Workers, \A v \in Workers \ {w} : doc'[v] = doc[v],
           DOMAIN origin' = Workers, \A v \in Workers \ {w} : origin'[v] = origin[v],
           c \in {"index", "config"} => origin'[w] \in Pushes,
           c = "index" => /\ doc'[w] = imageDigest(Document[origin'[w]])
                          /\ doc'[w] \notin BadDigests \cup {NoDigest},
           c = "config" => Represents(doc'[w], origin'[w])
    PROVE  ImageInv'
<1>1. pc' = [pc EXCEPT ![w] = c] /\ pc' \in [Workers -> Label]
    BY DEF Call, ImageInv
<1>2. result[w].status # "ok"
    BY DEF None
<1> QED
    BY <1>1, <1>2 DEF ImageInv

(* A lookup begins: the metadata of the last one is gone.                  *)
LEMMA LookupImage ==
    ASSUME ImageInv, NEW w \in Workers, NEW supported \in BOOLEAN, NEW valid \in BOOLEAN,
           Lookup(w, supported, valid)
    PROVE  ImageInv'
<1>1. origin' = [origin EXCEPT ![w] = NoDigest] /\ tag' = tag
    BY DEF Lookup
<1>2. CASE Return(w, Err)
    BY <1>1, <1>2, ErrImage DEF ImageInv
<1>3. CASE /\ Call(w, "waiting") /\ result' = [result EXCEPT ![w] = None]
           /\ UNCHANGED <<header, doc>>
    BY <1>1, <1>3 DEF ImageInv, Call, Label, None
<1> QED
    BY <1>2, <1>3 DEF Lookup

(* The manifest with the config blob is known.                             *)
LEMMA ReadConfigImage ==
    ASSUME ImageInv, NEW w \in Workers, NEW d, ReadConfig(w, d), tag' = tag, pc[w] # "idle",
           DOMAIN origin' = Workers, \A v \in Workers \ {w} : origin'[v] = origin[v],
           origin'[w] \in Pushes,
           Document[d].config # NoDigest => Represents(d, origin'[w])
    PROVE  ImageInv'
<1>1. CASE Return(w, Err)
    BY <1>1, ErrImage DEF ImageInv
<1>2. CASE Document[d].config # NoDigest /\ Continue(w, d, "config")
    <2>1. /\ Call(w, "config") /\ result' = result /\ doc' = [doc EXCEPT ![w] = d]
          /\ result[w] = None
        BY <1>2 DEF Continue, ImageInv
    <2>2. DOMAIN doc' = Workers /\ doc'[w] = d /\ \A v \in Workers \ {w} : doc'[v] = doc[v]
        BY <2>1 DEF ImageInv
    <2> QED
        BY <1>2, <2>1, <2>2, CallImage DEF Label, Calls
<1> QED
    BY <1>1, <1>2 DEF ReadConfig

(* The manifest of the tag arrives.                                        *)
LEMMA GotManifestImage ==
    ASSUME ImageInv, NEW w \in Workers, GotManifest(w)
    PROVE  ImageInv'
<1> DEFINE d == imageDigest(Document[tag])
<1>1. /\ pc[w] = "manifest" /\ tag' = tag /\ tag \in Pushes /\ result[w] = None
      /\ origin' = [origin EXCEPT ![w] = tag]
    BY DEF GotManifest, ImageInv
<1>2. /\ DOMAIN origin' = Workers /\ origin'[w] = tag
      /\ \A v \in Workers \ {w} : origin'[v] = origin[v]
    BY <1>1 DEF ImageInv
<1>3. CASE d = NoDigest /\ ReadConfig(w, tag)
    BY <1>1, <1>2, <1>3, PlainImage, ReadConfigImage
<1>4. CASE Return(w, Err)
    BY <1>1, <1>2, <1>4, ErrImage
<1>5. CASE d \notin BadDigests \cup {NoDigest} /\ Continue(w, d, "index")
    <2>1. Call(w, "index") /\ result' = result /\ doc' = [doc EXCEPT ![w] = d]
        BY <1>5 DEF Continue
    <2> HIDE DEF d
    <2>2. DOMAIN doc' = Workers /\ doc'[w] = d /\ \A v \in Workers \ {w} : doc'[v] = doc[v]
        BY <2>1 DEF ImageInv
    <2>3. d = imageDigest(Document[origin'[w]])
        BY <1>2 DEF d
    <2> QED
        BY <1>1, <1>2, <1>5, <2>1, <2>2, <2>3, CallImage DEF Label, Calls
<1> QED
    BY <1>3, <1>4, <1>5 DEF GotManifest

(* The manifest an index points to arrives, although the tag has moved.    *)
LEMMA GotIndexedImage ==
    ASSUME ImageInv, NEW w \in Workers, GotIndexed(w)
    PROVE  ImageInv'
<1>1. pc[w] = "index" /\ UNCHANGED <<tag, origin>> /\ ReadConfig(w, doc[w])
    BY DEF GotIndexed, Followed
<1>2. /\ origin[w] \in Pushes /\ doc[w] = imageDigest(Document[origin[w]])
      /\ doc[w] \notin BadDigests \cup {NoDigest} /\ DOMAIN origin = Workers
    BY <1>1 DEF ImageInv
<1>3. Document[doc[w]].config # NoDigest => Represents(doc[w], origin[w])
    BY <1>2, FollowedImage
<1> QED
    BY <1>1, <1>2, <1>3, ReadConfigImage

(* The config blob arrives: the metadata is complete.                      *)
LEMMA GotConfigImage ==
    ASSUME ImageInv, NEW w \in Workers, GotConfig(w)
    PROVE  ImageInv'
<1> DEFINE r == Metadata(Document[doc[w]].config, Document[doc[w]].size)
<1>1. /\ pc[w] = "config" /\ UNCHANGED <<tag, origin>>
      /\ pc' = [pc EXCEPT ![w] = "idle"]
      /\ result' = [result EXCEPT ![w] = r]
      /\ doc' = [doc EXCEPT ![w] = NoDigest]
    BY DEF GotConfig, Return
<1>2. Represents(doc[w], origin[w])
    BY <1>1 DEF ImageInv
<1>3. pc' \in [Workers -> Label]
    BY <1>1 DEF ImageInv, Label
<1> HIDE DEF r
<1>4. ASSUME NEW v \in Workers, result'[v].status = "ok"
      PROVE  \E d : /\ Represents(d, origin[v])
                    /\ result'[v] = Metadata(Document[d].config, Document[d].size)
    <2>1. CASE v = w
        BY <2>1, <1>1, <1>2 DEF r, ImageInv
    <2>2. CASE v # w
        BY <2>2, <1>1, <1>4 DEF ImageInv
    <2> QED
        BY <2>1, <2>2
<1> QED
    BY <1>1, <1>3, <1>4 DEF ImageInv

(* Every step keeps the invariant.                                         *)
LEMMA NextImage == ImageInv /\ [Next]_vars => ImageInv'
<1> SUFFICES ASSUME ImageInv, [Next]_vars PROVE ImageInv'
    OBVIOUS
<1>1. ASSUME UNCHANGED <<pc, doc, origin, result>>, tag' \in Pushes
      PROVE  ImageInv'
    BY <1>1 DEF ImageInv
<1>2. CASE UNCHANGED vars
    BY <1>1, <1>2 DEF vars, ImageInv
<1>3. CASE Tick \/ \E p \in Pushes : MoveTag(p)
    BY <1>1, <1>3 DEF Tick, MoveTag, ImageInv
<1>4. ASSUME NEW w \in Workers, FetchFails(w) \/ GetFails(w)
      PROVE  ImageInv'
    BY <1>4, ErrImage DEF FetchFails, GetFails, ImageInv
<1>5. ASSUME NEW w \in Workers, NEW c \in {"manifest", "fetching"}, Call(w, c),
             pc[w] # "idle", UNCHANGED <<tag, doc, origin, result>>
      PROVE  ImageInv'
    BY <1>5, CallImage DEF ImageInv, Label, Calls
<1>6. ASSUME NEW w \in Workers, UseToken(w) \/ FetchToken(w)
      PROVE  ImageInv'
    BY <1>5, <1>6 DEF UseToken, FetchToken, Turn
<1>7. ASSUME NEW w \in Workers, NEW issued, NEW reported \in BOOLEAN,
             FetchAnswers(w, issued, reported)
      PROVE  ImageInv'
    BY <1>5, <1>7 DEF FetchAnswers
<1>8. CASE Next
    BY <1>3, <1>4, <1>6, <1>7, <1>8, LookupImage, GotManifestImage, GotIndexedImage,
       GotConfigImage DEF Next
<1> QED
    BY <1>2, <1>8

(* Labels and size belong to one image of the push that was read first,    *)
(* the preferred one if there is one, for any manifests and however the    *)
(* tag is moved between the requests.                                      *)
THEOREM ReadsOneImage == Spec => []OneImage
<1>1. ImageInv => OneImage
    BY DEF ImageInv, OneImage, Represents
<1> QED
    BY <1>1, InitImage, NextImage, PTL DEF Spec

-----------------------------------------------------------------------------
(* How long a lookup takes *)

(* The workers that may take the mutex before w does.                      *)
Ahead(w) == {v \in Workers : v # w /\ pc[v] = "waiting" /\ since[v] <= since[w]}

(* When the mutex is free again at the latest.                             *)
FreeBy == IF lock = Free THEN now ELSE since[lock] + CallTimeout

Budget(n) == n * CallTimeout
All == Cardinality(Workers)

(* Each worker ahead of a waiting one still needs at most a fetch, and the *)
(* waiting one was granted a fetch of each of the others.                  *)
WaitInv ==
    \A w \in Workers : pc[w] = "waiting" =>
        /\ begun[w] = since[w]
        /\ FreeBy + Budget(Cardinality(Ahead(w))) <= since[w] + Budget(All - 1)

(* Each later call began within the time of the calls before it.           *)
PhaseInv ==
    \A w \in Workers :
        /\ pc[w] = "fetching" => since[w] <= begun[w] + Budget(All - 1)
        /\ pc[w] = "manifest" => since[w] <= begun[w] + Budget(All)
        /\ pc[w] = "index" => since[w] <= begun[w] + Budget(All + 1)
        /\ pc[w] = "config" => since[w] <= begun[w] + Budget(All + 2)

TimeInv == ClockInv /\ WaitInv /\ PhaseInv

(* A budget grows by one call at a time.                                   *)
LEMMA BudgetFacts ==
    /\ \A n \in Int : Budget(n) \in Int /\ Budget(n + 1) = Budget(n) + CallTimeout
    /\ \A m, n \in Int : m <= n => Budget(m) <= Budget(n)
    /\ Budget(0) = 0
<1>1. CallTimeout \in Nat
    BY RegistryConstants
<1>2. \A n \in Int : Budget(n) \in Int /\ Budget(n + 1) = Budget(n) + CallTimeout
    BY <1>1 DEF Budget
<1>3. ASSUME NEW m \in Int, NEW n \in Int, m <= n PROVE Budget(m) <= Budget(n)
    BY <1>1, <1>3 DEF Budget
<1> QED
    BY <1>1, <1>2, <1>3 DEF Budget

(* There are finitely many workers.                                        *)
LEMMA AllType == All \in Nat
BY RegistryConstants, FS_CardinalityType DEF All

(* A set of workers without w, and without another worker, is smaller.     *)
LEMMA OthersFewer ==
    ASSUME NEW w \in Workers, NEW S \in SUBSET (Workers \ {w})
    PROVE  /\ IsFiniteSet(S) /\ Cardinality(S) \in Nat /\ Cardinality(S) <= All - 1
           /\ \A v \in Workers : v # w /\ v \notin S => Cardinality(S) <= All - 2
<1>1. IsFiniteSet(Workers) /\ All = Cardinality(Workers) /\ All \in Nat
    BY RegistryConstants, AllType DEF All
<1>2. IsFiniteSet(Workers \ {w}) /\ Cardinality(Workers \ {w}) = All - 1
    BY <1>1, FS_RemoveElement
<1>3. /\ IsFiniteSet(S) /\ Cardinality(S) \in Nat
      /\ Cardinality(S) <= All - 1
    BY <1>2, FS_Subset, FS_CardinalityType
<1>4. ASSUME NEW v \in Workers, v # w, v \notin S
      PROVE  Cardinality(S) <= All - 2
    <2>1. /\ IsFiniteSet((Workers \ {w}) \ {v})
          /\ Cardinality((Workers \ {w}) \ {v}) = All - 1 - 1
        BY <1>2, <1>4, FS_RemoveElement
    <2>2. S \subseteq (Workers \ {w}) \ {v}
        BY <1>4
    <2>3. Cardinality(S) <= Cardinality((Workers \ {w}) \ {v})
        BY <2>1, <2>2, FS_Subset
    <2> QED
        BY <1>1, <2>1, <2>3
<1> QED
    BY <1>3, <1>4

(* The workers ahead are others, and none of them fetches.                 *)
LEMMA AheadType ==
    ASSUME ClockInv, NEW w \in Workers
    PROVE  /\ Ahead(w) \in SUBSET (Workers \ {w})
           /\ IsFiniteSet(Ahead(w)) /\ Cardinality(Ahead(w)) \in Nat
           /\ Cardinality(Ahead(w)) <= All - 1
           /\ lock # Free /\ lock # w => Cardinality(Ahead(w)) <= All - 2
<1>1. Ahead(w) \in SUBSET (Workers \ {w})
    BY DEF Ahead
<1>2. lock # Free => lock \in Workers /\ lock \notin Ahead(w)
    BY DEF ClockInv, TypeInv, MutexInv, Ahead
<1> QED
    BY <1>1, <1>2, OthersFewer

(* When the mutex is free again is in the future, but by one call.         *)
LEMMA FreeByType ==
    ASSUME ClockInv
    PROVE  FreeBy \in Int /\ now <= FreeBy
<1>1. CASE lock = Free
    BY <1>1 DEF ClockInv, TypeInv, FreeBy
<1>2. CASE lock # Free
    <2>1. lock \in Workers /\ pc[lock] = "fetching"
        BY <1>2 DEF ClockInv, TypeInv, MutexInv
    <2> QED
        BY <1>2, <2>1, RegistryConstants DEF ClockInv, TypeInv, DeadlineInv, FreeBy
<1> QED
    BY <1>1, <1>2

(* Initially nobody waits.                                                 *)
LEMMA InitTime == Init => TimeInv
BY InitClock DEF TimeInv, WaitInv, PhaseInv, Init

(* A step that makes nobody wait, lets nobody in ahead and does not put    *)
(* the end of the fetch off keeps everybody's budget.                      *)
LEMMA WaitKept ==
    ASSUME TimeInv, ClockInv', FreeBy' <= FreeBy,
           \A w \in Workers : pc'[w] = "waiting" =>
               /\ pc[w] = "waiting" /\ begun'[w] = begun[w] /\ since'[w] = since[w]
               /\ Ahead(w)' \subseteq Ahead(w)
    PROVE  WaitInv'
<1> SUFFICES ASSUME NEW w \in Workers, pc'[w] = "waiting"
             PROVE  /\ begun'[w] = since'[w]
                    /\ FreeBy' + Budget(Cardinality(Ahead(w)')) <= since'[w] + Budget(All - 1)
    BY DEF WaitInv, Budget, All
<1>1. /\ pc[w] = "waiting" /\ begun'[w] = begun[w] /\ since'[w] = since[w]
      /\ Ahead(w)' \subseteq Ahead(w)
    OBVIOUS
<1>2. /\ begun[w] = since[w]
      /\ FreeBy + Budget(Cardinality(Ahead(w))) <= since[w] + Budget(All - 1)
    BY <1>1 DEF TimeInv, WaitInv
<1>3. /\ IsFiniteSet(Ahead(w)) /\ Cardinality(Ahead(w)) \in Nat
      /\ IsFiniteSet(Ahead(w)') /\ Cardinality(Ahead(w)') \in Nat
      /\ Cardinality(Ahead(w)') <= Cardinality(Ahead(w))
    BY <1>1, AheadType, FS_Subset, FS_CardinalityType DEF TimeInv
<1>4. Budget(Cardinality(Ahead(w)')) <= Budget(Cardinality(Ahead(w)))
    BY <1>3, BudgetFacts
<1>5. FreeBy \in Int /\ FreeBy' \in Int /\ since[w] \in Int
    BY RegistryConstants, FreeByType DEF TimeInv, ClockInv, TypeInv, FreeBy
<1>6. /\ Budget(Cardinality(Ahead(w)')) \in Int /\ Budget(Cardinality(Ahead(w))) \in Int
      /\ Budget(All - 1) \in Int
    BY <1>3, AllType, BudgetFacts
<1> QED
    BY <1>1, <1>2, <1>4, <1>5, <1>6

(* A worker that begins a lookup goes behind everyone who waits longer,    *)
(* and is itself granted a fetch of each of the others.                    *)
LEMMA LookupWait ==
    ASSUME TimeInv, ClockInv', NEW w \in Workers, pc[w] = "idle",
           Call(w, "waiting"), begun' = [begun EXCEPT ![w] = now],
           UNCHANGED <<now, lock>>
    PROVE  WaitInv'
<1>1. /\ pc' = [pc EXCEPT ![w] = "waiting"] /\ since' = [since EXCEPT ![w] = now]
      /\ pc \in [Workers -> Label] /\ since \in [Workers -> Nat] /\ begun \in [Workers -> Nat]
      /\ now \in Nat /\ \A v \in Workers : since[v] <= now
    BY DEF Call, TimeInv, ClockInv, TypeInv, DeadlineInv
<1>2. lock # w
    BY DEF TimeInv, ClockInv, MutexInv
<1>3. FreeBy' = FreeBy /\ FreeBy \in Int /\ FreeBy <= now + CallTimeout /\ CallTimeout \in Nat
    BY <1>1, <1>2, FreeByType, RegistryConstants DEF TimeInv, ClockInv, TypeInv, FreeBy
<1>4. ASSUME NEW v \in Workers, pc'[v] = "waiting", since'[v] = now
      PROVE  FreeBy' + Budget(Cardinality(Ahead(v)')) <= since'[v] + Budget(All - 1)
    <2>1. Ahead(v)' \in SUBSET (Workers \ {v})
        BY DEF Ahead
    <2>2. /\ Cardinality(Ahead(v)') \in Nat /\ Cardinality(Ahead(v)') <= All - 1
          /\ All - 1 \in Int /\ All - 2 \in Int /\ (All - 2) + 1 = All - 1
        BY <2>1, OthersFewer, AllType
    <2>3. CASE lock = Free
        <3>1. FreeBy = now
            BY <2>3 DEF FreeBy
        <3>2. /\ Budget(Cardinality(Ahead(v)')) <= Budget(All - 1)
              /\ Budget(Cardinality(Ahead(v)')) \in Int /\ Budget(All - 1) \in Int
            BY <2>2, BudgetFacts
        <3> QED
            BY <1>1, <1>3, <1>4, <3>1, <3>2
    <2>4. CASE lock # Free
        <3>1. /\ lock \in Workers /\ lock # v /\ lock \notin Ahead(v)'
            BY <1>1, <1>2, <1>4, <2>4 DEF TimeInv, ClockInv, TypeInv, MutexInv, Ahead
        <3>2. Cardinality(Ahead(v)') <= All - 2
            BY <2>1, <3>1, OthersFewer
        <3>3. /\ Budget(Cardinality(Ahead(v)')) <= Budget(All - 2)
              /\ Budget(Cardinality(Ahead(v)')) \in Int /\ Budget(All - 2) \in Int
              /\ Budget(All - 1) = Budget(All - 2) + CallTimeout
            BY <2>2, <3>2, BudgetFacts
        <3> QED
            BY <1>1, <1>3, <1>4, <3>3
    <2> QED
        BY <2>3, <2>4
<1>5. ASSUME NEW v \in Workers, pc'[v] = "waiting", since'[v] # now
      PROVE  /\ begun'[v] = since'[v]
             /\ FreeBy' + Budget(Cardinality(Ahead(v)')) <= since'[v] + Budget(All - 1)
    <2>1. /\ v # w /\ pc[v] = "waiting" /\ since'[v] = since[v] /\ begun'[v] = begun[v]
          /\ since[v] < now
        BY <1>1, <1>5
    <2>2. Ahead(v)' = Ahead(v)
        BY <1>1, <2>1 DEF Ahead
    <2> QED
        BY <1>3, <2>1, <2>2 DEF TimeInv, WaitInv
<1>6. ASSUME NEW v \in Workers, pc'[v] = "waiting" PROVE begun'[v] = since'[v]
    BY <1>1, <1>6 DEF TimeInv, WaitInv
<1> QED
    BY <1>4, <1>5, <1>6 DEF WaitInv, Budget, All

(* The worker whose turn it is fetches: it is no longer ahead of anyone,   *)
(* and everyone behind it pays for its fetch.                              *)
LEMMA FetchWait ==
    ASSUME TimeInv, ClockInv', NEW w \in Workers, FetchToken(w)
    PROVE  WaitInv'
<1>1. /\ pc' = [pc EXCEPT ![w] = "fetching"] /\ since' = [since EXCEPT ![w] = now]
      /\ begun' = begun /\ lock = Free /\ lock' = w /\ pc[w] = "waiting"
      /\ \A v \in Workers : pc[v] = "waiting" => since[w] <= since[v]
      /\ pc \in [Workers -> Label] /\ since \in [Workers -> Nat] /\ now \in Nat
    BY DEF FetchToken, Turn, Call, TimeInv, ClockInv, TypeInv
<1>2. FreeBy = now /\ FreeBy' = now + CallTimeout /\ CallTimeout \in Nat
    BY <1>1, RegistryConstants DEF FreeBy
<1> SUFFICES ASSUME NEW v \in Workers, pc'[v] = "waiting"
             PROVE  /\ begun'[v] = since'[v]
                    /\ FreeBy' + Budget(Cardinality(Ahead(v)')) <= since'[v] + Budget(All - 1)
    BY DEF WaitInv, Budget, All
<1>3. v # w /\ pc[v] = "waiting" /\ since'[v] = since[v] /\ w \in Ahead(v)
    BY <1>1 DEF Ahead
<1>4. Ahead(v)' = Ahead(v) \ {w}
    BY <1>1, <1>3 DEF Ahead
<1>5. /\ IsFiniteSet(Ahead(v)) /\ Cardinality(Ahead(v)) \in Nat
      /\ Cardinality(Ahead(v)') = Cardinality(Ahead(v)) - 1
    BY <1>3, <1>4, AheadType, FS_RemoveElement DEF TimeInv
<1> DEFINE n == Cardinality(Ahead(v)')
<1>6. n \in Int /\ n + 1 = Cardinality(Ahead(v))
    BY <1>5
<1>7. FreeBy + Budget(n + 1) <= since[v] + Budget(All - 1) /\ begun[v] = since[v]
    BY <1>3, <1>6 DEF TimeInv, WaitInv
<1>8. /\ Budget(n + 1) = Budget(n) + CallTimeout /\ Budget(n) \in Int
      /\ Budget(All - 1) \in Int
    BY <1>6, BudgetFacts, AllType
<1> HIDE DEF n
<1>9. FreeBy' + Budget(n) <= since[v] + Budget(All - 1)
    BY <1>1, <1>2, <1>7, <1>8
<1> QED
    BY <1>1, <1>3, <1>7, <1>9 DEF n

(* Time passes only while someone fetches, or while nobody waits: a free   *)
(* mutex is taken at once by the worker that waits longest.                *)
LEMMA TickWait ==
    ASSUME TimeInv, ClockInv', Tick
    PROVE  WaitInv'
<1>1. /\ now' = now + 1 /\ \A w \in Workers : ~Turn(w)
      /\ UNCHANGED <<lock, pc, begun, since>>
    BY DEF Tick, auth
<1>2. CASE lock # Free
    <2>1. FreeBy' = FreeBy /\ \A w \in Workers : Ahead(w)' = Ahead(w)
        BY <1>1, <1>2 DEF FreeBy, Ahead
    <2>2. FreeBy \in Int
        BY FreeByType DEF TimeInv
    <2> QED
        BY <1>1, <2>1, <2>2, WaitKept
<1>3. CASE lock = Free
    <2> DEFINE waiting == {v \in Workers : pc[v] = "waiting"}
               starts  == {since[v] : v \in waiting}
    <2>1. waiting = {}
        <3> SUFFICES ASSUME waiting # {} PROVE FALSE
            OBVIOUS
        <3>1. starts \subseteq Nat /\ starts # {}
            BY DEF TimeInv, ClockInv, TypeInv
        <3>2. PICK t \in starts : \A u \in starts : t <= u
            BY <3>1, FirstEntry
        <3>3. PICK w \in waiting : since[w] = t
            BY <3>2
        <3>4. Turn(w)
            BY <1>3, <3>2, <3>3 DEF Turn
        <3> QED
            BY <1>1, <3>3, <3>4
    <2> QED
        BY <1>1, <2>1 DEF WaitInv
<1> QED
    BY <1>2, <1>3

(* A worker that leaves the mutex, or never had it, delays nobody.         *)
LEMMA LeaveWait ==
    ASSUME TimeInv, ClockInv', NEW w \in Workers, NEW l \in Label \ {"waiting", "fetching"},
           pc' = [pc EXCEPT ![w] = l], now' = now,
           \A v \in Workers \ {w} : begun'[v] = begun[v] /\ since'[v] = since[v],
           \/ pc[w] # "fetching" /\ lock' = lock
           \/ pc[w] = "fetching" /\ lock' = Free
    PROVE  WaitInv'
<1>1. pc \in [Workers -> Label]
    BY DEF TimeInv, ClockInv, TypeInv
<1>2. FreeBy' <= FreeBy
    <2>1. CASE lock' = Free
        BY <2>1, FreeByType DEF TimeInv, FreeBy
    <2>2. CASE lock' # Free
        <3>1. lock' = lock /\ lock \in Workers /\ lock # w
            BY <2>2 DEF TimeInv, ClockInv, TypeInv, MutexInv
        <3>2. FreeBy' = FreeBy
            BY <2>2, <3>1 DEF FreeBy
        <3> QED
            BY <3>2, FreeByType DEF TimeInv
    <2> QED
        BY <2>1, <2>2
<1>3. ASSUME NEW v \in Workers, pc'[v] = "waiting"
      PROVE  /\ pc[v] = "waiting" /\ begun'[v] = begun[v] /\ since'[v] = since[v]
             /\ Ahead(v)' \subseteq Ahead(v)
    <2>1. v # w /\ pc[v] = "waiting"
        BY <1>1, <1>3
    <2>2. Ahead(v)' \subseteq Ahead(v)
        BY <1>1, <2>1 DEF Ahead
    <2> QED
        BY <2>1, <2>2
<1> QED
    BY <1>2, <1>3, WaitKept

(* A lookup that ends keeps the time of the others.                        *)
LEMMA ReturnTime ==
    ASSUME TimeInv, ClockInv', NEW w \in Workers, NEW r, Return(w, r), now' = now,
           \/ pc[w] # "fetching" /\ lock' = lock
           \/ pc[w] = "fetching" /\ lock' = Free
    PROVE  TimeInv'
<1>1. /\ pc' = [pc EXCEPT ![w] = "idle"]
      /\ begun' = [begun EXCEPT ![w] = 0] /\ since' = [since EXCEPT ![w] = 0]
      /\ pc \in [Workers -> Label] /\ begun \in [Workers -> Nat] /\ since \in [Workers -> Nat]
    BY DEF Return, TimeInv, ClockInv, TypeInv
<1>2. \A v \in Workers \ {w} : /\ begun'[v] = begun[v] /\ since'[v] = since[v]
                               /\ pc'[v] = pc[v]
    BY <1>1
<1>3. WaitInv'
    BY <1>1, <1>2, LeaveWait DEF Label
<1>4. PhaseInv'
    BY <1>1, <1>2 DEF TimeInv, PhaseInv, All, Budget
<1> QED
    BY <1>3, <1>4 DEF TimeInv

(* The next call of a lookup begins one call later at most.                *)
LEMMA CallTime ==
    ASSUME TimeInv, ClockInv', NEW w \in Workers, NEW c \in Calls, Call(w, c),
           now' = now, begun' = begun,
           \/ pc[w] # "fetching" /\ lock' = lock
           \/ pc[w] = "fetching" /\ lock' = Free,
           c = "manifest" => now <= begun[w] + Budget(All),
           c = "index" => now <= begun[w] + Budget(All + 1),
           c = "config" => now <= begun[w] + Budget(All + 2)
    PROVE  TimeInv'
<1>1. /\ pc' = [pc EXCEPT ![w] = c] /\ since' = [since EXCEPT ![w] = now]
      /\ pc \in [Workers -> Label] /\ since \in [Workers -> Nat]
    BY DEF Call, TimeInv, ClockInv, TypeInv
<1>2. \A v \in Workers \ {w} : since'[v] = since[v] /\ pc'[v] = pc[v]
    BY <1>1
<1>3. WaitInv'
    BY <1>1, <1>2, LeaveWait DEF Label, Calls
<1>4. PhaseInv'
    <2>1. pc'[w] = c /\ since'[w] = now
        BY <1>1
    <2> QED
        BY <1>2, <2>1 DEF TimeInv, PhaseInv, All, Budget, Calls
<1> QED
    BY <1>3, <1>4 DEF TimeInv

(* The times a lookup may be at, for each of its calls.                    *)
LEMMA PhaseTimes ==
    ASSUME TimeInv, NEW w \in Workers
    PROVE  /\ pc[w] = "waiting" /\ lock = Free => now <= begun[w] + Budget(All - 1)
           /\ pc[w] = "fetching" => now <= begun[w] + Budget(All)
           /\ pc[w] = "manifest" => now <= begun[w] + Budget(All + 1)
           /\ pc[w] = "index" => now <= begun[w] + Budget(All + 2)
           /\ pc[w] = "config" => now <= begun[w] + Budget(All + 3)
<1>1. /\ Budget(All) = Budget(All - 1) + CallTimeout
      /\ Budget(All + 1) = Budget(All) + CallTimeout
      /\ Budget(All + 2) = Budget(All + 1) + CallTimeout
      /\ Budget(All + 3) = Budget(All + 2) + CallTimeout
      /\ Budget(All - 1) \in Int /\ Budget(All) \in Int /\ Budget(All + 1) \in Int
      /\ Budget(All + 2) \in Int /\ CallTimeout \in Nat
    <2>1. /\ All - 1 \in Int /\ (All - 1) + 1 = All /\ All \in Int
          /\ All + 1 \in Int /\ (All + 1) + 1 = All + 2
          /\ All + 2 \in Int /\ (All + 2) + 1 = All + 3
        BY AllType
    <2> QED
        BY <2>1, BudgetFacts, RegistryConstants
<1>2. /\ now \in Nat /\ since[w] \in Nat /\ begun[w] \in Nat
      /\ pc[w] \in Calls \cup {"fetching"} => now <= since[w] + CallTimeout
    BY DEF TimeInv, ClockInv, TypeInv, DeadlineInv
<1>3. ASSUME pc[w] = "waiting", lock = Free PROVE now <= begun[w] + Budget(All - 1)
    <2>1. /\ begun[w] = since[w] /\ FreeBy = now
          /\ FreeBy + Budget(Cardinality(Ahead(w))) <= since[w] + Budget(All - 1)
        BY <1>3 DEF TimeInv, WaitInv, FreeBy
    <2>2. Cardinality(Ahead(w)) \in Nat
        BY AheadType DEF TimeInv
    <2>3. Budget(Cardinality(Ahead(w))) \in Int /\ 0 <= Budget(Cardinality(Ahead(w)))
        BY <2>2, BudgetFacts
    <2> QED
        BY <1>1, <1>2, <2>1, <2>3
<1>4. /\ pc[w] = "fetching" => since[w] <= begun[w] + Budget(All - 1)
      /\ pc[w] = "manifest" => since[w] <= begun[w] + Budget(All)
      /\ pc[w] = "index" => since[w] <= begun[w] + Budget(All + 1)
      /\ pc[w] = "config" => since[w] <= begun[w] + Budget(All + 2)
    BY DEF TimeInv, PhaseInv
<1> QED
    BY <1>1, <1>2, <1>3, <1>4 DEF Calls

(* Every step keeps the times.                                             *)
LEMMA NextTime == TimeInv /\ [Next]_vars => TimeInv'
<1> SUFFICES ASSUME TimeInv, [Next]_vars PROVE TimeInv'
    OBVIOUS
<1>0. ClockInv' /\ ClockInv
    BY NextClock DEF TimeInv
<1>1. ASSUME UNCHANGED <<now, lock, pc, begun, since>>
      PROVE  TimeInv'
    BY <1>0, <1>1 DEF TimeInv, WaitInv, PhaseInv, FreeBy, Ahead, Budget, All
<1>2. CASE UNCHANGED vars \/ \E p \in Pushes : MoveTag(p)
    BY <1>1, <1>2 DEF vars, MoveTag, auth
<1>3. ASSUME NEW w \in Workers, FetchFails(w) \/ GetFails(w)
      PROVE  TimeInv'
    BY <1>0, <1>3, ReturnTime DEF FetchFails, GetFails, auth, Calls
<1>4. ASSUME NEW w \in Workers, NEW supported \in BOOLEAN, NEW valid \in BOOLEAN,
             Lookup(w, supported, valid)
      PROVE  TimeInv'
    <2>1. CASE Return(w, Err)
        BY <1>0, <1>4, <2>1, ReturnTime DEF Lookup, auth
    <2>2. CASE Call(w, "waiting") /\ begun' = [begun EXCEPT ![w] = now]
        <3>1. WaitInv'
            BY <1>0, <1>4, <2>2, LookupWait DEF Lookup, auth
        <3>2. PhaseInv'
            BY <1>0, <2>2 DEF Call, TimeInv, ClockInv, TypeInv, PhaseInv, Budget, All
        <3> QED
            BY <1>0, <3>1, <3>2 DEF TimeInv
    <2> QED
        BY <1>4, <2>1, <2>2 DEF Lookup
<1>5. ASSUME NEW w \in Workers, UseToken(w)
      PROVE  TimeInv'
    <2>1. /\ Call(w, "manifest") /\ pc[w] = "waiting" /\ lock = Free
          /\ UNCHANGED <<now, lock, begun>>
        BY <1>5 DEF UseToken, Turn, auth
    <2>2. now <= begun[w] + Budget(All)
        <3>1. now <= begun[w] + Budget(All - 1)
            BY <2>1, PhaseTimes
        <3>2. All - 1 \in Int /\ All \in Int /\ All - 1 <= All
            BY AllType
        <3>3. Budget(All - 1) <= Budget(All) /\ Budget(All - 1) \in Int /\ Budget(All) \in Int
            BY <3>2, BudgetFacts
        <3> QED
            BY <1>0, <3>1, <3>3 DEF ClockInv, TypeInv
    <2> QED
        BY <1>0, <2>1, <2>2, CallTime DEF Calls
<1>6. ASSUME NEW w \in Workers, FetchToken(w)
      PROVE  TimeInv'
    <2>1. WaitInv'
        BY <1>0, <1>6, FetchWait
    <2>2. now <= begun[w] + Budget(All - 1)
        BY <1>6, PhaseTimes DEF FetchToken, Turn
    <2>3. PhaseInv'
        BY <1>0, <1>6, <2>2 DEF FetchToken, Call, TimeInv, ClockInv, TypeInv, PhaseInv, Budget, All
    <2> QED
        BY <1>0, <2>1, <2>3 DEF TimeInv
<1>7. ASSUME NEW w \in Workers, NEW issued, NEW reported \in BOOLEAN,
             FetchAnswers(w, issued, reported)
      PROVE  TimeInv'
    <2>1. /\ Call(w, "manifest") /\ pc[w] = "fetching" /\ lock' = Free
          /\ UNCHANGED <<now, begun>>
        BY <1>7 DEF FetchAnswers
    <2>2. now <= begun[w] + Budget(All)
        BY <2>1, PhaseTimes
    <2> QED
        BY <1>0, <2>1, <2>2, CallTime DEF Calls
<1>8. ASSUME NEW w \in Workers, GotManifest(w) \/ GotIndexed(w) \/ GotConfig(w)
      PROVE  TimeInv'
    <2>1. pc[w] \in Calls /\ UNCHANGED <<now, lock>>
        BY <1>8 DEF GotManifest, GotIndexed, GotConfig, Calls, auth
    <2>2. ASSUME NEW r, Return(w, r) PROVE TimeInv'
        BY <1>0, <2>1, <2>2, ReturnTime DEF Calls
    <2>3. ASSUME NEW d, NEW c \in {"index", "config"}, Continue(w, d, c),
                 pc[w] = "manifest" \/ (pc[w] = "index" /\ c = "config")
          PROVE  TimeInv'
        <3>1. Call(w, c) /\ begun' = begun /\ pc[w] # "fetching" /\ c # "manifest"
            BY <2>3 DEF Continue
        <3>2. now <= begun[w] + Budget(All + 1) \/ (c = "config" /\ now <= begun[w] + Budget(All + 2))
            BY <2>3, PhaseTimes
        <3>3. /\ Budget(All + 1) <= Budget(All + 2)
              /\ Budget(All + 1) \in Int /\ Budget(All + 2) \in Int
            <4>1. All + 1 \in Int /\ All + 2 \in Int /\ All + 1 <= All + 2
                BY AllType
            <4> QED
                BY <4>1, BudgetFacts
        <3>4. now \in Int /\ begun[w] \in Int
            BY <1>0 DEF ClockInv, TypeInv
        <3>5. /\ c = "index" => now <= begun[w] + Budget(All + 1)
              /\ c = "config" => now <= begun[w] + Budget(All + 2)
            BY <3>2, <3>3, <3>4
        <3> QED
            BY <1>0, <2>1, <3>1, <3>5, CallTime DEF Calls
    <2>4. CASE GotManifest(w)
        BY <2>2, <2>3, <2>4 DEF GotManifest, ReadConfig
    <2>5. CASE GotIndexed(w)
        BY <2>2, <2>3, <2>5 DEF GotIndexed, ReadConfig
    <2>6. CASE GotConfig(w)
        BY <2>2, <2>6 DEF GotConfig
    <2> QED
        BY <1>8, <2>4, <2>5, <2>6
<1>9. CASE Tick
    <2>1. WaitInv'
        BY <1>0, <1>9, TickWait
    <2>2. PhaseInv'
        BY <1>9 DEF Tick, TimeInv, PhaseInv, Budget, All
    <2> QED
        BY <1>0, <2>1, <2>2 DEF TimeInv
<1>10. CASE Next
    BY <1>2, <1>3, <1>4, <1>5, <1>6, <1>7, <1>8, <1>9, <1>10 DEF Next
<1> QED
    BY <1>2, <1>10

(* A lookup that waits has waited for fetches of the others only, so that  *)
(* no lookup takes longer than its own four calls and one fetch of each    *)
(* other worker, however many workers there are and whichever calls hang.  *)
THEOREM LookupsBounded == Spec => []LookupBounded
<1>1. TimeInv => LookupBounded
    <2> SUFFICES ASSUME TimeInv, NEW w \in Workers, pc[w] # "idle"
                 PROVE  now - begun[w] <= (Cardinality(Workers) + 3) * CallTimeout
        BY DEF LookupBounded
    <2>1. now \in Nat /\ begun[w] \in Nat /\ pc[w] \in Label
        BY DEF TimeInv, ClockInv, TypeInv
    <2>2. /\ Budget(All - 1) <= Budget(All + 3) /\ Budget(All) <= Budget(All + 3)
          /\ Budget(All + 1) <= Budget(All + 3) /\ Budget(All + 2) <= Budget(All + 3)
          /\ Budget(All - 1) \in Int /\ Budget(All) \in Int /\ Budget(All + 1) \in Int
          /\ Budget(All + 2) \in Int /\ Budget(All + 3) \in Int
        <3>1. /\ All \in Int /\ All - 1 \in Int /\ All + 1 \in Int /\ All + 2 \in Int
              /\ All + 3 \in Int /\ All - 1 <= All + 3 /\ All <= All + 3
              /\ All + 1 <= All + 3 /\ All + 2 <= All + 3
            BY AllType
        <3> QED
            BY <3>1, BudgetFacts
    <2>3. pc[w] = "waiting" => now <= begun[w] + Budget(All - 1)
        <3> SUFFICES ASSUME pc[w] = "waiting" PROVE now <= begun[w] + Budget(All - 1)
            OBVIOUS
        <3>1. /\ begun[w] = since[w] /\ FreeBy \in Int /\ now <= FreeBy
              /\ FreeBy + Budget(Cardinality(Ahead(w))) <= since[w] + Budget(All - 1)
            BY FreeByType DEF TimeInv, WaitInv
        <3>2. Cardinality(Ahead(w)) \in Nat
            BY AheadType DEF TimeInv
        <3>3. Budget(Cardinality(Ahead(w))) \in Int /\ 0 <= Budget(Cardinality(Ahead(w)))
            BY <3>2, BudgetFacts
        <3> QED
            BY <2>1, <2>2, <3>1, <3>3
    <2>4. now <= begun[w] + Budget(All + 3)
        BY <2>1, <2>2, <2>3, PhaseTimes DEF Label, Calls
    <2>5. now - begun[w] <= Budget(All + 3)
        BY <2>1, <2>2, <2>4
    <2> QED
        BY <2>5 DEF Budget, All
<1> QED
    BY <1>1, InitTime, NextTime, PTL DEF Spec

=============================================================================
