CONSTANTS
    Free = Free  NoToken = NoToken  NoDigest = NoDigest
    Workers = {w1, w2}
    CallTimeout = 1
    tokenSkew = 4
    tokenFallbackTTL = 2
    TokenLife = 7
    MaxDrift = 1
    MaxTime = 9
    Pushes = {"plain", "multi", "arm", "broken", "nested"}
    Document <- MCDocument
    ImagesOf <- MCImagesOf
    BadDigests = {"bad"}
SYMMETRY Symmetry
SPECIFICATION Spec
INVARIANTS TokenHonoured OneImage LookupBounded
PROPERTY OneFetchPerToken
