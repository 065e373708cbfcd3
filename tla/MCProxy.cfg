\* Two sites under two profiles, two connections, one worker: what is served,
\* and what still ends when peers are silent, a listener fails or a site cannot
\* be bound.
CONSTANTS
    p = p
    q = q
    c1 = c1
    c2 = c2
    benign = benign
    hostile = hostile
    text = text
    binary = binary
    Profile = {p, q}
    ReqHead = {benign, hostile}
    ReqBody = {text, binary}
    TextBody = {text}
    None = None
    Verdict <- MCVerdict
    NumSites = 2
    ProfileOf <- MCProfileOf
    Conn = {c1, c2}
    MaxChunks = 2
    Workers = 1
SPECIFICATION FairSpec
INVARIANTS
    ForwardedOnlyIfAllowed
    ResponseProvenance
    CompleteRelay
PROPERTIES
    ImplementsWaf
    IsolatedProgress
    FailureStopsAll
\* The process exits, and the model has finitely many connections to serve.
CHECK_DEADLOCK FALSE
