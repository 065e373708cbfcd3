-------------------------- MODULE UpstreamRequest --------------------------
(***************************************************************************)
(* What becomes of one request between the two sockets of src/proxy.rs:    *)
(* read_http_request reads it (HttpReader.tla) and parses its head,        *)
(* handle_connection shows it to the module, and if that allows it         *)
(* build_upstream_request writes it anew for the upstream.                 *)
(*                                                                         *)
(* A path is a sequence of characters, of which "/" and "?" matter.  A     *)
(* header line is a name (in lower case, however it was spelled) and a     *)
(* value: a text for a length, the addresses of x-forwarded-for, anything  *)
(* for the others.  A body is the stretch of the client's bytes behind the *)
(* head, of some length.                                                   *)
(***************************************************************************)
EXTENDS HttpReader, SequencesExt

CONSTANTS
    Char,       \* characters of paths
    UrlPaths,   \* what follows the authority in the upstreams' URLs
    Authority,  \* host and port of the upstream
    ClientIp,   \* the address of the client
    MaxSize,    \* the limit on the upstream request, one unit for each
                \* character of its path, header line and byte of its body
    NumberIn,   \* str::parse::<usize>, of the texts that it reads
    Decimal,    \* a length as the gateway writes it
    None        \* the absent value of every Option

(* A line of the head with no colon in it *)
NoColon == <<"no colon">>

(* The lengths a body that is accepted can have *)
BodyLengths == 0 .. MaxBodySize + Chunk

VARIABLES
    base,       \* base_path of the site's upstream
    stage,      \* how far the request has come
    headers,    \* `headers`, a HashMap
    shown,      \* the RequestMeta the module is asked about
    out         \* the request written for the upstream

requestVars == <<stream, phase, got, body, base, stage, headers, shown, out>>

----------------------------------------------------------------------------
(* read_http_request, the parser *)

(* HashMap::insert replaces: the last line of a name is kept. *)
Kept(lines, name) ==
    lines[Max({k \in DOMAIN lines : lines[k][1] = name})][2]

HeadersOf(lines) ==
    [name \in {lines[k][1] : k \in DOMAIN lines} |-> Kept(lines, name)]

Has(h, name, value) == name \in DOMAIN h /\ h[name] = value

(* content_length: no header is 0 *)
Announced(h) ==
    IF "content-length" \in DOMAIN h THEN NumberIn[h["content-length"]] ELSE 0

HeadAccepted(s) ==
    /\ s.words = 3
    /\ s.http1
    /\ NoColon \notin Range(s.lines)
    /\ LET h == HeadersOf(s.lines)
       IN  /\ ~Has(h, "transfer-encoding", "chunked")
           /\ "content-length" \in DOMAIN h => h["content-length"] \in DOMAIN NumberIn

(* words: of the request line; http1: its version is HTTP/1.x; text: the   *)
(* lengths at which what the client sends behind the head is UTF-8.  What  *)
(* follows the authority begins with a slash.                              *)
ASSUME UpstreamAssumption ==
    /\ {"/", "?"} \subseteq Char
    /\ \A s \in Streams :
        /\ s.words \in Nat /\ s.http1 \in BOOLEAN /\ s.text \subseteq Nat /\ 0 \in s.text
        /\ s.path \in Seq(Char) \ {<< >>}
        /\ Len(s.lines) \in Nat /\ DOMAIN s.lines = 1 .. Len(s.lines)
        /\ s.parses = HeadAccepted(s)
        /\ s.parses => s.length = Announced(HeadersOf(s.lines))
    /\ \A p \in UrlPaths : p \in Seq(Char) /\ (p = << >> \/ Head(p) = "/")
    /\ DOMAIN Decimal = BodyLengths
    /\ \A n \in BodyLengths : Decimal[n] \in DOMAIN NumberIn /\ NumberIn[Decimal[n]] = n
    /\ \A t \in DOMAIN NumberIn : NumberIn[t] \in Nat
    /\ MaxSize \in Nat
    /\ None \notin Seq(Char) /\ None \notin Nat

Slash == <<"/">>

(* Upstream::parse: no path is "/", and one slash is taken from the end. *)
BasePathOf(path) ==
    IF path = << >> THEN Slash
    ELSE IF Len(path) > 1 /\ Last(path) = "/" THEN Front(path) ELSE path

RequestInit ==
    /\ Init
    /\ base \in {BasePathOf(p) : p \in UrlPaths}
    /\ stage = "reading"
    /\ headers = << >>
    /\ shown = None
    /\ out = None

(* The head is parsed when its end was read, before the body is. *)
Reading ==
    /\ Reads
    /\ headers' = IF phase = "header" /\ phase' \in {"body", "done"}
                  THEN HeadersOf(stream.lines) ELSE headers
    /\ UNCHANGED <<base, stage, shown, out>>

----------------------------------------------------------------------------
(* handle_connection *)

(* Where the query begins, or the end: split_once('?') *)
QueryMark(p) == Min({k \in DOMAIN p : p[k] = "?"} \cup {Len(p) + 1})

IsText == body \in stream.text

(* A body that is not UTF-8 is not shown. *)
Meta ==
    LET path == stream.path
        mark == QueryMark(path)
    IN  [path |-> SubSeq(path, 1, mark - 1),
         query |-> IF mark > Len(path) THEN None ELSE SubSeq(path, mark + 1, Len(path)),
         headers |-> headers,
         body |-> IF IsText THEN body ELSE None]

ShowToModule ==
    /\ stage = "reading"
    /\ phase = "done"
    /\ shown' = Meta
    /\ stage' = "allowed"
    /\ UNCHANGED <<vars, base, headers, out>>

----------------------------------------------------------------------------
(* build_upstream_request *)

(* Mutant of Dropped: the client's x-forwarded-for is copied too. *)
DroppedWithoutForwarded ==
    {"connection", "proxy-connection", "keep-alive", "te", "trailer",
     "transfer-encoding", "upgrade", "host"}

(* is_hop_by_hop, and what the gateway writes itself *)
Dropped ==
    {"connection", "proxy-connection", "keep-alive", "te", "trailer",
     "transfer-encoding", "upgrade", "host", "x-forwarded-for"}

Copied == {<<name, headers[name]>> : name \in DOMAIN headers \ Dropped}

Forwarded ==
    IF "x-forwarded-for" \in DOMAIN headers
    THEN Append(headers["x-forwarded-for"], ClientIp)
    ELSE <<ClientIp>>

(* Mutant of OwnLength: left to the client whenever it announced one. *)
OwnLengthUnlessAnnounced ==
    IF "content-length" \notin DOMAIN headers THEN {<<"content-length", Decimal[body]>>} ELSE {}

(* An empty body is given a length only if the client gave it none. *)
OwnLength ==
    IF body # 0 \/ "content-length" \notin DOMAIN headers
    THEN {<<"content-length", Decimal[body]>>} ELSE {}

Own == {<<"host", Authority>>, <<"x-forwarded-for", Forwarded>>, <<"connection", "close">>}
            \cup OwnLength

(* Mutant of MergedPath: no slash is put before what has none. *)
MergedPathUnrooted(incoming) ==
    IF base = Slash THEN incoming ELSE IF incoming = Slash THEN base ELSE base \o incoming

(* merge_upstream_path *)
MergedPath(incoming) ==
    LET rooted == IF Head(incoming) = "/" THEN incoming ELSE Slash \o incoming
    IN  IF base = Slash THEN rooted ELSE IF rooted = Slash THEN base ELSE base \o rooted

(* Lines are written one by one: what is copied and what is the gateway's  *)
(* own are two sets, so that the same line can be written twice.           *)
Built == [path |-> MergedPath(stream.path), copied |-> Copied, own |-> Own, body |-> body]

SizeOf(m) == Len(m.path) + Cardinality(m.copied) + Cardinality(m.own) + m.body

Build ==
    /\ stage = "allowed"
    /\ SizeOf(Built) <= MaxSize
    /\ out' = Built
    /\ stage' = "sent"
    /\ UNCHANGED <<vars, base, headers, shown>>

TooLarge ==
    /\ stage = "allowed"
    /\ SizeOf(Built) > MaxSize
    /\ stage' = "too_large"
    /\ UNCHANGED <<vars, base, headers, shown, out>>

RequestNext == Reading \/ ShowToModule \/ Build \/ TooLarge

RequestSpec == RequestInit /\ [][RequestNext]_requestVars

(* The task is run and the client goes on sending what it sends *)
FairRequestSpec == RequestSpec /\ WF_requestVars(Reading)

----------------------------------------------------------------------------
(* Properties *)

RequestTypeOK ==
    /\ TypeOK
    /\ stage \in {"reading", "allowed", "sent", "too_large"}
    /\ IF stage = "reading" THEN shown = None
       ELSE shown.path \in Seq(Char) /\ shown.query \in Seq(Char) \cup {None}
    /\ IF stage # "sent" THEN out = None
       ELSE out.path \in Seq(Char) /\ out.body \in Nat

(* Reading ends once the client has sent its request, or has closed. *)
ReaderEnds ==
    (Closes \/ stream.total >= BodyStart + stream.length)
        ~> phase \in Ended

(* The path and query the module was shown, put together again *)
ShownTarget ==
    shown.path \o (IF shown.query = None THEN << >> ELSE <<"?">> \o shown.query)

(* What the module allowed is what the upstream is asked: the path is the  *)
(* base, then the path and query shown, a slash put between if there is    *)
(* none; of the client's headers none that was not shown; the body shown.  *)
(* A body the module was not shown is forwarded all the same, but only one *)
(* that is not UTF-8, whether by itself or by what was read along with it. *)
InspectedIsForwarded ==
    stage = "sent" =>
        /\ Head(out.path) = "/"
        /\ \E joint \in {<< >>, Slash} :
            out.path = (IF base = Slash THEN << >> ELSE base) \o joint
                        \o (IF ShownTarget = Slash THEN << >> ELSE ShownTarget)
        /\ \A line \in out.copied : Has(shown.headers, line[1], line[2])
        /\ shown.body = IF out.body \in stream.text THEN out.body ELSE None

Sent == out.copied \cup out.own

LengthsSent == {line[2] : line \in {l \in Sent : l[1] = "content-length"}}

(* The upstream is always told the length of the body it is sent.  What    *)
(* else it is told of the length is what the client announced, which is    *)
(* the same number exactly if no byte behind the announced body came with  *)
(* the end of the head.                                                    *)
FramedByBody ==
    stage = "sent" =>
        /\ \E text \in LengthsSent : NumberIn[text] = out.body
        /\ (\A text \in LengthsSent : NumberIn[text] = out.body) <=>
                "content-length" \notin DOMAIN shown.headers \/ out.body = stream.length

(* No header reaches the upstream with two values, whatever the client     *)
(* repeats or claims of the gateway's own (host, x-forwarded-for,          *)
(* connection), but the length: with the client's text and the gateway's,  *)
(* if these differ because the body is longer than announced, or because   *)
(* the client did not write its number as the gateway does ("+2", "02").   *)
OneValuePerName ==
    stage = "sent" => \A l \in Sent, m \in Sent :
        l[1] = m[1] /\ l # m =>
            /\ l[1] = "content-length"
            /\ {l[2], m[2]} = {shown.headers["content-length"], Decimal[out.body]}
            /\ out.body > 0

(* The inductive invariant: the headers, what is shown and what is written *)
(* are made from what was read, and from nothing else.                     *)
RequestIInv ==
    /\ IInv
    /\ RequestTypeOK
    /\ base \in {BasePathOf(p) : p \in UrlPaths}
    /\ phase \in {"body", "done"} => headers = HeadersOf(stream.lines)
    /\ stage # "reading" => phase = "done" /\ shown = Meta
    /\ stage = "sent" => out = Built
============================================================================
