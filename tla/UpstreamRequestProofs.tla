------------------------ MODULE UpstreamRequestProofs ------------------------
(* What the upstream is asked, for every request a client can send however *)
(* it is cut into reads, every path of an upstream's URL, and every limit. *)
EXTENDS UpstreamRequest, HttpReaderProofs, SequenceTheorems, WellFoundedInduction

----------------------------------------------------------------------------
(* Least and greatest of a set of naturals *)

(* A nonempty set of naturals has a least element. *)
LEMMA Least ==
    ASSUME NEW S \in SUBSET Nat, S # {}
    PROVE  \E n \in S : \A m \in S : n <= m
<1> DEFINE R == OpToRel(<, Nat)
<1>1. IsWellFoundedOn(R, Nat)
    BY NatLessThanWellFounded
<1>2. \A m, k \in Nat : m < k => <<m, k>> \in R
    BY DEF OpToRel
<1> HIDE DEF R
<1>3. PICK n \in S : \A m \in S : ~(<<m, n>> \in R)
    BY <1>1, WFMin, Zenon
<1>4. \A m \in S : ~(m < n)
    BY <1>2, <1>3, Zenon
<1>5. n \in Nat /\ \A m \in S : m \in Nat
    OBVIOUS
<1> QED
    BY <1>4, <1>5

(* A nonempty set of naturals with a bound has a greatest element. *)
LEMMA Greatest ==
    ASSUME NEW S \in SUBSET Nat, S # {}, NEW b \in Nat, \A n \in S : n <= b
    PROVE  \E n \in S : \A m \in S : m <= n
<1> DEFINE T == {b - n : n \in S}
<1>1. T \in SUBSET Nat /\ T # {}
  <2>1. \A n \in S : b - n \in Nat
    OBVIOUS
  <2> QED
    BY <2>1
<1>2. PICK t \in T : \A u \in T : t <= u
    BY <1>1, Least
<1>3. PICK n \in S : t = b - n
    BY <1>2
<1>4. \A m \in S : b - n <= b - m
    BY <1>2, <1>3
<1>5. \A m \in S : m <= n
    BY <1>4
<1> QED
    BY <1>5

----------------------------------------------------------------------------
(* The helpers of the two functions *)

(* A slash, alone, is a path. *)
LEMMA SlashType ==
    Slash \in Seq(Char) \ {<< >>} /\ Len(Slash) = 1 /\ Slash[1] = "/" /\ Head(Slash) = "/"
<1>1. Slash \in Seq(Char) /\ Len(Slash) = 1 /\ Slash[1] = "/" /\ Head(Slash) = "/"
    BY UpstreamAssumption DEF Slash
<1>2. Slash # << >>
    BY <1>1
<1> QED
    BY <1>1, <1>2

(* Every base path begins with a slash. *)
LEMMA BasePathType ==
    ASSUME NEW p \in UrlPaths
    PROVE  BasePathOf(p) \in Seq(Char) \ {<< >>} /\ Head(BasePathOf(p)) = "/"
<1>1. p \in Seq(Char) /\ (p = << >> \/ Head(p) = "/")
    BY UpstreamAssumption
<1>2. CASE p = << >>
    BY <1>2, SlashType DEF BasePathOf
<1>3. CASE p # << >> /\ Len(p) > 1 /\ Last(p) = "/"
  <2> DEFINE b == SubSeq(p, 1, Len(p) - 1)
  <2>1. BasePathOf(p) = b
    BY <1>3 DEF BasePathOf, Front
  <2>2. b \in Seq(Char) /\ Len(b) = Len(p) - 1 /\ b[1] = p[1]
    BY <1>1, <1>3
  <2> HIDE DEF b
  <2>3. Len(b) # 0 /\ Head(b) = b[1] /\ Head(p) = p[1]
    BY <1>1, <1>3, <2>2
  <2> QED
    BY <1>1, <1>3, <2>1, <2>2, <2>3
<1>4. CASE p # << >> /\ ~(Len(p) > 1 /\ Last(p) = "/")
    BY <1>1, <1>4 DEF BasePathOf
<1> QED
    BY <1>2, <1>3, <1>4

(* The query begins behind the first question mark. *)
LEMMA QueryMarkType ==
    ASSUME NEW p \in Seq(Char)
    PROVE  /\ QueryMark(p) \in 1 .. Len(p) + 1
           /\ QueryMark(p) <= Len(p) => p[QueryMark(p)] = "?"
<1> DEFINE S == {k \in DOMAIN p : p[k] = "?"} \cup {Len(p) + 1}
<1>1. S \in SUBSET Nat /\ S # {} /\ \A k \in S : k \in 1 .. Len(p) + 1
    OBVIOUS
<1>2. \E k \in S : \A j \in S : k <= j
    BY <1>1, Least
<1>3. Min(S) \in S
    BY <1>2 DEF Min
<1>4. QueryMark(p) \in S
    BY <1>3 DEF QueryMark
<1> QED
    BY <1>1, <1>4

(* The path and the query, with the mark between them, are the target.     *)
LEMMA SplitAndJoined ==
    ASSUME NEW p \in Seq(Char), NEW mark, mark = QueryMark(p)
    PROVE  /\ SubSeq(p, 1, mark - 1) \in Seq(Char)
           /\ SubSeq(p, mark + 1, Len(p)) \in Seq(Char)
           /\ mark > Len(p) => SubSeq(p, 1, mark - 1) = p
           /\ ~(mark > Len(p)) =>
                SubSeq(p, 1, mark - 1) \o (<<"?">> \o SubSeq(p, mark + 1, Len(p))) = p
<1>1. mark \in 1 .. Len(p) + 1 /\ (mark <= Len(p) => p[mark] = "?")
    BY QueryMarkType
<1>2. SubSeq(p, 1, mark - 1) \in Seq(Char) /\ SubSeq(p, mark + 1, Len(p)) \in Seq(Char)
    BY <1>1
<1>3. CASE mark > Len(p)
  <2>1. mark - 1 = Len(p)
    BY <1>1, <1>3
  <2>2. SubSeq(p, 1, mark - 1) = p
    BY <2>1, SubSeqFull
  <2> QED
    BY <1>2, <1>3, <2>2
<1>4. CASE ~(mark > Len(p))
  <2>1. /\ mark \in 1 .. Len(p) /\ Len(p) \in mark .. Len(p)
        /\ mark - 1 \in 1 - 1 .. Len(p) /\ 1 \in 1 .. Len(p) + 1
        /\ Len(p) \in mark - 1 .. Len(p) /\ (mark - 1) + 1 = mark
    BY <1>1, <1>4
  <2>2. SubSeq(p, mark, Len(p)) = <<p[mark]>> \o SubSeq(p, mark + 1, Len(p))
    BY <2>1, SubSeqRecursiveFirst
  <2>3. SubSeq(p, 1, mark - 1) \o SubSeq(p, (mark - 1) + 1, Len(p)) = SubSeq(p, 1, Len(p))
    BY <2>1, ConcatAdjacentSubSeq, Zenon
  <2>4. SubSeq(p, 1, Len(p)) = p
    BY SubSeqFull
  <2>5. p[mark] = "?"
    BY <1>1, <2>1
  <2>6. SubSeq(p, 1, mark - 1) \o (<<"?">> \o SubSeq(p, mark + 1, Len(p))) = p
    BY <2>1, <2>2, <2>3, <2>4, <2>5, Zenon
  <2> QED
    BY <1>2, <1>4, <2>6
<1> QED
    BY <1>3, <1>4

(* What the module is shown of the target is all of it. *)
LEMMA MetaIsTarget ==
    ASSUME stream \in Streams, shown = Meta
    PROVE  /\ ShownTarget = stream.path
           /\ shown.path \in Seq(Char)
           /\ shown.query \in Seq(Char) \cup {None}
           /\ shown.headers = headers /\ shown.body = IF IsText THEN body ELSE None
<1> DEFINE p == stream.path
           mark == QueryMark(p)
<1>1. p \in Seq(Char) /\ None \notin Seq(Char)
    BY UpstreamAssumption
<1>2. /\ SubSeq(p, 1, mark - 1) \in Seq(Char)
      /\ SubSeq(p, mark + 1, Len(p)) \in Seq(Char)
      /\ mark > Len(p) => SubSeq(p, 1, mark - 1) = p
      /\ ~(mark > Len(p)) => SubSeq(p, 1, mark - 1) \o (<<"?">> \o SubSeq(p, mark + 1, Len(p))) = p
    BY <1>1, SplitAndJoined
<1>3. /\ shown.path = SubSeq(p, 1, mark - 1)
      /\ shown.query = IF mark > Len(p) THEN None ELSE SubSeq(p, mark + 1, Len(p))
      /\ shown.headers = headers /\ shown.body = IF IsText THEN body ELSE None
    BY DEF Meta
<1> HIDE DEF p, mark
<1>4. CASE mark > Len(p)
  <2>1. ShownTarget = p \o << >>
    BY <1>2, <1>3, <1>4 DEF ShownTarget
  <2>2. ShownTarget = p
    BY <1>1, <2>1
  <2> QED
    BY <1>1, <1>2, <1>3, <1>4, <2>2 DEF p
<1>5. CASE ~(mark > Len(p))
  <2>1. shown.query # None
    BY <1>1, <1>2, <1>3, <1>5
  <2>2. ShownTarget = p
    BY <1>2, <1>3, <1>5, <2>1 DEF ShownTarget
  <2> QED
    BY <1>1, <1>2, <1>3, <1>5, <2>2 DEF p
<1> QED
    BY <1>4, <1>5

(* What the module is shown is a path, and a query or none. *)
LEMMA MetaType ==
    ASSUME stream \in Streams
    PROVE  Meta.path \in Seq(Char) /\ Meta.query \in Seq(Char) \cup {None}
<1>1. stream.path \in Seq(Char)
    BY UpstreamAssumption
<1> QED
    BY <1>1, SplitAndJoined DEF Meta

(* The path that is asked for: the base, a slash where there is none, and  *)
(* the target, of which no more than a lone slash is left out.             *)
LEMMA MergedPathIs ==
    ASSUME base \in Seq(Char) \ {<< >>}, Head(base) = "/",
           NEW p \in Seq(Char) \ {<< >>}
    PROVE  /\ MergedPath(p) \in Seq(Char) /\ Head(MergedPath(p)) = "/"
           /\ \E joint \in {<< >>, Slash} :
                MergedPath(p) = (IF base = Slash THEN << >> ELSE base) \o joint
                                    \o (IF p = Slash THEN << >> ELSE p)
<1> DEFINE rooted == IF Head(p) = "/" THEN p ELSE Slash \o p
<1>1. MergedPath(p) = IF base = Slash THEN rooted ELSE IF rooted = Slash THEN base ELSE base \o rooted
    BY DEF MergedPath
<1>2. Slash \in Seq(Char) /\ Len(Slash) = 1 /\ Slash[1] = "/" /\ Head(Slash) = "/"
    BY SlashType
<1>3. /\ Slash \o p \in Seq(Char) /\ Len(Slash \o p) = 1 + Len(p)
      /\ (Slash \o p)[1] = "/" /\ Head(Slash \o p) = "/"
  <2> HIDE DEF rooted
  <2>0. p \in Seq(Char) /\ 1 \in 1 .. 1 + Len(p)
    OBVIOUS
  <2>1. Slash \o p \in Seq(Char) /\ Len(Slash \o p) = 1 + Len(p)
    BY <1>2, <2>0, ConcatProperties
  <2>3. (Slash \o p)[1] = "/"
    <3>1. \A k \in 1 .. Len(Slash) + Len(p) :
            (Slash \o p)[k] = IF k <= Len(Slash) THEN Slash[k] ELSE p[k - Len(Slash)]
        BY <1>2, <2>0, ConcatProperties, Zenon
    <3> QED
        BY <1>2, <2>0, <3>1
  <2>2. Head(Slash \o p) = (Slash \o p)[1]
    BY <2>1
  <2> QED
    BY <2>1, <2>2, <2>3
<1>4. rooted \in Seq(Char) \ {<< >>} /\ Head(rooted) = "/"
    BY <1>3
<1>5. rooted = Slash <=> p = Slash
  <2>1. Len(p) > 0
    OBVIOUS
  <2>2. Slash \o p # Slash
    BY <1>2, <1>3, <2>1
  <2> QED
    BY <1>2, <2>2
<1>6. rooted = << >> \o p \/ rooted = Slash \o p
    OBVIOUS
<1> HIDE DEF rooted
<1>7. MergedPath(p) \in Seq(Char) /\ Head(MergedPath(p)) = "/"
  <2>1. base \o rooted \in Seq(Char) /\ Head(base \o rooted) = Head(base)
    BY <1>4
  <2> QED
    BY <1>1, <1>4, <2>1
<1>8. CASE base = Slash /\ p = Slash
  <2>1. MergedPath(p) = << >> \o Slash \o << >>
    BY <1>1, <1>2, <1>5, <1>8
  <2> QED
    BY <1>7, <1>8, <2>1
<1>9. CASE base = Slash /\ p # Slash
  <2>1. \E joint \in {<< >>, Slash} : rooted = << >> \o joint \o p
    BY <1>2, <1>6
  <2> QED
    BY <1>1, <1>7, <1>9, <2>1
<1>10. CASE base # Slash /\ p = Slash
  <2>1. MergedPath(p) = base \o << >> \o << >>
    BY <1>1, <1>5, <1>10
  <2> QED
    BY <1>7, <1>10, <2>1
<1>11. CASE base # Slash /\ p # Slash
  <2>1. MergedPath(p) = base \o rooted
    BY <1>1, <1>5, <1>11
  <2>2. \E joint \in {<< >>, Slash} : base \o rooted = base \o joint \o p
    <3>1. base \o (<< >> \o p) = (base \o << >>) \o p /\ base \o (Slash \o p) = (base \o Slash) \o p
        BY <1>2, ConcatAssociative
    <3> QED
        BY <1>6, <3>1
  <2> QED
    BY <1>7, <1>11, <2>1, <2>2
<1> QED
    BY <1>8, <1>9, <1>10, <1>11

----------------------------------------------------------------------------
(* What is known of the request at each point *)

(* At the start nothing is shown or written. *)
LEMMA RequestInitInv == RequestInit => RequestIInv
<1> SUFFICES ASSUME RequestInit PROVE RequestIInv
    OBVIOUS
<1>1. IInv /\ phase = "header"
    BY InitInv DEF RequestInit, Init
<1>2. TypeOK
    BY <1>1 DEF IInv
<1> QED
    BY <1>1, <1>2 DEF RequestInit, RequestTypeOK, RequestIInv

(* What is read, shown and written stays as it is if nothing changes it. *)
LEMMA SameRequest ==
    ASSUME UNCHANGED <<stream, body, base, headers>>
    PROVE  UNCHANGED <<HeadersOf(stream.lines), Meta, Built>>
BY DEF HeadersOf, Kept, Meta, IsText, Built, MergedPath, Copied, Own, Forwarded, OwnLength

(* A read of the reader keeps the invariant: nothing is read once the      *)
(* module was asked, and the headers are there once the head is read.      *)
LEMMA ReadingInv == ASSUME RequestIInv, Reading PROVE RequestIInv'
<1>1. /\ Reads /\ UNCHANGED <<base, stage, shown, out>>
      /\ headers' = IF phase = "header" /\ phase' \in {"body", "done"}
                    THEN HeadersOf(stream.lines) ELSE headers
    BY DEF Reading
<1>2. phase \in {"header", "body"} /\ stream' = stream
    BY <1>1 DEF Reads, RejectHeader, ReadHeader, ReadBody, ReadEof
<1>3. stage = "reading"
    BY <1>2 DEF RequestIInv
<1>4. IInv'
    BY <1>1, StepInv DEF RequestIInv, Next
<1>5. RequestTypeOK'
  <2>1. TypeOK'
    BY <1>4 DEF IInv
  <2>2. shown = None /\ out = None
    BY <1>3 DEF RequestIInv, RequestTypeOK
  <2> QED
    BY <1>1, <1>3, <2>1, <2>2 DEF RequestTypeOK
<1>6. phase' \in {"body", "done"} => headers' = HeadersOf(stream.lines)
    BY <1>1, <1>2 DEF RequestIInv
<1>7. HeadersOf(stream.lines)' = HeadersOf(stream.lines)
    BY <1>2 DEF HeadersOf, Kept
<1>8. base' \in {BasePathOf(p) : p \in UrlPaths}
    BY <1>1 DEF RequestIInv
<1> QED
    BY <1>1, <1>3, <1>4, <1>5, <1>6, <1>7, <1>8 DEF RequestIInv

(* A step that leaves the reader alone keeps what is known of it. *)
LEMMA ReaderStays == ASSUME IInv, UNCHANGED vars PROVE IInv' /\ TypeOK'
<1>1. IInv'
    BY StepInv
<1> QED
    BY <1>1 DEF IInv

(* ShowToModule keeps the invariant. *)
LEMMA ShowInv == ASSUME RequestIInv, ShowToModule PROVE RequestIInv'
<1>1. /\ phase = "done" /\ stage' = "allowed" /\ shown' = Meta
      /\ UNCHANGED vars /\ UNCHANGED <<base, headers, out>>
      /\ stage = "reading" /\ IInv
    BY DEF ShowToModule, RequestIInv
<1>2. IInv' /\ TypeOK'
    BY <1>1, ReaderStays
<1>3. UNCHANGED <<stream, phase, body>>
    BY <1>1 DEF vars
<1>4. UNCHANGED <<HeadersOf(stream.lines), Meta, Built>>
    BY <1>1, <1>3, SameRequest
<1>5. RequestTypeOK'
  <2>1. stream \in Streams
    BY <1>1 DEF IInv, TypeOK
  <2>2. shown'.path \in Seq(Char) /\ shown'.query \in Seq(Char) \cup {None}
    BY <1>1, <2>1, MetaType
  <2>3. out = None
    BY <1>1 DEF RequestIInv, RequestTypeOK
  <2> QED
    BY <1>1, <1>2, <2>2, <2>3 DEF RequestTypeOK
<1> QED
    BY <1>1, <1>2, <1>3, <1>4, <1>5 DEF RequestIInv

(* What is written begins with a slash, and is a path. *)
LEMMA BuiltPath ==
    ASSUME RequestIInv
    PROVE  /\ stream \in Streams /\ stream.path \in Seq(Char) \ {<< >>}
           /\ base \in Seq(Char) \ {<< >>} /\ Head(base) = "/"
<1>1. stream \in Streams
    BY DEF RequestIInv, IInv, TypeOK
<1> QED
    BY <1>1, BasePathType, UpstreamAssumption DEF RequestIInv

(* Build keeps the invariant. *)
LEMMA BuildInv == ASSUME RequestIInv, Build PROVE RequestIInv'
<1>1. /\ stage = "allowed" /\ stage' = "sent" /\ out' = Built
      /\ UNCHANGED vars /\ UNCHANGED <<base, headers, shown>>
      /\ phase = "done" /\ IInv
    BY DEF Build, RequestIInv
<1>2. IInv' /\ TypeOK'
    BY <1>1, ReaderStays
<1>3. UNCHANGED <<stream, phase, body>>
    BY <1>1 DEF vars
<1>4. UNCHANGED <<HeadersOf(stream.lines), Meta, Built>>
    BY <1>1, <1>3, SameRequest
<1>5. RequestTypeOK'
  <2>1. MergedPath(stream.path) \in Seq(Char)
    BY BuiltPath, MergedPathIs
  <2>2. body \in Nat
    BY <1>1, Typed DEF Sizes
  <2>3. out'.path \in Seq(Char) /\ out'.body \in Nat
    BY <1>1, <2>1, <2>2 DEF Built
  <2>4. shown.path \in Seq(Char) /\ shown.query \in Seq(Char) \cup {None}
    BY <1>1 DEF RequestIInv, RequestTypeOK
  <2> QED
    BY <1>1, <1>2, <2>3, <2>4 DEF RequestTypeOK
<1> QED
    BY <1>1, <1>2, <1>3, <1>4, <1>5 DEF RequestIInv

(* A step that changes nothing but, perhaps, the stage, to too_large *)
LEMMA StayInv ==
    ASSUME RequestIInv, UNCHANGED vars, UNCHANGED <<base, headers, shown, out>>,
           stage' = stage \/ (stage = "allowed" /\ stage' = "too_large")
    PROVE  RequestIInv'
<1>1. IInv' /\ TypeOK'
    BY ReaderStays DEF RequestIInv
<1>2. UNCHANGED <<stream, phase, body>>
    BY DEF vars
<1>3. UNCHANGED <<HeadersOf(stream.lines), Meta, Built>>
    BY <1>2, SameRequest
<1>4. RequestTypeOK'
    BY <1>1 DEF RequestIInv, RequestTypeOK
<1> QED
    BY <1>1, <1>2, <1>3, <1>4 DEF RequestIInv

(* Every step keeps the invariant. *)
LEMMA RequestStepInv == RequestIInv /\ [RequestNext]_requestVars => RequestIInv'
<1> SUFFICES ASSUME RequestIInv, [RequestNext]_requestVars PROVE RequestIInv'
    OBVIOUS
<1>1. CASE TooLarge
    BY <1>1, StayInv DEF TooLarge
<1>2. CASE UNCHANGED requestVars
  <2>1. UNCHANGED vars /\ UNCHANGED <<base, headers, shown, out>> /\ stage' = stage
    BY <1>2 DEF requestVars, vars
  <2> QED
    BY <2>1, StayInv
<1> QED
    BY <1>1, <1>2, ReadingInv, ShowInv, BuildInv DEF RequestNext

(* The inductive invariant of a request holds always. *)
THEOREM RequestInvariance == RequestSpec => []RequestIInv
BY RequestInitInv, RequestStepInv, PTL DEF RequestSpec

(* The reader of a request behaves as the reader alone does, whatever      *)
(* becomes of what it has read: all that is proved of Spec holds of it.    *)
THEOREM ReaderIsPart == RequestSpec => Spec
<1>1. RequestInit => Init
    BY DEF RequestInit
<1>2. [RequestNext]_requestVars => [Next]_vars
    BY DEF RequestNext, Reading, ShowToModule, Build, TooLarge, requestVars, vars, Next
<1> QED
    BY <1>1, <1>2, PTL DEF RequestSpec, Spec

(* The module is shown a path, and a query or none; the upstream is sent a *)
(* path and a body.                                                        *)
THEOREM RequestTypeCorrect == RequestSpec => []RequestTypeOK
<1>1. RequestIInv => RequestTypeOK
    BY DEF RequestIInv
<1> QED
    BY <1>1, RequestInvariance, PTL

(* Whatever is requested, the upstream is asked for the path and query the *)
(* module allowed, under the site's base, and for none that begins without *)
(* a slash; no header of the client's reaches it that was not shown; and   *)
(* the body it is sent was shown, unless it is not UTF-8.                  *)
THEOREM WhatIsShownIsSent == RequestSpec => []InspectedIsForwarded
<1>1. RequestIInv => InspectedIsForwarded
  <2> SUFFICES ASSUME RequestIInv, stage = "sent"
               PROVE  /\ Head(out.path) = "/"
                      /\ \E joint \in {<< >>, Slash} :
                            out.path = (IF base = Slash THEN << >> ELSE base) \o joint
                                        \o (IF ShownTarget = Slash THEN << >> ELSE ShownTarget)
                      /\ \A line \in out.copied : Has(shown.headers, line[1], line[2])
                      /\ shown.body = IF out.body \in stream.text THEN out.body ELSE None
    BY DEF InspectedIsForwarded
  <2>1. /\ out.path = MergedPath(stream.path) /\ out.copied = Copied /\ out.body = body
        /\ shown = Meta
    BY DEF RequestIInv, Built
  <2>2. /\ ShownTarget = stream.path /\ shown.headers = headers
        /\ shown.body = IF IsText THEN body ELSE None
    BY <2>1, BuiltPath, MetaIsTarget
  <2>3. \A line \in out.copied : Has(shown.headers, line[1], line[2])
    BY <2>1, <2>2 DEF Copied, Has
  <2>4. shown.body = IF out.body \in stream.text THEN out.body ELSE None
    BY <2>1, <2>2 DEF IsText
  <2> QED
    BY <2>1, <2>2, <2>3, <2>4, BuiltPath, MergedPathIs
<1> QED
    BY <1>1, RequestInvariance, PTL

(* What is copied, and what the gateway adds, of the length of the body *)
LEMMA SentLines ==
    ASSUME RequestIInv, stage = "sent"
    PROVE  /\ Sent = Copied \cup Own /\ out.body = body /\ shown.headers = headers
           /\ stream.length \in Nat /\ body >= stream.length
           /\ body \in Nat /\ Decimal[body] \in DOMAIN NumberIn /\ NumberIn[Decimal[body]] = body
           /\ "content-length" \in DOMAIN headers =>
                NumberIn[headers["content-length"]] = stream.length
           /\ "content-length" \notin DOMAIN headers => stream.length = 0
<1>1. /\ Sent = Copied \cup Own /\ out.body = body /\ shown.headers = headers
      /\ phase = "done" /\ headers = HeadersOf(stream.lines) /\ IInv
    BY DEF RequestIInv, Built, Meta, Sent
<1>2. stream \in Streams /\ stream.length \in Nat /\ body \in Nat /\ Sizes
    BY <1>1, Typed DEF Sizes
<1>3. body >= stream.length /\ stream.parses
    BY <1>1 DEF IInv, ReadSoFar, HeadParses
<1>4. stream.length = Announced(headers)
    BY <1>1, <1>2, <1>3, UpstreamAssumption
<1>5. body \in BodyLengths
    BY <1>1, <1>2 DEF IInv, TypeOK, BodyLengths, Sizes
<1>6. Decimal[body] \in DOMAIN NumberIn /\ NumberIn[Decimal[body]] = body
    BY <1>5, UpstreamAssumption
<1> QED
    BY <1>1, <1>2, <1>3, <1>4, <1>6 DEF Announced

(* The values of one line, and of none *)
LEMMA LineValues ==
    /\ {line[2] : line \in {}} = {}
    /\ \A v : {line[2] : line \in {<<"content-length", v>>}} = {v}
<1>1. {line[2] : line \in {}} = {}
    OBVIOUS
<1>2. ASSUME NEW v PROVE {line[2] : line \in {<<"content-length", v>>}} = {v}
    OBVIOUS
<1> QED
    BY <1>1, <1>2

(* Every request is framed: the upstream is always told the length of the  *)
(* body it is sent, and is told another only with the client's own header, *)
(* when bytes behind the announced body came with the end of the head.     *)
THEOREM SentIsFramed == RequestSpec => []FramedByBody
<1>1. RequestIInv => FramedByBody
  <2> SUFFICES ASSUME RequestIInv, stage = "sent"
               PROVE  /\ \E text \in LengthsSent : NumberIn[text] = out.body
                      /\ (\A text \in LengthsSent : NumberIn[text] = out.body) <=>
                            "content-length" \notin DOMAIN shown.headers \/ out.body = stream.length
    BY DEF FramedByBody
  <2> DEFINE Cl == headers["content-length"]
             Given == "content-length" \in DOMAIN headers
  <2>1. /\ Sent = Copied \cup Own /\ out.body = body /\ shown.headers = headers
        /\ stream.length \in Nat /\ body >= stream.length
        /\ body \in Nat /\ NumberIn[Decimal[body]] = body
        /\ Given => NumberIn[Cl] = stream.length
        /\ ~Given => stream.length = 0
    BY SentLines
  <2>2. LengthsSent = (IF Given THEN {Cl} ELSE {})
                        \cup (IF body # 0 \/ ~Given THEN {Decimal[body]} ELSE {})
    <3>1. {l \in Copied : l[1] = "content-length"}
            = IF Given THEN {<<"content-length", Cl>>} ELSE {}
        BY DEF Copied, Dropped
    <3>2. {l \in Own : l[1] = "content-length"}
            = IF body # 0 \/ ~Given THEN {<<"content-length", Decimal[body]>>} ELSE {}
        BY DEF Own, OwnLength
    <3>3. {l \in Sent : l[1] = "content-length"}
            = {l \in Copied : l[1] = "content-length"} \cup {l \in Own : l[1] = "content-length"}
        BY <2>1
    <3> DEFINE A == {l \in Copied : l[1] = "content-length"}
               B == {l \in Own : l[1] = "content-length"}
    <3>4. LengthsSent = {line[2] : line \in A} \cup {line[2] : line \in B}
        BY <3>3, Zenon DEF LengthsSent
    <3>5. {line[2] : line \in A} = IF Given THEN {Cl} ELSE {}
      <4> HIDE DEF Cl, Given
      <4>1. CASE Given
        BY <3>1, <4>1, LineValues
      <4>2. CASE ~(Given)
        BY <3>1, <4>2, LineValues
      <4> QED
        BY <4>1, <4>2
    <3>6. {line[2] : line \in B} = IF body # 0 \/ ~Given THEN {Decimal[body]} ELSE {}
      <4> HIDE DEF Cl, Given
      <4>1. CASE body # 0 \/ ~Given
        BY <3>2, <4>1, LineValues
      <4>2. CASE ~(body # 0 \/ ~Given)
        BY <3>2, <4>2, LineValues
      <4> QED
        BY <4>1, <4>2
    <3> HIDE DEF Cl, Given, A, B
    <3> QED
        BY <3>4, <3>5, <3>6
  <2> HIDE DEF Cl
  <2>3. CASE Given
    BY <2>1, <2>2, <2>3
  <2>4. CASE ~Given
    BY <2>1, <2>2, <2>4
  <2> QED
    BY <2>3, <2>4
<1> QED
    BY <1>1, RequestInvariance, PTL

(* No client can have a header reach the upstream with two values, or with *)
(* one of its own where the gateway writes it, but the length: that can    *)
(* have the client's text and the gateway's.                               *)
THEOREM HeadersAreUnambiguous == RequestSpec => []OneValuePerName
<1>1. RequestIInv => OneValuePerName
  <2> SUFFICES ASSUME RequestIInv, stage = "sent", NEW l \in Sent, NEW m \in Sent,
                      l[1] = m[1], l # m
               PROVE  /\ l[1] = "content-length"
                      /\ {l[2], m[2]} = {shown.headers["content-length"], Decimal[out.body]}
                      /\ out.body > 0
    BY DEF OneValuePerName
  <2>1. /\ Sent = Copied \cup Own /\ out.body = body /\ shown.headers = headers
        /\ body \in Nat
    BY SentLines
  <2>2. ~(l \in Copied /\ m \in Copied)
    BY DEF Copied
  <2>3. ~(l \in Own /\ m \in Own)
    BY DEF Own, OwnLength
  <2>4. ASSUME NEW c \in Copied, NEW o \in Own, c[1] = o[1], c # o
        PROVE  /\ c[1] = "content-length" /\ c[2] = headers["content-length"]
               /\ o[2] = Decimal[body] /\ body > 0
    <3>1. /\ c[1] \in DOMAIN headers \ Dropped /\ c = <<c[1], headers[c[1]]>>
        BY DEF Copied
    <3>2. o \in OwnLength
        BY <2>4, <3>1 DEF Own, Dropped
    <3>3. /\ o = <<"content-length", Decimal[body]>>
          /\ body # 0 \/ "content-length" \notin DOMAIN headers
        BY <3>2 DEF OwnLength
    <3> QED
        BY <2>1, <2>4, <3>1, <3>3
  <2>5. CASE l \in Copied /\ m \in Own
    BY <2>1, <2>4, <2>5
  <2>6. CASE m \in Copied /\ l \in Own
    BY <2>1, <2>4, <2>6
  <2> QED
    BY <2>1, <2>2, <2>3, <2>5, <2>6
<1> QED
    BY <1>1, RequestInvariance, PTL
============================================================================
