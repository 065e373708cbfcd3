------------------------ MODULE MCUpstreamRequest ------------------------
(* For the reader, a head around the limit, a terminator cut at every      *)
(* place, a body shorter and longer than a piece, and bytes missing or     *)
(* left over at the end.  For the rest, all short paths with few headers,  *)
(* few paths with every two headers, and the heads that are refused.       *)
EXTENDS UpstreamRequest

MCChar == {"/", "?", "a", "b"}

MCDecimal == [n \in BodyLengths |->
    <<"0", "1", "2", "3", "4", "5", "6", "7", "8", "9">>[n + 1]]

MCNumberIn == [t \in Range(MCDecimal) \cup {"02", "+2", "00"} |->
    CASE t \in {"02", "+2"} -> 2 [] t = "00" -> 0
      [] OTHER -> CHOOSE n \in BodyLengths : MCDecimal[n] = t]

Line == {
    <<"content-length", "0">>, <<"content-length", "00">>, <<"content-length", "2">>,
    <<"content-length", "02">>, <<"content-length", "+2">>, <<"content-length", "5">>,
    <<"content-length", "-2">>,
    <<"transfer-encoding", "chunked">>, <<"transfer-encoding", "gzip">>,
    <<"x-forwarded-for", << >> >>, <<"x-forwarded-for", <<"claimed">> >>,
    <<"host", "site">>, <<"connection", "keep-alive">>, <<"te", "trailers">>,
    <<"cookie", "one">>, <<"cookie", "two">>,
    NoColon }

Repeated == {<<"content-length", "2">>, <<"content-length", "+2">>, <<"content-length", "0">>, <<"cookie", "one">>}

UpTo(n, S) == UNION {[1 .. k -> S] : k \in 0 .. n}

Lengths(lines) == {k \in DOMAIN lines : lines[k][1] = "content-length" /\ lines[k][2] \in DOMAIN NumberIn}

LengthRead(lines) == IF Lengths(lines) = {} THEN 0 ELSE NumberIn[lines[Max(Lengths(lines))][2]]

(* A stream whose head says that; the rest of it is behind the body. *)
Stream(head, words, http1, path, lines, total, closes, text) ==
    LET s == [head |-> head, words |-> words, http1 |-> http1, path |-> path, lines |-> lines,
              total |-> total, closes |-> closes, text |-> text, length |-> LengthRead(lines)]
    IN  [f \in DOMAIN s \cup {"parses"} |-> IF f = "parses" THEN HeadAccepted(s) ELSE s[f]]

Cuts ==
    {Stream(head, words, TRUE, Slash, << <<"content-length", Decimal[length]>> >>, total, closes, BodyLengths) :
        head \in 0 .. 12, words \in {2, 3}, length \in 0 .. 5, total \in 0 .. 23, closes \in BOOLEAN}

MCCuts == {s \in Cuts : s.total <= s.head + 4 + s.length + 2 /\ (s.parses \/ s.length = 0)}

Request(words, http1, path, lines, rest, text) ==
    Stream(0, words, http1, path, lines, 4 + LengthRead(lines) + rest, FALSE, text)

MCRequests ==
    {Request(3, TRUE, p, l, 0, {0, 2}) : p \in UpTo(4, MCChar \ {"b"}) \ {<< >>}, l \in UpTo(1, Line)}
    \cup {Request(3, TRUE, p, l, r, {0, 2}) : p \in {<<"/">>, <<"a">>}, l \in UpTo(2, Line), r \in {0, 1}}
    \cup {Request(3, TRUE, Slash, l, r, t) : l \in UpTo(3, Repeated), r \in {0, 1}, t \in {{0}, {0, 1, 2, 3}}}
    \cup {Request(2, TRUE, Slash, << >>, 0, {0}), Request(4, TRUE, Slash, << >>, 0, {0}),
           Request(3, FALSE, Slash, << >>, 0, {0})}

MCStreams == MCCuts \cup MCRequests

MCUrlPaths == {<< >>, <<"/">>, <<"/", "b">>, <<"/", "b", "/">>, <<"/", "b", "/", "/">>}
============================================================================
