---------------------------- MODULE HttpReader ----------------------------
(***************************************************************************)
(* read_http_request of src/proxy.rs: a request is put together from reads *)
(* that return any number of the bytes the client sends, at least one and  *)
(* at most the room they are given.  What matters of the bytes is where    *)
(* they lie: the head, its terminator "\r\n\r\n", the body and whatever    *)
(* the client sends after it.                                              *)
(***************************************************************************)
EXTENDS Integers

CONSTANTS
    Streams,        \* what a client may send
    MaxHeaderSize,  \* MAX_HEADER_SIZE
    MaxBodySize,    \* MAX_BODY_SIZE
    Chunk           \* size of the buffer a piece of the head is read into

(* head: bytes before the terminator; parses: the head passes every check  *)
(* of the parser but the size of the body; length: its content-length;     *)
(* total: all the client sends; closes: and then it closes its side.  What *)
(* the head says is in UpstreamRequest.tla.                                *)
ASSUME ReaderAssumption ==
    /\ \A s \in Streams :
        /\ s.head \in Nat /\ s.length \in Nat /\ s.total \in Nat
        /\ s.parses \in BOOLEAN /\ s.closes \in BOOLEAN
    /\ MaxHeaderSize \in Nat
    /\ MaxBodySize \in Nat
    /\ Chunk \in Nat \ {0}

VARIABLES
    stream,     \* what this client sends
    phase,      \* where the reader is
    got,        \* bytes it has taken from the socket
    body        \* length of `body`

vars == <<stream, phase, got, body>>

Errors == {"head_too_large", "malformed", "body_too_large", "client_closed"}
Ended == {"done"} \cup Errors
Phase == {"header", "body"} \cup Ended

TypeOK ==
    /\ stream \in Streams
    /\ phase \in Phase
    /\ got \in 0 .. stream.total
    /\ body \in {n \in Nat : n <= MaxBodySize \/ n < Chunk}

Init ==
    /\ stream \in Streams
    /\ phase = "header"
    /\ got = 0
    /\ body = 0

BodyStart == stream.head + 4
HeadParses == stream.parses
Closes == stream.closes

----------------------------------------------------------------------------
(* A read into a buffer of that size *)
Read(n, room) ==
    /\ n <= room
    /\ n <= stream.total - got
    /\ got' = got + n

(* Mutant of HeaderTooLong: the size of the head is not checked. *)
HeaderTooLongNever(len) == FALSE

(* Tested before a piece is read, never after *)
HeaderTooLong(len) == len > MaxHeaderSize

RejectHeader ==
    /\ phase = "header"
    /\ HeaderTooLong(got)
    /\ phase' = "head_too_large"
    /\ UNCHANGED <<stream, got, body>>

(* Mutant of Surplus: the terminator is taken for body. *)
SurplusWithTerminator(len) == IF len > stream.head THEN len - stream.head ELSE 0

(* What was read past the terminator: saturating_sub, and then all of it *)
Surplus(len) == IF len > BodyStart THEN len - BodyStart ELSE 0

(* Mutant of BodyComplete: one byte too many is waited for. *)
BodyCompleteLate(len) == len > stream.length

BodyComplete(len) == len >= stream.length

(* Mutant of Admits: the size of the body is not checked. *)
AdmitsAnyBody == TRUE

Admits == stream.length <= MaxBodySize

(* find_header_end finds the terminator once all of it is in the buffer,   *)
(* however it was cut up; the head is parsed, and `body` starts with what  *)
(* came along with it.                                                     *)
ReadHeader(n) ==
    /\ phase = "header"
    /\ ~HeaderTooLong(got)
    /\ Read(n, Chunk)
    /\ \/ /\ got' < BodyStart
          /\ UNCHANGED <<phase, body>>
       \/ /\ got' >= BodyStart /\ ~HeadParses
          /\ phase' = "malformed"
          /\ UNCHANGED body
       \/ /\ got' >= BodyStart /\ HeadParses /\ ~Admits
          /\ phase' = "body_too_large"
          /\ UNCHANGED body
       \/ /\ got' >= BodyStart /\ HeadParses /\ Admits
          /\ body' = Surplus(got')
          /\ phase' = IF BodyComplete(body') THEN "done" ELSE "body"
    /\ UNCHANGED stream

(* Mutant of BodyRoom: the body is read by the same chunk as the head. *)
BodyRoomChunk == Chunk

(* No more is read than the body lacks *)
BodyRoom == stream.length - body

ReadBody(n) ==
    /\ phase = "body"
    /\ Read(n, BodyRoom)
    /\ body' = body + n
    /\ phase' = IF BodyComplete(body') THEN "done" ELSE "body"
    /\ UNCHANGED stream

(* A read of no bytes: the client has closed *)
ReadEof ==
    /\ phase \in {"header", "body"}
    /\ phase = "header" => ~HeaderTooLong(got)
    /\ got = stream.total
    /\ Closes
    /\ phase' = "client_closed"
    /\ UNCHANGED <<stream, got, body>>

Reads ==
    \/ RejectHeader
    \/ \E n \in 1 .. Chunk : ReadHeader(n)
    \/ \E n \in 1 .. stream.length + Chunk : ReadBody(n)
    \/ ReadEof

Next == Reads

Spec == Init /\ [][Next]_vars

----------------------------------------------------------------------------
(* Properties *)

HeadArrives == stream.total >= BodyStart

(* What the bytes deserve, the length of the head apart *)
Deserved ==
    CASE HeadArrives /\ ~HeadParses -> "malformed"
      [] HeadArrives /\ HeadParses /\ stream.length > MaxBodySize -> "body_too_large"
      [] HeadArrives /\ HeadParses /\ stream.length <= MaxBodySize
            /\ stream.total >= BodyStart + stream.length -> "done"
      [] OTHER -> "client_closed"

(* How a client's bytes are cut into reads decides an outcome only where   *)
(* the head ends beyond the limit by one piece at most: such a head may be *)
(* too large or not.  One that ends within the limit is never too large,   *)
(* one that ends still later, or is cut short beyond the limit, always is; *)
(* and what is not too large comes to what its bytes deserve.              *)
OutcomeDeserved ==
    /\ phase = "head_too_large" => BodyStart > MaxHeaderSize /\ stream.total > MaxHeaderSize
    /\ phase \in Ended \ {"head_too_large"} =>
        /\ phase = Deserved
        /\ IF HeadArrives THEN BodyStart <= MaxHeaderSize + Chunk
           ELSE stream.total <= MaxHeaderSize
    /\ phase = "client_closed" => Closes

(* The limit on the head is tested before each read of the loop, so it can *)
(* be overrun, by one read and no more.                                    *)
HeaderBuffer ==
    /\ phase = "header" => got <= MaxHeaderSize + Chunk
    /\ phase = "done" => BodyStart <= MaxHeaderSize + Chunk

(* The body that is inspected and forwarded is the stretch of the client's *)
(* bytes that follows the terminator, no byte lost or taken twice where    *)
(* the head's buffer and the body's reads meet; it is the body the client  *)
(* announced if that is all the client sends.                              *)
BodyOfStream ==
    phase \in {"body", "done"} =>
        /\ got = BodyStart + body
        /\ phase = "done" => body >= stream.length
        /\ stream.total <= BodyStart + stream.length => body <= stream.length

(* What a client sends beyond its announced body (a pipelined request) is  *)
(* taken for body only if it came with the end of the head: the body is    *)
(* never longer than announced by more than one piece of the head.         *)
SurplusBound == body <= stream.length \/ body < Chunk

(* What is known while reading goes on: the terminator is not in what was  *)
(* read of the head, and a body that is being read is accepted and lacks   *)
(* something.  With the above it is inductive.                             *)
ReadSoFar ==
    /\ phase = "header" => got < BodyStart /\ got <= MaxHeaderSize + Chunk /\ body = 0
    /\ phase \in {"body", "done"} =>
        /\ got = BodyStart + body
        /\ BodyStart <= MaxHeaderSize + Chunk
        /\ HeadParses
        /\ stream.length <= MaxBodySize
    /\ phase = "body" => body < stream.length
    /\ phase = "done" => body >= stream.length

IInv == TypeOK /\ OutcomeDeserved /\ SurplusBound /\ ReadSoFar
============================================================================
