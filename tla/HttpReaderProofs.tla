-------------------------- MODULE HttpReaderProofs --------------------------
(* Proofs about the reader of requests, for any streams, limits and sizes. *)
EXTENDS HttpReader, TLAPS

(* At the start nothing was read. *)
LEMMA InitInv == Init => IInv
  <1> SUFFICES ASSUME Init PROVE IInv
    OBVIOUS
  <1>1. stream.head \in Nat /\ stream.length \in Nat /\ stream.total \in Nat
    BY ReaderAssumption DEF Init
  <1>2. TypeOK
    BY <1>1, ReaderAssumption DEF Init, TypeOK, Phase
  <1>3. OutcomeDeserved /\ SurplusBound
    BY <1>1, ReaderAssumption
    DEF Init, OutcomeDeserved, SurplusBound, Ended, Errors
  <1>4. ReadSoFar
    BY <1>1, ReaderAssumption DEF Init, ReadSoFar, BodyStart
  <1> QED
    BY <1>2, <1>3, <1>4 DEF IInv

(* What the invariant says of the types, in a form the steps can use. *)
Sizes ==
    /\ stream \in Streams
    /\ stream.head \in Nat /\ stream.length \in Nat /\ stream.total \in Nat
    /\ got \in Nat /\ got <= stream.total
    /\ body \in Nat
    /\ BodyStart \in Nat
    /\ MaxHeaderSize \in Nat /\ MaxBodySize \in Nat /\ Chunk \in Nat

(* The numbers of the reader are natural numbers. *)
LEMMA Typed == IInv => Sizes
  <1> SUFFICES ASSUME IInv PROVE Sizes
    OBVIOUS
  <1>1. stream \in Streams
    BY DEF IInv, TypeOK
  <1>2. stream.head \in Nat /\ stream.length \in Nat /\ stream.total \in Nat
    BY <1>1, ReaderAssumption
  <1> QED
    BY <1>1, <1>2, ReaderAssumption DEF IInv, TypeOK, BodyStart, Sizes

(* The sizes and flags of a stream stay with it. *)
LEMMA StreamStays ==
    UNCHANGED stream => UNCHANGED <<BodyStart, HeadParses, Closes, HeadArrives, Deserved>>
  BY DEF BodyStart, HeadParses, Closes, HeadArrives, Deserved

(* The head is too long: nothing more is read. *)
LEMMA RejectHeaderInv == IInv /\ RejectHeader => IInv'
  <1> SUFFICES ASSUME IInv, RejectHeader PROVE IInv'
    OBVIOUS
  <1> Sizes
    BY Typed
  <1> USE DEF Sizes, RejectHeader
  <1>1. TypeOK'
    BY DEF IInv, TypeOK, Phase, Ended, Errors
  <1>2. OutcomeDeserved'
    BY StreamStays DEF IInv, ReadSoFar, OutcomeDeserved, HeaderTooLong, Ended, Errors
  <1>3. SurplusBound' /\ ReadSoFar'
    BY StreamStays DEF IInv, SurplusBound, ReadSoFar
  <1> QED
    BY <1>1, <1>2, <1>3 DEF IInv

(* A piece of the head, in each of its four outcomes. *)
LEMMA ReadHeaderInv == ASSUME NEW n \in 1 .. Chunk PROVE IInv /\ ReadHeader(n) => IInv'
  <1> SUFFICES ASSUME IInv, ReadHeader(n) PROVE IInv'
    OBVIOUS
  <1> Sizes
    BY Typed
  <1> USE DEF Sizes
  <1>1. /\ phase = "header" /\ body = 0 /\ got < BodyStart
        /\ got <= MaxHeaderSize
        /\ n \in Nat /\ n <= Chunk
        /\ got' = got + n /\ got' <= stream.total
        /\ stream' = stream
    BY DEF IInv, ReadSoFar, ReadHeader, Read, HeaderTooLong
  <1>2. /\ BodyStart' = BodyStart /\ HeadParses' = HeadParses
        /\ HeadArrives' = HeadArrives /\ Deserved' = Deserved
    BY <1>1, StreamStays
  <1>3. CASE got' < BodyStart /\ UNCHANGED <<phase, body>>
    <2>1. TypeOK'
      BY <1>1, <1>3 DEF IInv, TypeOK
    <2>2. OutcomeDeserved' /\ SurplusBound'
      BY <1>1, <1>3 DEF OutcomeDeserved, SurplusBound, Ended, Errors
    <2>3. ReadSoFar'
      BY <1>1, <1>2, <1>3 DEF ReadSoFar
    <2> QED
      BY <2>1, <2>2, <2>3 DEF IInv
  <1>6. got' >= BodyStart => HeadArrives /\ BodyStart <= MaxHeaderSize + Chunk
    <2>1. got + n <= MaxHeaderSize + Chunk
      BY <1>1
    <2> QED
      BY <2>1, <1>1 DEF HeadArrives
  <1>4. CASE /\ UNCHANGED body /\ got' >= BodyStart
             /\ \/ ~HeadParses /\ phase' = "malformed"
                \/ HeadParses /\ ~Admits /\ phase' = "body_too_large"
    <2>1. TypeOK'
      BY <1>1, <1>4 DEF IInv, TypeOK, Phase, Ended, Errors
    <2>4. phase' = Deserved
      BY <1>1, <1>4, <1>6, ReaderAssumption DEF Deserved, HeadParses, Admits
    <2>2. OutcomeDeserved' /\ SurplusBound'
      BY <1>1, <1>2, <1>4, <1>6, <2>4 DEF OutcomeDeserved, SurplusBound
    <2>3. ReadSoFar'
      BY <1>1, <1>4 DEF ReadSoFar
    <2> QED
      BY <2>1, <2>2, <2>3 DEF IInv
  <1>5. CASE /\ got' >= BodyStart /\ HeadParses /\ Admits
             /\ body' = Surplus(got')
             /\ phase' = IF BodyComplete(body') THEN "done" ELSE "body"
    <2>1. body' \in Nat /\ got' = BodyStart + body' /\ body' < Chunk
      BY <1>1, <1>5 DEF Surplus
    <2>2. \/ phase' = "done" /\ body' >= stream.length
          \/ phase' = "body" /\ body' < stream.length
      BY <2>1, <1>5 DEF BodyComplete
    <2>3. stream.length <= MaxBodySize
      BY <1>5 DEF Admits
    <2>4. TypeOK'
      BY <1>1, <2>1, <2>2 DEF IInv, TypeOK, Phase, Ended
    <2>9. phase' = "done" => Deserved = "done"
      BY <1>1, <1>5, <1>6, <2>1, <2>2, <2>3, ReaderAssumption DEF Deserved, HeadParses
    <2>5. OutcomeDeserved'
      BY <1>1, <1>2, <1>5, <1>6, <2>2, <2>9 DEF OutcomeDeserved, Ended, Errors
    <2>6. SurplusBound'
      BY <1>1, <2>1 DEF SurplusBound
    <2>7. BodyStart <= MaxHeaderSize + Chunk
      BY <1>5, <1>6
    <2>8. ReadSoFar'
      BY <1>1, <1>2, <1>5, <2>1, <2>2, <2>3, <2>7 DEF ReadSoFar
    <2> QED
      BY <2>4, <2>5, <2>6, <2>8 DEF IInv
  <1> QED
    BY <1>3, <1>4, <1>5 DEF ReadHeader

(* A piece of the body never brings more than the body lacks. *)
LEMMA ReadBodyInv == ASSUME NEW n \in Nat PROVE IInv /\ ReadBody(n) => IInv'
  <1> SUFFICES ASSUME IInv, ReadBody(n) PROVE IInv'
    OBVIOUS
  <1> Sizes
    BY Typed
  <1> USE DEF Sizes
  <1>1. /\ phase = "body" /\ body < stream.length
        /\ got = BodyStart + body /\ BodyStart <= MaxHeaderSize + Chunk
        /\ HeadParses /\ stream.length <= MaxBodySize
        /\ stream' = stream
    BY DEF IInv, ReadSoFar, ReadBody
  <1>2. /\ got' = got + n /\ got' <= stream.total
        /\ body' = body + n /\ body' <= stream.length /\ body' \in Nat
    BY DEF ReadBody, Read, BodyRoom
  <1>3. /\ BodyStart' = BodyStart /\ HeadParses' = HeadParses
        /\ HeadArrives' = HeadArrives /\ Deserved' = Deserved
    BY <1>1, StreamStays
  <1>4. \/ phase' = "done" /\ body' >= stream.length
        \/ phase' = "body" /\ body' < stream.length
    BY <1>2 DEF ReadBody, BodyComplete
  <1>5. TypeOK'
    BY <1>1, <1>2, <1>4 DEF IInv, TypeOK, Phase, Ended
  <1>9. HeadArrives /\ (phase' = "done" => Deserved = "done")
    <2>1. HeadArrives
      BY <1>1, <1>2 DEF HeadArrives
    <2>2. phase' = "done" => stream.total >= BodyStart + stream.length
      BY <1>1, <1>2, <1>4
    <2> QED
      BY <1>1, <2>1, <2>2 DEF Deserved
  <1>6. OutcomeDeserved'
    BY <1>1, <1>3, <1>4, <1>9 DEF OutcomeDeserved, Ended, Errors
  <1>7. SurplusBound'
    BY <1>1, <1>2 DEF SurplusBound
  <1>8. ReadSoFar'
    BY <1>1, <1>2, <1>3, <1>4 DEF ReadSoFar
  <1> QED
    BY <1>5, <1>6, <1>7, <1>8 DEF IInv

(* The client closes before its request is complete. *)
LEMMA ReadEofInv == IInv /\ ReadEof => IInv'
  <1> SUFFICES ASSUME IInv, ReadEof PROVE IInv'
    OBVIOUS
  <1> Sizes
    BY Typed
  <1> USE DEF Sizes, ReadEof
  <1>1. TypeOK'
    BY DEF IInv, TypeOK, Phase, Ended, Errors
  <1>2. /\ stream.total < BodyStart + stream.length
        /\ HeadArrives => HeadParses /\ stream.length <= MaxBodySize
        /\ IF HeadArrives THEN BodyStart <= MaxHeaderSize + Chunk ELSE stream.total <= MaxHeaderSize
    <2>1. CASE phase = "header"
      BY <2>1 DEF IInv, ReadSoFar, HeadArrives, HeaderTooLong
    <2>2. CASE phase = "body"
      BY <2>2 DEF IInv, ReadSoFar, HeadArrives
    <2> QED
      BY <2>1, <2>2
  <1>5. Deserved = "client_closed"
    BY <1>2 DEF Deserved
  <1>3. OutcomeDeserved'
    BY <1>2, <1>5, StreamStays DEF OutcomeDeserved
  <1>4. SurplusBound' /\ ReadSoFar'
    BY StreamStays DEF IInv, SurplusBound, ReadSoFar
  <1> QED
    BY <1>1, <1>3, <1>4 DEF IInv

(* Every step keeps the invariant. *)
LEMMA StepInv == IInv /\ [Next]_vars => IInv'
  <1> SUFFICES ASSUME IInv, [Next]_vars PROVE IInv'
    OBVIOUS
  <1>1. CASE RejectHeader
    BY <1>1, RejectHeaderInv
  <1>2. ASSUME NEW n \in 1 .. Chunk, ReadHeader(n) PROVE IInv'
    BY <1>2, ReadHeaderInv
  <1>3. ASSUME NEW n \in 1 .. stream.length + Chunk, ReadBody(n) PROVE IInv'
    <2>1. n \in Nat
      BY Typed DEF Sizes
    <2> QED
      BY <1>3, <2>1, ReadBodyInv
  <1>4. CASE ReadEof
    BY <1>4, ReadEofInv
  <1>5. CASE UNCHANGED vars
    <2>1. UNCHANGED <<stream, phase, got, body, BodyStart, HeadParses, Closes, HeadArrives, Deserved>>
      BY <1>5, StreamStays DEF vars
    <2> QED
      BY <2>1 DEF IInv, TypeOK, OutcomeDeserved, SurplusBound, ReadSoFar
  <1> QED
    BY <1>1, <1>2, <1>3, <1>4, <1>5 DEF Next, Reads

(* The invariant behind the others holds always. *)
THEOREM Invariance == Spec => []IInv
  BY InitInv, StepInv, PTL DEF Spec

(* The reader's variables have their types; its body is within its limit   *)
(* or came with the end of the head.                                       *)
THEOREM TypeCorrect == Spec => []TypeOK
  <1>1. IInv => TypeOK
    BY DEF IInv
  <1> QED
    BY <1>1, Invariance, PTL

(* However the bytes are cut into reads, every outcome of                  *)
(* read_http_request is deserved by the bytes, and the cut decides only    *)
(* about heads that end beyond the limit by one piece at most.             *)
THEOREM OutcomesAreDeserved == Spec => []OutcomeDeserved
  <1>1. IInv => OutcomeDeserved
    BY DEF IInv
  <1> QED
    BY <1>1, Invariance, PTL

(* The limit on the head is overrun by one read at most. *)
THEOREM HeaderIsBounded == Spec => []HeaderBuffer
  <1>1. IInv => HeaderBuffer
    BY DEF IInv, ReadSoFar, HeaderBuffer
  <1> QED
    BY <1>1, Invariance, PTL

(* The body is the stretch of the stream that follows the terminator. *)
THEOREM BodyIsOfStream == Spec => []BodyOfStream
  <1>1. IInv => BodyOfStream
    <2> SUFFICES ASSUME IInv PROVE BodyOfStream
      OBVIOUS
    <2> QED
      BY Typed DEF Sizes, IInv, ReadSoFar, BodyOfStream
  <1> QED
    BY <1>1, Invariance, PTL

(* At most one piece of what follows the request gets into the body. *)
THEOREM SurplusIsBounded == Spec => []SurplusBound
  <1>1. IInv => SurplusBound
    BY DEF IInv
  <1> QED
    BY <1>1, Invariance, PTL

----------------------------------------------------------------------------
(* What is left to do: the bytes not yet read, and the two loops *)
StepsLeft ==
    stream.total - got + (CASE phase = "header" -> 2 [] phase = "body" -> 1 [] OTHER -> 0)

(* A step of the reader reads something, or ends. *)
LEMMA StepAdvances == IInv /\ [Next]_vars => [StepsLeft' < StepsLeft]_vars
<1> SUFFICES ASSUME IInv, Next PROVE StepsLeft' < StepsLeft
    BY DEF StepsLeft, vars
<1> USE Typed DEF Sizes, StepsLeft
<1>1. CASE RejectHeader
    BY <1>1 DEF RejectHeader
<1>2. ASSUME NEW n \in 1 .. Chunk, ReadHeader(n) PROVE StepsLeft' < StepsLeft
    BY <1>2 DEF ReadHeader, Read
<1>3. ASSUME NEW n \in 1 .. stream.length + Chunk, ReadBody(n) PROVE StepsLeft' < StepsLeft
    BY <1>3 DEF ReadBody, Read
<1>4. CASE ReadEof
    BY <1>4 DEF ReadEof
<1> QED
    BY <1>1, <1>2, <1>3, <1>4 DEF Next, Reads

(* Each step of the reader leaves less to do, so that one that is never    *)
(* kept waiting ends, after stream.total + 2 steps at most: no read is of  *)
(* nothing, and none is made once the outcome is known.                    *)
THEOREM ReaderAdvances == Spec => [](StepsLeft \in Nat) /\ [][StepsLeft' < StepsLeft]_vars
  <1>1. IInv => StepsLeft \in Nat
    BY Typed DEF Sizes, StepsLeft
  <1> QED
    BY <1>1, StepAdvances, Invariance, PTL DEF Spec
============================================================================
