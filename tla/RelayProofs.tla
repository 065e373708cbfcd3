---------------------------- MODULE RelayProofs ----------------------------
(* Proofs about the relay, for sockets of any size, requests and answers   *)
(* of any length and every kind of upstream that Relay.tla knows.          *)
EXTENDS Relay, Sequences, TLAPS

(* What the invariant says of the numbers, in a form the steps can use *)
Numbers ==
    /\ exchange \in Exchanges
    /\ exchange.request \in Nat /\ exchange.request > 0
    /\ exchange.answer \in Nat /\ exchange.early \in Nat
    /\ exchange.early <= exchange.request
    /\ MaxAnswer \in Nat /\ exchange.answer <= MaxAnswer
    /\ UpRoom \in Nat /\ UpRoom > 0 /\ DownRoom \in Nat /\ DownRoom > 0
    /\ CopyRoom \in Nat /\ ClientRoom \in Nat
    /\ sent \in Nat /\ sent <= exchange.request
    /\ taken \in Nat /\ taken <= sent
    /\ replied \in Nat /\ replied <= exchange.answer
    /\ pulled \in Nat /\ pulled <= replied
    /\ given \in Nat /\ given <= pulled
    /\ received \in Nat /\ received <= given

(* What the types come to in arithmetic: the counts are naturals, in order. *)
LEMMA Typed == TypeOK => Numbers
  <1> SUFFICES ASSUME TypeOK PROVE Numbers
    OBVIOUS
  <1>1. exchange \in Exchanges /\ exchange \in Exchange
    BY RelayAssumption DEF TypeOK
  <1>2. /\ exchange.request \in Nat \ {0}
        /\ exchange.answer \in Nat /\ exchange.early \in Nat
    BY <1>1 DEF Exchange
  <1>3. exchange.early <= exchange.request /\ exchange.answer <= MaxAnswer
    BY <1>1, RelayAssumption
  <1> QED
    BY <1>1, <1>2, <1>3, RelayAssumption DEF TypeOK, Numbers

(* What an exchange is like stays with it. *)
LEMMA ExchangeStays ==
    UNCHANGED exchange => UNCHANGED <<Duplex, Drains, Surplus, Fits>>
  BY DEF Duplex, Drains, Surplus, Fits

(* Whether the exchange fits counts only once the request is written. *)
Reached == stage \in {"relaying", "forwarded"} => Fits

(* While the request is being written nobody waits in a circle unless the  *)
(* exchange does not fit: a consequence of where the units are.            *)
LEMMA SomebodyMoves ==
    ASSUME TypeOK, Flow, stage = "sending", Fits
    PROVE  CanSend \/ UpReset \/ CanTake \/ CanReply \/ CanClose
  <1> SUFFICES ASSUME ~CanSend, ~UpReset, ~CanTake, ~CanReply PROVE FALSE
    OBVIOUS
  <1> Numbers
    BY Typed
  <1> USE DEF Numbers
  <1>1. Serving
    BY DEF Serving
  <1>2. sent < exchange.request /\ pulled = 0
    BY DEF Flow
  <1>3. taken < sent /\ sent - taken >= UpRoom
    BY DEF CanSend
  <1>4. up = "open"
    BY <1>1, <1>2, <1>3 DEF UpReset, TypeOK
  <1>5. taken >= exchange.early /\ ~Duplex /\ replied # exchange.answer
    BY <1>1, <1>3, <1>4 DEF CanTake
  <1>6. replied >= DownRoom
    BY <1>1, <1>2, <1>4, <1>5 DEF CanReply
  <1>7. exchange.answer > DownRoom
    BY <1>5, <1>6
  <1>8. taken = exchange.early
    BY <1>5 DEF Flow
  <1>9. exchange.request - exchange.early > UpRoom
    BY <1>2, <1>3, <1>8 DEF Flow
  <1> QED
    BY <1>5, <1>7, <1>9 DEF Fits

(* Back-pressure from what the stages have reached. *)
LEMMA BackPressureFollows == TypeOK /\ Flow /\ Reached => BackPressure
  BY SomebodyMoves DEF Reached, BackPressure

(* The invariant holds initially. *)
LEMMA InitInv == Init => IInv
  <1> SUFFICES ASSUME Init PROVE IInv
    OBVIOUS
  <1>1. exchange \in Exchanges /\ exchange \in Exchange
    BY RelayAssumption DEF Init
  <1>2. exchange.request \in Nat \ {0} /\ exchange.answer \in Nat /\ exchange.early \in Nat
    BY <1>1 DEF Exchange
  <1>3. TypeOK
    BY <1>1, <1>2 DEF Init, TypeOK
  <1>4. Flow
    BY <1>2, RelayAssumption DEF Init, Flow
  <1>5. Reached
    BY DEF Init, Reached
  <1> QED
    BY <1>3, <1>4, <1>5, BackPressureFollows DEF IInv

(* The invariant in the form in which the steps use it. *)
LEMMA InvReached == IInv => Reached
  BY DEF IInv, BackPressure, Reached

(* A step has to restore the types, the flow and what the stages have reached. *)
LEMMA NextInvFollows == TypeOK' /\ Flow' /\ Reached' => IInv'
  BY BackPressureFollows, PTL DEF IInv

(* The last unit of the request goes out only if the exchange fits. *)
LEMMA SendInv == IInv /\ Send => IInv'
  <1> SUFFICES ASSUME IInv, Send PROVE IInv'
    OBVIOUS
  <1> Numbers
    BY Typed DEF IInv
  <1> USE DEF Numbers
  <1>1. /\ stage = "sending" /\ sent - taken < UpRoom /\ sent' = sent + 1
        /\ stage' = (IF sent' = exchange.request THEN "relaying" ELSE "sending")
        /\ exchange' = exchange /\ up' = up /\ client' = client /\ taken' = taken
        /\ replied' = replied /\ pulled' = pulled /\ given' = given /\ received' = received
    BY DEF Send, CanSend, SentAll
  <1>2. UNCHANGED <<Duplex, Fits>>
    BY <1>1, ExchangeStays
  <1>3. pulled = 0 /\ sent < exchange.request
    BY <1>1 DEF IInv, Flow
  <1>4. TypeOK'
    BY <1>1, <1>3 DEF IInv, TypeOK
  <1>5. Flow'
    BY <1>1, <1>2, <1>3 DEF IInv, Flow
  <1>6. Reached'
    <2>1. CASE stage' = "sending"
      BY <2>1 DEF Reached
    <2>2. CASE sent' = exchange.request
      <3>1. taken >= exchange.request - UpRoom
        BY <1>1, <2>2
      <3>2. CASE taken <= exchange.early
        BY <3>1, <3>2, <1>2 DEF Reached, Fits
      <3>3. CASE taken > exchange.early
        <4>1. Duplex \/ replied = exchange.answer
          BY <3>3 DEF IInv, Flow
        <4>2. replied <= DownRoom
          BY <1>3 DEF IInv, Flow
        <4> QED
          BY <4>1, <4>2, <1>2 DEF Reached, Fits
      <3> QED
        BY <3>2, <3>3
    <2> QED
      BY <1>1, <2>1, <2>2
  <1> QED
    BY <1>4, <1>5, <1>6, NextInvFollows

(* A task that fails leaves the counts as they are. *)
LEMMA FailInv == IInv /\ Fail => IInv'
  <1> SUFFICES ASSUME IInv, Fail PROVE IInv'
    OBVIOUS
  <1> Numbers
    BY Typed DEF IInv
  <1> USE DEF Numbers, Fail
  <1>1. UNCHANGED <<Duplex, Fits>>
    BY ExchangeStays
  <1>2. TypeOK'
    BY DEF IInv, TypeOK, Serving, UpReset, ClientReset
  <1>3. Flow'
    BY <1>1 DEF IInv, Flow, Serving, UpReset, ClientReset
  <1>4. Reached'
    BY <1>1, InvReached DEF Reached, Serving, UpReset, ClientReset
  <1> QED
    BY <1>2, <1>3, <1>4, NextInvFollows

(* copy() reads only once the request is written. *)
LEMMA CopyReadInv == IInv /\ CopyRead => IInv'
  <1> SUFFICES ASSUME IInv, CopyRead PROVE IInv'
    OBVIOUS
  <1> Numbers
    BY Typed DEF IInv
  <1> USE DEF Numbers, CopyRead
  <1>1. UNCHANGED <<Duplex, Fits>>
    BY ExchangeStays
  <1>2. TypeOK'
    BY DEF IInv, TypeOK
  <1>3. Flow'
    BY <1>1 DEF IInv, Flow
  <1>4. Reached'
    BY <1>1, InvReached DEF Reached
  <1> QED
    BY <1>2, <1>3, <1>4, NextInvFollows

(* What is written to the client was read from the upstream. *)
LEMMA CopyWriteInv == IInv /\ CopyWrite => IInv'
  <1> SUFFICES ASSUME IInv, CopyWrite PROVE IInv'
    OBVIOUS
  <1> Numbers
    BY Typed DEF IInv
  <1> USE DEF Numbers, CopyWrite
  <1>1. UNCHANGED <<Duplex, Fits>>
    BY ExchangeStays
  <1>2. TypeOK'
    BY DEF IInv, TypeOK
  <1>3. Flow'
    BY <1>1 DEF IInv, Flow
  <1>4. Reached'
    BY <1>1, InvReached DEF Reached
  <1> QED
    BY <1>2, <1>3, <1>4, NextInvFollows

(* Only a task that relays comes to the end. *)
LEMMA CopyEndsInv == IInv /\ CopyEnds => IInv'
  <1> SUFFICES ASSUME IInv, CopyEnds PROVE IInv'
    OBVIOUS
  <1> Numbers
    BY Typed DEF IInv
  <1> USE DEF Numbers, CopyEnds
  <1>1. UNCHANGED <<Duplex, Fits>>
    BY ExchangeStays
  <1>2. TypeOK'
    BY DEF IInv, TypeOK
  <1>3. Flow'
    BY <1>1 DEF IInv, Flow
  <1>4. Reached'
    BY <1>1, InvReached DEF Reached
  <1> QED
    BY <1>2, <1>3, <1>4, NextInvFollows

(* An upstream that answers reads on only if it is duplex or done. *)
LEMMA TakeInv == IInv /\ Take => IInv'
  <1> SUFFICES ASSUME IInv, Take PROVE IInv'
    OBVIOUS
  <1> Numbers
    BY Typed DEF IInv
  <1> USE DEF Numbers, Take
  <1>1. UNCHANGED <<Duplex, Fits>>
    BY ExchangeStays
  <1>2. TypeOK'
    BY DEF IInv, TypeOK, CanTake, Serving
  <1>3. Flow'
    BY <1>1 DEF IInv, Flow, CanTake, Serving
  <1>4. Reached'
    BY <1>1, InvReached DEF Reached, CanTake, Serving
  <1> QED
    BY <1>2, <1>3, <1>4, NextInvFollows

(* The upstream writes what has room and no more than its answer. *)
LEMMA ReplyInv == IInv /\ Reply => IInv'
  <1> SUFFICES ASSUME IInv, Reply PROVE IInv'
    OBVIOUS
  <1> Numbers
    BY Typed DEF IInv
  <1> USE DEF Numbers, Reply
  <1>1. UNCHANGED <<Duplex, Fits>>
    BY ExchangeStays
  <1>2. TypeOK'
    BY DEF IInv, TypeOK, CanReply, Serving
  <1>3. Flow'
    BY <1>1 DEF IInv, Flow, CanReply, Serving
  <1>4. Reached'
    BY <1>1, InvReached DEF Reached, CanReply, Serving
  <1> QED
    BY <1>2, <1>3, <1>4, NextInvFollows

(* The upstream closes when it has answered. *)
LEMMA CloseInv == IInv /\ Close => IInv'
  <1> SUFFICES ASSUME IInv, Close PROVE IInv'
    OBVIOUS
  <1> Numbers
    BY Typed DEF IInv
  <1> USE DEF Numbers, Close
  <1>1. UNCHANGED <<Duplex, Fits>>
    BY ExchangeStays
  <1>2. TypeOK'
    BY DEF IInv, TypeOK, CanClose, Serving
  <1>3. Flow'
    BY <1>1 DEF IInv, Flow, CanClose, Serving
  <1>4. Reached'
    BY <1>1, InvReached DEF Reached, CanClose, Serving
  <1> QED
    BY <1>2, <1>3, <1>4, NextInvFollows

(* The client reads what was written to it. *)
LEMMA ClientReadsInv == IInv /\ ClientReads => IInv'
  <1> SUFFICES ASSUME IInv, ClientReads PROVE IInv'
    OBVIOUS
  <1> Numbers
    BY Typed DEF IInv
  <1> USE DEF Numbers, ClientReads
  <1>1. UNCHANGED <<Duplex, Fits>>
    BY ExchangeStays
  <1>2. TypeOK'
    BY DEF IInv, TypeOK
  <1>3. Flow'
    BY <1>1 DEF IInv, Flow
  <1>4. Reached'
    BY <1>1, InvReached DEF Reached
  <1> QED
    BY <1>2, <1>3, <1>4, NextInvFollows

(* A client that leaves changes no count. *)
LEMMA ClientLeavesInv == IInv /\ ClientLeaves => IInv'
  <1> SUFFICES ASSUME IInv, ClientLeaves PROVE IInv'
    OBVIOUS
  <1> Numbers
    BY Typed DEF IInv
  <1> USE DEF Numbers, ClientLeaves
  <1>1. UNCHANGED <<Duplex, Fits>>
    BY ExchangeStays
  <1>2. TypeOK'
    BY DEF IInv, TypeOK
  <1>3. Flow'
    BY <1>1 DEF IInv, Flow
  <1>4. Reached'
    BY <1>1, InvReached DEF Reached
  <1> QED
    BY <1>2, <1>3, <1>4, NextInvFollows

(* Nor does a reset. *)
LEMMA SurplusResetsInv == IInv /\ SurplusResets => IInv'
  <1> SUFFICES ASSUME IInv, SurplusResets PROVE IInv'
    OBVIOUS
  <1> Numbers
    BY Typed DEF IInv
  <1> USE DEF Numbers, SurplusResets
  <1>1. UNCHANGED <<Duplex, Fits>>
    BY ExchangeStays
  <1>2. TypeOK'
    BY DEF IInv, TypeOK, Serving
  <1>3. Flow'
    BY <1>1 DEF IInv, Flow, Serving
  <1>4. Reached'
    BY <1>1, InvReached DEF Reached, Serving
  <1> QED
    BY <1>2, <1>3, <1>4, NextInvFollows

(* Every step keeps the invariant. *)
LEMMA NextInv == IInv /\ [Next]_vars => IInv'
  <1> SUFFICES ASSUME IInv, [Next]_vars PROVE IInv'
    OBVIOUS
  <1>1. CASE Gateway
    BY <1>1, SendInv, FailInv, CopyReadInv, CopyWriteInv, CopyEndsInv DEF Gateway
  <1>2. CASE Upstream
    BY <1>2, TakeInv, ReplyInv, CloseInv DEF Upstream
  <1>3. CASE ClientReads \/ ClientLeaves \/ SurplusResets
    BY <1>3, ClientReadsInv, ClientLeavesInv, SurplusResetsInv
  <1>4. CASE UNCHANGED vars
    <2>1. UNCHANGED <<Duplex, Fits>>
      BY <1>4, ExchangeStays DEF vars
    <2>2. TypeOK' /\ Flow' /\ Reached'
      BY <1>4, <2>1, InvReached DEF vars, IInv, TypeOK, Flow, Reached
    <2> QED
      BY <2>2, NextInvFollows
  <1> QED
    BY <1>1, <1>2, <1>3, <1>4 DEF Next

(* The inductive invariant of an exchange: neither direction holds more    *)
(* than it has room for, the answer is read only after the request was     *)
(* written, and who waits has a reason.                                    *)
THEOREM Invariance == Spec => []IInv
  BY InitInv, NextInv, PTL DEF Spec

(* The relay's counts stay within the exchange and in order: nothing is    *)
(* read before it was written.                                             *)
THEOREM TypeCorrect == Spec => []TypeOK
  <1>1. IInv => TypeOK
    BY DEF IInv
  <1> QED
    BY <1>1, Invariance, PTL

(* handle_connection writes the request before it reads the answer: it and *)
(* the upstream wait for each other exactly if neither has room.           *)
THEOREM WaitsOnlyWithoutRoom == Spec => []BackPressure
  <1>1. IInv => BackPressure
    BY DEF IInv
  <1> QED
    BY <1>1, Invariance, PTL

----------------------------------------------------------------------------
(* The relay is the gateway of Proxy.tla with one connection. *)

(* The one connection finds a worker free whenever it needs one. *)
LEMMA WorkerIsFree == stage # "deciding" => P!WorkerFree
  <1> SUFFICES ASSUME stage # "deciding" PROVE P!WorkerFree
    OBVIOUS
  <1>1. P!Deciding = {}
    BY DEF P!Deciding
  <1>2. P!Cardinality({}) = 0
    BY DEF P!Cardinality
  <1> QED
    BY <1>1, <1>2 DEF P!WorkerFree

(* One change of the stage is the move of the proxy's only task. *)
LEMMA StageOf == ASSUME NEW from, NEW to, stage = from, stage' = to
                 PROVE  P!Goes(1, from, to)
  BY DEF P!Goes

(* The first n pieces of an answer, as the client is given them *)
Pieces(n) == [i \in 1 .. n |-> <<"chunk", i>>]

(* One more unit given is one more piece in the client's output. *)
LEMMA OnePieceMore ==
    ASSUME NEW n \in Nat
    PROVE  /\ Len(Pieces(n)) = n
           /\ Pieces(n + 1) = Append(Pieces(n), <<"chunk", n + 1>>)
  BY DEF Pieces

(* A unit put into the upstream's socket is a part of the request, the rest of it, or a stutter. *)
LEMMA SendMaps == IInv /\ Send => P!Next \/ UNCHANGED P!vars
  <1> SUFFICES ASSUME IInv, Send PROVE P!Next \/ UNCHANGED P!vars
    OBVIOUS
  <1> Numbers
    BY Typed DEF IInv
  <1>1. P!WorkerFree /\ stage = "sending" /\ sent < exchange.request /\ sent' = sent + 1
    BY WorkerIsFree DEF Send, CanSend, IInv, Flow
  <1>2. CASE sent' = exchange.request
    <2>1. Sent' = "all"
      BY <1>1, <1>2 DEF Sent, Numbers, Send
    <2>2. P!SendRest(1)
      BY <1>1, <1>2, <2>1, StageOf DEF P!SendRest, P!procVars, Send, SentAll
    <2> QED
      BY <2>2 DEF P!Next
  <1>3. CASE sent' # exchange.request /\ sent = 0
    <2>1. Sent = "none" /\ Sent' = "part"
      BY <1>1, <1>3 DEF Sent, Numbers, Send
    <2>2. P!SendPart(1)
      BY <1>1, <1>3, <2>1 DEF P!SendPart, P!procVars, Send, SentAll
    <2> QED
      BY <2>2 DEF P!Next
  <1>4. CASE sent' # exchange.request /\ sent # 0
    <2>1. Sent = "part" /\ Sent' = "part"
      BY <1>1, <1>4 DEF Sent, Numbers, Send
    <2> QED
      BY <1>1, <1>4, <2>1 DEF P!vars, P!relayVars, Send, SentAll
  <1> QED
    BY <1>2, <1>3, <1>4

(* A failure is an error of the connection. *)
LEMMA FailMaps == IInv /\ Fail => P!Next \/ UNCHANGED P!vars
  <1> SUFFICES ASSUME IInv, Fail PROVE P!Next \/ UNCHANGED P!vars
    OBVIOUS
  <1> Numbers
    BY Typed DEF IInv
  <1>1. stage # "deciding"
    BY DEF IInv, TypeOK
  <1>2. P!ConnError(1)
    BY <1>1, WorkerIsFree, StageOf DEF P!ConnError, P!procVars, P!relayVars, Numbers, Fail, P!Suspended, P!Live, Sent, UpReset, ClientReset, Serving
  <1> QED
    BY <1>2 DEF P!Next

(* Reading the answer. *)
LEMMA CopyReadMaps == IInv /\ CopyRead => P!Next \/ UNCHANGED P!vars
  <1> SUFFICES ASSUME IInv, CopyRead PROVE P!Next \/ UNCHANGED P!vars
    OBVIOUS
  <1> Numbers
    BY Typed DEF IInv
  <1>1. stage # "deciding"
    BY DEF IInv, TypeOK
  <1>2. P!CopyRead(1)
    BY <1>1, WorkerIsFree, StageOf DEF P!CopyRead, P!procVars, P!relayVars, Numbers, CopyRead, Sent
  <1> QED
    BY <1>2 DEF P!Next

(* Writing the answer: one piece more for the client. *)
LEMMA CopyWriteMaps == IInv /\ CopyWrite => P!Next \/ UNCHANGED P!vars
  <1> SUFFICES ASSUME IInv, CopyWrite PROVE P!Next \/ UNCHANGED P!vars
    OBVIOUS
  <1> Numbers
    BY Typed DEF IInv
  <1>1. stage # "deciding" /\ given \in Nat /\ given' = given + 1
    BY DEF IInv, TypeOK, CopyWrite, Numbers
  <1>2. /\ Len(Pieces(given)) = given
        /\ Pieces(given') = Append(Pieces(given), <<"chunk", given + 1>>)
    BY <1>1, OnePieceMore
  <1>3. Len([i \in 1 .. given |-> <<"chunk", i>>]) = given
    BY <1>2 DEF Pieces
  <1>4. <<[i \in 1 .. given |-> <<"chunk", i>>]>>' =
            [<<[i \in 1 .. given |-> <<"chunk", i>>]>> EXCEPT ![1] =
                Append(<<[i \in 1 .. given |-> <<"chunk", i>>]>>[1],
                       <<"chunk", Len(<<[i \in 1 .. given |-> <<"chunk", i>>]>>[1]) + 1>>)]
    <2> DEFINE old == [i \in 1 .. given |-> <<"chunk", i>>]
               new == [i \in 1 .. given' |-> <<"chunk", i>>]
    <2>1. new = Append(old, <<"chunk", Len(old) + 1>>)
      BY <1>2, <1>3 DEF Pieces
    <2> HIDE DEF old, new
    <2>2. <<new>> = [<<old>> EXCEPT ![1] = Append(<<old>>[1], <<"chunk", Len(<<old>>[1]) + 1>>)]
      BY <2>1
    <2> QED
      BY <2>2 DEF old, new
  <1>5. P!CopyWrite(1)
    BY <1>1, <1>3, <1>4, WorkerIsFree DEF P!CopyWrite, P!procVars, P!relayVars, CopyWrite, Sent
  <1> QED
    BY <1>5 DEF P!Next

(* The end of the answer. *)
LEMMA CopyEndsMaps == IInv /\ CopyEnds => P!Next \/ UNCHANGED P!vars
  <1> SUFFICES ASSUME IInv, CopyEnds PROVE P!Next \/ UNCHANGED P!vars
    OBVIOUS
  <1> Numbers
    BY Typed DEF IInv
  <1>1. stage # "deciding"
    BY DEF IInv, TypeOK
  <1>2. P!CopyEnds(1)
    BY <1>1, WorkerIsFree, StageOf, OnePieceMore DEF P!CopyEnds, P!procVars, P!relayVars, Numbers, CopyEnds, P!CopyDone, CopyDone, Sent, Pieces
  <1> QED
    BY <1>2 DEF P!Next

(* A piece of the answer. *)
LEMMA ReplyMaps == IInv /\ Reply => P!Next \/ UNCHANGED P!vars
  <1> SUFFICES ASSUME IInv, Reply PROVE P!Next \/ UNCHANGED P!vars
    OBVIOUS
  <1> Numbers
    BY Typed DEF IInv
  <1>1. stage # "deciding"
    BY DEF IInv, TypeOK
  <1>2. P!UpstreamReply(1)
    BY <1>1, WorkerIsFree, StageOf DEF P!UpstreamReply, P!procVars, P!relayVars, Numbers, Reply, CanReply, Serving, Sent
  <1> QED
    BY <1>2 DEF P!Next

(* The upstream closes. *)
LEMMA CloseMaps == IInv /\ Close => P!Next \/ UNCHANGED P!vars
  <1> SUFFICES ASSUME IInv, Close PROVE P!Next \/ UNCHANGED P!vars
    OBVIOUS
  <1> Numbers
    BY Typed DEF IInv
  <1>1. stage # "deciding"
    BY DEF IInv, TypeOK
  <1>2. P!UpstreamEof(1)
    BY <1>1, WorkerIsFree, StageOf DEF P!UpstreamEof, P!procVars, P!relayVars, Numbers, Close, CanClose, Serving, Sent
  <1> QED
    BY <1>2 DEF P!Next

(* What the peers read and when they leave is no step of the gateway. *)
LEMMA PeersStutter ==
    Take \/ ClientReads \/ ClientLeaves \/ SurplusResets \/ UNCHANGED vars => UNCHANGED P!vars
  BY DEF Take, ClientReads, ClientLeaves, SurplusResets, vars, P!vars, P!procVars, P!relayVars, Sent

(* Every step of the relay is one the gateway of Proxy.tla may take, whose *)
(* sockets hold any amount: waiting is all that the limits add.            *)
THEOREM RelayImplementsProxy == Spec => ImplementsProxy
  <1>1. IInv /\ [Next]_vars => [P!Next]_(P!vars)
    BY SendMaps, FailMaps, CopyReadMaps, CopyWriteMaps, CopyEndsMaps, ReplyMaps, CloseMaps,
       PeersStutter
    DEF Next, Gateway, Upstream
  <1> QED
    BY <1>1, Invariance, PTL DEF Spec, ImplementsProxy
============================================================================
