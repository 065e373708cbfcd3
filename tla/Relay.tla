------------------------------- MODULE Relay -------------------------------
(***************************************************************************)
(* What handle_connection of src/proxy.rs does once a request is allowed   *)
(* and the upstream connected, with sockets that hold so much and no more: *)
(* write_all() puts the whole request into the upstream's socket before    *)
(* copy() takes the first piece of the answer out of it.                   *)
(*                                                                         *)
(* Bytes are counted in units; a direction of a connection holds, in the   *)
(* buffers of both its ends, what was written to it and not yet read.      *)
(* The client has sent its request; whoever waits, waits without limit:    *)
(* the code has no timeouts.                                               *)
(***************************************************************************)
EXTENDS Integers

CONSTANTS
    Exchanges,      \* the requests and answers, and what the peers are like
    MaxAnswer,      \* bound: the longest answer
    UpRoom,         \* units held on the way from the gateway to the upstream
    DownRoom,       \* and from the upstream to the gateway
    CopyRoom,       \* the buffer of tokio::io::copy
    ClientRoom      \* units held on the way from the gateway to the client

(* request, answer: their lengths; early: how much of the request the      *)
(* upstream reads before it answers; duplex: it reads on while it answers  *)
(* (else only when the answer is written); drains: it reads all before it  *)
(* closes; surplus: the client sent more than it had announced.            *)
Exchange ==
    [request : Nat \ {0}, answer : Nat, early : Nat,
     duplex : BOOLEAN, drains : BOOLEAN, surplus : BOOLEAN]

ASSUME RelayAssumption ==
    /\ Exchanges \subseteq Exchange
    /\ MaxAnswer \in Nat
    /\ \A e \in Exchanges : e.early <= e.request /\ e.answer <= MaxAnswer
    /\ UpRoom \in Nat \ {0} /\ DownRoom \in Nat \ {0}
    /\ CopyRoom \in Nat \ {0} /\ ClientRoom \in Nat \ {0}

VARIABLES
    exchange,   \* what is exchanged on this connection
    stage,      \* the task of the connection, as in Proxy.tla
    up,         \* the upstream's half of its connection
    client,     \* the client: there, gone, or cut off by a reset
    sent,       \* units of the request put into the upstream's socket
    taken,      \* units of it the upstream has read
    replied,    \* units of the answer the upstream has written
    pulled,     \* units of it copy() has read
    given,      \* units of it put into the client's socket
    received    \* units of it the client has read

vars == <<exchange, stage, up, client, sent, taken, replied, pulled, given, received>>

TypeOK ==
    /\ exchange \in Exchanges
    /\ stage \in {"sending", "relaying", "forwarded", "failed"}
    /\ up \in {"open", "eof"}
    /\ client \in {"there", "gone", "cut"}
    /\ sent \in 0 .. exchange.request
    /\ taken \in 0 .. sent
    /\ replied \in 0 .. exchange.answer
    /\ pulled \in 0 .. replied
    /\ given \in 0 .. pulled
    /\ received \in 0 .. given

Init ==
    /\ exchange \in Exchanges
    /\ stage = "sending"
    /\ up = "open"
    /\ client = "there"
    /\ sent = 0 /\ taken = 0
    /\ replied = 0 /\ pulled = 0 /\ given = 0 /\ received = 0

Serving == stage \in {"sending", "relaying"}

Duplex == exchange.duplex
Drains == exchange.drains
Surplus == exchange.surplus

----------------------------------------------------------------------------
(* The gateway *)

(* Mutant of CanSend: it waits until all that is left has room. *)
CanSendWhole ==
    stage = "sending" /\ exchange.request - taken <= UpRoom

CanSend == stage = "sending" /\ sent - taken < UpRoom

(* Mutant of SentAll: write() in place of write_all(). *)
SentSome == sent' > 0

SentAll == sent' = exchange.request

Send ==
    /\ CanSend
    /\ sent' = sent + 1
    /\ stage' = IF SentAll THEN "relaying" ELSE "sending"
    /\ UNCHANGED <<exchange, up, client, taken, replied, pulled, given, received>>

(* An upstream that closes and leaves part of the request unread resets    *)
(* the connection: a write, or a read by copy(), then fails.               *)
UpReset == Serving /\ up = "eof" /\ taken < exchange.request

(* A client that is gone is noticed when it is written to. *)
ClientReset == stage = "relaying" /\ client = "gone" /\ given < pulled

Fail ==
    /\ UpReset \/ ClientReset
    /\ stage' = "failed"
    /\ UNCHANGED <<exchange, up, client, sent, taken, replied, pulled, given, received>>

CopyRead ==
    /\ stage = "relaying"
    /\ pulled < replied
    /\ pulled - given < CopyRoom
    /\ pulled' = pulled + 1
    /\ UNCHANGED <<exchange, stage, up, client, sent, taken, replied, given, received>>

CopyWrite ==
    /\ stage = "relaying"
    /\ given < pulled
    /\ given - received < ClientRoom
    /\ given' = given + 1
    /\ UNCHANGED <<exchange, stage, up, client, sent, taken, replied, pulled, received>>

(* Mutant of CopyDone: what is still in the copy buffer is not written. *)
CopyDoneUnflushed == up = "eof" /\ pulled = replied

CopyDone == up = "eof" /\ pulled = replied /\ given = pulled

CopyEnds ==
    /\ stage = "relaying"
    /\ CopyDone
    /\ stage' = "forwarded"
    /\ UNCHANGED <<exchange, up, client, sent, taken, replied, pulled, given, received>>

Gateway == Send \/ Fail \/ CopyRead \/ CopyWrite \/ CopyEnds

----------------------------------------------------------------------------
(* The upstream *)

CanTake ==
    /\ Serving /\ up = "open"
    /\ taken < sent
    /\ taken < exchange.early \/ Duplex \/ replied = exchange.answer

Take ==
    /\ CanTake
    /\ taken' = taken + 1
    /\ UNCHANGED <<exchange, stage, up, client, sent, replied, pulled, given, received>>

CanReply ==
    /\ Serving /\ up = "open"
    /\ taken >= exchange.early
    /\ replied < exchange.answer
    /\ replied - pulled < DownRoom

Reply ==
    /\ CanReply
    /\ replied' = replied + 1
    /\ UNCHANGED <<exchange, stage, up, client, sent, taken, pulled, given, received>>

CanClose ==
    /\ Serving /\ up = "open"
    /\ taken >= exchange.early
    /\ replied = exchange.answer
    /\ Drains => taken = exchange.request

Close ==
    /\ CanClose
    /\ up' = "eof"
    /\ UNCHANGED <<exchange, stage, client, sent, taken, replied, pulled, given, received>>

Upstream == Take \/ Reply \/ Close

----------------------------------------------------------------------------
(* The client *)

ClientReads ==
    /\ client = "there"
    /\ received < given
    /\ received' = received + 1
    /\ UNCHANGED <<exchange, stage, up, client, sent, taken, replied, pulled, given>>

ClientLeaves ==
    /\ client = "there"
    /\ client' = "gone"
    /\ UNCHANGED <<exchange, stage, up, sent, taken, replied, pulled, given, received>>

(* The task drops its socket with what the client sent too much unread in  *)
(* it: the connection is reset, and what was on its way may be lost.       *)
SurplusResets ==
    /\ ~Serving
    /\ Surplus
    /\ client = "there"
    /\ client' = "cut"
    /\ UNCHANGED <<exchange, stage, up, sent, taken, replied, pulled, given, received>>

Next == Gateway \/ Upstream \/ ClientReads \/ ClientLeaves \/ SurplusResets

Spec == Init /\ [][Next]_vars

(* Every one of the three goes on if it can; nobody has to leave. *)
FairSpec == Spec /\ WF_vars(Gateway) /\ WF_vars(Upstream) /\ WF_vars(ClientReads)

----------------------------------------------------------------------------
(* Properties *)

(* Some room suffices: for what the upstream leaves of the request while   *)
(* it answers, or for the answer.                                          *)
Fits ==
    \/ Duplex
    \/ exchange.request - exchange.early <= UpRoom
    \/ exchange.answer <= DownRoom

(* That the request is written in full before the answer is read makes     *)
(* gateway and upstream wait for each other for ever exactly if neither    *)
(* the rest of the request nor the answer has room: such an exchange never *)
(* comes to its answer, and in any other one of the two can go on.         *)
BackPressure ==
    /\ stage \in {"relaying", "forwarded"} => Fits
    /\ stage = "sending" /\ Fits => CanSend \/ UpReset \/ CanTake \/ CanReply \/ CanClose

(* The upstream reads the request before it closes, and the client has not *)
(* sent what nobody reads.                                                 *)
Orderly ==
    /\ Fits
    /\ Drains \/ exchange.early = exchange.request
    /\ ~Surplus

(* An orderly exchange brings a client that stays the whole answer.  (One  *)
(* that is not may lose it: the upstream answers early and closes, and the *)
(* task fails over its own write without a look at the answer.)            *)
AnswerArrives ==
    Orderly /\ [](client = "there") => <>(received = exchange.answer)

(* What makes BackPressure inductive *)
Flow ==
    /\ sent - taken <= UpRoom
    /\ replied - pulled <= DownRoom
    /\ taken > exchange.early => Duplex \/ replied = exchange.answer
    /\ stage = "sending" => pulled = 0 /\ sent < exchange.request
    /\ up = "eof" => replied = exchange.answer

IInv == TypeOK /\ Flow /\ BackPressure

----------------------------------------------------------------------------
(* The one connection of a gateway of Proxy.tla that is under way.  That   *)
(* one has sockets without limits.                                         *)

Sent == IF sent = 0 THEN "none" ELSE IF sent < exchange.request THEN "part" ELSE "all"

Allow == [ok |-> TRUE, allow |-> TRUE, status |-> 200]

P == INSTANCE Proxy WITH
        Profile <- {"profile"}, ReqHead <- {"head"}, ReqBody <- {"body"},
        TextBody <- {"body"}, None <- "none",
        Verdict <- [m \in [profile : {"profile"}, head : {"head"}, body : {"body", "none"}] |-> Allow],
        NumSites <- 1, ProfileOf <- <<"profile">>,
        Conn <- {1}, MaxChunks <- MaxAnswer, Workers <- 1,
        proc <- "serving", listener <- <<"accepting">>, stage <- <<stage>>,
        site <- <<1>>, request <- <<[head |-> "head", body |-> "body"]>>,
        decision <- <<Allow>>,
        sent <- <<Sent>>, up <- <<up>>, upSent <- <<replied>>, pulled <- <<pulled>>,
        toClient <- << [i \in 1 .. given |-> <<"chunk", i>>] >>

(* Limited sockets add waiting and nothing else: every step is one of the  *)
(* gateway whose sockets hold any amount.                                  *)
ImplementsProxy == [][P!Next]_(P!vars)
============================================================================
