------------------------------- MODULE Proxy -------------------------------
(***************************************************************************)
(* The reverse proxy of src/proxy.rs: run() binds the sites in the order   *)
(* of the configuration and waits for their accept loops; every accepted   *)
(* connection is a detached task that reads one request, asks the engine,  *)
(* and then either writes the block response or relays to the upstream.    *)
(*                                                                         *)
(* An action is what a task does between two points where it can be        *)
(* suspended, dropped or failed by the operating system, its .awaits.      *)
(* WafEngine::decide has none: it holds a worker thread until it returns.  *)
(***************************************************************************)
EXTENDS WafEngine, Sequences, FiniteSets

CONSTANTS
    NumSites,   \* sites of the configuration
    ProfileOf,  \* the profile of each site
    Conn,       \* client connections
    MaxChunks,  \* bound: pieces an upstream's response comes in
    Workers     \* worker threads of the tokio runtime

ASSUME ProxyAssumption ==
    /\ NumSites \in Nat \ {0}
    /\ ProfileOf \in [1 .. NumSites -> Profile]
    /\ MaxChunks \in Nat
    /\ Workers \in Nat \ {0}

Site == 1 .. NumSites

VARIABLES
    proc,       \* the process, as main() goes through it
    listener,   \* the accept loop of each site
    stage,      \* where the task of each connection is
    site,       \* the site it came in at, 0 before it has
    request,    \* the local `request` of handle_connection
    decision,   \* its local `decision`
    sent,       \* how much of the request the upstream has been written
    up,         \* the upstream's half of its connection
    upSent,     \* pieces of response the upstream has written
    pulled,     \* pieces copy() has read from it
    toClient    \* what the client has been written

procVars == <<proc, listener>>
relayVars == <<sent, up, upSent, pulled>>
vars == <<proc, listener, stage, site, request, decision,
          sent, up, upSent, pulled, toClient>>

Live  == {"reading", "deciding", "blocking", "connecting", "sending", "relaying"}
Final == {"blocked", "forwarded", "failed", "dropped"}
Stage == {"absent", "backlog"} \cup Live \cup Final

(* stages in which the task is suspended at an .await *)
Suspended == Live \ {"deciding"}

(* What a client can be sent: the block response or a piece of the upstream's *)
Output == ({"block"} \X LegalStatus) \cup ({"chunk"} \X Nat)

TypeOK ==
    /\ proc \in {"starting", "serving", "stopping", "exited"}
    /\ listener \in [Site -> {"unbound", "accepting", "failed", "aborted"}]
    /\ stage \in [Conn -> Stage]
    /\ site \in [Conn -> Site \cup {0}]
    /\ request \in [Conn -> Request \cup {None}]
    /\ decision \in [Conn -> Decision \cup {None}]
    /\ sent \in [Conn -> {"none", "part", "all"}]
    /\ up \in [Conn -> {"none", "open", "eof"}]
    /\ upSent \in [Conn -> 0 .. MaxChunks]
    /\ pulled \in [Conn -> 0 .. MaxChunks]
    /\ toClient \in [Conn -> Seq(Output)]

Init ==
    /\ proc = "starting"
    /\ listener = [s \in Site |-> "unbound"]
    /\ stage = [c \in Conn |-> "absent"]
    /\ site = [c \in Conn |-> 0]
    /\ request = [c \in Conn |-> None]
    /\ decision = [c \in Conn |-> None]
    /\ sent = [c \in Conn |-> "none"]
    /\ up = [c \in Conn |-> "none"]
    /\ upSent = [c \in Conn |-> 0]
    /\ pulled = [c \in Conn |-> 0]
    /\ toClient = [c \in Conn |-> <<>>]

----------------------------------------------------------------------------
(* The process: run() and main().  run() is the root future, which the     *)
(* main thread drives; it needs no worker.                                 *)

(* The first site not bound yet: the loop over the sites goes in order *)
NextToBind(s) ==
    /\ proc = "starting"
    /\ listener[s] = "unbound"
    /\ \A t \in 1 .. s - 1 : listener[t] # "unbound"

(* The accept loop of a site is spawned, and serves, as soon as its own    *)
(* address is bound.                                                       *)
Bind(s) ==
    /\ NextToBind(s)
    /\ listener' = [listener EXCEPT ![s] = "accepting"]
    /\ proc' = IF s = NumSites THEN "serving" ELSE proc
    /\ UNCHANGED <<stage, site, request, decision, relayVars, toClient>>

(* A later address cannot be bound: `?` leaves run() *)
BindFails(s) ==
    /\ NextToBind(s)
    /\ proc' = "stopping"
    /\ UNCHANGED <<listener, stage, site, request, decision, relayVars, toClient>>

(* Mutant of ListenerDown: run() leaves only when the last listener ends. *)
AllListenersDown == \A s \in Site : listener[s] = "failed"

(* join_next() yields the first accept loop that ended, always an error *)
ListenerDown == \E s \in Site : listener[s] = "failed"

RunReturns ==
    /\ proc = "serving"
    /\ ListenerDown
    /\ proc' = "stopping"
    /\ UNCHANGED <<listener, stage, site, request, decision, relayVars, toClient>>

Backlog(s) == {c \in Conn : stage[c] = "backlog" /\ site[c] = s}

(* The kernel resets the connections nobody will accept *)
CloseListener(s, how) ==
    /\ listener' = [listener EXCEPT ![s] = how]
    /\ stage' = [c \in Conn |-> IF c \in Backlog(s) THEN "dropped" ELSE stage[c]]

(* Dropping the JoinSet aborts the accept loops ... *)
AbortListener(s) ==
    /\ proc = "stopping"
    /\ listener[s] = "accepting"
    /\ CloseListener(s, "aborted")
    /\ UNCHANGED <<proc, site, request, decision, relayVars, toClient>>

(* ... and dropping the runtime drops each connection's task where it is   *)
(* suspended.                                                              *)
DropTask(c) ==
    /\ proc = "stopping"
    /\ stage[c] \in Suspended
    /\ stage' = [stage EXCEPT ![c] = "dropped"]
    /\ UNCHANGED <<procVars, site, request, decision, relayVars, toClient>>

(* The shutdown waits until every task has been dropped *)
Exit ==
    /\ proc = "stopping"
    /\ \A s \in Site : listener[s] # "accepting"
    /\ \A c \in Conn : stage[c] \notin Live
    /\ proc' = "exited"
    /\ UNCHANGED <<listener, stage, site, request, decision, relayVars, toClient>>

----------------------------------------------------------------------------
(* The accept loops.  They and the connections' tasks run on the workers,  *)
(* and a task in decide() does not give its worker back.                   *)

Deciding == {c \in Conn : stage[c] = "deciding"}

WorkerFree == Cardinality(Deciding) < Workers

ClientConnect(c, s) ==
    /\ listener[s] = "accepting"
    /\ stage[c] = "absent"
    /\ stage' = [stage EXCEPT ![c] = "backlog"]
    /\ site' = [site EXCEPT ![c] = s]
    /\ UNCHANGED <<procVars, request, decision, relayVars, toClient>>

(* Mutant of ReadyToAccept: the loop awaits handle_connection instead of   *)
(* spawning it.                                                            *)
ReadyToAcceptAlone(s) ==
    /\ listener[s] = "accepting"
    /\ WorkerFree
    /\ \A c \in Conn : site[c] = s => stage[c] \notin Live

ReadyToAccept(s) ==
    /\ listener[s] = "accepting"
    /\ WorkerFree

Accept(c) ==
    /\ stage[c] = "backlog"
    /\ ReadyToAccept(site[c])
    /\ stage' = [stage EXCEPT ![c] = "reading"]
    /\ UNCHANGED <<procVars, site, request, decision, relayVars, toClient>>

(* accept() gives any error of the operating system (no descriptor left,   *)
(* connection aborted): the loop ends and drops its listener.              *)
AcceptFails(s) ==
    /\ listener[s] = "accepting"
    /\ WorkerFree
    /\ Backlog(s) # {}
    /\ CloseListener(s, "failed")
    /\ UNCHANGED <<proc, site, request, decision, relayVars, toClient>>

----------------------------------------------------------------------------
(* handle_connection *)

Goes(c, from, to) ==
    /\ stage[c] = from
    /\ stage' = [stage EXCEPT ![c] = to]

(* read_http_request returns; how it reads is HttpReader.tla *)
ReadRequest(c) ==
    /\ WorkerFree
    /\ Goes(c, "reading", "deciding")
    /\ \E r \in Request : request' = [request EXCEPT ![c] = r]
    /\ UNCHANGED <<procVars, site, decision, relayVars, toClient>>

(* Mutant of StageAfter: a request the engine fails on is let through. *)
StageAfterFailOpen(d) == IF d.ok /\ ~d.allow THEN "blocking" ELSE "connecting"

StageAfter(d) ==
    IF ~d.ok THEN "failed" ELSE IF d.allow THEN "connecting" ELSE "blocking"

(* Mutant of Ruling: every task captured the first site. *)
RulingOfFirstSite(c) == EngineDecide(ProfileOf[1], request[c])

Ruling(c) == EngineDecide(ProfileOf[site[c]], request[c])

Decide(c) ==
    /\ Goes(c, "deciding", StageAfter(Ruling(c)))
    /\ decision' = [decision EXCEPT ![c] = Ruling(c)]
    /\ UNCHANGED <<procVars, site, request, relayVars, toClient>>

WriteBlocked(c) ==
    /\ WorkerFree
    /\ Goes(c, "blocking", "blocked")
    /\ toClient' = [toClient EXCEPT ![c] = << <<"block", decision[c].status>> >>]
    /\ UNCHANGED <<procVars, site, request, decision, relayVars>>

Connect(c) ==
    /\ WorkerFree
    /\ Goes(c, "connecting", "sending")
    /\ up' = [up EXCEPT ![c] = "open"]
    /\ UNCHANGED <<procVars, site, request, decision, sent, upSent, pulled, toClient>>

(* write_all(): the upstream takes the request in one or several writes *)
SendPart(c) ==
    /\ WorkerFree
    /\ stage[c] = "sending"
    /\ sent[c] = "none"
    /\ sent' = [sent EXCEPT ![c] = "part"]
    /\ UNCHANGED <<procVars, stage, site, request, decision, up, upSent, pulled, toClient>>

SendRest(c) ==
    /\ WorkerFree
    /\ Goes(c, "sending", "relaying")
    /\ sent' = [sent EXCEPT ![c] = "all"]
    /\ UNCHANGED <<procVars, site, request, decision, up, upSent, pulled, toClient>>

(* The upstream is free to answer, and to close, before it has read all *)
UpstreamReply(c) ==
    /\ stage[c] \in {"sending", "relaying"}
    /\ up[c] = "open"
    /\ upSent[c] < MaxChunks
    /\ upSent' = [upSent EXCEPT ![c] = @ + 1]
    /\ UNCHANGED <<procVars, stage, site, request, decision, sent, up, pulled, toClient>>

UpstreamEof(c) ==
    /\ stage[c] \in {"sending", "relaying"}
    /\ up[c] = "open"
    /\ up' = [up EXCEPT ![c] = "eof"]
    /\ UNCHANGED <<procVars, stage, site, request, decision, sent, upSent, pulled, toClient>>

(* tokio::io::copy: it reads ahead of what it has written ... *)
CopyRead(c) ==
    /\ WorkerFree
    /\ stage[c] = "relaying"
    /\ pulled[c] < upSent[c]
    /\ pulled' = [pulled EXCEPT ![c] = @ + 1]
    /\ UNCHANGED <<procVars, stage, site, request, decision, sent, up, upSent, toClient>>

CopyWrite(c) ==
    /\ WorkerFree
    /\ stage[c] = "relaying"
    /\ Len(toClient[c]) < pulled[c]
    /\ toClient' = [toClient EXCEPT ![c] = Append(@, <<"chunk", Len(@) + 1>>)]
    /\ UNCHANGED <<procVars, stage, site, request, decision, relayVars>>

(* Mutant of CopyDone: what is still in the copy buffer is not written. *)
CopyDoneUnflushed(c) == up[c] = "eof" /\ pulled[c] = upSent[c]

(* ... and returns once it has read the end and written what it holds *)
CopyDone(c) ==
    /\ up[c] = "eof"
    /\ pulled[c] = upSent[c]
    /\ Len(toClient[c]) = pulled[c]

CopyEnds(c) ==
    /\ WorkerFree
    /\ CopyDone(c)
    /\ Goes(c, "relaying", "forwarded")
    /\ UNCHANGED <<procVars, site, request, decision, relayVars, toClient>>

(* A read, connect or write fails, or the request does not parse: `?` ends *)
(* the task with what has been written so far.                             *)
ConnError(c) ==
    /\ WorkerFree
    /\ stage[c] \in Suspended
    /\ stage' = [stage EXCEPT ![c] = "failed"]
    /\ UNCHANGED <<procVars, site, request, decision, relayVars, toClient>>

----------------------------------------------------------------------------
Next ==
    \/ \E s \in Site :
        Bind(s) \/ BindFails(s) \/ AbortListener(s) \/ AcceptFails(s)
    \/ RunReturns
    \/ Exit
    \/ \E c \in Conn :
        \/ \E s \in Site : ClientConnect(c, s)
        \/ Accept(c)
        \/ ReadRequest(c)
        \/ Decide(c)
        \/ WriteBlocked(c)
        \/ Connect(c)
        \/ SendPart(c)
        \/ SendRest(c)
        \/ UpstreamReply(c)
        \/ UpstreamEof(c)
        \/ CopyRead(c)
        \/ CopyWrite(c)
        \/ CopyEnds(c)
        \/ ConnError(c)
        \/ DropTask(c)

(* What the runtime owes whatever the peers do: the root future and every  *)
(* task that can go on is run, and decide() returns (its fuel is finite:   *)
(* WasmVm.tla).                                                            *)
RuntimeFairness ==
    /\ WF_vars(\E s \in Site : Bind(s) \/ BindFails(s))
    /\ WF_vars(RunReturns)
    /\ WF_vars(Exit)
    /\ \A s \in Site : WF_vars(AbortListener(s))
    /\ \A c \in Conn :
        /\ WF_vars(Accept(c))
        /\ WF_vars(Decide(c))
        /\ WF_vars(WriteBlocked(c))
        /\ WF_vars(Connect(c))
        /\ WF_vars(CopyRead(c))
        /\ WF_vars(CopyEnds(c))
        /\ WF_vars(DropTask(c))

(* What the two peers of one connection owe it: the client sends a request *)
(* and reads the response, the upstream reads the request and closes.      *)
PeerFairness(c) ==
    /\ WF_vars(ReadRequest(c))
    /\ WF_vars(SendRest(c))
    /\ WF_vars(CopyWrite(c))
    /\ WF_vars(UpstreamEof(c))

Spec == Init /\ [][Next]_vars

FairSpec == Spec /\ RuntimeFairness

----------------------------------------------------------------------------
(* Properties *)

(* No byte of a request reaches an upstream unless the module of the site  *)
(* the request came in at allowed that very request: an engine error, an   *)
(* answer to block or a mix-up of sites never lets one out (the `?` and    *)
(* the early return of handle_connection).                                 *)
ForwardedOnlyIfAllowed ==
    \A c \in Conn :
        sent[c] # "none" =>
            /\ site[c] \in Site
            /\ request[c] \in Request
            /\ Allows(EngineDecide(ProfileOf[site[c]], request[c]))

(* A client gets either the gateway's block response, alone and to a       *)
(* request it never forwarded, or the upstream's answer to a request the   *)
(* upstream was given in full: in order, from its start, nothing of it     *)
(* twice.  The two are never mixed, whatever failed in between.            *)
ResponseProvenance ==
    \A c \in Conn : toClient[c] # <<>> =>
        \/ /\ sent[c] = "none"
           /\ request[c] \in Request
           /\ LET ruling == EngineDecide(ProfileOf[site[c]], request[c])
              IN  /\ Blocks(ruling)
                  /\ ruling.status \in LegalStatus
                  /\ toClient[c] = << <<"block", ruling.status>> >>
        \/ /\ sent[c] = "all"
           /\ Len(toClient[c]) <= upSent[c]
           /\ \A i \in 1 .. Len(toClient[c]) : toClient[c][i] = <<"chunk", i>>

(* A connection logged as "request forwarded" gave its client all that the *)
(* upstream wrote before it closed.                                        *)
CompleteRelay ==
    \A c \in Conn : stage[c] = "forwarded" =>
        up[c] = "eof" /\ Len(toClient[c]) = upSent[c]

(* The inductive invariant: with TypeOK, what a task holds at each stage    *)
(* and what it has written by then.                                        *)
HeldOK(c) ==
    /\ stage[c] # "absent" => site[c] \in Site
    /\ stage[c] \in {"absent", "backlog", "reading"} => request[c] = None
    /\ stage[c] \in {"deciding", "blocking", "connecting", "sending",
                     "relaying", "blocked", "forwarded"} => request[c] \in Request
    /\ stage[c] \in {"blocking", "blocked"} =>
        /\ decision[c] = Ruling(c)
        /\ Blocks(Ruling(c))
    /\ stage[c] \in {"connecting", "sending", "relaying", "forwarded"} =>
        Allows(Ruling(c))

WrittenOK(c) ==
    /\ stage[c] \in {"absent", "backlog", "reading",
                     "deciding", "blocking", "connecting"} => sent[c] = "none"
    /\ stage[c] = "sending" => sent[c] \in {"none", "part"}
    /\ stage[c] = "relaying" => sent[c] = "all"
    /\ stage[c] \notin Final \cup {"relaying"} => toClient[c] = <<>>
    /\ sent[c] # "none" => stage[c] \in {"sending", "relaying"} \cup Final
    /\ pulled[c] <= upSent[c]
    /\ sent[c] = "all" => Len(toClient[c]) <= pulled[c]

IInv ==
    /\ TypeOK
    /\ \A c \in Conn : HeldOK(c)
    /\ \A c \in Conn : WrittenOK(c)
    /\ ForwardedOnlyIfAllowed
    /\ ResponseProvenance
    /\ CompleteRelay

(* A connection whose own peers do their part ends, whatever the peers of  *)
(* every other connection do or leave undone: one task per connection.     *)
IsolatedProgress ==
    \A c \in Conn :
        PeerFairness(c) => (stage[c] = "backlog" ~> stage[c] \in Final)

(* The gateway serves all of its sites or none: when one site cannot be    *)
(* bound or its accept loop ends, the process ends, silent peers or not.   *)
FailureStopsAll ==
    ((\E s \in Site : listener[s] = "failed") \/ proc = "stopping")
        ~> proc = "exited"

----------------------------------------------------------------------------
(* The gateway does what Waf.tla promises. *)

Asked == [c \in Conn |->
    IF request[c] = None THEN None
    ELSE [profile |-> ProfileOf[site[c]], request |-> request[c]]]

Reached == [c \in Conn |-> IF sent[c] = "none" THEN None ELSE request[c]]

Closed == {c \in Conn : stage[c] \in Final}

W == INSTANCE Waf WITH
        asked <- Asked, reached <- Reached, answer <- toClient, closed <- Closed

(* Every step of the proxy is a step the abstract gateway may take: it     *)
(* asks once, under the profile of the site, before it answers or forwards *)
(* anything, and does nothing more on a connection it is done with.        *)
ImplementsWaf == W!Spec
============================================================================
