---------------------------- MODULE ProxyProofs ----------------------------
(* The safety of Proxy.tla, for every number of sites, connections,        *)
(* workers and response pieces, and for every verdict of the modules.      *)
EXTENDS Proxy, TLAPS

(***************************************************************************)
(* The engine.                                                             *)
(***************************************************************************)

(* WafEngine::decide gives a Decision, its status an HTTP status, whatever *)
(* the module answered.                                                    *)
LEMMA EngineDecideType ==
    ASSUME NEW p \in Profile, NEW r \in Request
    PROVE  EngineDecide(p, r) \in Decision
<1> DEFINE a == Verdict[MetaOf(p, r)]
<1>1. MetaOf(p, r) \in Meta
    BY DEF MetaOf, Meta, Request
<1>2. a \in WasmAnswer
    BY <1>1, EngineAssumption
<1>3. StatusCode(a) \in LegalStatus
    BY <1>2 DEF StatusCode, LegalStatus, WasmAnswer, U16
<1>4. a.ok \in BOOLEAN /\ a.allow \in BOOLEAN
    BY <1>2 DEF WasmAnswer
<1>5. EngineDecide(p, r) = [ok |-> a.ok, allow |-> a.allow, status |-> StatusCode(a)]
    BY DEF EngineDecide
<1> HIDE DEF a
<1> QED
    BY <1>3, <1>4, <1>5 DEF Decision

(* None is not a request, a question nor a decision. *)
LEMMA NoneIsNothing ==
    None \notin Request /\ None \notin Question /\ None \notin Decision
BY EngineAssumption

(* The task goes on to the upstream only on an answer to allow. *)
LEMMA StageAfterDecision ==
    ASSUME NEW d \in Decision
    PROVE  /\ StageAfter(d) \in {"failed", "connecting", "blocking"}
           /\ StageAfter(d) = "connecting" => Allows(d)
           /\ StageAfter(d) = "blocking" => Blocks(d)
BY DEF StageAfter, Allows, Blocks, Decision

(***************************************************************************)
(* Type correctness.  It needs the rest of the invariant: decide() is      *)
(* typed only when the task holds a request and a site.                    *)
(***************************************************************************)

(* The initial state is well typed. *)
LEMMA TypeInit == Init => TypeOK
<1> SUFFICES ASSUME Init PROVE TypeOK
    OBVIOUS
<1>1. "absent" \in Stage
    BY DEF Stage
<1>2. <<>> \in Seq(Output)
    OBVIOUS
<1> QED
    BY <1>1, <1>2, ProxyAssumption DEF Init, TypeOK

(* Every step keeps the state well typed. *)
LEMMA TypeStep == ASSUME IInv, [Next]_vars PROVE TypeOK'
<1> USE DEF TypeOK, procVars, relayVars
<1>0. TypeOK
    BY DEF IInv
<1>1. ASSUME NEW s \in Site, Bind(s) PROVE TypeOK'
    BY <1>0, <1>1 DEF Bind
<1>2. ASSUME NEW s \in Site, BindFails(s) PROVE TypeOK'
    BY <1>0, <1>2 DEF BindFails
<1>3. ASSUME NEW s \in Site, AbortListener(s) PROVE TypeOK'
    BY <1>0, <1>3 DEF AbortListener, CloseListener, Stage, Final
<1>4. ASSUME NEW s \in Site, AcceptFails(s) PROVE TypeOK'
    BY <1>0, <1>4 DEF AcceptFails, CloseListener, Stage, Final
<1>5. CASE RunReturns
    BY <1>0, <1>5 DEF RunReturns
<1>6. CASE Exit
    BY <1>0, <1>6 DEF Exit
<1>7. ASSUME NEW c \in Conn, NEW s \in Site, ClientConnect(c, s) PROVE TypeOK'
    BY <1>0, <1>7 DEF ClientConnect, Stage
<1>8. ASSUME NEW c \in Conn, Accept(c) PROVE TypeOK'
    BY <1>0, <1>8 DEF Accept, Stage, Live
<1>9. ASSUME NEW c \in Conn, ReadRequest(c) PROVE TypeOK'
    BY <1>0, <1>9 DEF ReadRequest, Goes, Stage, Live
<1>10. ASSUME NEW c \in Conn, Decide(c) PROVE TypeOK'
  <2>1. site[c] \in Site /\ request[c] \in Request
    BY <1>10 DEF IInv, HeldOK, Decide, Goes
  <2>2. Ruling(c) \in Decision
    BY <2>1, EngineDecideType, ProxyAssumption DEF Ruling, Site
  <2>3. StageAfter(Ruling(c)) \in Stage
    BY <2>2, StageAfterDecision DEF Stage, Live, Final
  <2> QED
    BY <1>0, <1>10, <2>2, <2>3 DEF Decide, Goes
<1>11. ASSUME NEW c \in Conn, WriteBlocked(c) PROVE TypeOK'
  <2>1. decision[c] = Ruling(c) /\ site[c] \in Site /\ request[c] \in Request
    BY <1>11 DEF IInv, HeldOK, WriteBlocked, Goes
  <2>2. decision[c] \in Decision
    BY <2>1, EngineDecideType, ProxyAssumption DEF Ruling, Site
  <2>3. <<"block", decision[c].status>> \in Output
    BY <2>2 DEF Output, Decision
  <2>4. << <<"block", decision[c].status>> >> \in Seq(Output)
    BY <2>3
  <2>5. "blocked" \in Stage
    BY DEF Stage, Final
  <2> QED
    BY <1>0, <1>11, <2>4, <2>5 DEF WriteBlocked, Goes
<1>12. ASSUME NEW c \in Conn, Connect(c) PROVE TypeOK'
    BY <1>0, <1>12 DEF Connect, Goes, Stage, Live
<1>13. ASSUME NEW c \in Conn, SendPart(c) PROVE TypeOK'
    BY <1>0, <1>13 DEF SendPart
<1>14. ASSUME NEW c \in Conn, SendRest(c) PROVE TypeOK'
    BY <1>0, <1>14 DEF SendRest, Goes, Stage, Live
<1>15. ASSUME NEW c \in Conn, UpstreamReply(c) PROVE TypeOK'
    BY <1>0, <1>15, ProxyAssumption DEF UpstreamReply
<1>16. ASSUME NEW c \in Conn, UpstreamEof(c) PROVE TypeOK'
    BY <1>0, <1>16 DEF UpstreamEof
<1>17. ASSUME NEW c \in Conn, CopyRead(c) PROVE TypeOK'
    BY <1>0, <1>17, ProxyAssumption DEF CopyRead
<1>18. ASSUME NEW c \in Conn, CopyWrite(c) PROVE TypeOK'
  <2>1. toClient[c] \in Seq(Output)
    BY <1>0
  <2>2. <<"chunk", Len(toClient[c]) + 1>> \in Output
    BY <2>1 DEF Output
  <2>3. Append(toClient[c], <<"chunk", Len(toClient[c]) + 1>>) \in Seq(Output)
    BY <2>1, <2>2
  <2> QED
    BY <1>0, <1>18, <2>3 DEF CopyWrite
<1>19. ASSUME NEW c \in Conn, CopyEnds(c) PROVE TypeOK'
    BY <1>0, <1>19 DEF CopyEnds, Goes, Stage, Final
<1>20. ASSUME NEW c \in Conn, ConnError(c) PROVE TypeOK'
    BY <1>0, <1>20 DEF ConnError, Stage, Final
<1>21. ASSUME NEW c \in Conn, DropTask(c) PROVE TypeOK'
    BY <1>0, <1>21 DEF DropTask, Stage, Final
<1>22. CASE UNCHANGED vars
    BY <1>0, <1>22 DEF vars
<1> HIDE DEF TypeOK, procVars, relayVars
<1> QED
    BY <1>1, <1>2, <1>3, <1>4, <1>5, <1>6, <1>7, <1>8, <1>9, <1>10, <1>11,
       <1>12, <1>13, <1>14, <1>15, <1>16, <1>17, <1>18, <1>19, <1>20, <1>21,
       <1>22 DEF Next

(***************************************************************************)
(* The invariant, one connection at a time.                                *)
(***************************************************************************)

ForwardOK(c) ==
    sent[c] # "none" =>
        /\ site[c] \in Site
        /\ request[c] \in Request
        /\ Allows(Ruling(c))

ResponseOK(c) ==
    toClient[c] # <<>> =>
        \/ /\ sent[c] = "none"
           /\ request[c] \in Request
           /\ Blocks(Ruling(c))
           /\ Ruling(c).status \in LegalStatus
           /\ toClient[c] = << <<"block", Ruling(c).status>> >>
        \/ /\ sent[c] = "all"
           /\ Len(toClient[c]) <= upSent[c]
           /\ \A i \in 1 .. Len(toClient[c]) : toClient[c][i] = <<"chunk", i>>

RelayOK(c) ==
    stage[c] = "forwarded" => up[c] = "eof" /\ Len(toClient[c]) = upSent[c]

ConnOK(c) ==
    HeldOK(c) /\ WrittenOK(c) /\ ForwardOK(c) /\ ResponseOK(c) /\ RelayOK(c)

(* The invariant is a type and one condition on each connection. *)
LEMMA IInvByConn == IInv <=> TypeOK /\ \A c \in Conn : ConnOK(c)
<1>1. ForwardedOnlyIfAllowed <=> \A c \in Conn : ForwardOK(c)
    BY DEF ForwardedOnlyIfAllowed, ForwardOK, Ruling
<1>2. ResponseProvenance <=> \A c \in Conn : ResponseOK(c)
    BY DEF ResponseProvenance, ResponseOK, Ruling
<1>3. CompleteRelay <=> \A c \in Conn : RelayOK(c)
    BY DEF CompleteRelay, RelayOK
<1> QED
    BY <1>1, <1>2, <1>3 DEF IInv, ConnOK

(* What is the same about a connection *)
SameConn(c) ==
    /\ stage'[c] = stage[c]
    /\ site'[c] = site[c]
    /\ request'[c] = request[c]
    /\ decision'[c] = decision[c]
    /\ sent'[c] = sent[c]
    /\ up'[c] = up[c]
    /\ upSent'[c] = upSent[c]
    /\ pulled'[c] = pulled[c]
    /\ toClient'[c] = toClient[c]

(* A connection's condition speaks of that connection alone. *)
LEMMA FrameConn ==
    ASSUME NEW c \in Conn, ConnOK(c), SameConn(c)
    PROVE  ConnOK(c)'
<1>1. Ruling(c)' = Ruling(c)
    BY DEF SameConn, Ruling
<1>2. HeldOK(c)'
    BY <1>1 DEF ConnOK, SameConn, HeldOK
<1>3. WrittenOK(c)'
    BY DEF ConnOK, SameConn, WrittenOK
<1>4. ForwardOK(c)'
    BY <1>1 DEF ConnOK, SameConn, ForwardOK
<1>5. ResponseOK(c)'
    BY <1>1 DEF ConnOK, SameConn, ResponseOK
<1>6. RelayOK(c)'
    BY DEF ConnOK, SameConn, RelayOK
<1> QED
    BY <1>2, <1>3, <1>4, <1>5, <1>6 DEF ConnOK

(* A task that only moves to "failed" or "dropped" keeps what it holds. *)
LEMMA EndsConn ==
    ASSUME NEW c \in Conn, TypeOK, ConnOK(c), stage[c] # "absent",
           stage'[c] \in {"failed", "dropped"},
           UNCHANGED <<site, request, decision, relayVars, toClient>>
    PROVE  ConnOK(c)'
<1>1. Ruling(c)' = Ruling(c)
    BY DEF Ruling
<1>2. HeldOK(c)'
    BY <1>1 DEF ConnOK, HeldOK
<1>3. WrittenOK(c)'
    BY DEF ConnOK, WrittenOK, relayVars, Final
<1>4. ForwardOK(c)'
    BY <1>1 DEF ConnOK, ForwardOK, relayVars
<1>5. ResponseOK(c)'
    BY <1>1 DEF ConnOK, ResponseOK, relayVars
<1>6. RelayOK(c)'
    BY DEF RelayOK
<1> QED
    BY <1>2, <1>3, <1>4, <1>5, <1>6 DEF ConnOK

(* The steps of the process and of the accept loops keep the condition of  *)
(* every connection.                                                       *)
LEMMA ConnStepOfProcess ==
    ASSUME TypeOK, NEW c \in Conn, ConnOK(c),
           \/ \E s \in Site : Bind(s) \/ BindFails(s) \/ AbortListener(s) \/ AcceptFails(s)
           \/ RunReturns \/ Exit \/ UNCHANGED vars
    PROVE  ConnOK(c)'
<1>1. ASSUME NEW s \in Site, CloseListener(s, "aborted") \/ CloseListener(s, "failed"),
             UNCHANGED <<proc, site, request, decision, relayVars, toClient>>
      PROVE  ConnOK(c)'
  <2>1. CASE c \in Backlog(s)
    BY <1>1, <2>1, EndsConn DEF CloseListener, Backlog
  <2>2. CASE c \notin Backlog(s)
    <3>1. SameConn(c)
        BY <1>1, <2>2 DEF SameConn, CloseListener, relayVars
    <3> QED
        BY <3>1, FrameConn
  <2> QED
    BY <2>1, <2>2
<1>2. ASSUME UNCHANGED <<stage, site, request, decision, relayVars, toClient>>
      PROVE  ConnOK(c)'
  <2>1. SameConn(c)
    BY <1>2 DEF SameConn, relayVars
  <2> QED
    BY <2>1, FrameConn
<1>3. ASSUME NEW s \in Site, Bind(s) \/ BindFails(s) PROVE ConnOK(c)'
    BY <1>2, <1>3 DEF Bind, BindFails
<1>4. ASSUME NEW s \in Site, AbortListener(s) \/ AcceptFails(s) PROVE ConnOK(c)'
    BY <1>1, <1>4 DEF AbortListener, AcceptFails
<1>5. CASE RunReturns \/ Exit
    BY <1>2, <1>5 DEF RunReturns, Exit
<1>6. CASE UNCHANGED vars
    BY <1>2, <1>6 DEF vars, relayVars
<1> QED
    BY <1>3, <1>4, <1>5, <1>6

(* A step of one connection leaves the others as they are. *)
LEMMA OtherConn ==
    ASSUME TypeOK, NEW d \in Conn, NEW c \in Conn \ {d}, ConnOK(c),
           \/ \E s \in Site : ClientConnect(d, s)
           \/ Accept(d) \/ ReadRequest(d) \/ Decide(d) \/ WriteBlocked(d)
           \/ Connect(d) \/ SendPart(d) \/ SendRest(d) \/ UpstreamReply(d)
           \/ UpstreamEof(d) \/ CopyRead(d) \/ CopyWrite(d) \/ CopyEnds(d)
           \/ ConnError(d) \/ DropTask(d)
    PROVE  ConnOK(c)'
<1> USE DEF SameConn, TypeOK, relayVars, Goes
<1>1. ASSUME NEW s \in Site, ClientConnect(d, s) PROVE SameConn(c)
    BY <1>1 DEF ClientConnect
<1>2. CASE Accept(d) \/ ConnError(d) \/ DropTask(d) \/ CopyEnds(d)
    <2>1. SameConn(c)
        BY <1>2 DEF Accept, ConnError, DropTask, CopyEnds
    <2> QED
        BY <2>1, FrameConn
<1>3. CASE ReadRequest(d) \/ Decide(d) \/ WriteBlocked(d)
    <2>1. SameConn(c)
        BY <1>3 DEF ReadRequest, Decide, WriteBlocked
    <2> QED
        BY <2>1, FrameConn
<1>4. CASE Connect(d) \/ SendPart(d) \/ SendRest(d) \/ UpstreamReply(d) \/ UpstreamEof(d)
    <2>1. SameConn(c)
        BY <1>4 DEF Connect, SendPart, SendRest, UpstreamReply, UpstreamEof
    <2> QED
        BY <2>1, FrameConn
<1>5. CASE CopyRead(d) \/ CopyWrite(d)
    <2>1. SameConn(c)
        BY <1>5 DEF CopyRead, CopyWrite
    <2> QED
        BY <2>1, FrameConn
<1> HIDE DEF SameConn, TypeOK, relayVars, Goes
<1> QED
    BY <1>1, <1>2, <1>3, <1>4, <1>5, FrameConn

(* The steps of a connection keep its own condition. *)
LEMMA OwnConn ==
    ASSUME TypeOK, NEW c \in Conn, ConnOK(c),
           \/ \E s \in Site : ClientConnect(c, s)
           \/ Accept(c) \/ ReadRequest(c) \/ Decide(c) \/ WriteBlocked(c)
           \/ Connect(c) \/ SendPart(c) \/ SendRest(c) \/ UpstreamReply(c)
           \/ UpstreamEof(c) \/ CopyRead(c) \/ CopyWrite(c) \/ CopyEnds(c)
           \/ ConnError(c) \/ DropTask(c)
    PROVE  ConnOK(c)'
<1> USE NoneIsNothing
    DEF TypeOK, ConnOK, HeldOK, WrittenOK, ForwardOK, ResponseOK, RelayOK,
        relayVars, Goes, Live, Final, Suspended
<1>1. ASSUME NEW s \in Site, ClientConnect(c, s) PROVE ConnOK(c)'
    BY <1>1 DEF ClientConnect, Ruling
<1>2. CASE Accept(c)
    BY <1>2 DEF Accept, Ruling
<1>3. CASE ReadRequest(c)
    BY <1>3 DEF ReadRequest, Ruling
<1>4. CASE Decide(c)
  <2>1. Ruling(c)' = Ruling(c)
    BY <1>4 DEF Decide, Ruling
  <2>2. Ruling(c) \in Decision
    BY <1>4, EngineDecideType, ProxyAssumption DEF Ruling, Site, Decide
  <2> QED
    BY <1>4, <2>1, <2>2, StageAfterDecision DEF Decide
<1>5. CASE WriteBlocked(c)
  <2>1. Ruling(c)' = Ruling(c)
    BY <1>5 DEF WriteBlocked, Ruling
  <2>2. Ruling(c) \in Decision
    BY <1>5, EngineDecideType, ProxyAssumption DEF Ruling, Site, WriteBlocked
  <2>3. Ruling(c).status \in LegalStatus
    BY <2>2 DEF Decision
  <2>4. toClient'[c] = << <<"block", Ruling(c).status>> >>
    BY <1>5 DEF WriteBlocked
  <2> QED
    BY <1>5, <2>1, <2>3, <2>4 DEF WriteBlocked
<1>6. CASE Connect(c)
    BY <1>6 DEF Connect, Ruling
<1>7. CASE SendPart(c)
    BY <1>7 DEF SendPart, Ruling
<1>8. CASE SendRest(c)
    BY <1>8 DEF SendRest, Ruling
<1>9. CASE UpstreamReply(c)
    BY <1>9, ProxyAssumption DEF UpstreamReply, Ruling
<1>10. CASE UpstreamEof(c)
    BY <1>10 DEF UpstreamEof, Ruling
<1>11. CASE CopyRead(c)
    BY <1>11, ProxyAssumption DEF CopyRead, Ruling
<1>12. CASE CopyWrite(c)
    BY <1>12, ProxyAssumption DEF CopyWrite, Ruling
<1>13. CASE CopyEnds(c)
    BY <1>13, ProxyAssumption DEF CopyEnds, CopyDone, Ruling
<1>14. CASE ConnError(c) \/ DropTask(c)
    BY <1>14, EndsConn DEF ConnError, DropTask
<1> HIDE DEF ConnOK
<1> QED
    BY <1>1, <1>2, <1>3, <1>4, <1>5, <1>6, <1>7, <1>8, <1>9, <1>10, <1>11,
       <1>12, <1>13, <1>14

(***************************************************************************)
(* The invariant of the specification, and what follows from it.           *)
(***************************************************************************)

(* Every first state satisfies the invariant. *)
LEMMA InvInit == Init => IInv
<1> SUFFICES ASSUME Init PROVE IInv
    OBVIOUS
<1>1. TypeOK
    BY TypeInit
<1>2. ASSUME NEW c \in Conn PROVE ConnOK(c)
    BY NoneIsNothing DEF Init, ConnOK, HeldOK, WrittenOK, ForwardOK,
        ResponseOK, RelayOK, Final
<1> QED
    BY <1>1, <1>2, IInvByConn

(* Every step keeps the invariant. *)
LEMMA InvStep == IInv /\ [Next]_vars => IInv'
<1> SUFFICES ASSUME IInv, [Next]_vars PROVE IInv'
    OBVIOUS
<1>1. TypeOK /\ \A c \in Conn : ConnOK(c)
    BY IInvByConn
<1>2. TypeOK'
    BY TypeStep
<1>3. ASSUME NEW c \in Conn PROVE ConnOK(c)'
  <2>1. CASE \/ \E s \in Site : Bind(s) \/ BindFails(s) \/ AbortListener(s) \/ AcceptFails(s)
             \/ RunReturns \/ Exit \/ UNCHANGED vars
    BY <1>1, <2>1, ConnStepOfProcess
  <2>2. ASSUME NEW d \in Conn,
               \/ \E s \in Site : ClientConnect(d, s)
               \/ Accept(d) \/ ReadRequest(d) \/ Decide(d) \/ WriteBlocked(d)
               \/ Connect(d) \/ SendPart(d) \/ SendRest(d) \/ UpstreamReply(d)
               \/ UpstreamEof(d) \/ CopyRead(d) \/ CopyWrite(d) \/ CopyEnds(d)
               \/ ConnError(d) \/ DropTask(d)
        PROVE  ConnOK(c)'
    <3>1. CASE c = d
        BY <1>1, <2>2, <3>1, OwnConn
    <3>2. CASE c # d
        BY <1>1, <2>2, <3>2, OtherConn
    <3> QED
        BY <3>1, <3>2
  <2> QED
    BY <2>1, <2>2 DEF Next
<1>4. (IInv <=> TypeOK /\ \A c \in Conn : ConnOK(c))'
    BY IInvByConn, PTL
<1> QED
    BY <1>2, <1>3, <1>4

(* The inductive invariant of the proxy holds always. *)
THEOREM Invariance == Spec => []IInv
BY InvInit, InvStep, PTL DEF Spec

(* The state of the gateway is well typed, whatever the operating system,  *)
(* the peers and the modules do.                                           *)
THEOREM TypeCorrect == Spec => []TypeOK
<1>1. IInv => TypeOK
    BY DEF IInv
<1> QED
    BY <1>1, Invariance, PTL

(* No byte of a request reaches an upstream unless the module of its site  *)
(* allowed that request.                                                   *)
THEOREM NothingForwardedUnasked == Spec => []ForwardedOnlyIfAllowed
<1>1. IInv => ForwardedOnlyIfAllowed
    BY DEF IInv
<1> QED
    BY <1>1, Invariance, PTL

(* A client gets the block response or a prefix of the upstream's answer,  *)
(* never both.                                                             *)
THEOREM ResponsesAreNeverMixed == Spec => []ResponseProvenance
<1>1. IInv => ResponseProvenance
    BY DEF IInv
<1> QED
    BY <1>1, Invariance, PTL

(* A request that ends as forwarded had its whole answer relayed. *)
THEOREM ForwardedIsComplete == Spec => []CompleteRelay
<1>1. IInv => CompleteRelay
    BY DEF IInv
<1> QED
    BY <1>1, Invariance, PTL

(***************************************************************************)
(* The proxy implements Waf.tla.                                           *)
(***************************************************************************)

(* The two modules speak of the same engine. *)
LEMMA SameEngine ==
    /\ \A p, r : W!EngineDecide(p, r) = EngineDecide(p, r)
    /\ \A d : (W!Allows(d) <=> Allows(d)) /\ (W!Blocks(d) <=> Blocks(d))
    /\ W!Question = Question
BY DEF W!EngineDecide, EngineDecide, W!StatusCode, StatusCode, W!MetaOf, MetaOf,
       W!LegalStatus, LegalStatus, W!Allows, Allows, W!Blocks, Blocks,
       W!Request, Request, W!Question, Question

(* Once a connection has its request, the abstract gateway has been asked, *)
(* and the abstract ruling is the proxy's.                                 *)
LEMMA SameRuling ==
    ASSUME NEW c \in Conn, site[c] \in Site, request[c] \in Request
    PROVE  /\ Asked[c] = [profile |-> ProfileOf[site[c]], request |-> request[c]]
           /\ Asked[c] \in Question
           /\ W!Ruling(c) = Ruling(c)
<1>1. request[c] # None
    BY NoneIsNothing
<1>2. Asked[c] = [profile |-> ProfileOf[site[c]], request |-> request[c]]
    BY <1>1 DEF Asked
<1>3. ProfileOf[site[c]] \in Profile
    BY ProxyAssumption DEF Site
<1>4. Asked[c] \in Question
    BY <1>2, <1>3 DEF Question
<1> QED
    BY <1>2, <1>4, SameEngine DEF W!Ruling, Ruling

(* A proxy begins as the abstract gateway does. *)
LEMMA RefineInit == Init => W!Init
<1> SUFFICES ASSUME Init PROVE W!Init
    OBVIOUS
<1>1. Asked = [c \in Conn |-> None]
    BY DEF Init, Asked
<1>2. Reached = [c \in Conn |-> None]
    BY DEF Init, Reached
<1>3. Closed = {}
    BY DEF Init, Closed, Final
<1> QED
    BY <1>1, <1>2, <1>3 DEF Init, W!Init

(* The steps the abstract gateway does not see *)
LEMMA RefineStutter ==
    ASSUME TypeOK, UNCHANGED <<request, toClient>>,
           \A c \in Conn : /\ request[c] # None => site'[c] = site[c]
                           /\ sent'[c] = "none" <=> sent[c] = "none"
                           /\ stage'[c] \in Final <=> stage[c] \in Final
    PROVE  UNCHANGED W!vars
<1>1. Asked' = Asked
    BY DEF Asked
<1>2. Reached' = Reached
    BY DEF Reached
<1>3. Closed' = Closed
    BY DEF Closed
<1> QED
    BY <1>1, <1>2, <1>3 DEF W!vars

(* The end of one or several tasks *)
LEMMA RefineClose ==
    ASSUME TypeOK, NEW C \in SUBSET Conn,
           UNCHANGED <<site, request, sent, toClient>>,
           \A c \in C : stage[c] \notin Final /\ stage'[c] \in Final,
           \A c \in Conn \ C : stage'[c] = stage[c]
    PROVE  W!Next
<1>1. Asked' = Asked /\ Reached' = Reached
    BY DEF Asked, Reached
<1>2. Closed' = Closed \cup C
    BY DEF Closed
<1>3. C \cap Closed = {}
    BY DEF Closed
<1>4. W!Close(C)
    BY <1>1, <1>2, <1>3 DEF W!Close
<1> QED
    BY <1>4 DEF W!Next

(* Every step of the process or of an accept loop is a step of the abstract *)
(* gateway, or one it does not see.                                        *)
LEMMA RefineProcess ==
    ASSUME IInv,
           \/ \E s \in Site : Bind(s) \/ BindFails(s) \/ AbortListener(s) \/ AcceptFails(s)
           \/ RunReturns \/ Exit \/ UNCHANGED vars
    PROVE  [W!Next]_(W!vars)
<1>1. TypeOK
    BY DEF IInv
<1>2. ASSUME NEW s \in Site, CloseListener(s, "aborted") \/ CloseListener(s, "failed"),
             UNCHANGED <<proc, site, request, decision, relayVars, toClient>>
      PROVE  W!Next
  <2>1. \A c \in Backlog(s) : stage[c] \notin Final /\ stage'[c] \in Final
    BY <1>2 DEF CloseListener, Backlog, Final
  <2>2. \A c \in Conn \ Backlog(s) : stage'[c] = stage[c]
    BY <1>2 DEF CloseListener
  <2>3. Backlog(s) \in SUBSET Conn
    BY DEF Backlog
  <2>4. UNCHANGED <<site, request, sent, toClient>>
    BY <1>2 DEF relayVars
  <2> QED
    BY <1>1, <2>1, <2>2, <2>3, <2>4, RefineClose
<1>3. ASSUME UNCHANGED <<stage, site, request, decision, relayVars, toClient>>
      PROVE  UNCHANGED W!vars
    BY <1>1, <1>3, RefineStutter DEF relayVars
<1>4. ASSUME NEW s \in Site, Bind(s) \/ BindFails(s) PROVE UNCHANGED W!vars
    BY <1>3, <1>4 DEF Bind, BindFails
<1>5. ASSUME NEW s \in Site, AbortListener(s) \/ AcceptFails(s) PROVE W!Next
    BY <1>2, <1>5 DEF AbortListener, AcceptFails
<1>6. CASE RunReturns \/ Exit
    BY <1>3, <1>6 DEF RunReturns, Exit
<1>7. CASE UNCHANGED vars
    BY <1>3, <1>7 DEF vars, relayVars
<1> QED
    BY <1>4, <1>5, <1>6, <1>7

(* So is every step of a connection. *)
LEMMA RefineConn ==
    ASSUME IInv, NEW c \in Conn,
           \/ \E s \in Site : ClientConnect(c, s)
           \/ Accept(c) \/ ReadRequest(c) \/ Decide(c) \/ WriteBlocked(c)
           \/ Connect(c) \/ SendPart(c) \/ SendRest(c) \/ UpstreamReply(c)
           \/ UpstreamEof(c) \/ CopyRead(c) \/ CopyWrite(c) \/ CopyEnds(c)
           \/ ConnError(c) \/ DropTask(c)
    PROVE  [W!Next]_(W!vars)
<1>1. TypeOK /\ ConnOK(c)
    BY IInvByConn
<1>2. HeldOK(c) /\ WrittenOK(c)
    BY <1>1 DEF ConnOK
<1> USE DEF Goes, relayVars
<1>3. ASSUME UNCHANGED <<site, request, sent, toClient>>, stage[c] \notin Final,
             \E t \in Final : stage' = [stage EXCEPT ![c] = t]
      PROVE  W!Next
  <2>1. stage'[c] \in Final /\ \A d \in Conn \ {c} : stage'[d] = stage[d]
    BY <1>1, <1>3 DEF TypeOK
  <2>2. {c} \in SUBSET Conn
    OBVIOUS
  <2> QED
    BY <1>1, <1>3, <2>1, <2>2, RefineClose
<1>4. ASSUME UNCHANGED <<site, request, sent, toClient>>, stage[c] \notin Final,
             NEW t, t \notin Final, stage' = [stage EXCEPT ![c] = t]
      PROVE  UNCHANGED W!vars
  <2>1. \A d \in Conn : stage'[d] \in Final <=> stage[d] \in Final
    BY <1>1, <1>4 DEF TypeOK
  <2> QED
    BY <1>1, <1>4, <2>1, RefineStutter
<1>5. ASSUME NEW s \in Site, ClientConnect(c, s) PROVE UNCHANGED W!vars
  <2>1. \A d \in Conn : /\ request[d] # None => site'[d] = site[d]
                        /\ stage'[d] \in Final <=> stage[d] \in Final
    BY <1>1, <1>2, <1>5 DEF TypeOK, ClientConnect, HeldOK, Final
  <2> QED
    BY <1>1, <1>5, <2>1, RefineStutter DEF ClientConnect
<1>6. CASE Accept(c)
  <2>1. stage' = [stage EXCEPT ![c] = "reading"] /\ stage[c] \notin Final
    BY <1>6 DEF Accept, Final
  <2>2. "reading" \notin Final
    BY DEF Final
  <2> QED
    BY <1>4, <1>6, <2>1, <2>2 DEF Accept
<1>7. CASE ReadRequest(c)
  <2>1. PICK r \in Request : request' = [request EXCEPT ![c] = r]
    BY <1>7 DEF ReadRequest
  <2> DEFINE q == [profile |-> ProfileOf[site[c]], request |-> r]
  <2>2. site[c] \in Site /\ request[c] = None /\ sent[c] = "none" /\ site' = site
    BY <1>2, <1>7 DEF ReadRequest, HeldOK, WrittenOK
  <2>3. q \in Question
    BY <2>2, ProxyAssumption DEF Question, Site
  <2>4. Asked[c] = None /\ Asked' = [Asked EXCEPT ![c] = q]
    BY <1>1, <2>1, <2>2, NoneIsNothing DEF Asked, TypeOK
  <2>5. Reached' = Reached /\ toClient' = toClient
    BY <1>1, <1>7, <2>1, <2>2 DEF Reached, ReadRequest, TypeOK
  <2>6. Closed' = Closed /\ c \notin Closed
    BY <1>1, <1>7 DEF Closed, ReadRequest, TypeOK, Final
  <2>7. W!Ask(c, q)
    BY <2>4, <2>5, <2>6 DEF W!Ask
  <2> HIDE DEF q
  <2> QED
    BY <2>3, <2>7, SameEngine DEF W!Next
<1>8. ASSUME site[c] \in Site, request[c] \in Request
      PROVE  /\ Asked[c] = [profile |-> ProfileOf[site[c]], request |-> request[c]]
             /\ Asked[c] # None
             /\ W!Ruling(c) = Ruling(c)
    BY <1>8, SameRuling, NoneIsNothing
<1>9. CASE Decide(c)
  <2>1. site[c] \in Site /\ request[c] \in Request
    BY <1>2, <1>9 DEF Decide, HeldOK
  <2>2. Ruling(c) \in Decision
    BY <2>1, EngineDecideType, ProxyAssumption DEF Ruling, Site
  <2>3. CASE StageAfter(Ruling(c)) = "failed"
    BY <1>3, <1>9, <2>3 DEF Decide, Final
  <2>4. CASE StageAfter(Ruling(c)) \in {"connecting", "blocking"}
    <3>1. stage[c] \notin Final /\ StageAfter(Ruling(c)) \notin Final
        BY <1>9, <2>4 DEF Decide, Final
    <3> QED
        BY <1>4, <1>9, <3>1 DEF Decide
  <2> QED
    BY <2>2, <2>3, <2>4, StageAfterDecision
<1>10. CASE WriteBlocked(c)
  <2>1. /\ site[c] \in Site /\ request[c] \in Request
        /\ decision[c] = Ruling(c) /\ Blocks(Ruling(c))
        /\ toClient[c] = <<>>
    BY <1>2, <1>10 DEF WriteBlocked, HeldOK, WrittenOK, Final
  <2>2. Asked' = Asked /\ Reached' = Reached
    BY <1>10 DEF WriteBlocked, Asked, Reached
  <2>3. Closed' = Closed \cup {c} /\ c \notin Closed
    BY <1>1, <1>10 DEF Closed, WriteBlocked, TypeOK, Final
  <2>4. toClient' = [toClient EXCEPT ![c] = << <<"block", W!Ruling(c).status>> >>]
    BY <1>8, <1>10, <2>1 DEF WriteBlocked
  <2>5. W!Block(c)
    BY <1>8, <2>1, <2>2, <2>3, <2>4, SameEngine DEF W!Block
  <2> QED
    BY <2>5 DEF W!Next
<1>11. CASE Connect(c)
  <2>1. stage[c] \notin Final /\ "sending" \notin Final
    BY <1>11 DEF Connect, Final
  <2> QED
    BY <1>4, <1>11, <2>1 DEF Connect
<1>12. ASSUME stage[c] = "sending", sent[c] = "none",
              \E n \in {"part", "all"} : sent' = [sent EXCEPT ![c] = n],
              stage' = stage \/ stage' = [stage EXCEPT ![c] = "relaying"],
              UNCHANGED <<site, request, toClient>>
       PROVE  W!Next
  <2>1. site[c] \in Site /\ request[c] \in Request /\ Allows(Ruling(c))
    BY <1>2, <1>12 DEF HeldOK
  <2>2. Asked' = Asked
    BY <1>12 DEF Asked
  <2>3. Reached[c] = None
    BY <1>12 DEF Reached
  <2>4. Reached' = [Reached EXCEPT ![c] = Asked[c].request]
    <3>1. Asked[c].request = request[c]
        BY <1>8, <2>1
    <3>2. sent'[c] # "none" /\ \A d \in Conn \ {c} : sent'[d] = sent[d]
        BY <1>1, <1>12 DEF TypeOK
    <3> QED
        BY <1>12, <3>1, <3>2 DEF Reached
  <2>5. Closed' = Closed /\ c \notin Closed
    BY <1>1, <1>12 DEF Closed, TypeOK, Final
  <2>6. W!Forward(c)
    BY <1>8, <1>12, <2>1, <2>2, <2>3, <2>4, <2>5, SameEngine DEF W!Forward
  <2> QED
    BY <2>6 DEF W!Next
<1>13. CASE SendPart(c)
    BY <1>12, <1>13 DEF SendPart
<1>14. CASE SendRest(c)
  <2>1. CASE sent[c] = "none"
    BY <1>12, <1>14, <2>1 DEF SendRest
  <2>2. CASE sent[c] # "none"
    <3>1. \A d \in Conn : /\ sent'[d] = "none" <=> sent[d] = "none"
                          /\ stage'[d] \in Final <=> stage[d] \in Final
        BY <1>1, <1>14, <2>2 DEF SendRest, TypeOK, Final
    <3> QED
        BY <1>1, <1>14, <3>1, RefineStutter DEF SendRest
  <2> QED
    BY <2>1, <2>2
<1>15. CASE UpstreamReply(c) \/ UpstreamEof(c) \/ CopyRead(c)
  <2>1. UNCHANGED <<stage, site, request, sent, toClient>>
    BY <1>15 DEF UpstreamReply, UpstreamEof, CopyRead
  <2> QED
    BY <1>1, <2>1, RefineStutter
<1>16. CASE CopyWrite(c)
  <2>1. site[c] \in Site /\ request[c] \in Request /\ sent[c] = "all"
    BY <1>2, <1>16 DEF CopyWrite, HeldOK, WrittenOK
  <2>2. Reached[c] # None
    BY <2>1, NoneIsNothing DEF Reached
  <2>3. Asked' = Asked /\ Reached' = Reached /\ Closed' = Closed
    BY <1>16 DEF CopyWrite, Asked, Reached, Closed
  <2>4. c \notin Closed
    BY <1>16 DEF CopyWrite, Closed, Final
  <2>5. W!Answer(c)
    BY <1>16, <2>2, <2>3, <2>4 DEF W!Answer, CopyWrite
  <2> QED
    BY <2>5 DEF W!Next
<1>17. CASE CopyEnds(c)
    BY <1>3, <1>17 DEF CopyEnds, Final
<1>18. CASE ConnError(c) \/ DropTask(c)
    BY <1>3, <1>18 DEF ConnError, DropTask, Final, Suspended, Live
<1> QED
    BY <1>5, <1>6, <1>7, <1>9, <1>10, <1>11, <1>13, <1>14, <1>15, <1>16,
       <1>17, <1>18

(* The proxy implements the abstract gateway: no interleaving of tasks, no *)
(* failure and no shutdown makes a client or an upstream see what Waf.tla  *)
(* does not allow.                                                         *)
THEOREM ProxyImplementsWaf == Spec => ImplementsWaf
<1>1. IInv /\ [Next]_vars => [W!Next]_(W!vars)
    BY RefineProcess, RefineConn DEF Next
<1> QED
    BY RefineInit, Invariance, <1>1, PTL DEF Spec, ImplementsWaf, W!Spec
============================================================================
