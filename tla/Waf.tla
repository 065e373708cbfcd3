-------------------------------- MODULE Waf --------------------------------
(***************************************************************************)
(* What fywaf promises about each client connection, with no word on       *)
(* tasks, listeners or sockets: a request is asked about once; a request   *)
(* the policy blocks is answered by the gateway alone and never reaches    *)
(* the upstream; a request the policy allows may reach the upstream, and   *)
(* then the client is given the upstream's answer, in order, and nothing   *)
(* else; a request the policy cannot decide is refused.                    *)
(***************************************************************************)
EXTENDS WafEngine, Sequences

CONSTANTS Conn

VARIABLES
    asked,      \* the request the gateway was asked about, and its profile
    reached,    \* the request the upstream has been given
    answer,     \* what the client has been sent
    closed      \* the connections the gateway is done with

vars == <<asked, reached, answer, closed>>

Ruling(c) == EngineDecide(asked[c].profile, asked[c].request)

Init ==
    /\ asked   = [c \in Conn |-> None]
    /\ reached = [c \in Conn |-> None]
    /\ answer  = [c \in Conn |-> <<>>]
    /\ closed  = {}

Ask(c, q) ==
    /\ c \notin closed
    /\ asked[c] = None
    /\ asked' = [asked EXCEPT ![c] = q]
    /\ UNCHANGED <<reached, answer, closed>>

Block(c) ==
    /\ c \notin closed
    /\ asked[c] # None
    /\ Blocks(Ruling(c))
    /\ answer[c] = <<>>
    /\ answer' = [answer EXCEPT ![c] = << <<"block", Ruling(c).status>> >>]
    /\ closed' = closed \cup {c}
    /\ UNCHANGED <<asked, reached>>

Forward(c) ==
    /\ c \notin closed
    /\ asked[c] # None
    /\ Allows(Ruling(c))
    /\ reached[c] = None
    /\ reached' = [reached EXCEPT ![c] = asked[c].request]
    /\ UNCHANGED <<asked, answer, closed>>

Answer(c) ==
    /\ c \notin closed
    /\ reached[c] # None
    /\ answer' = [answer EXCEPT ![c] = Append(@, <<"chunk", Len(@) + 1>>)]
    /\ UNCHANGED <<asked, reached, closed>>

Close(C) ==
    /\ C \cap closed = {}
    /\ closed' = closed \cup C
    /\ UNCHANGED <<asked, reached, answer>>

Next ==
    \/ \E c \in Conn :
        \/ \E q \in Question : Ask(c, q)
        \/ Block(c)
        \/ Forward(c)
        \/ Answer(c)
    \/ \E C \in SUBSET Conn : Close(C)

Spec == Init /\ [][Next]_vars
============================================================================
