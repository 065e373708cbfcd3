------------------------------ MODULE MCRelay ------------------------------
(* Requests and answers shorter and longer than the way between gateway    *)
(* and upstream holds, and every moment the upstream may begin to answer.  *)
EXTENDS Relay

MCExchanges ==
    {e \in [request : 1 .. 4, answer : 0 .. 4, early : 0 .. 4,
            duplex : BOOLEAN, drains : BOOLEAN, surplus : BOOLEAN] :
        e.early <= e.request}
============================================================================
