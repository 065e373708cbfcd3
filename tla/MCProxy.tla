------------------------------ MODULE MCProxy ------------------------------
(* Small instances of Proxy.tla. *)
EXTENDS Proxy

CONSTANTS p, q, c1, c2, benign, hostile, text, binary

MCProfileOf == <<p, q>>

(* Two modules that differ on every request.  p blocks what is hostile and *)
(* fails on a body it is not shown (out of fuel, say); q blocks what is    *)
(* benign, with statuses that are no HTTP status, and lets the rest go.    *)
MCVerdict == [m \in Meta |->
    CASE m.profile = p ->
            [ok |-> m.body # None, allow |-> m.head = benign, status |-> 429]
      [] m.profile = q ->
            [ok |-> TRUE, allow |-> m.head = hostile,
             status |-> IF m.body = None THEN 0 ELSE 1000]]
============================================================================
