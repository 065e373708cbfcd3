----------------------------- MODULE MCCrsGuest -----------------------------
(* Every rule set of up to four rules taken from one of each kind under a  *)
(* few parameters; rule sets of up to two under parameters on both sides   *)
(* of every limit (of the levels, and of the u32 that MaxScore stands      *)
(* for); and the calls in which something does not parse.                  *)
EXTENDS CrsGuest

CONSTANTS a, b, m, n

MCCondition == {a, b}
MCMarker == {m, n}

Kind(id, action, links, skipAfter, s, level) ==
    [id |-> id, action |-> action, links |-> links, skipAfter |-> skipAfter,
     score |-> s, level |-> level]

Kinds == {
    Kind(0, "Pass", {}, m, None, 0),            \* SecMarker m
    Kind(0, "Block", {a}, None, 3, 0),          \* a rule whose id is missing
    Kind(1, "Pass", {a}, m, None, 0),           \* skips to m
    Kind(2, "Pass", {b}, n, None, 2),           \* skips to a marker there is not
    Kind(3, "Block", {a}, None, None, 1),       \* scores the default
    Kind(4, "Block", {b}, None, 3, 2),
    Kind(5, "Block", {a, b}, m, 4, 4) }         \* chained; its skipAfter is idle

RulesUpTo(l) == UNION {[1 .. k -> Kinds] : k \in 0 .. l}

MCRuleSets == RulesUpTo(4)
MCParam == {None, 0, 1, 2, 5, 8, MaxScore, MaxScore + 1, MaxScore + 6}
MCThresholds == 0 .. MaxScore
MCJsonLens == {1, BufLen, BufLen + 1}

Params(level, limit) ==
    [name \in {"paranoia_level", "anomaly_threshold"} |->
        IF name = "paranoia_level" THEN level ELSE limit]

Call(request_, params_, embedded_, rules_) ==
    [request |-> request_, params |-> params_, embedded |-> embedded_, rules |-> rules_]

MCCalls ==
    {Call("plain", p, "ok", r) :
        p \in {Params(None, None), Params(2, MaxScore), Params(8, 0)}, r \in RulesUpTo(4)}
    \cup {Call("plain", Params(l, t), "ok", r) :
        l \in MCParam, t \in MCParam, r \in RulesUpTo(2)}
    \cup {Call(e, Params(None, None), f, r) :
        e \in Encoding, f \in {"ok", "malformed"}, r \in RulesUpTo(1)}
============================================================================
