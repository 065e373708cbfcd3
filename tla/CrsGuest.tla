----------------------------- MODULE CrsGuest -----------------------------
(***************************************************************************)
(* One call of decide(req_len) in the CRS module (crs-engine/src/lib.rs):  *)
(* the request is decoded, the parameters of the profile are read, the     *)
(* embedded rules are evaluated (CrsEngine.tla) and the decision is        *)
(* written to the result buffer.                                           *)
(***************************************************************************)
EXTENDS CrsEngine

CONSTANTS
    Param,          \* what a parameter may hold: an unsigned integer or None
    Calls,          \* requests, parameters and embedded rules that meet
    JsonLens        \* lengths the JSON of a decision may have

BufLen == 65536         \* BUF_LEN
MaxResultLen == 65536   \* MAX_RESULT_LEN of the host, src/wasm/vm.rs

(* Not UTF-8 or not JSON; JSON with a string that is escaped (a quote, a   *)
(* backslash or a control character in it); JSON whose strings are plain.  *)
Encoding == {"malformed", "escaped", "plain"}

DefaultLevel == 1
MaxLevel == 4
DefaultThreshold == 5

DecisionMade ==
    [allow : BOOLEAN, status : {200, 400, 403, 500}, rule : Nat \cup {None}]

(* params: params.paranoia_level and params.anomaly_threshold; embedded:   *)
(* whether CRS_RULES_JSON parses.  A level is a u8 and a threshold, like   *)
(* the score, any u32.                                                     *)
ASSUME GuestAssumption ==
    /\ Param \subseteq Nat \cup {None}
    /\ \A c \in Calls :
        /\ c.request \in Encoding
        /\ c.params \in [{"paranoia_level", "anomaly_threshold"} -> Param]
        /\ c.embedded \in {"ok", "malformed"}
        /\ c.rules \in RuleSets
    /\ JsonLens \subseteq Nat \ {0}
    /\ 0 .. MaxLevel \subseteq Levels
    /\ Thresholds = 0 .. MaxScore
    /\ DefaultThreshold <= MaxScore
    /\ None \notin DecisionMade

VARIABLES
    stage,          \* how far the call has come
    request,        \* the JSON in REQ_BUF: how it is encoded
    params,         \* its params
    embedded,       \* whether CRS_RULES_JSON parses: RulesState
    decision,       \* the Decision, once made
    written         \* the bytes of it in RESULT_BUF, and whether they are all

guestVars == <<stage, request, params, embedded, decision, written>>
vars == <<crsVars, guestVars>>

GuestTypeOK ==
    /\ TypeOK
    /\ stage \in {"called", "evaluating", "writing", "returned"}
    /\ request \in Encoding
    /\ params \in [{"paranoia_level", "anomaly_threshold"} -> Param]
    /\ embedded \in {"ok", "malformed"}
    /\ decision \in DecisionMade \cup {None}
    /\ written \in [len : Nat, whole : BOOLEAN]

GuestInit ==
    /\ \E c \in Calls :
        /\ rules = c.rules
        /\ request = c.request
        /\ params = c.params
        /\ embedded = c.embedded
    /\ holds \in SUBSET Condition
    /\ paranoia = DefaultLevel
    /\ threshold = DefaultThreshold
    /\ InitLoop
    /\ stage = "called"
    /\ decision = None
    /\ written = [len |-> 0, whole |-> FALSE]

----------------------------------------------------------------------------
Refusal(status, rule_id) == [allow |-> FALSE, status |-> status, rule |-> rule_id]

Allow == [allow |-> TRUE, status |-> 200, rule |-> None]

BadRequest == Refusal(400, None)

(* Mutant of Unavailable: fail open. *)
UnavailableOpen == Allow

Unavailable == Refusal(500, None)

(* Mutant of LevelOf: a level is taken as it is. *)
LevelOfUncapped(n) == IF n = None THEN DefaultLevel ELSE n

(* .map(|n| n.min(4) as u8).unwrap_or(1) *)
LevelOf(n) == IF n = None THEN DefaultLevel ELSE Min({n, MaxLevel})

(* .map(|n| n as u32).unwrap_or(5): `as` keeps the low 32 bits *)
ThresholdOf(n) == IF n = None THEN DefaultThreshold ELSE n % (MaxScore + 1)

(* The strings of Request are borrowed from the buffer, and one that is    *)
(* escaped there cannot be: serde_json refuses it like any other error.    *)
Decodes == request = "plain"

Refused ==
    /\ stage = "called"
    /\ ~Decodes
    /\ decision' = BadRequest
    /\ stage' = "writing"
    /\ UNCHANGED <<crsVars, request, params, embedded, written>>

NoRules ==
    /\ stage = "called"
    /\ Decodes
    /\ embedded = "malformed"
    /\ decision' = Unavailable
    /\ stage' = "writing"
    /\ UNCHANGED <<crsVars, request, params, embedded, written>>

StartsEvaluation ==
    /\ stage = "called"
    /\ Decodes
    /\ embedded = "ok"
    /\ paranoia' = LevelOf(params["paranoia_level"])
    /\ threshold' = ThresholdOf(params["anomaly_threshold"])
    /\ stage' = "evaluating"
    /\ UNCHANGED <<rules, holds, loop, request, params, embedded, decision, written>>

Evaluates ==
    /\ stage = "evaluating"
    /\ Next
    /\ UNCHANGED guestVars

Concludes ==
    /\ stage = "evaluating"
    /\ result # "running"
    /\ decision' = IF result = "block" THEN Refusal(403, rules[blocking].id) ELSE Allow
    /\ stage' = "writing"
    /\ UNCHANGED <<crsVars, request, params, embedded, written>>

(* Mutant of Copied: the whole JSON, whatever its length. *)
CopiedWhole(len) == len

Copied(len) == Min({len, BufLen})

WritesResult ==
    /\ stage = "writing"
    /\ \E len \in JsonLens :
        written' = [len |-> Copied(len), whole |-> Copied(len) = len]
    /\ stage' = "returned"
    /\ UNCHANGED <<crsVars, request, params, embedded, decision>>

GuestNext ==
    Refused \/ NoRules \/ StartsEvaluation \/ Evaluates \/ Concludes \/ WritesResult

GuestSpec == GuestInit /\ [][GuestNext]_vars

----------------------------------------------------------------------------
(* The threshold and the level the profile asks for *)
Asked(param, default) == IF params[param] = None THEN default ELSE params[param]

(* A request is allowed only if it was decoded, the rules were there, and  *)
(* what the rules in force at the level the profile asks for (or at the    *)
(* highest there is) make of it is below the threshold it asks for, though *)
(* these numbers may not fit the u8 and the u32 they are kept in.          *)
FailsClosed ==
    decision # None /\ decision.allow =>
        /\ request = "plain"
        /\ embedded = "ok"
        /\ paranoia = Min({Asked("paranoia_level", DefaultLevel), MaxLevel})
        /\ \A active \in SUBSET DOMAIN rules : InForce(active) =>
            \A k \in Scoring(active) :
                Tally(active)[k] < Asked("anomaly_threshold", DefaultThreshold)

(* The host takes the length the guest returns, and what it reads is the   *)
(* decision unless the buffer was too small for it.                        *)
AnswerAccepted ==
    stage = "returned" =>
        /\ 0 < written.len /\ written.len <= MaxResultLen
        /\ decision \in DecisionMade
        /\ written.whole \/ written.len = BufLen

(* The inductive invariant: nothing is decided before the evaluation, and  *)
(* the evaluation runs at the level the profile asks for, and under no     *)
(* higher threshold.                                                       *)
AsAsked ==
    /\ request = "plain"
    /\ embedded = "ok"
    /\ paranoia = Min({Asked("paranoia_level", DefaultLevel), MaxLevel})
    /\ threshold <= Asked("anomaly_threshold", DefaultThreshold)

GuestIInv ==
    /\ GuestTypeOK
    /\ IInv
    /\ stage = "called" => InitLoop
    /\ stage = "evaluating" => AsAsked
    /\ stage \in {"called", "evaluating"} <=> decision = None
    /\ decision # None /\ decision.allow => AsAsked /\ result = "allow"
    /\ AnswerAccepted

(* "a fail-closed decision for malformed (non-UTF-8 / non-JSON) requests", *)
(* says the comment on bad_request.                                        *)
BadRequestOnlyIfMalformed ==
    decision = BadRequest => request = "malformed"
============================================================================
