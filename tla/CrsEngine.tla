---------------------------- MODULE CrsEngine ----------------------------
(***************************************************************************)
(* The evaluation of the embedded CRS rules against one request: the loop  *)
(* of evaluate() in crs-engine/src/engine.rs, one action per way through   *)
(* its body.                                                               *)
(*                                                                         *)
(* A condition (variables, transforms and operator of a rule or of a link  *)
(* chained to it) is one value; `holds` are the conditions that the        *)
(* request at hand meets.                                                  *)
(***************************************************************************)
EXTENDS Naturals, Sequences, FiniteSetsExt

CONSTANTS
    Condition,      \* conditions of rules and of chained links
    Marker,         \* names of SecMarkers
    None,           \* the absent value of every Option
    RuleSets,       \* the rule sets that may be embedded
    Thresholds,     \* values of anomaly_threshold
    Levels,         \* values of paranoia_level
    MaxScore        \* u32::MAX

(* crs_parser::Rule, as far as evaluation reads it.  Rules of id 0 are     *)
(* SecMarkers, but also rules whose id is missing or unreadable.           *)
Rule == [id : Nat, action : {"Pass", "Block"}, links : SUBSET Condition,
         skipAfter : Marker \cup {None}, score : Nat \cup {None}, level : Nat]

ASSUME CrsAssumption ==
    /\ RuleSets \subseteq Seq(Rule)
    /\ MaxScore \in Nat
    /\ Thresholds \subseteq {n \in Nat : n <= MaxScore}
    /\ Levels \subseteq Nat
    /\ None \notin Marker \cup Nat

VARIABLES
    rules,          \* the embedded rules
    holds,          \* the conditions met by the request
    paranoia,       \* paranoia_level
    threshold,      \* anomaly_threshold
    i,              \* the rule looked at next
    skipUntil,      \* skip_until: the marker evaluation resumes after
    score,          \* anomaly_score
    blocking,       \* blocking_rule: the rule whose id and message it holds
    result          \* how evaluate returned: None, or Some(blocking)

inputs == <<rules, holds, paranoia, threshold>>
loop == <<i, skipUntil, score, blocking, result>>
crsVars == <<rules, holds, paranoia, threshold, i, skipUntil, score, blocking, result>>

TypeOK ==
    /\ rules \in RuleSets
    /\ holds \subseteq Condition
    /\ paranoia \in Levels
    /\ threshold \in Thresholds
    /\ i \in 1 .. Len(rules) + 1
    /\ skipUntil \in Marker \cup {None}
    /\ score \in Nat /\ score <= MaxScore
    /\ blocking \in DOMAIN rules \cup {None}
    /\ result \in {"running", "allow", "block"}

(* evaluate() is called. *)
InitLoop ==
    /\ i = 1
    /\ skipUntil = None
    /\ score = 0
    /\ blocking = None
    /\ result = "running"

Init ==
    /\ rules \in RuleSets
    /\ holds \in SUBSET Condition
    /\ paranoia \in Levels
    /\ threshold \in Thresholds
    /\ InitLoop

----------------------------------------------------------------------------
IsMarker(r) == r.id = 0

(* Rules of level 0 belong to no level and are always evaluated. *)
InLevel(r, l) == r.level = 0 \/ r.level <= l

(* rule_matches: the rule's condition and every chained link *)
Matches(r, h) == r.links \subseteq h

DefaultScore == 5       \* CRITICAL

ScoreOf(r) == IF r.score = None THEN DefaultScore ELSE r.score

(* Mutant of Added: the sum wraps. *)
AddedWrapping(s, n) == (s + n) % (MaxScore + 1)

(* saturating_add *)
Added(s, n) == IF s + n > MaxScore THEN MaxScore ELSE s + n

Reached(s) == s >= threshold

----------------------------------------------------------------------------
rule == rules[i]

Looking ==
    /\ result = "running"
    /\ i \in DOMAIN rules
    /\ i' = i + 1
    /\ UNCHANGED inputs

AtMarker ==
    /\ Looking
    /\ IsMarker(rule)
    /\ skipUntil' = IF rule.skipAfter = skipUntil THEN None ELSE skipUntil
    /\ UNCHANGED <<score, blocking, result>>

(* Skipped, above the paranoia level, or no match *)
PassedOver ==
    /\ Looking
    /\ ~IsMarker(rule)
    /\ skipUntil # None \/ ~InLevel(rule, paranoia) \/ ~Matches(rule, holds)
    /\ UNCHANGED <<skipUntil, score, blocking, result>>

Hit ==
    /\ Looking
    /\ ~IsMarker(rule)
    /\ skipUntil = None
    /\ InLevel(rule, paranoia)
    /\ Matches(rule, holds)

PassHit ==
    /\ Hit
    /\ rule.action = "Pass"
    /\ skipUntil' = IF rule.skipAfter # None THEN rule.skipAfter ELSE skipUntil
    /\ UNCHANGED <<score, blocking, result>>

BlockHit ==
    /\ Hit
    /\ rule.action = "Block"
    /\ score' = Added(score, ScoreOf(rule))
    /\ blocking' = IF blocking = None THEN i ELSE blocking
    /\ result' = IF Reached(score') THEN "block" ELSE result
    /\ UNCHANGED skipUntil

RulesEnd ==
    /\ result = "running"
    /\ i \notin DOMAIN rules
    /\ result' = "allow"
    /\ UNCHANGED <<rules, holds, paranoia, threshold, i, skipUntil, score, blocking>>

Next == AtMarker \/ PassedOver \/ PassHit \/ BlockHit \/ RulesEnd

Spec == Init /\ [][Next]_crsVars

----------------------------------------------------------------------------
(* What the rules say, without a loop.  Rule j silences rule k if it is a  *)
(* pass rule in force that skips past k: none of the markers between the   *)
(* two is the one it names, whether or not such a marker ever comes.       *)

Silences(j, k, active) ==
    /\ j < k
    /\ j \in active
    /\ rules[j].action = "Pass"
    /\ rules[j].skipAfter # None
    /\ \A m \in DOMAIN rules : j < m /\ m < k /\ rules[m].id = 0 =>
        rules[m].skipAfter # rules[j].skipAfter

(* The rules that are in force for this request: they match, belong to the *)
(* level, and no rule in force silences them: this fixes them, first to    *)
(* last.                                                                   *)
InForce(active) ==
    active = {k \in DOMAIN rules :
                /\ rules[k].id # 0
                /\ rules[k].level = 0 \/ rules[k].level <= paranoia
                /\ \A c \in rules[k].links : c \in holds
                /\ ~\E j \in DOMAIN rules : Silences(j, k, active)}

Scoring(active) == {k \in active : rules[k].action = "Block"}

(* The scores of the rules in force, added up from rule to rule *)
Gain(k, active) == IF k \in Scoring(active) THEN ScoreOf(rules[k]) ELSE 0

Tally(active) ==
    LET sum[k \in 0 .. Len(rules)] == IF k = 0 THEN 0 ELSE sum[k - 1] + Gain(k, active)
    IN  sum

(* evaluate() blocks exactly if the scores of the rules in force add up to *)
(* the threshold (with a rule at all): skips, chains, levels and           *)
(* saturation change nothing else.  The rule it reports is the first of    *)
(* them, where the comment on evaluate() speaks of the one whose score     *)
(* reaches the threshold.                                                  *)
VerdictOfRules ==
    result # "running" => \E active \in SUBSET DOMAIN rules :
        /\ InForce(active)
        /\ IF \E k \in Scoring(active) : Tally(active)[k] >= threshold
           THEN result = "block" /\ blocking = Min(Scoring(active))
           ELSE result = "allow"

(* evaluate stops at the rule that makes the score: it never goes on with  *)
(* a score that blocks, nor blocks with one that does not.                 *)
StopsAtThreshold ==
    /\ result # "block" /\ blocking # None => score < threshold
    /\ result = "block" => blocking # None /\ score >= threshold

(* The inductive invariant: the loop's skip_until is the marker named by   *)
(* the rules that silence the rule looked at next, the loop's              *)
(* blocking_rule the first of those in force that scored so far, and its   *)
(* score, while it goes on, what all of them add up to.                    *)
SkipKnown(active) ==
    \A name \in Marker :
        skipUntil = name <=> \E j \in DOMAIN rules :
            Silences(j, i, active) /\ rules[j].skipAfter = name

BlameKnown(active) ==
    /\ blocking = None => \A k \in Scoring(active) : i <= k
    /\ blocking # None => /\ blocking \in Scoring(active)
                          /\ \A k \in Scoring(active) : blocking <= k

ScoreKnown(active) ==
    IF result = "block"
    THEN \E k \in Scoring(active) : Tally(active)[k] >= threshold
    ELSE /\ score = Tally(active)[i - 1]
         /\ \A k \in Scoring(active) : k < i => Tally(active)[k] < threshold

IInv ==
    /\ TypeOK
    /\ StopsAtThreshold
    /\ result = "allow" => i = Len(rules) + 1
    /\ \A active \in SUBSET DOMAIN rules :
        InForce(active) => SkipKnown(active) /\ BlameKnown(active) /\ ScoreKnown(active)
============================================================================
