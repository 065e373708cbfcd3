--------------------------- MODULE CrsGuestProofs ---------------------------
(* What CrsEngine.tla makes of a request and what CrsGuest.tla answers,    *)
(* for every rule set, every request, and every level and threshold.       *)
EXTENDS CrsGuest, WellFoundedInduction, TLAPS

----------------------------------------------------------------------------
(* Induction over the rules: a set of naturals that is not empty has a     *)
(* least element, so a set that holds 0 and with a number the next one     *)
(* holds all of them.                                                      *)

(* A nonempty set of naturals has a least element. *)
LEMMA Least ==
    ASSUME NEW S \in SUBSET Nat, S # {}
    PROVE  \E n \in S : \A m \in S : n <= m
<1> DEFINE R == OpToRel(<, Nat)
<1>1. IsWellFoundedOn(R, Nat)
    BY NatLessThanWellFounded
<1>2. \A m, k \in Nat : m < k => <<m, k>> \in R
    BY DEF OpToRel
<1> HIDE DEF R
<1>3. PICK n \in S : \A m \in S : ~(<<m, n>> \in R)
    BY <1>1, WFMin, Zenon
<1>4. \A m \in S : ~(m < n)
    BY <1>2, <1>3, Zenon
<1>5. n \in Nat /\ \A m \in S : m \in Nat
    OBVIOUS
<1> QED
    BY <1>4, <1>5

(* Induction, with a set for the statement *)
LEMMA UpFromZero ==
    ASSUME NEW S, 0 \in S, \A n \in Nat : n \in S => n + 1 \in S
    PROVE  Nat \subseteq S
<1> SUFFICES ASSUME Nat \ S # {} PROVE FALSE
    OBVIOUS
<1>1. PICK n \in Nat \ S : \A m \in Nat \ S : n <= m
    BY Least
<1>2. n # 0 /\ n - 1 \in Nat /\ ~(n <= n - 1)
    BY <1>1
<1>3. n - 1 \in S
    BY <1>1, <1>2
<1> QED
    BY <1>1, <1>2, <1>3

----------------------------------------------------------------------------
(* What the rules say *)

(* The rules are numbered from 1, and each one scores a natural number. *)
LEMMA RulesType ==
    ASSUME TypeOK
    PROVE  /\ Len(rules) \in Nat /\ DOMAIN rules = 1 .. Len(rules)
           /\ DOMAIN rules \subseteq Nat \ {0}
           /\ \A k \in DOMAIN rules : rules[k] \in Rule
           /\ i \in Nat \ {0}
<1>1. rules \in Seq(Rule) /\ i \in 1 .. Len(rules) + 1
    BY CrsAssumption DEF TypeOK
<1> QED
    BY <1>1

(* What a rule adds to the tally is a natural number. *)
LEMMA GainType ==
    ASSUME TypeOK, NEW active \in SUBSET DOMAIN rules, NEW k
    PROVE  Gain(k, active) \in Nat
<1>1. ASSUME k \in Scoring(active)
      PROVE  ScoreOf(rules[k]) \in Nat
    BY <1>1, RulesType DEF Scoring, ScoreOf, DefaultScore, Rule
<1> QED
    BY <1>1 DEF Gain

(* The tally exists: it can be added up to any rule, so to the last one.   *)
LEMMA TallyExists ==
    ASSUME TypeOK, NEW active \in SUBSET DOMAIN rules
    PROVE  \E sum : sum = [k \in 0 .. Len(rules) |->
                IF k = 0 THEN 0 ELSE sum[k - 1] + Gain(k, active)]
<1> DEFINE UpTo(n, f) ==
        /\ f \in [0 .. n -> Nat] /\ f[0] = 0
        /\ \A k \in 1 .. n : f[k] = f[k - 1] + Gain(k, active)
           S == {n \in Nat : \E f : UpTo(n, f)}
<1>1. 0 \in S
  <2>1. UpTo(0, [k \in 0 .. 0 |-> 0])
    OBVIOUS
  <2> QED
    BY <2>1
<1>2. ASSUME NEW n \in Nat, n \in S
      PROVE  n + 1 \in S
  <2>1. PICK f : UpTo(n, f)
    BY <1>2
  <2> DEFINE g == [k \in 0 .. n + 1 |-> IF k = n + 1 THEN f[n] + Gain(n + 1, active) ELSE f[k]]
  <2>2. f[n] + Gain(n + 1, active) \in Nat
    BY <2>1, GainType
  <2>3. g \in [0 .. n + 1 -> Nat] /\ g[0] = 0
    BY <2>1, <2>2
  <2>4. \A k \in 1 .. n + 1 : g[k] = g[k - 1] + Gain(k, active)
    <3> TAKE k \in 1 .. n + 1
    <3>1. k - 1 \in 0 .. n /\ k - 1 # n + 1 /\ g[k - 1] = f[k - 1]
        OBVIOUS
    <3>2. CASE k = n + 1
        BY <3>1, <3>2
    <3>3. CASE k # n + 1
        BY <2>1, <3>1, <3>3
    <3> QED
        BY <3>2, <3>3
  <2>5. UpTo(n + 1, g)
    BY <2>3, <2>4
  <2> HIDE DEF UpTo, g
  <2> QED
    BY <2>5
<1> HIDE DEF S
<1>3. Nat \subseteq S
    BY <1>1, <1>2, UpFromZero
<1>4. Len(rules) \in S
    BY <1>3, RulesType
<1>5. PICK f : UpTo(Len(rules), f)
    BY <1>4 DEF S
<1>6. f = [k \in 0 .. Len(rules) |-> IF k = 0 THEN 0 ELSE f[k - 1] + Gain(k, active)]
    BY <1>5, RulesType
<1> QED
    BY <1>6

(* What the tally is, from rule to rule *)
LEMMA TallyIs ==
    ASSUME TypeOK, NEW active \in SUBSET DOMAIN rules
    PROVE  /\ Tally(active)[0] = 0
           /\ \A k \in DOMAIN rules : Tally(active)[k] = Tally(active)[k - 1] + Gain(k, active)
           /\ \A k \in 0 .. Len(rules) : Tally(active)[k] \in Nat
<1> DEFINE sum == Tally(active)
<1>1. sum = [k \in 0 .. Len(rules) |-> IF k = 0 THEN 0 ELSE sum[k - 1] + Gain(k, active)]
    BY TallyExists DEF Tally
<1> HIDE DEF sum
<1>2. Len(rules) \in Nat /\ DOMAIN rules = 1 .. Len(rules)
    BY RulesType
<1>3. sum[0] = 0 /\ \A k \in 1 .. Len(rules) : sum[k] = sum[k - 1] + Gain(k, active)
    BY <1>1, <1>2
<1> DEFINE S == {n \in Nat : n <= Len(rules) => sum[n] \in Nat}
<1>4. 0 \in S
    BY <1>3
<1>5. ASSUME NEW n \in Nat, n \in S
      PROVE  n + 1 \in S
    BY <1>2, <1>3, <1>5, GainType
<1> HIDE DEF S
<1>6. Nat \subseteq S
    BY <1>4, <1>5, UpFromZero
<1>7. \A k \in 0 .. Len(rules) : sum[k] \in Nat
    BY <1>2, <1>6 DEF S
<1> QED
    BY <1>2, <1>3, <1>7 DEF sum

(* Which rules are in force is determined: it depends, for each rule, on   *)
(* those before it.                                                        *)
LEMMA SomeInForce ==
    ASSUME TypeOK
    PROVE  \E active \in SUBSET DOMAIN rules : InForce(active)
<1> DEFINE Here(k, active) ==
            /\ rules[k].id # 0
            /\ rules[k].level = 0 \/ rules[k].level <= paranoia
            /\ \A c \in rules[k].links : c \in holds
            /\ ~\E j \in DOMAIN rules : Silences(j, k, active)
           UpTo(n, active) == \A k \in DOMAIN rules : k <= n => (k \in active <=> Here(k, active))
           S == {n \in Nat : \E active \in SUBSET DOMAIN rules : UpTo(n, active)}
<1>1. Len(rules) \in Nat /\ DOMAIN rules = 1 .. Len(rules)
    BY RulesType
<1>2. 0 \in S
  <2>1. UpTo(0, {})
    BY <1>1
  <2> QED
    BY <2>1
<1>3. ASSUME NEW n \in Nat, n \in S
      PROVE  n + 1 \in S
  <2>1. PICK a \in SUBSET DOMAIN rules : UpTo(n, a)
    BY <1>3
  <2> DEFINE b == {k \in DOMAIN rules : IF k <= n THEN k \in a ELSE Here(k, a)}
  <2>2. \A k \in DOMAIN rules : k <= n + 1 => (Here(k, b) <=> Here(k, a))
    <3> SUFFICES ASSUME NEW k \in DOMAIN rules, k <= n + 1, NEW j \in DOMAIN rules
                 PROVE  Silences(j, k, b) <=> Silences(j, k, a)
        OBVIOUS
    <3>1. j < k => (j \in b <=> j \in a)
        BY <1>1
    <3> HIDE DEF b
    <3> QED
        BY <3>1 DEF Silences
  <2> HIDE DEF Here
  <2>3. UpTo(n + 1, b)
    <3> SUFFICES ASSUME NEW k \in DOMAIN rules, k <= n + 1
                 PROVE  k \in b <=> Here(k, a)
        BY <2>2
    <3>1. CASE k = n + 1
        BY <1>1, <3>1
    <3>2. CASE k <= n
        BY <1>1, <2>1, <3>2
    <3> QED
        BY <1>1, <3>1, <3>2
  <2>4. b \in SUBSET DOMAIN rules
    OBVIOUS
  <2> HIDE DEF b, UpTo
  <2> QED
    BY <2>3, <2>4
<1> HIDE DEF S
<1>4. Len(rules) \in S
    BY <1>1, <1>2, <1>3, UpFromZero
<1>5. PICK active \in SUBSET DOMAIN rules : UpTo(Len(rules), active)
    BY <1>4 DEF S
<1>6. InForce(active)
    BY <1>1, <1>5 DEF InForce
<1> QED
    BY <1>6

(* A score never passes the largest one there is. *)
LEMMA AddedType ==
    ASSUME NEW s \in Nat, NEW n \in Nat
    PROVE  Added(s, n) \in Nat /\ Added(s, n) <= MaxScore
BY CrsAssumption DEF Added

(* Who is in force, as an equivalence *)
LEMMA InForceIff ==
    ASSUME NEW active, InForce(active), NEW k \in DOMAIN rules
    PROVE  k \in active <=> /\ rules[k].id # 0
                            /\ InLevel(rules[k], paranoia)
                            /\ Matches(rules[k], holds)
                            /\ ~\E j \in DOMAIN rules : Silences(j, k, active)
BY DEF InForce, InLevel, Matches

(* What silences the next rule: what silenced this one and is not ended by *)
(* it, or this one itself.                                                 *)
LEMMA NextSilenced ==
    ASSUME TypeOK, i \in DOMAIN rules, NEW active, NEW j \in DOMAIN rules
    PROVE  Silences(j, i + 1, active) <=>
            \/ /\ Silences(j, i, active)
               /\ rules[i].id = 0 => rules[i].skipAfter # rules[j].skipAfter
            \/ /\ j = i
               /\ i \in active
               /\ rules[i].action = "Pass"
               /\ rules[i].skipAfter # None
<1>1. i \in Nat /\ j \in Nat /\ \A m \in DOMAIN rules : m \in Nat
    BY RulesType
<1>2. j < i + 1 <=> j < i \/ j = i
    BY <1>1
<1>3. \A m \in DOMAIN rules : m < i + 1 <=> m < i \/ m = i
    BY <1>1
<1>4. CASE j = i
  <2>1. ~(j < i)
    BY <1>1, <1>4
  <2>2. \A m \in DOMAIN rules : ~(j < m /\ m < i + 1)
    BY <1>1, <1>4
  <2> QED
    BY <1>2, <1>4, <2>1, <2>2 DEF Silences
<1>5. CASE j # i
    BY <1>1, <1>2, <1>3, <1>5 DEF Silences
<1> QED
    BY <1>4, <1>5

(* Every first state satisfies the invariant. *)
LEMMA InvInit == Init => IInv
<1> SUFFICES ASSUME Init PROVE IInv
    OBVIOUS
<1>1. TypeOK
  <2>1. rules \in Seq(Rule)
    BY CrsAssumption DEF Init
  <2>2. 1 \in 1 .. Len(rules) + 1
    BY <2>1
  <2> QED
    BY <2>2, CrsAssumption DEF Init, InitLoop, TypeOK
<1>2. StopsAtThreshold /\ result = "running"
    BY DEF Init, InitLoop, StopsAtThreshold
<1>3. ASSUME NEW active \in SUBSET DOMAIN rules
      PROVE  SkipKnown(active) /\ BlameKnown(active) /\ ScoreKnown(active)
  <2>1. \A j \in DOMAIN rules : ~(j < i) /\ i <= j
    BY <1>1, RulesType DEF Init, InitLoop
  <2>2. SkipKnown(active)
    BY <2>1, CrsAssumption DEF SkipKnown, Silences, Init, InitLoop
  <2>3. BlameKnown(active)
    BY <2>1 DEF BlameKnown, Scoring, Init, InitLoop
  <2>4. ScoreKnown(active)
    BY <1>1, <1>2, <2>1, TallyIs, RulesType DEF ScoreKnown, Scoring, Init, InitLoop
  <2> QED
    BY <2>2, <2>3, <2>4
<1> QED
    BY <1>1, <1>2, <1>3 DEF IInv

(* The rules in force do not change while the loop runs. *)
LEMMA SameInForce ==
    ASSUME UNCHANGED inputs, NEW active
    PROVE  /\ InForce(active)' <=> InForce(active)
           /\ Scoring(active)' = Scoring(active)
           /\ Tally(active)' = Tally(active)
           /\ \A j, k : Silences(j, k, active)' <=> Silences(j, k, active)
<1>1. rules' = rules /\ holds' = holds /\ paranoia' = paranoia
    BY DEF inputs
<1> QED
    BY <1>1 DEF InForce, Scoring, Silences, Tally, Gain, ScoreOf

(* A rule the loop stops at is in force; one it passes over is not.        *)
LEMMA InForceHere ==
    ASSUME IInv, Looking, NEW active \in SUBSET DOMAIN rules, InForce(active)
    PROVE  i \in active <=> /\ ~IsMarker(rule)
                            /\ skipUntil = None
                            /\ InLevel(rule, paranoia)
                            /\ Matches(rule, holds)
<1>1. i \in DOMAIN rules /\ SkipKnown(active) /\ TypeOK
    BY DEF IInv, Looking
<1>2. skipUntil = None <=> ~\E j \in DOMAIN rules : Silences(j, i, active)
  <2>1. ASSUME NEW j \in DOMAIN rules, Silences(j, i, active)
        PROVE  rules[j].skipAfter \in Marker
    BY <1>1, <2>1, RulesType DEF Silences, Rule
  <2>2. skipUntil \in Marker \cup {None} /\ None \notin Marker
    BY <1>1, CrsAssumption DEF TypeOK
  <2> QED
    BY <1>1, <2>1, <2>2 DEF SkipKnown
<1> QED
    BY <1>1, <1>2, InForceIff DEF IsMarker, rule

(* What a step of the loop over a rule leaves to show: the types, and what *)
(* is known of the skip, of the blame and of the score, at the next rule.  *)
LEMMA InvLooking ==
    ASSUME IInv, Looking, TypeOK', StopsAtThreshold', result' # "allow",
           ASSUME NEW active \in SUBSET DOMAIN rules, InForce(active)
           PROVE  SkipKnown(active)' /\ BlameKnown(active)' /\ ScoreKnown(active)'
    PROVE  IInv'
<1>1. UNCHANGED inputs /\ rules' = rules
    BY DEF Looking, inputs
<1> QED
    BY <1>1, SameInForce DEF IInv

(* The skip at the next rule, from what silences it *)
LEMMA SkipAtNext ==
    ASSUME IInv, Looking, NEW active \in SUBSET DOMAIN rules, InForce(active),
           ASSUME NEW name \in Marker
           PROVE  skipUntil' = name <=> \E j \in DOMAIN rules :
                    /\ \/ /\ Silences(j, i, active)
                          /\ rules[i].id = 0 => rules[i].skipAfter # rules[j].skipAfter
                       \/ /\ j = i
                          /\ i \in active
                          /\ rules[i].action = "Pass"
                          /\ rules[i].skipAfter # None
                    /\ rules[j].skipAfter = name
    PROVE  SkipKnown(active)'
<1>1. TypeOK /\ i \in DOMAIN rules /\ i' = i + 1 /\ rules' = rules /\ UNCHANGED inputs
    BY DEF IInv, Looking, inputs
<1>2. \A j \in DOMAIN rules : Silences(j, i, active)' <=> Silences(j, i + 1, active)
    BY <1>1 DEF Silences
<1>3. \A j \in DOMAIN rules : Silences(j, i, active)' <=>
        \/ /\ Silences(j, i, active)
           /\ rules[i].id = 0 => rules[i].skipAfter # rules[j].skipAfter
        \/ /\ j = i
           /\ i \in active
           /\ rules[i].action = "Pass"
           /\ rules[i].skipAfter # None
    BY <1>1, <1>2, NextSilenced
<1> QED
    BY <1>1, <1>3 DEF SkipKnown

(* The blame at the next rule, if this one does not score *)
LEMMA BlameAtNext ==
    ASSUME IInv, Looking, NEW active \in SUBSET DOMAIN rules, InForce(active),
           blocking' = blocking, i \notin Scoring(active)
    PROVE  BlameKnown(active)'
<1>1. TypeOK /\ BlameKnown(active) /\ i' = i + 1 /\ UNCHANGED inputs
    BY DEF IInv, Looking
<1>2. Scoring(active)' = Scoring(active)
    BY <1>1, SameInForce
<1>3. \A k \in Scoring(active) : k \in Nat /\ k # i
    BY <1>1, RulesType DEF Scoring
<1>4. i \in Nat
    BY <1>1, RulesType
<1>5. \A k \in Scoring(active) : i <= k => i + 1 <= k
    BY <1>3, <1>4
<1> QED
    BY <1>1, <1>2, <1>5 DEF BlameKnown

(* The score at the next rule, if this one does not score *)
LEMMA ScoreAtNext ==
    ASSUME IInv, Looking, NEW active \in SUBSET DOMAIN rules, InForce(active),
           UNCHANGED <<score, result>>, i \notin Scoring(active)
    PROVE  ScoreKnown(active)'
<1>1. /\ TypeOK /\ ScoreKnown(active) /\ result = "running"
      /\ i' = i + 1 /\ i \in DOMAIN rules /\ UNCHANGED inputs
    BY DEF IInv, Looking
<1>2. /\ Scoring(active)' = Scoring(active) /\ Tally(active)' = Tally(active)
      /\ threshold' = threshold
    BY <1>1, SameInForce DEF inputs
<1>3. i \in Nat /\ \A k \in Scoring(active) : k \in Nat /\ k # i
    BY <1>1, RulesType DEF Scoring
<1>4. \A k \in Scoring(active) : k < i + 1 => k < i
    BY <1>3
<1>5. Tally(active)[i] = Tally(active)[i - 1]
  <2>1. Tally(active)[i] = Tally(active)[i - 1] + 0 /\ i - 1 \in 0 .. Len(rules)
    BY <1>1, TallyIs, RulesType DEF Gain
  <2> QED
    BY <1>1, <2>1, TallyIs
<1>6. i' - 1 = i
    BY <1>1, <1>3
<1> QED
    BY <1>1, <1>2, <1>4, <1>5, <1>6 DEF ScoreKnown

(* AtMarker keeps the invariant. *)
LEMMA InvAtMarker == ASSUME IInv, AtMarker PROVE IInv'
<1>1. TypeOK /\ StopsAtThreshold
    BY DEF IInv
<1>2. /\ Looking /\ rules[i].id = 0 /\ i \in DOMAIN rules
      /\ skipUntil' = IF rules[i].skipAfter = skipUntil THEN None ELSE skipUntil
      /\ UNCHANGED <<score, blocking, result>> /\ UNCHANGED inputs /\ i' = i + 1
    BY DEF AtMarker, Looking, IsMarker, rule
<1>3. TypeOK'
    BY <1>1, <1>2 DEF TypeOK, inputs
<1>4. StopsAtThreshold'
    BY <1>1, <1>2 DEF StopsAtThreshold, inputs
<1>5. ASSUME NEW active \in SUBSET DOMAIN rules, InForce(active)
      PROVE  SkipKnown(active)' /\ BlameKnown(active)' /\ ScoreKnown(active)'
  <2>1. i \notin active
    BY <1>2, <1>5, InForceIff
  <2>2. SkipKnown(active)
    BY <1>5 DEF IInv
  <2>3. None \notin Marker
    BY CrsAssumption
  <2>4. ASSUME NEW name \in Marker
        PROVE  skipUntil' = name <=> \E j \in DOMAIN rules :
                    /\ Silences(j, i, active)
                    /\ rules[i].skipAfter # rules[j].skipAfter
                    /\ rules[j].skipAfter = name
    BY <1>2, <2>2, <2>3 DEF SkipKnown
  <2>5. SkipKnown(active)'
    BY <1>2, <1>5, <2>1, <2>4, SkipAtNext
  <2>6. BlameKnown(active)'
    BY <1>2, <1>5, <2>1, BlameAtNext DEF Scoring
  <2>7. ScoreKnown(active)'
    BY <1>2, <1>5, <2>1, ScoreAtNext DEF Scoring
  <2> QED
    BY <2>5, <2>6, <2>7
<1> QED
    BY <1>2, <1>3, <1>4, <1>5, InvLooking DEF Looking

(* PassedOver keeps the invariant. *)
LEMMA InvPassedOver == ASSUME IInv, PassedOver PROVE IInv'
<1>1. TypeOK /\ StopsAtThreshold
    BY DEF IInv
<1>2. /\ Looking /\ rules[i].id # 0 /\ i \in DOMAIN rules
      /\ UNCHANGED <<skipUntil, score, blocking, result>> /\ UNCHANGED inputs /\ i' = i + 1
    BY DEF PassedOver, Looking, IsMarker, rule
<1>3. TypeOK'
    BY <1>1, <1>2 DEF TypeOK, inputs
<1>4. StopsAtThreshold'
    BY <1>1, <1>2 DEF StopsAtThreshold, inputs
<1>5. ASSUME NEW active \in SUBSET DOMAIN rules, InForce(active)
      PROVE  SkipKnown(active)' /\ BlameKnown(active)' /\ ScoreKnown(active)'
  <2>1. i \notin active
    BY <1>2, <1>5, InForceHere DEF PassedOver
  <2>2. SkipKnown(active)
    BY <1>5 DEF IInv
  <2>3. \A name \in Marker : skipUntil' = name <=>
            \E j \in DOMAIN rules : Silences(j, i, active) /\ rules[j].skipAfter = name
    BY <1>2, <2>2 DEF SkipKnown
  <2>4. SkipKnown(active)'
    BY <1>2, <1>5, <2>1, <2>3, SkipAtNext
  <2>5. BlameKnown(active)'
    BY <1>2, <1>5, <2>1, BlameAtNext DEF Scoring
  <2>6. ScoreKnown(active)'
    BY <1>2, <1>5, <2>1, ScoreAtNext DEF Scoring
  <2> QED
    BY <2>4, <2>5, <2>6
<1> QED
    BY <1>2, <1>3, <1>4, <1>5, InvLooking DEF Looking

(* Where the loop evaluates a rule that matches, nothing silences it. *)
LEMMA HitInForce ==
    ASSUME IInv, Hit, NEW active \in SUBSET DOMAIN rules, InForce(active)
    PROVE  i \in active /\ \A j \in DOMAIN rules : ~Silences(j, i, active)
<1>1. Looking /\ i \in DOMAIN rules
    BY DEF Hit, Looking
<1>2. i \in active
    BY <1>1, InForceHere DEF Hit
<1> QED
    BY <1>1, <1>2, InForceIff

(* PassHit keeps the invariant. *)
LEMMA InvPassHit == ASSUME IInv, PassHit PROVE IInv'
<1>1. TypeOK /\ StopsAtThreshold
    BY DEF IInv
<1>2. /\ Hit /\ Looking /\ i \in DOMAIN rules /\ rules[i].action = "Pass"
      /\ skipUntil = None
      /\ skipUntil' = IF rules[i].skipAfter # None THEN rules[i].skipAfter ELSE skipUntil
      /\ UNCHANGED <<score, blocking, result>> /\ UNCHANGED inputs /\ i' = i + 1
    BY DEF PassHit, Hit, Looking, rule
<1>3. rules[i].skipAfter \in Marker \cup {None}
    BY <1>1, <1>2, RulesType DEF Rule
<1>4. TypeOK'
    BY <1>1, <1>2, <1>3 DEF TypeOK, inputs
<1>5. StopsAtThreshold'
    BY <1>1, <1>2 DEF StopsAtThreshold, inputs
<1>6. ASSUME NEW active \in SUBSET DOMAIN rules, InForce(active)
      PROVE  SkipKnown(active)' /\ BlameKnown(active)' /\ ScoreKnown(active)'
  <2>1. i \in active /\ \A j \in DOMAIN rules : ~Silences(j, i, active)
    BY <1>2, <1>6, HitInForce
  <2>2. None \notin Marker
    BY CrsAssumption
  <2>3. \A name \in Marker :
            skipUntil' = name <=> rules[i].skipAfter # None /\ rules[i].skipAfter = name
    BY <1>2, <2>2
  <2>4. SkipKnown(active)'
    BY <1>2, <1>6, <2>1, <2>3, SkipAtNext
  <2>5. i \notin Scoring(active)
    BY <1>2 DEF Scoring
  <2>6. BlameKnown(active)'
    BY <1>2, <1>6, <2>5, BlameAtNext
  <2>7. ScoreKnown(active)'
    BY <1>2, <1>6, <2>5, ScoreAtNext
  <2> QED
    BY <2>4, <2>6, <2>7
<1> QED
    BY <1>2, <1>4, <1>5, <1>6, InvLooking DEF Looking

(* The score at the next rule, if this one does score: a sum that does not *)
(* fit its type reaches any threshold.                                     *)
LEMMA ScoreAtHit ==
    ASSUME IInv, Looking, NEW active \in SUBSET DOMAIN rules, InForce(active),
           i \in Scoring(active), score' = Added(score, ScoreOf(rules[i])),
           result' = IF score' >= threshold THEN "block" ELSE result
    PROVE  ScoreKnown(active)'
<1>1. /\ TypeOK /\ ScoreKnown(active) /\ result = "running"
      /\ i' = i + 1 /\ i \in DOMAIN rules /\ UNCHANGED inputs
    BY DEF IInv, Looking
<1>2. /\ Scoring(active)' = Scoring(active) /\ Tally(active)' = Tally(active)
      /\ threshold' = threshold
    BY <1>1, SameInForce DEF inputs
<1>3. /\ i \in Nat \ {0} /\ i - 1 \in 0 .. Len(rules) /\ i' - 1 = i
      /\ \A k \in Scoring(active) : k \in Nat
    BY <1>1, RulesType DEF Scoring
<1> DEFINE before == Tally(active)[i - 1]
           gain == ScoreOf(rules[i])
<1>4. /\ Tally(active)[i] = before + gain
      /\ before \in Nat /\ gain \in Nat /\ score = before
    BY <1>1, <1>3, TallyIs, GainType DEF Gain, ScoreKnown
<1>5. threshold \in Nat /\ threshold <= MaxScore /\ MaxScore \in Nat
    BY <1>1, CrsAssumption DEF TypeOK
<1> HIDE DEF before, gain
<1>6. score' = IF before + gain > MaxScore THEN MaxScore ELSE before + gain
    BY <1>4 DEF Added, gain
<1>7. CASE score' >= threshold
  <2>1. Tally(active)[i] >= threshold
    BY <1>4, <1>5, <1>6, <1>7
  <2> QED
    BY <1>2, <1>7, <2>1 DEF ScoreKnown
<1>8. CASE ~(score' >= threshold)
  <2>1. Tally(active)[i] = score' /\ Tally(active)[i] < threshold
    BY <1>4, <1>5, <1>6, <1>8
  <2>2. \A k \in Scoring(active) : k < i + 1 => k < i \/ k = i
    BY <1>3
  <2> QED
    BY <1>1, <1>2, <1>3, <1>8, <2>1, <2>2 DEF ScoreKnown
<1> QED
    BY <1>7, <1>8

(* BlockHit keeps the invariant. *)
LEMMA InvBlockHit == ASSUME IInv, BlockHit PROVE IInv'
<1>1. TypeOK /\ StopsAtThreshold
    BY DEF IInv
<1>2. /\ Hit /\ Looking /\ i \in DOMAIN rules /\ rules[i].action = "Block"
      /\ skipUntil = None /\ skipUntil' = skipUntil
      /\ score' = Added(score, ScoreOf(rules[i]))
      /\ blocking' = IF blocking = None THEN i ELSE blocking
      /\ result' = (IF score' >= threshold THEN "block" ELSE result)
      /\ result = "running" /\ UNCHANGED inputs /\ i' = i + 1
    BY DEF BlockHit, Hit, Looking, Reached, rule
<1>3. ScoreOf(rules[i]) \in Nat
    BY <1>1, <1>2, RulesType DEF Rule, ScoreOf, DefaultScore
<1>4. score' \in Nat /\ score' <= MaxScore
    BY <1>1, <1>2, <1>3, AddedType DEF TypeOK
<1>5. i \in Nat \ {0} /\ DOMAIN rules \subseteq Nat /\ None \notin Nat
    BY <1>1, RulesType, CrsAssumption
<1>6. TypeOK'
    BY <1>1, <1>2, <1>4, <1>5 DEF TypeOK, inputs
<1>7. blocking' # None
    BY <1>2, <1>5
<1>8. threshold' = threshold /\ threshold \in Nat
    BY <1>1, <1>2, CrsAssumption DEF TypeOK, inputs
<1>9. ~(score' >= threshold) => score' < threshold
    BY <1>4, <1>8
<1>10. StopsAtThreshold'
    BY <1>2, <1>7, <1>8, <1>9 DEF StopsAtThreshold
<1>11. ASSUME NEW active \in SUBSET DOMAIN rules, InForce(active)
       PROVE  SkipKnown(active)' /\ BlameKnown(active)' /\ ScoreKnown(active)'
  <2>1. i \in active /\ \A j \in DOMAIN rules : ~Silences(j, i, active)
    BY <1>2, <1>11, HitInForce
  <2>2. None \notin Marker
    BY CrsAssumption
  <2>3. SkipKnown(active)'
    BY <1>2, <1>11, <2>1, <2>2, SkipAtNext
  <2>4. i \in Scoring(active)
    BY <1>2, <2>1 DEF Scoring
  <2>5. Scoring(active)' = Scoring(active)
    BY <1>2, SameInForce
  <2>6. BlameKnown(active)
    BY <1>11 DEF IInv
  <2>7. BlameKnown(active)'
    BY <1>2, <1>7, <2>4, <2>5, <2>6 DEF BlameKnown
  <2>8. ScoreKnown(active)'
    BY <1>1, <1>2, <1>8, <1>11, <2>4, ScoreAtHit
  <2> QED
    BY <2>3, <2>7, <2>8
<1> QED
    BY <1>2, <1>6, <1>10, <1>11, InvLooking

(* Steps that move neither the loop's index nor what it knows *)
LEMMA InvStays ==
    ASSUME IInv, TypeOK', StopsAtThreshold', UNCHANGED inputs,
           UNCHANGED <<i, skipUntil, score, blocking>>,
           result' = "block" <=> result = "block", result' = "allow" => i = Len(rules) + 1
    PROVE  IInv'
<1>1. rules' = rules
    BY DEF inputs
<1>2. ASSUME NEW active \in SUBSET DOMAIN rules, InForce(active)
      PROVE  SkipKnown(active)' /\ BlameKnown(active)' /\ ScoreKnown(active)'
  <2>1. SkipKnown(active) /\ BlameKnown(active) /\ ScoreKnown(active)
    BY <1>2 DEF IInv
  <2>2. /\ Scoring(active)' = Scoring(active) /\ Tally(active)' = Tally(active)
        /\ threshold' = threshold
        /\ \A j \in DOMAIN rules : Silences(j, i, active)' <=> Silences(j, i, active)
    BY <1>1, SameInForce DEF Silences, inputs
  <2> QED
    BY <1>1, <2>1, <2>2 DEF SkipKnown, BlameKnown, ScoreKnown
<1> QED
    BY <1>1, <1>2, SameInForce DEF IInv

(* Every step keeps the invariant. *)
LEMMA InvStep == IInv /\ [Next]_crsVars => IInv'
<1> SUFFICES ASSUME IInv, [Next]_crsVars PROVE IInv'
    OBVIOUS
<1>1. CASE RulesEnd
  <2>0. i = Len(rules) + 1 /\ result = "running" /\ result' = "allow"
    <3>1. i \in 1 .. Len(rules) + 1 /\ i \notin 1 .. Len(rules) /\ Len(rules) \in Nat
        BY <1>1, RulesType DEF RulesEnd, IInv, TypeOK
    <3> QED
        BY <1>1, <3>1 DEF RulesEnd
  <2>1. TypeOK'
    BY <1>1 DEF RulesEnd, IInv, TypeOK
  <2>2. StopsAtThreshold'
    BY <1>1 DEF RulesEnd, IInv, StopsAtThreshold
  <2> QED
    BY <1>1, <2>0, <2>1, <2>2, InvStays DEF RulesEnd, inputs
<1>2. CASE UNCHANGED crsVars
  <2>1. TypeOK' /\ StopsAtThreshold'
    BY <1>2 DEF crsVars, IInv, TypeOK, StopsAtThreshold
  <2> QED
    BY <1>2, <2>1, InvStays DEF crsVars, inputs, IInv
<1> QED
    BY <1>1, <1>2, InvAtMarker, InvPassedOver, InvPassHit, InvBlockHit DEF Next

(* The inductive invariant of the loop of evaluate holds always. *)
THEOREM Invariance == Spec => []IInv
BY InvInit, InvStep, PTL DEF Spec

(* The loop's variables keep their types, and the score its width. *)
THEOREM TypeCorrect == Spec => []TypeOK
<1>1. IInv => TypeOK
    BY DEF IInv
<1> QED
    BY <1>1, Invariance, PTL

(* Whatever the rules, evaluate goes on only while the score is below the  *)
(* threshold and blocks only when it is not.                               *)
THEOREM StopsInTime == Spec => []StopsAtThreshold
<1>1. IInv => StopsAtThreshold
    BY DEF IInv
<1> QED
    BY <1>1, Invariance, PTL

(* The invariant says what the verdict is: the rules in force are known.   *)
LEMMA InvVerdict == IInv => VerdictOfRules
<1> SUFFICES ASSUME IInv PROVE VerdictOfRules
    OBVIOUS
<1>1. TypeOK
    BY DEF IInv
<1>3. ASSUME result # "running"
      PROVE  \E active \in SUBSET DOMAIN rules :
                /\ InForce(active)
                /\ IF \E k \in Scoring(active) : Tally(active)[k] >= threshold
                   THEN result = "block" /\ blocking = Min(Scoring(active))
                   ELSE result = "allow"
  <2>1. PICK active \in SUBSET DOMAIN rules : InForce(active)
    BY <1>1, SomeInForce
  <2>2. BlameKnown(active) /\ ScoreKnown(active)
    BY <2>1 DEF IInv
  <2>3. CASE result = "block"
    <3>1. \E k \in Scoring(active) : Tally(active)[k] >= threshold
        BY <2>2, <2>3 DEF ScoreKnown
    <3>2. blocking \in Scoring(active) /\ \A k \in Scoring(active) : blocking <= k
        BY <2>2, <2>3 DEF IInv, StopsAtThreshold, BlameKnown
    <3>3. Scoring(active) \subseteq Nat
        BY <1>1, RulesType DEF Scoring
    <3>4. \A k \in Scoring(active) : (\A l \in Scoring(active) : k <= l) => k = blocking
        BY <3>2, <3>3
    <3>5. blocking = Min(Scoring(active))
        BY <3>2, <3>4 DEF Min
    <3> QED
        BY <2>1, <2>3, <3>1, <3>5
  <2>4. CASE result = "allow"
    <3>1. i = Len(rules) + 1
        BY <2>4 DEF IInv
    <3>2. ASSUME NEW k \in Scoring(active)
          PROVE  ~(Tally(active)[k] >= threshold)
      <4>1. k \in 1 .. Len(rules) /\ k < i
        BY <1>1, <3>1, RulesType DEF Scoring
      <4>2. Tally(active)[k] \in Nat /\ threshold \in Nat
        BY <1>1, <4>1, TallyIs, RulesType, CrsAssumption DEF TypeOK
      <4>3. Tally(active)[k] < threshold
        BY <2>2, <2>4, <4>1 DEF ScoreKnown
      <4> QED
        BY <4>2, <4>3
    <3> QED
        BY <2>1, <2>4, <3>2
  <2>5. result \in {"allow", "block"}
    BY <1>1, <1>3 DEF TypeOK
  <2> QED
    BY <2>3, <2>4, <2>5
<1> QED
    BY <1>3 DEF VerdictOfRules

(* evaluate() computes what the rules say, whatever the rules, the request *)
(* and the threshold: it blocks exactly if the scores of the rules in      *)
(* force add up to the threshold, though the sum is kept in a u32.         *)
THEOREM LoopComputesVerdict == Spec => []VerdictOfRules
BY Invariance, InvVerdict, PTL

----------------------------------------------------------------------------
(* The call around the evaluation *)

(* Min of two natural numbers: one of them, above neither *)
LEMMA MinOfTwo ==
    ASSUME NEW m \in Nat, NEW n \in Nat
    PROVE  Min({m, n}) \in {m, n} /\ Min({m, n}) <= m /\ Min({m, n}) <= n
<1>1. \E x \in {m, n} : \A y \in {m, n} : x <= y
    BY m <= n \/ n <= m
<1> QED
    BY <1>1 DEF Min

(* What the profile asks for, as the evaluation takes it: no level above   *)
(* the one asked for, nor a threshold.                                     *)
LEMMA ParamsRead ==
    ASSUME NEW n \in Nat \cup {None}
    PROVE  /\ LevelOf(n) \in Levels
           /\ LevelOf(n) = Min({IF n = None THEN DefaultLevel ELSE n, MaxLevel})
           /\ ThresholdOf(n) \in Thresholds
           /\ ThresholdOf(n) <= IF n = None THEN DefaultThreshold ELSE n
<1>1. CASE n = None
  <2>1. Min({1, 4}) = 1
    BY MinOfTwo
  <2> QED
    BY <1>1, <2>1, CrsAssumption, GuestAssumption
        DEF LevelOf, ThresholdOf, DefaultLevel, DefaultThreshold, MaxLevel
<1>2. CASE n \in Nat /\ n # None
  <2>1. Min({n, MaxLevel}) \in 0 .. MaxLevel /\ Min({n, MaxLevel}) <= n
    BY <1>2, MinOfTwo DEF MaxLevel
  <2>2. MaxScore \in Nat
    BY CrsAssumption
  <2>3. n % (MaxScore + 1) \in 0 .. MaxScore /\ n % (MaxScore + 1) <= n
    BY <1>2, <2>2
  <2> QED
    BY <1>2, <2>1, <2>3, GuestAssumption DEF LevelOf, ThresholdOf
<1> QED
    BY <1>1, <1>2

(* Every call begins with the invariant. *)
LEMMA GuestInvInit == GuestInit => GuestIInv
<1> SUFFICES ASSUME GuestInit PROVE GuestIInv
    OBVIOUS
<1>1. PICK c \in Calls : /\ rules = c.rules /\ request = c.request
                         /\ params = c.params /\ embedded = c.embedded
    BY DEF GuestInit
<1>2. Init
  <2>1. DefaultLevel \in Levels /\ DefaultThreshold \in Thresholds
    BY CrsAssumption, GuestAssumption DEF DefaultLevel, MaxLevel, DefaultThreshold
  <2>2. rules \in RuleSets
    BY <1>1, GuestAssumption
  <2> QED
    BY <2>1, <2>2 DEF GuestInit, Init
<1>3. IInv /\ TypeOK
    BY <1>2, InvInit DEF IInv
<1>4. GuestTypeOK
    BY <1>1, <1>3, GuestAssumption DEF GuestInit, GuestTypeOK
<1> QED
    BY <1>3, <1>4 DEF GuestInit, GuestIInv, AnswerAccepted

(* A call that is decided without an evaluation *)
LEMMA InvDecided ==
    ASSUME GuestIInv, stage = "called", stage' = "writing",
           decision' \in DecisionMade, ~decision'.allow, decision' # None,
           UNCHANGED <<crsVars, request, params, embedded, written>>
    PROVE  GuestIInv'
<1>1. IInv'
    BY InvStep DEF GuestIInv
<1>2. TypeOK'
    BY <1>1 DEF IInv
<1>3. GuestTypeOK'
    BY <1>2 DEF GuestIInv, GuestTypeOK
<1> QED
    BY <1>1, <1>3 DEF GuestIInv, AnswerAccepted

(* What is decided is a Decision, and none of them is None. *)
LEMMA DecisionsMade ==
    /\ Allow \in DecisionMade /\ Allow.allow
    /\ BadRequest \in DecisionMade /\ ~BadRequest.allow
    /\ Unavailable \in DecisionMade /\ ~Unavailable.allow
    /\ \A id \in Nat : /\ Refusal(403, id) \in DecisionMade
                       /\ ~Refusal(403, id).allow
BY DEF Allow, BadRequest, Unavailable, Refusal, DecisionMade

(* StartsEvaluation keeps the invariant. *)
LEMMA InvStarts == ASSUME GuestIInv, StartsEvaluation PROVE GuestIInv'
<1>1. /\ rules' = rules /\ holds' = holds /\ UNCHANGED loop
      /\ paranoia' = LevelOf(params["paranoia_level"])
      /\ threshold' = ThresholdOf(params["anomaly_threshold"])
      /\ stage = "called" /\ stage' = "evaluating"
      /\ request = "plain" /\ embedded = "ok"
      /\ UNCHANGED <<request, params, embedded, decision, written>>
    BY DEF StartsEvaluation, Decodes
<1>2. GuestTypeOK /\ TypeOK /\ InitLoop /\ decision = None
    BY <1>1 DEF GuestIInv, GuestTypeOK
<1>3. params["paranoia_level"] \in Nat \cup {None} /\ params["anomaly_threshold"] \in Nat \cup {None}
    BY <1>2, GuestAssumption DEF GuestTypeOK
<1>4. Init'
    BY <1>1, <1>2, <1>3, ParamsRead DEF Init, InitLoop, TypeOK, loop
<1>5. Init' => IInv'
    BY InvInit, PTL
<1>6. IInv' /\ TypeOK'
    BY <1>4, <1>5 DEF IInv
<1>7. AsAsked'
    BY <1>1, <1>3, ParamsRead DEF AsAsked, Asked
<1>8. GuestTypeOK'
    BY <1>1, <1>2, <1>6 DEF GuestTypeOK
<1> QED
    BY <1>1, <1>2, <1>6, <1>7, <1>8 DEF GuestIInv, AnswerAccepted

(* Evaluates keeps the invariant. *)
LEMMA InvEvaluates == ASSUME GuestIInv, Evaluates PROVE GuestIInv'
<1>1. IInv /\ GuestTypeOK /\ Next /\ stage = "evaluating" /\ UNCHANGED guestVars /\ decision = None
    BY DEF GuestIInv, Evaluates
<1>2. IInv' /\ TypeOK'
    BY <1>1, InvStep DEF IInv
<1>3. paranoia' = paranoia /\ threshold' = threshold
    BY <1>1 DEF Next, AtMarker, PassedOver, PassHit, BlockHit, Hit, Looking, RulesEnd, inputs
<1>4. GuestTypeOK'
    BY <1>1, <1>2 DEF GuestTypeOK, guestVars
<1>5. AsAsked'
    BY <1>1, <1>3 DEF GuestIInv, AsAsked, Asked, guestVars
<1> QED
    BY <1>1, <1>2, <1>4, <1>5 DEF GuestIInv, AnswerAccepted, guestVars

(* Concludes keeps the invariant. *)
LEMMA InvConcludes == ASSUME GuestIInv, Concludes PROVE GuestIInv'
<1>1. /\ stage = "evaluating" /\ stage' = "writing" /\ result # "running"
      /\ decision' = IF result = "block" THEN Refusal(403, rules[blocking].id) ELSE Allow
      /\ UNCHANGED <<crsVars, request, params, embedded, written>>
    BY DEF Concludes
<1>2. IInv /\ GuestTypeOK /\ AsAsked /\ TypeOK
    BY <1>1 DEF GuestIInv, GuestTypeOK
<1>3. IInv'
    BY <1>1, <1>2, InvStep
<1>4. TypeOK'
    BY <1>3 DEF IInv
<1>5. result = "block" => rules[blocking].id \in Nat
  <2>1. result = "block" => blocking \in DOMAIN rules
    BY <1>2 DEF IInv, StopsAtThreshold, TypeOK
  <2> QED
    BY <1>2, <2>1, RulesType DEF Rule
<1>6. decision' \in DecisionMade /\ (decision'.allow => result = "allow")
    BY <1>1, <1>2, <1>5, DecisionsMade DEF TypeOK
<1>7. GuestTypeOK'
    BY <1>1, <1>2, <1>4, <1>6 DEF GuestTypeOK
<1>8. AsAsked' /\ result' = result
    BY <1>1, <1>2 DEF AsAsked, Asked, crsVars
<1>9. None \notin DecisionMade
    BY GuestAssumption
<1> QED
    BY <1>1, <1>3, <1>6, <1>7, <1>8, <1>9 DEF GuestIInv, AnswerAccepted

(* WritesResult keeps the invariant. *)
LEMMA InvWrites == ASSUME GuestIInv, WritesResult PROVE GuestIInv'
<1>1. PICK len \in JsonLens : written' = [len |-> Copied(len), whole |-> Copied(len) = len]
    BY DEF WritesResult
<1>2. /\ stage = "writing" /\ stage' = "returned"
      /\ UNCHANGED <<crsVars, request, params, embedded, decision>>
    BY DEF WritesResult
<1>3. IInv /\ GuestTypeOK /\ TypeOK /\ decision # None /\ decision \in DecisionMade
    BY <1>2 DEF GuestIInv, GuestTypeOK
<1>4. IInv'
    BY <1>2, <1>3, InvStep
<1>5. TypeOK'
    BY <1>4 DEF IInv
<1>6. len \in Nat \ {0}
    BY GuestAssumption
<1>7. /\ Copied(len) \in Nat \ {0} /\ Copied(len) <= BufLen
      /\ Copied(len) = len \/ Copied(len) = BufLen
    BY <1>6, MinOfTwo DEF Copied, BufLen
<1>8. GuestTypeOK'
    BY <1>1, <1>2, <1>3, <1>5, <1>7 DEF GuestTypeOK
<1>9. AnswerAccepted'
  <2>1. 0 < written'.len /\ written'.len <= MaxResultLen
    BY <1>1, <1>7 DEF BufLen, MaxResultLen
  <2>2. written'.whole \/ written'.len = BufLen
    BY <1>1, <1>7
  <2> QED
    BY <1>2, <1>3, <2>1, <2>2 DEF AnswerAccepted
<1>10. decision # None /\ decision.allow => AsAsked' /\ result' = "allow"
    BY <1>2 DEF GuestIInv, AsAsked, Asked, crsVars
<1> QED
    BY <1>2, <1>3, <1>4, <1>8, <1>9, <1>10 DEF GuestIInv

(* Every step of a call keeps the invariant. *)
LEMMA GuestInvStep == GuestIInv /\ [GuestNext]_vars => GuestIInv'
<1> SUFFICES ASSUME GuestIInv, [GuestNext]_vars PROVE GuestIInv'
    OBVIOUS
<1>1. CASE Refused
    BY <1>1, InvDecided, DecisionsMade, GuestAssumption DEF Refused
<1>2. CASE NoRules
    BY <1>2, InvDecided, DecisionsMade, GuestAssumption DEF NoRules
<1>3. CASE UNCHANGED vars
  <2>1. UNCHANGED crsVars /\ UNCHANGED guestVars
    BY <1>3 DEF vars
  <2>2. IInv' /\ TypeOK'
    BY <2>1, InvStep DEF GuestIInv, IInv
  <2>3. GuestTypeOK' /\ AnswerAccepted'
    BY <2>1, <2>2 DEF guestVars, GuestIInv, GuestTypeOK, AnswerAccepted
  <2>4. AsAsked' <=> AsAsked
    BY <2>1 DEF AsAsked, Asked, guestVars, crsVars
  <2>5. InitLoop' <=> InitLoop
    BY <2>1 DEF InitLoop, crsVars
  <2> QED
    BY <2>1, <2>2, <2>3, <2>4, <2>5 DEF GuestIInv, guestVars, crsVars
<1> QED
    BY <1>1, <1>2, <1>3, InvStarts, InvEvaluates, InvConcludes, InvWrites DEF GuestNext

(* The inductive invariant of a call of the guest holds always. *)
THEOREM GuestInvariance == GuestSpec => []GuestIInv
BY GuestInvInit, GuestInvStep, PTL DEF GuestSpec

(* The variables of a call of decide keep their types: the level asked for *)
(* fits its u8, the threshold and the score their u32.                     *)
THEOREM GuestTypeCorrect == GuestSpec => []GuestTypeOK
<1>1. GuestIInv => GuestTypeOK
    BY DEF GuestIInv
<1> QED
    BY <1>1, GuestInvariance, PTL

(* In every call, whatever the rules embedded in the module and the        *)
(* parameters of the profile, evaluate's verdict is what the rules in      *)
(* force make of the request.                                              *)
THEOREM CallComputesVerdict == GuestSpec => []VerdictOfRules
<1>1. GuestIInv => VerdictOfRules
    BY InvVerdict DEF GuestIInv
<1> QED
    BY <1>1, GuestInvariance, PTL

(* Nothing is allowed but a request that was decoded and evaluated and     *)
(* whose rules in force stay below the threshold the profile asks for:     *)
(* what does not fit the u32 makes the threshold lower, never higher.      *)
THEOREM FailsOnlyClosed == GuestSpec => []FailsClosed
<1>1. GuestIInv => FailsClosed
  <2> SUFFICES ASSUME GuestIInv, decision # None, decision.allow
               PROVE  /\ AsAsked
                      /\ \A active \in SUBSET DOMAIN rules : InForce(active) =>
                            \A k \in Scoring(active) :
                                Tally(active)[k] < Asked("anomaly_threshold", DefaultThreshold)
    BY DEF FailsClosed, AsAsked
  <2>1. AsAsked /\ result = "allow" /\ IInv /\ GuestTypeOK /\ TypeOK
    BY DEF GuestIInv, GuestTypeOK
  <2>2. /\ threshold \in Nat /\ Asked("anomaly_threshold", DefaultThreshold) \in Nat
        /\ threshold <= Asked("anomaly_threshold", DefaultThreshold)
    BY <2>1, CrsAssumption, GuestAssumption DEF TypeOK, GuestTypeOK, AsAsked, Asked, DefaultThreshold
  <2>3. ASSUME NEW active \in SUBSET DOMAIN rules, InForce(active), NEW k \in Scoring(active)
        PROVE  Tally(active)[k] < Asked("anomaly_threshold", DefaultThreshold)
    <3>1. k \in 1 .. Len(rules) /\ k < i
        BY <2>1, RulesType DEF Scoring, IInv
    <3>2. Tally(active)[k] \in Nat
        BY <2>1, <3>1, TallyIs, RulesType
    <3>3. Tally(active)[k] < threshold
        BY <2>1, <2>3, <3>1 DEF IInv, ScoreKnown
    <3> QED
        BY <2>2, <3>2, <3>3
  <2> QED
    BY <2>1, <2>3
<1> QED
    BY <1>1, GuestInvariance, PTL

(* Every answer is one the host takes: of a length it accepts, and whole   *)
(* unless the decision does not fit the buffer.                            *)
THEOREM AnswersAreAccepted == GuestSpec => []AnswerAccepted
<1>1. GuestIInv => AnswerAccepted
    BY DEF GuestIInv
<1> QED
    BY <1>1, GuestInvariance, PTL
============================================================================
