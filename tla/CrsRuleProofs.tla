--------------------------- MODULE CrsRuleProofs ---------------------------
(* Proofs about the rules, for any files and any requests: the rules that  *)
(* are embedded, with their lines and chains, the conditions of a rule     *)
(* against a request, and the texts of the request on their way through    *)
(* the transforms to the operators.                                        *)
EXTENDS CrsCondition, CrsParser, CrsText, FiniteSetTheorems, WellFoundedInduction, TLAPS

----------------------------------------------------------------------------
(* Conditions: CrsCondition *)

(* The forms a variable is parsed to *)
VariableForm(v) ==
    \/ v = <<"headers">> \/ v = <<"TX">> \/ v = <<"XML">>
    \/ \E x : v = <<"header", x>>
    \/ \E x : v = <<"exclude", x>>
    \/ \E x \in Plain : v = <<"plain", x>>
    \/ \E x \in CookieVariables : v = <<"cookies", x>>

(* Every variable as it is written is parsed to one of them. *)
LEMMA VariableForms == ASSUME NEW w PROVE VariableForm(VariableOf(w))
  <1> DEFINE name == IF w.name \in DOMAIN Alias THEN Alias[w.name] ELSE w.name
             bare == w.selector = None
             other == HeaderCalled[w.name, w.selector]
  <1>1. VariableOf(w) =
            CASE name = "REQUEST_HEADERS" /\ bare -> <<"headers">>
              [] name = "REQUEST_HEADERS" /\ ~bare ->
                    <<IF w.negated THEN "exclude" ELSE "header", w.selector>>
              [] name \in Plain /\ bare -> <<"plain", name>>
              [] name \in CookieVariables /\ bare -> <<"cookies", name>>
              [] name \in {"TX", "XML"} /\ ~bare -> <<name>>
              [] OTHER -> <<"header", other>>
    BY Zenon DEF VariableOf
  <1>2. /\ "REQUEST_HEADERS" \notin Plain \cup CookieVariables \cup {"TX", "XML"}
        /\ Plain \cap CookieVariables = {}
    BY DEF Plain, CookieVariables
  <1> HIDE DEF name, bare, other
  <1>3. CASE name = "REQUEST_HEADERS"
    BY <1>1, <1>2, <1>3 DEF VariableForm
  <1>4. CASE name # "REQUEST_HEADERS" /\ name \in Plain /\ bare
    BY <1>1, <1>2, <1>4 DEF VariableForm
  <1>5. CASE name # "REQUEST_HEADERS" /\ name \in CookieVariables /\ bare
    BY <1>1, <1>2, <1>5 DEF VariableForm
  <1>6. CASE name \in {"TX", "XML"} /\ ~bare
    BY <1>1, <1>2, <1>6 DEF VariableForm
  <1>7. CASE /\ name # "REQUEST_HEADERS" /\ ~(name \in Plain /\ bare)
             /\ ~(name \in CookieVariables /\ bare) /\ ~(name \in {"TX", "XML"} /\ ~bare)
    <2>1. VariableOf(w) = <<"header", other>>
      BY <1>1, <1>7
    <2> QED
      BY <2>1 DEF VariableForm
  <1> QED
    BY <1>3, <1>4, <1>5, <1>6, <1>7

(* A variable of a condition has one of those forms. *)
LEMMA VariablesForm == ASSUME NEW c, NEW v \in Variables(c) PROVE VariableForm(v)
  BY VariableForms DEF Variables

(* Whatever a variable is resolved to is a string. *)
LEMMA ValuesTyped ==
    ASSUME NEW c, NEW v \in Variables(c), NEW r \in Requests
    PROVE  ValuesOf(v, Variables(c), r) \subseteq Value
  <1>1. VariableForm(v)
    BY VariablesForm
  <1>2. /\ r.plain \in [Plain -> SUBSET Value]
        /\ \A name \in DOMAIN r.headers : r.headers[name] \in Value
        /\ r.userAgent \in Value \cup {None}
        /\ Empty \in Value
        /\ CookiesIn \in [CookieVariables -> [Value -> SUBSET Value]]
    BY ConditionAssumption
  <1>3. v[1] \in {"plain", "cookies", "headers", "header", "exclude", "TX", "XML"}
    BY <1>1 DEF VariableForm
  <1>4. CASE v[1] = "plain"
    <2>1. v[2] \in Plain
      BY <1>1, <1>4 DEF VariableForm
    <2>2. r.plain[v[2]] \in SUBSET Value
      BY <1>2, <2>1
    <2> QED
      BY <1>4, <2>2 DEF ValuesOf
  <1>9. CASE v[1] = "cookies"
    <2>1. v[2] \in CookieVariables
      BY <1>1, <1>9 DEF VariableForm
    <2>2. \A name \in DOMAIN r.headers : CookiesIn[v[2]][r.headers[name]] \in SUBSET Value
      BY <1>2, <2>1
    <2> QED
      BY <1>9, <2>2 DEF ValuesOf
  <1>5. CASE v[1] = "headers"
    BY <1>2, <1>5 DEF ValuesOf
  <1>6. CASE v[1] = "header"
    BY <1>2, <1>6 DEF ValuesOf
  <1>7. CASE v[1] = "TX"
    BY <1>2, <1>7 DEF ValuesOf, Unset
  <1>8. CASE v[1] \in {"exclude", "XML"}
    BY <1>8 DEF ValuesOf
  <1> QED
    BY <1>3, <1>4, <1>5, <1>6, <1>7, <1>8, <1>9

(* The resolved values of a condition are strings. *)
LEMMA InspectedTyped ==
    ASSUME NEW c, NEW r \in Requests
    PROVE  Inspected(c, r) \subseteq Value
  BY ValuesTyped DEF Inspected

----------------------------------------------------------------------------
(* The invariant *)

(* Every first state satisfies the invariant. *)
LEMMA InitInv == Init => IInv
  BY DEF Init, IInv, TypeOK, TestedSoFar, AnyValueDecides, Returned

(* Resolve keeps the invariant. *)
LEMMA ResolveInv == IInv /\ Resolve => IInv'
  <1> SUFFICES ASSUME IInv, Resolve PROVE IInv'
    OBVIOUS
  <1>1. /\ condition' = condition /\ request' = request
        /\ request \in Requests /\ condition \in Conditions
        /\ result' = "testing"
    BY DEF IInv, Resolve
  <1>2. values' = Inspected(condition, request)
    BY DEF Resolve, Inspected
  <1>3. TypeOK'
    BY <1>1, <1>2, InspectedTyped DEF TypeOK
  <1>4. TestedSoFar'
    BY <1>1, <1>2 DEF TestedSoFar
  <1>5. AnyValueDecides'
    BY <1>1 DEF AnyValueDecides, Returned
  <1> QED
    BY <1>1, <1>3, <1>4, <1>5 DEF IInv

(* Match keeps the invariant. *)
LEMMA MatchInv == IInv /\ Match => IInv'
  <1> SUFFICES ASSUME IInv, Match PROVE IInv'
    OBVIOUS
  <1>1. /\ condition' = condition /\ request' = request /\ values' = values
        /\ result = "testing" /\ result' = "match"
    BY DEF Match
  <1>2. \E s \in Inspected(condition, request) : Matches(condition, s)
    BY <1>1 DEF IInv, TestedSoFar, Match
  <1>3. AnyValueDecides'
    BY <1>1, <1>2 DEF AnyValueDecides, Returned
  <1> QED
    BY <1>1, <1>3 DEF IInv, TypeOK, TestedSoFar

(* Miss keeps the invariant. *)
LEMMA MissInv == IInv /\ Miss => IInv'
  <1> SUFFICES ASSUME IInv, Miss PROVE IInv'
    OBVIOUS
  <1>1. /\ condition' = condition /\ request' = request
        /\ result = "testing" /\ result' = "testing"
    BY DEF Miss
  <1>2. PICK s \in values : ~Matches(condition, s) /\ values' = values \ {s}
    BY DEF Miss, Left
  <1>3. TestedSoFar'
    BY <1>1, <1>2 DEF IInv, TestedSoFar
  <1> QED
    BY <1>1, <1>2, <1>3 DEF IInv, TypeOK, AnyValueDecides, Returned

(* NoMatch keeps the invariant. *)
LEMMA NoMatchInv == IInv /\ NoMatch => IInv'
  <1> SUFFICES ASSUME IInv, NoMatch PROVE IInv'
    OBVIOUS
  <1>1. /\ condition' = condition /\ request' = request /\ values' = values
        /\ result = "testing" /\ result' = "mismatch" /\ values = {}
    BY DEF NoMatch
  <1>2. \A s \in Inspected(condition, request) : ~Matches(condition, s)
    BY <1>1 DEF IInv, TestedSoFar
  <1>3. AnyValueDecides'
    BY <1>1, <1>2 DEF AnyValueDecides, Returned
  <1> QED
    BY <1>1, <1>3 DEF IInv, TypeOK, TestedSoFar

(* The invariant behind the others holds always. *)
THEOREM ConditionInvariance == Spec => []IInv
  <1>1. IInv /\ [Next]_vars => IInv'
    <2>1. IInv /\ UNCHANGED vars => IInv'
      BY DEF vars, IInv, TypeOK, TestedSoFar, AnyValueDecides, Returned
    <2> QED
      BY <2>1, ResolveInv, MatchInv, MissInv, NoMatchInv DEF Next
  <1> QED
    BY <1>1, InitInv, PTL DEF Spec

(* All that is tested is strings, and the result is one of the two. *)
THEOREM TypeCorrect == Spec => []TypeOK
  <1>1. IInv => TypeOK
    BY DEF IInv
  <1> QED
    BY <1>1, ConditionInvariance, PTL

(* condition_matches finds a matching value exactly if there is one,       *)
(* whatever the order in which it tests them.                              *)
THEOREM ValuesDecide == Spec => []AnyValueDecides
  <1>1. IInv => AnyValueDecides
    BY DEF IInv
  <1> QED
    BY <1>1, ConditionInvariance, PTL

----------------------------------------------------------------------------
(* Exclusions *)

(* The request without a header has all else it had. *)
LEMMA WithoutHeader ==
    ASSUME NEW r \in Requests, NEW name
    PROVE  /\ Without(r, name).plain = r.plain
           /\ Without(r, name).userAgent = r.userAgent
           /\ Without(r, name).headers =
                [h \in DOMAIN r.headers \ {name} |-> r.headers[h]]
  BY ConditionAssumption DEF Without

(* A variable, unless it is one of cookies, does not see a header that is  *)
(* excluded, unless it names it.                                           *)
LEMMA VariableWithout ==
    ASSUME NEW vs, NEW v \in vs, NEW r \in Requests, NEW name,
           name \in Excluded(vs), <<"header", name>> \notin vs,
           v[1] = "header" => v[2] # name,
           v[1] \in {"plain", "headers", "header", "exclude", "TX", "XML"}
    PROVE  ValuesOf(v, vs, Without(r, name)) = ValuesOf(v, vs, r)
  <1> DEFINE q == Without(r, name)
  <1>1. /\ q.plain = r.plain /\ q.userAgent = r.userAgent
        /\ q.headers = [h \in DOMAIN r.headers \ {name} |-> r.headers[h]]
    BY WithoutHeader
  <1>2. DOMAIN q.headers = DOMAIN r.headers \ {name}
    BY <1>1
  <1>3. \A h \in DOMAIN q.headers : q.headers[h] = r.headers[h]
    BY <1>1
  <1> HIDE DEF q
  <1>4. CASE v[1] = "plain"
    BY <1>1, <1>4 DEF ValuesOf, q
  <1>5. CASE v[1] = "headers"
    <2>1. DOMAIN q.headers \ Excluded(vs) = DOMAIN r.headers \ Excluded(vs)
      BY <1>2
    <2>2. {q.headers[h] : h \in DOMAIN q.headers \ Excluded(vs)}
            = {r.headers[h] : h \in DOMAIN r.headers \ Excluded(vs)}
      BY <1>3, <2>1
    <2> QED
      BY <1>5, <2>2 DEF ValuesOf, q
  <1>6. CASE v[1] = "header"
    <2>1. DOMAIN q.headers \cap {v[2]} = DOMAIN r.headers \cap {v[2]}
      BY <1>2, <1>6
    <2>2. {q.headers[h] : h \in DOMAIN q.headers \cap {v[2]}}
            = {r.headers[h] : h \in DOMAIN r.headers \cap {v[2]}}
      BY <1>3, <2>1
    <2>3. v[2] = "user-agent" =>
            ("user-agent" \in DOMAIN q.headers <=> "user-agent" \in DOMAIN r.headers)
      BY <1>2, <1>6
    <2> QED
      BY <1>1, <1>6, <2>2, <2>3 DEF ValuesOf, q
  <1>7. CASE v[1] \in {"exclude", "TX", "XML"}
    BY <1>7 DEF ValuesOf
  <1> QED
    BY <1>4, <1>5, <1>6, <1>7
(* Without a header a variable of cookies finds no more than with it. *)
LEMMA CookiesWithout ==
    ASSUME NEW vs, NEW v \in vs, NEW r \in Requests, NEW name, v[1] = "cookies"
    PROVE  ValuesOf(v, vs, Without(r, name)) \subseteq ValuesOf(v, vs, r)
  <1> DEFINE q == Without(r, name)
  <1>1. q.headers = [h \in DOMAIN r.headers \ {name} |-> r.headers[h]]
    BY WithoutHeader
  <1>2. DOMAIN q.headers \subseteq DOMAIN r.headers
    BY <1>1
  <1>3. \A h \in DOMAIN q.headers : q.headers[h] = r.headers[h]
    BY <1>1
  <1>4. /\ ValuesOf(v, vs, q) =
            UNION {CookiesIn[v[2]][q.headers[h]] : h \in DOMAIN q.headers \cap {"cookie"}}
        /\ ValuesOf(v, vs, r) =
            UNION {CookiesIn[v[2]][r.headers[h]] : h \in DOMAIN r.headers \cap {"cookie"}}
    BY DEF ValuesOf
  <1> HIDE DEF q
  <1>5. ValuesOf(v, vs, q) \subseteq ValuesOf(v, vs, r)
    BY <1>2, <1>3, <1>4
  <1> QED
    BY <1>5 DEF q

(* A condition's values are the same with and without such a header, but   *)
(* for the cookies.                                                        *)
LEMMA InspectedWithout ==
    ASSUME NEW c, NEW r \in Requests, NEW name,
           name \in Excluded(Variables(c)), <<"header", name>> \notin Variables(c)
    PROVE  Inspected(c, Without(r, name)) \cup Cookies(c, r) = Inspected(c, r)
  <1>1. ASSUME NEW v \in Variables(c), v[1] # "cookies"
        PROVE  ValuesOf(v, Variables(c), Without(r, name)) = ValuesOf(v, Variables(c), r)
    <2>1. VariableForm(v)
      BY VariablesForm
    <2>2. v[1] \in {"plain", "headers", "header", "exclude", "TX", "XML"}
      BY <1>1, <2>1 DEF VariableForm
    <2>3. v[1] = "header" => v = <<"header", v[2]>>
      BY <2>1 DEF VariableForm
    <2>4. v[1] = "header" => v[2] # name
      BY <2>3
    <2> QED
      BY <2>2, <2>4, VariableWithout
  <1> DEFINE W(v) == ValuesOf(v, Variables(c), Without(r, name))
             V(v) == ValuesOf(v, Variables(c), r)
  <1>2. \A v \in Variables(c) : v[1] # "cookies" => W(v) = V(v)
    BY <1>1
  <1>3. \A v \in Variables(c) : v[1] = "cookies" => W(v) \subseteq V(v)
    BY CookiesWithout
  <1>4. /\ Inspected(c, Without(r, name)) = UNION {W(v) : v \in Variables(c)}
        /\ Inspected(c, r) = UNION {V(v) : v \in Variables(c)}
        /\ Cookies(c, r) = UNION {V(v) : v \in {u \in Variables(c) : u[1] = "cookies"}}
    BY DEF Inspected, Cookies
  <1> HIDE DEF W, V
  <1> QED
    BY <1>2, <1>3, <1>4

(* A header that a condition excludes decides nothing as a header, in any  *)
(* request and wherever in the condition it is excluded: resolve_variables *)
(* collects the exclusions before it looks at any variable.  A variable    *)
(* that names the header sees it, and those of cookies see a cookie header.*)
THEOREM ExclusionsAreKept == Spec => []ExclusionsHold
  <1>1. IInv => ExclusionsHold
    <2> SUFFICES ASSUME IInv, Returned,
                        NEW v \in Variables(condition),
                        v[1] = "exclude", <<"header", v[2]>> \notin Variables(condition)
                 PROVE  (result = "match") =
                            (\E s \in Inspected(condition, Without(request, v[2]))
                                        \cup Cookies(condition, request) :
                                Matches(condition, s))
      BY DEF ExclusionsHold
    <2>1. v[2] \in Excluded(Variables(condition))
      BY DEF Excluded
    <2>2. request \in Requests
      BY DEF IInv
    <2>3. Inspected(condition, Without(request, v[2])) \cup Cookies(condition, request)
            = Inspected(condition, request)
      BY <2>1, <2>2, InspectedWithout
    <2>4. (result = "match") =
            (\E s \in Inspected(condition, request) : Matches(condition, s))
      BY DEF IInv, AnyValueDecides
    <2> QED
      BY <2>3, <2>4
  <1> QED
    BY <1>1, ConditionInvariance, PTL

----------------------------------------------------------------------------
(* Rules and chains: CrsParser *)

(* A nonempty set of naturals has a least element. *)
LEMMA Least ==
    ASSUME NEW S \in SUBSET Nat, S # {}
    PROVE  \E k \in S : \A m \in S : k <= m
<1> DEFINE R == OpToRel(<, Nat)
<1>1. IsWellFoundedOn(R, Nat)
    BY NatLessThanWellFounded
<1>2. \A m, k \in Nat : m < k => <<m, k>> \in R
    BY DEF OpToRel
<1> HIDE DEF R
<1>3. PICK k \in S : \A m \in S : ~(<<m, k>> \in R)
    BY <1>1, WFMin, Zenon
<1>4. \A m \in S : ~(m < k)
    BY <1>2, <1>3, Zenon
<1>5. k \in Nat /\ \A m \in S : m \in Nat
    OBVIOUS
<1> QED
    BY <1>4, <1>5

(* Induction, with a set for the statement *)
LEMMA UpFromZero ==
    ASSUME NEW S, 0 \in S, \A k \in Nat : k \in S => k + 1 \in S
    PROVE  Nat \subseteq S
<1> SUFFICES ASSUME Nat \ S # {} PROVE FALSE
    OBVIOUS
<1>1. PICK k \in Nat \ S : \A m \in Nat \ S : k <= m
    BY Least
<1>2. k # 0 /\ k - 1 \in Nat /\ ~(k <= k - 1)
    BY <1>1
<1>3. k - 1 \in S
    BY <1>1, <1>2
<1> QED
    BY <1>1, <1>2, <1>3

----------------------------------------------------------------------------
(* A set of numbers, one after the other *)

(* Of no numbers there are none. *)
LEMMA AscendingEmpty == Ascending({}) = << >> /\ Cardinality({}) = 0
BY FS_EmptySet DEF Ascending

(* The size of a set that gets a new greatest number *)
LEMMA OneMore ==
    ASSUME NEW S \in SUBSET Nat, NEW x \in Nat, \A k \in S : k < x
    PROVE  /\ Cardinality(S) \in Nat
           /\ Cardinality(S \cup {x}) = Cardinality(S) + 1
           /\ \A k \in S : Cardinality({j \in S : j <= k}) <= Cardinality(S)
<1>1. IsFiniteSet(S)
    BY FS_BoundedSetOfNaturals
<1>2. x \notin S
    OBVIOUS
<1>3. ASSUME NEW k \in S
      PROVE  Cardinality({j \in S : j <= k}) <= Cardinality(S)
    BY <1>1, FS_Subset
<1> QED
    BY <1>1, <1>2, <1>3, FS_CardinalityType, FS_AddElement

(* A new greatest number comes last. *)
LEMMA AscendingNext ==
    ASSUME NEW S \in SUBSET Nat, NEW x \in Nat, \A k \in S : k < x
    PROVE  Ascending(S \cup {x}) =
             [i \in 1 .. Cardinality(S) + 1 |->
                IF i = Cardinality(S) + 1 THEN x ELSE Ascending(S)[i]]
<1> DEFINE c == Cardinality(S)
           T == S \cup {x}
<1>1. c \in Nat /\ Cardinality(T) = c + 1
    BY OneMore
<1>2. ASSUME NEW k \in S
      PROVE  {j \in T : j <= k} = {j \in S : j <= k}
    BY <1>2
<1>3. {j \in T : j <= x} = T
  <2>1. \A j \in T : j <= x
    OBVIOUS
  <2> QED
    BY <2>1
<1>4. ASSUME NEW i \in 1 .. c
      PROVE  Ranked(T, i) = Ranked(S, i)
  <2>1. \A k \in S : k \in Ranked(T, i) <=> k \in Ranked(S, i)
    BY <1>2 DEF Ranked
  <2>2. x \notin Ranked(T, i)
    BY <1>1, <1>3 DEF Ranked
  <2>3. x \notin S /\ Ranked(S, i) \subseteq S /\ Ranked(T, i) \subseteq T
    BY DEF Ranked
  <2> QED
    BY <2>1, <2>2, <2>3
<1>5. Ranked(T, c + 1) = {x}
  <2>1. \A k \in S : Cardinality({j \in T : j <= k}) # c + 1
    <3> TAKE k \in S
    <3>1. Cardinality({j \in T : j <= k}) <= c
        BY <1>2, OneMore
    <3>2. IsFiniteSet(S) /\ {j \in T : j <= k} \subseteq S
        BY <1>2, FS_BoundedSetOfNaturals
    <3>3. Cardinality({j \in T : j <= k}) \in Nat
        BY <3>2, FS_Subset, FS_CardinalityType
    <3> QED
        BY <1>1, <3>1, <3>3
  <2> QED
    BY <1>1, <1>3, <2>1 DEF Ranked
<1>6. (CHOOSE k \in Ranked(T, c + 1) : TRUE) = x
    BY <1>5
<1> HIDE DEF T, c
<1>7. \A i \in 1 .. c + 1 :
        (CHOOSE k \in Ranked(T, i) : TRUE) =
            IF i = c + 1 THEN x ELSE Ascending(S)[i]
    BY <1>1, <1>4, <1>6 DEF Ascending, c
<1>8. Ascending(T) = [i \in 1 .. c + 1 |-> CHOOSE k \in Ranked(T, i) : TRUE]
    BY <1>1, Zenon DEF Ascending
<1>9. Ascending(T) = [i \in 1 .. c + 1 |-> IF i = c + 1 THEN x ELSE Ascending(S)[i]]
    BY <1>7, <1>8, Zenon
<1> QED
    BY <1>9 DEF T, c

(* Nothing but the members of the set comes up. *)
LEMMA AscendingIn ==
    ASSUME NEW b \in Nat, NEW S \in SUBSET (0 .. b), NEW i \in 1 .. Cardinality(S)
    PROVE  Ascending(S)[i] \in S
<1> DEFINE Fine(U) == \A j \in 1 .. Cardinality(U) : Ascending(U)[j] \in U
           P == {m \in Nat : \A U \in SUBSET (0 .. m - 1) : Fine(U)}
<1>1. 0 \in P
  <2>1. \A U \in SUBSET (0 .. 0 - 1) : U = {}
    OBVIOUS
  <2>2. 1 .. Cardinality({}) = {}
    BY AscendingEmpty
  <2> QED
    BY <2>1, <2>2
<1>2. ASSUME NEW m \in Nat, m \in P
      PROVE  m + 1 \in P
  <2> SUFFICES ASSUME NEW U \in SUBSET (0 .. (m + 1) - 1) PROVE Fine(U)
    OBVIOUS
  <2>1. CASE m \notin U
    <3>1. U \in SUBSET (0 .. m - 1)
        BY <2>1
    <3> QED
        BY <1>2, <3>1
  <2>2. CASE m \in U
    <3> DEFINE V == U \ {m}
    <3>1. V \in SUBSET (0 .. m - 1) /\ V \in SUBSET Nat /\ U = V \cup {m} /\ \A k \in V : k < m
        BY <2>2
    <3>2. Fine(V)
        BY <1>2, <3>1
    <3> HIDE DEF V
    <3>3. /\ Cardinality(V) \in Nat /\ Cardinality(U) = Cardinality(V) + 1
          /\ Ascending(U) = [j \in 1 .. Cardinality(V) + 1 |->
                IF j = Cardinality(V) + 1 THEN m ELSE Ascending(V)[j]]
        BY <3>1, OneMore, AscendingNext
    <3> QED
        BY <3>1, <3>2, <3>3
  <2> QED
    BY <2>1, <2>2
<1> HIDE DEF P
<1>3. b + 1 \in P
    BY <1>1, <1>2, UpFromZero
<1> QED
    BY <1>3 DEF P

----------------------------------------------------------------------------
(* What the directives before the next one say *)

(* A file as the build finds it *)
IsFile(f) ==
    /\ Len(f) \in Nat /\ DOMAIN f = 1 .. Len(f)
    /\ \A d \in DOMAIN f : /\ f[d].kind \in Kind
                           /\ f[d].kind = "rule" => f[d].chains \in BOOLEAN

(* A chain is open behind a rule that goes on, and stays so as long as     *)
(* nothing counts.                                                         *)
LEMMA OpenNext ==
    ASSUME NEW f, IsFile(f), NEW m \in DOMAIN f
    PROVE  Open(f, m + 1) <=> IF m \in Counting(f) THEN GoesOn(f[m]) ELSE Open(f, m)
<1>1. m \in Nat /\ Counting(f) \subseteq Nat
    BY DEF IsFile, Counting
<1>2. CASE m \in Counting(f)
    BY <1>1, <1>2 DEF Open
<1>3. CASE m \notin Counting(f)
  <2>1. \A i \in Counting(f) : i < m + 1 <=> i < m
    BY <1>1, <1>3
  <2> QED
    BY <1>3, <2>1 DEF Open
<1> QED
    BY <1>2, <1>3

(* The next directive starts a rule or a marker, or it does not. *)
LEMMA StartsNext ==
    ASSUME NEW f, IsFile(f), NEW m \in DOMAIN f
    PROVE  /\ Starts(f, m) \in SUBSET (0 .. m) /\ \A k \in Starts(f, m) : k < m
           /\ \/ m \notin Counting(f) \/ f[m].kind \notin {"marker", "rule"} \/ IsLink(f, m)
              => Starts(f, m + 1) = Starts(f, m)
           /\ m \in Counting(f) /\ f[m].kind \in {"marker", "rule"} /\ ~IsLink(f, m)
              => Starts(f, m + 1) = Starts(f, m) \cup {m}
<1>1. m \in Nat /\ Counting(f) \subseteq Nat
    BY DEF IsFile, Counting
<1>2. \A k \in Nat : k < m + 1 <=> k < m \/ k = m
    BY <1>1
<1>3. Starts(f, m) \in SUBSET (0 .. m) /\ \A k \in Starts(f, m) : k < m
    BY <1>1 DEF Starts
<1>4. \A k : k \in Starts(f, m + 1) <=>
        \/ k \in Starts(f, m)
        \/ k = m /\ m \in Counting(f) /\ f[m].kind \in {"marker", "rule"} /\ ~IsLink(f, m)
    BY <1>1, <1>2 DEF Starts
<1> QED
    BY <1>3, <1>4

(* A chain goes on with the next directive if that and all between are     *)
(* links.                                                                  *)
LEMMA ChainedNext ==
    ASSUME NEW f, IsFile(f), NEW m \in DOMAIN f, NEW k \in Starts(f, m)
    PROVE  /\ Chained(f, k, m) \in SUBSET Nat /\ \A j \in Chained(f, k, m) : j < m
           /\ m \in Counting(f) /\ AllLinks(f, k, m)
              => Chained(f, k, m + 1) = Chained(f, k, m) \cup {m}
           /\ m \notin Counting(f) \/ ~AllLinks(f, k, m)
              => Chained(f, k, m + 1) = Chained(f, k, m)
<1>1. m \in Nat /\ Counting(f) \subseteq Nat /\ k \in Nat /\ k < m
  <2>1. m \in Nat /\ Counting(f) \subseteq Nat
    BY DEF IsFile, Counting
  <2> QED
    BY <2>1, StartsNext
<1>2. \A j \in Nat : j < m + 1 <=> j < m \/ j = m
    BY <1>1
<1>3. Chained(f, k, m) \in SUBSET Nat /\ \A j \in Chained(f, k, m) : j < m
    BY <1>1 DEF Chained
<1>4. \A j : j \in Chained(f, k, m + 1) <=>
        \/ j \in Chained(f, k, m)
        \/ j = m /\ m \in Counting(f) /\ AllLinks(f, k, m)
    BY <1>1, <1>2 DEF Chained
<1> QED
    BY <1>3, <1>4

(* A rule stays as it is unless the next directive goes on with its chain. *)
LEMMA SameRule ==
    ASSUME NEW f, IsFile(f), NEW m \in DOMAIN f, NEW k \in Starts(f, m),
           m \notin Counting(f) \/ ~AllLinks(f, k, m)
    PROVE  RuleAt(f, k, m + 1) = RuleAt(f, k, m)
BY ChainedNext DEF RuleAt

(* What was said is a sequence, of the rules started so far. *)
LEMMA SaidType ==
    ASSUME NEW f, IsFile(f), NEW m \in DOMAIN f
    PROVE  /\ Cardinality(Starts(f, m)) \in Nat
           /\ SaidBefore(f, m) = [i \in 1 .. Cardinality(Starts(f, m)) |->
                                    RuleAt(f, Ascending(Starts(f, m))[i], m)]
           /\ \A i \in 1 .. Cardinality(Starts(f, m)) : Ascending(Starts(f, m))[i] \in Starts(f, m)
<1>1. m \in Nat /\ Starts(f, m) \in SUBSET (0 .. m)
    BY StartsNext DEF IsFile
<1>2. IsFiniteSet(Starts(f, m))
    BY <1>1, FS_BoundedSetOfNaturals
<1>3. DOMAIN Ascending(Starts(f, m)) = 1 .. Cardinality(Starts(f, m))
    BY DEF Ascending
<1> QED
    BY <1>1, <1>2, <1>3, FS_CardinalityType, AscendingIn DEF SaidBefore

(* A directive that neither starts a rule nor goes on with one says        *)
(* nothing.                                                                *)
LEMMA SaidSame ==
    ASSUME NEW f, IsFile(f), NEW m \in DOMAIN f,
           m \notin Counting(f) \/ f[m].kind \notin {"marker", "rule"}
    PROVE  SaidBefore(f, m + 1) = SaidBefore(f, m)
<1>1. m \in Nat /\ Starts(f, m + 1) = Starts(f, m) /\ \A k \in Starts(f, m) : k \in Nat /\ k < m
    BY StartsNext DEF IsFile
<1>2. \A k \in Starts(f, m) : RuleAt(f, k, m + 1) = RuleAt(f, k, m)
  <2> TAKE k \in Starts(f, m)
  <2>1. m \notin Counting(f) \/ ~AllLinks(f, k, m)
    BY <1>1 DEF AllLinks, IsLink
  <2> QED
    BY <2>1, SameRule
<1>3. SaidBefore(f, m + 1) = [i \in 1 .. Cardinality(Starts(f, m)) |->
                                 RuleAt(f, Ascending(Starts(f, m))[i], m + 1)]
  <2>1. DOMAIN Ascending(Starts(f, m)) = 1 .. Cardinality(Starts(f, m))
    BY DEF Ascending
  <2> QED
    BY <1>1, <2>1 DEF SaidBefore
<1> QED
    BY <1>2, <1>3, SaidType

(* A directive that starts a rule or a marker adds it. *)
LEMMA SaidStarts ==
    ASSUME NEW f, IsFile(f), NEW m \in DOMAIN f,
           m \in Counting(f), f[m].kind \in {"marker", "rule"}, ~IsLink(f, m)
    PROVE  LET c == Cardinality(Starts(f, m))
           IN  SaidBefore(f, m + 1) = [i \in 1 .. c + 1 |->
                  IF i = c + 1 THEN RuleAt(f, m, m + 1) ELSE SaidBefore(f, m)[i]]
<1> DEFINE S == Starts(f, m)
           c == Cardinality(S)
<1>1. m \in Nat /\ Starts(f, m + 1) = S \cup {m} /\ S \in SUBSET Nat /\ \A k \in S : k < m
    BY StartsNext DEF IsFile
<1>2. c \in Nat /\ Ascending(Starts(f, m + 1)) =
        [i \in 1 .. c + 1 |-> IF i = c + 1 THEN m ELSE Ascending(S)[i]]
    BY <1>1, AscendingNext, OneMore
<1>3. /\ SaidBefore(f, m) = [i \in 1 .. c |-> RuleAt(f, Ascending(S)[i], m)]
      /\ \A i \in 1 .. c : Ascending(S)[i] \in S
    BY SaidType
<1>4. \A k \in S : RuleAt(f, k, m + 1) = RuleAt(f, k, m)
  <2> TAKE k \in S
  <2>1. ~AllLinks(f, k, m)
    BY <1>1 DEF AllLinks
  <2> QED
    BY <2>1, SameRule
<1> HIDE DEF c, S
<1>5. SaidBefore(f, m + 1) = [i \in 1 .. c + 1 |->
        RuleAt(f, IF i = c + 1 THEN m ELSE Ascending(S)[i], m + 1)]
    BY <1>2 DEF SaidBefore
<1>6. \A i \in 1 .. c + 1 : RuleAt(f, IF i = c + 1 THEN m ELSE Ascending(S)[i], m + 1) =
                              IF i = c + 1 THEN RuleAt(f, m, m + 1) ELSE SaidBefore(f, m)[i]
    BY <1>2, <1>3, <1>4
<1> QED
    BY <1>5, <1>6 DEF c, S

(* A link adds to the last rule and changes no other. *)
LEMMA SaidLonger ==
    ASSUME NEW f, IsFile(f), NEW m \in DOMAIN f,
           m \in Counting(f), IsLink(f, m), NEW s \in Starts(f, m), AllLinks(f, s, m - 1)
    PROVE  LET c == Cardinality(Starts(f, m))
           IN  /\ c \in Nat \ {0}
               /\ AllLinks(f, s, m)
               /\ SaidBefore(f, m)[c] = RuleAt(f, s, m)
               /\ SaidBefore(f, m + 1) = [i \in 1 .. c |->
                    IF i = c THEN RuleAt(f, s, m + 1) ELSE SaidBefore(f, m)[i]]
<1> DEFINE S == Starts(f, m)
           c == Cardinality(S)
           T == S \ {s}
<1>1. /\ m \in Nat /\ Starts(f, m + 1) = S /\ S \in SUBSET Nat /\ \A k \in S : k < m
      /\ Counting(f) \subseteq Nat
    BY StartsNext DEF IsFile, Counting
<1>2. \A k \in T : k < s
  <2> SUFFICES ASSUME NEW k \in T, s < k PROVE FALSE
    BY <1>1
  <2>1. k \in Counting(f) /\ ~IsLink(f, k) /\ k <= m - 1
    BY <1>1 DEF Starts
  <2> QED
    BY <2>1 DEF AllLinks
<1>3. AllLinks(f, s, m)
  <2>1. \A i \in Nat : i <= m <=> i <= m - 1 \/ i = m
    BY <1>1
  <2> QED
    BY <1>1, <2>1 DEF AllLinks
<1>4. T \in SUBSET Nat /\ S = T \cup {s} /\ s \in Nat
    BY <1>1
<1>5. /\ c \in Nat \ {0} /\ c = Cardinality(T) + 1 /\ Cardinality(T) \in Nat
      /\ Ascending(S) = [i \in 1 .. c |-> IF i = c THEN s ELSE Ascending(T)[i]]
  <2>1. /\ Cardinality(T) \in Nat /\ Cardinality(T \cup {s}) = Cardinality(T) + 1
        /\ Ascending(T \cup {s}) = [i \in 1 .. Cardinality(T) + 1 |->
                IF i = Cardinality(T) + 1 THEN s ELSE Ascending(T)[i]]
    <3> HIDE DEF T
    <3> QED
        BY <1>2, <1>4, AscendingNext, OneMore
  <2> HIDE DEF T, S
  <2>2. c = Cardinality(T) + 1
    BY <1>4, <2>1
  <2>3. Ascending(S) = [i \in 1 .. Cardinality(T) + 1 |->
                IF i = Cardinality(T) + 1 THEN s ELSE Ascending(T)[i]]
    BY <1>4, <2>1
  <2> HIDE DEF c
  <2> QED
    BY <2>1, <2>2, <2>3
<1>6. /\ SaidBefore(f, m) = [i \in 1 .. c |-> RuleAt(f, Ascending(S)[i], m)]
      /\ SaidBefore(f, m + 1) = [i \in 1 .. c |-> RuleAt(f, Ascending(S)[i], m + 1)]
  <2>1. DOMAIN Ascending(S) = 1 .. c
    BY DEF Ascending
  <2> QED
    BY <1>1, <2>1 DEF SaidBefore
<1>7. \A i \in 1 .. c - 1 : Ascending(S)[i] \in T
  <2> TAKE i \in 1 .. c - 1
  <2>1. i \in 1 .. Cardinality(T) /\ i \in 1 .. c /\ i # c
    BY <1>5
  <2>2. T \in SUBSET (0 .. m)
    BY <1>1, <1>4
  <2>3. Ascending(T)[i] \in T
    BY <1>1, <2>1, <2>2, AscendingIn
  <2> QED
    BY <1>5, <2>1, <2>3
<1>8. \A k \in T : RuleAt(f, k, m + 1) = RuleAt(f, k, m)
  <2> TAKE k \in T
  <2>1. ~AllLinks(f, k, m)
    BY <1>1, <1>2, <1>4 DEF AllLinks, Starts
  <2> QED
    BY <2>1, SameRule
<1>9. Ascending(S)[c] = s
    BY <1>5
<1> HIDE DEF c, S, T
<1>10. \A i \in 1 .. c : RuleAt(f, Ascending(S)[i], m + 1) =
                              IF i = c THEN RuleAt(f, s, m + 1) ELSE SaidBefore(f, m)[i]
  <2> TAKE i \in 1 .. c
  <2>1. CASE i = c
    BY <1>9, <2>1
  <2>2. CASE i # c
    <3>1. i \in 1 .. c - 1
        BY <1>5, <2>2
    <3> QED
        BY <1>6, <1>7, <1>8, <2>2, <3>1
  <2> QED
    BY <2>1, <2>2
<1>11. SaidBefore(f, m)[c] = RuleAt(f, s, m)
    BY <1>5, <1>6, <1>9
<1> QED
    BY <1>3, <1>5, <1>6, <1>10, <1>11 DEF c, S

----------------------------------------------------------------------------
(* Sequences *)

(* A sequence is a function; one more element, and none more *)
LEMMA OneLonger ==
    ASSUME NEW c \in Nat, NEW s, s = [i \in 1 .. c |-> s[i]], NEW e
    PROVE  /\ Len(s) = c /\ s \o << >> = s
           /\ s \o <<e>> = [i \in 1 .. c + 1 |-> IF i = c + 1 THEN e ELSE s[i]]
           /\ Append(s, e) = [i \in 1 .. c + 1 |-> IF i = c + 1 THEN e ELSE s[i]]
<1> DEFINE T == {s[i] : i \in 1 .. c} \cup {e}
<1>1. s \in [1 .. c -> T]
    OBVIOUS
<1>2. e \in T
    OBVIOUS
<1> HIDE DEF T
<1>3. s \in Seq(T) /\ Len(s) = c
    BY <1>1
<1> QED
    BY <1>1, <1>2, <1>3

(* A stack of no rule or of one is the same from both ends. *)
LEMMA ReverseOfOne ==
    ASSUME NEW s, s = << >> \/ \E r : s = <<r>>
    PROVE  Reverse(s) = s
<1>1. CASE s = << >>
    BY <1>1 DEF Reverse
<1>2. CASE \E r : s = <<r>>
  <2>1. PICK r : s = <<r>>
    BY <1>2
  <2>2. Reverse(s) = [i \in 1 .. 1 |-> r]
    BY <2>1 DEF Reverse
  <2> QED
    BY <2>1, <2>2
<1> QED
    BY <1>1, <1>2

----------------------------------------------------------------------------
(* What the two loops know, of files whose lines are read as written *)

(* The rules any of the files says *)
AnyRule == {RuleAt(f, k, m) : f \in UNION {Range(fs) : fs \in Sources}, k \in Nat, m \in Nat}

(* A rule as parse_secrule returns it, not yet chained *)
OneLink(r) == "links" \in DOMAIN r /\ r = [r EXCEPT !.links = <<r.links[1]>>]

(* Where m directives less one are behind: what is kept and what is on the *)
(* stack is what they say.  The stack holds the rule whose chain is open,  *)
(* which is the last one that started, with the links so far.              *)
Kept(f, m, rs, stack) ==
    /\ \A k \in 1 .. m - 1 : f[k].kind = "rule" => OneLink(RuleSaid(f[k]))
    /\ rs \in Seq(AnyRule)
    /\ IF Open(f, m)
       THEN \E s \in Starts(f, m) :
                f[s].kind = "rule" /\ AllLinks(f, s, m - 1) /\ stack = <<RuleAt(f, s, m)>>
       ELSE stack = << >>
    /\ rs \o stack = SaidBefore(f, m)

(* The invariant of the two loops: what the files before this one say is   *)
(* embedded, and of this one what its lines so far say is kept.            *)
ParserIInv ==
    /\ files \in Sources
    /\ file \in 1 .. Len(files) + 1
    /\ IF lines = Absent THEN rules = << >> /\ chain = << >>
       ELSE /\ file \in DOMAIN files /\ files[file] # Unreadable
            /\ n \in 1 .. Len(files[file]) + 1
            /\ Kept(files[file], n, rules, chain)
    /\ allRules \in Seq(AnyRule)
    /\ RulesAsWritten

----------------------------------------------------------------------------
(* Rules and their links *)

(* A rule that parses has its own condition for its only link. *)
LEMMA RuleShape ==
    ASSUME NEW l
    PROVE  OneLink(RuleOf(l)) /\ Link(l) = RuleOf(l).links[1]
<1> DEFINE tokens == Tokens(ActionsRaw(Body(l)))
           a == Actions(tokens)
<1>1. "links" \in DOMAIN a
  <2> HIDE DEF tokens
  <2> QED
    BY SMT DEF Actions
<1> HIDE DEF a
<1>2. PICK k : RuleOf(l) = [a EXCEPT !.links = <<k>>]
    BY DEF RuleOf, a, tokens
<1>3. "links" \in DOMAIN RuleOf(l) /\ RuleOf(l).links = <<k>> /\ <<k>>[1] = k
    BY <1>1, <1>2
<1>4. [RuleOf(l) EXCEPT !.links = <<k>>] = RuleOf(l)
    BY <1>1, <1>2, Zenon
<1> QED
    BY <1>3, <1>4 DEF OneLink, Link

(* A rule that has just started is what its directive says. *)
LEMMA RuleStarts ==
    ASSUME NEW f, IsFile(f), NEW m \in DOMAIN f, f[m].kind = "rule", OneLink(RuleSaid(f[m]))
    PROVE  RuleAt(f, m, m + 1) = RuleSaid(f[m])
<1>1. m \in Nat /\ Counting(f) \subseteq Nat
    BY DEF IsFile, Counting
<1>2. Chained(f, m, m + 1) = {m}
  <2>1. \A j \in Nat : ~(m < j /\ j < m + 1)
    BY <1>1
  <2> QED
    BY <1>1, <2>1 DEF Chained
<1>3. Ascending({m}) = [i \in 1 .. 1 |-> m]
  <2>1. /\ Cardinality({}) = 0
        /\ Ascending({} \cup {m}) = [i \in 1 .. Cardinality({}) + 1 |->
                IF i = Cardinality({}) + 1 THEN m ELSE Ascending({})[i]]
    BY <1>1, AscendingEmpty, AscendingNext
  <2>2. {} \cup {m} = {m}
    OBVIOUS
  <2> QED
    BY <2>1, <2>2
<1>4. LinksOf(f, Ascending({m})) = <<RuleSaid(f[m]).links[1]>>
  <2> DEFINE x == RuleSaid(f[m]).links[1]
  <2>1. LinksOf(f, Ascending({m})) = [i \in 1 .. 1 |-> x]
    BY <1>3 DEF LinksOf
  <2> HIDE DEF x
  <2> QED
    BY <2>1 DEF x
<1> QED
    BY <1>2, <1>4 DEF RuleAt, OneLink

(* A link is added behind those the rule has. *)
LEMMA RuleGoesOn ==
    ASSUME NEW f, IsFile(f), NEW m \in DOMAIN f, NEW s \in Starts(f, m),
           f[s].kind = "rule", OneLink(RuleSaid(f[s])), m \in Counting(f), AllLinks(f, s, m)
    PROVE  RuleAt(f, s, m + 1) = [RuleAt(f, s, m) EXCEPT !.links = Append(@, RuleSaid(f[m]).links[1])]
<1> DEFINE C == Chained(f, s, m)
           c == Cardinality(C)
           links == LinksOf(f, Ascending(C))
           all == LinksOf(f, Ascending(C \cup {m}))
           x == RuleSaid(f[m]).links[1]
<1>1. m \in Nat /\ C \in SUBSET Nat /\ (\A j \in C : j < m) /\ Chained(f, s, m + 1) = C \cup {m}
  <2>1. m \in Nat
    BY DEF IsFile
  <2> QED
    BY <2>1, ChainedNext
<1>2. c \in Nat /\ Ascending(C \cup {m}) =
                     [i \in 1 .. c + 1 |-> IF i = c + 1 THEN m ELSE Ascending(C)[i]]
    BY <1>1, AscendingNext, OneMore
<1>3. DOMAIN Ascending(C) = 1 .. c
    BY DEF Ascending
<1> HIDE DEF C, c
<1>4. links = [i \in 1 .. c |-> RuleSaid(f[Ascending(C)[i]]).links[1]]
    BY <1>3 DEF LinksOf
<1>5. all = [i \in 1 .. c + 1 |-> RuleSaid(f[IF i = c + 1 THEN m ELSE Ascending(C)[i]]).links[1]]
    BY <1>2 DEF LinksOf
<1> HIDE DEF links, all
<1>6. Append(links, x) = [i \in 1 .. c + 1 |-> IF i = c + 1 THEN x ELSE links[i]]
  <2>1. links = [i \in 1 .. c |-> links[i]]
    BY <1>4
  <2> HIDE DEF x
  <2> QED
    BY <1>2, <2>1, OneLonger
<1>7. all = Append(links, x)
  <2>1. \A i \in 1 .. c + 1 :
            RuleSaid(f[IF i = c + 1 THEN m ELSE Ascending(C)[i]]).links[1] =
                IF i = c + 1 THEN x ELSE links[i]
    BY <1>2, <1>4
  <2> HIDE DEF x
  <2> QED
    BY <1>5, <1>6, <2>1
<1>8. /\ RuleAt(f, s, m) = [RuleSaid(f[s]) EXCEPT !.links = links]
      /\ RuleAt(f, s, m + 1) = [RuleSaid(f[s]) EXCEPT !.links = all]
    BY <1>1 DEF RuleAt, links, all, C
<1>9. "links" \in DOMAIN RuleSaid(f[s])
    BY DEF OneLink
<1> HIDE DEF x
<1> QED
    BY <1>7, <1>8, <1>9 DEF x

----------------------------------------------------------------------------
(* What the files say, one after the other: it exists for any number of    *)
(* files.                                                                  *)
LEMMA SaidUpToExists ==
    ASSUME NEW fs, IsSequence(fs)
    PROVE  \E said : said = [k \in 0 .. Len(fs) |->
                IF k = 0 THEN << >> ELSE said[k - 1] \o SaidBy(fs[k])]
<1> DEFINE More(said, k) == said \o SaidBy(fs[k])
           UpTo(m, said) ==
            /\ said = [k \in 0 .. m |-> said[k]] /\ said[0] = << >>
            /\ \A k \in 1 .. m : said[k] = More(said[k - 1], k)
           S == {m \in Nat : \E said : UpTo(m, said)}
<1> HIDE DEF More
<1>1. 0 \in S
  <2>1. UpTo(0, [k \in 0 .. 0 |-> << >>])
    OBVIOUS
  <2> QED
    BY <2>1
<1>2. ASSUME NEW m \in Nat, m \in S
      PROVE  m + 1 \in S
  <2>1. PICK said : UpTo(m, said)
    BY <1>2
  <2> DEFINE more == [k \in 0 .. m + 1 |-> IF k = m + 1 THEN More(said[m], m + 1) ELSE said[k]]
  <2>2. more = [k \in 0 .. m + 1 |-> more[k]] /\ more[0] = << >>
    BY <2>1
  <2>3. \A k \in 1 .. m + 1 : more[k] = More(more[k - 1], k)
    <3> TAKE k \in 1 .. m + 1
    <3>1. k - 1 \in 0 .. m /\ k - 1 # m + 1 /\ more[k - 1] = said[k - 1]
        OBVIOUS
    <3>2. CASE k = m + 1
        BY <3>1, <3>2
    <3>3. CASE k # m + 1
      <4>1. k \in 1 .. m /\ more[k] = said[k]
        BY <3>3
      <4>2. said[k] = More(said[k - 1], k)
        BY <2>1, <4>1
      <4> QED
        BY <3>1, <4>1, <4>2
    <3> QED
        BY <3>2, <3>3
  <2>4. UpTo(m + 1, more)
    BY <2>2, <2>3
  <2> HIDE DEF UpTo, more
  <2> QED
    BY <2>4
<1> HIDE DEF S
<1>3. Len(fs) \in S
    BY <1>1, <1>2, UpFromZero DEF IsSequence
<1>4. PICK said : UpTo(Len(fs), said)
    BY <1>3 DEF S
<1>5. said = [k \in 0 .. Len(fs) |-> IF k = 0 THEN << >> ELSE More(said[k - 1], k)]
    BY <1>4 DEF IsSequence
<1> QED
    BY <1>5 DEF More

(* What the files say is what each of them says, in order. *)
LEMMA SaidUpToIs ==
    ASSUME NEW fs, IsSequence(fs)
    PROVE  /\ SaidUpTo(fs)[0] = << >>
           /\ \A k \in DOMAIN fs : SaidUpTo(fs)[k] = SaidUpTo(fs)[k - 1] \o SaidBy(fs[k])
<1> DEFINE said == SaidUpTo(fs)
           More(s, k) == s \o SaidBy(fs[k])
<1>1. said = [k \in 0 .. Len(fs) |-> IF k = 0 THEN << >> ELSE said[k - 1] \o SaidBy(fs[k])]
    BY SaidUpToExists DEF SaidUpTo
<1>2. said = [k \in 0 .. Len(fs) |-> IF k = 0 THEN << >> ELSE More(said[k - 1], k)]
    BY <1>1
<1> HIDE DEF said, More
<1>3. said[0] = << >> /\ \A k \in DOMAIN fs : said[k] = More(said[k - 1], k)
    BY <1>2 DEF IsSequence
<1> QED
    BY <1>3 DEF said, More

----------------------------------------------------------------------------
(* One directive more *)

(* A file of those the build may find *)
IsSource(f) == IsFile(f) /\ f \in UNION {Range(fs) : fs \in Sources}

(* What stands at a directive is a rule of some file. *)
LEMMA AnyRuleAt ==
    ASSUME NEW f, IsSource(f), NEW k \in Nat, NEW m \in Nat
    PROVE  RuleAt(f, k, m) \in AnyRule
BY DEF AnyRule, IsSource

(* What is kept, and what is on the stack, are rules; one more is said, or *)
(* as many as before.                                                      *)
LEMMA KeptType ==
    ASSUME NEW f, IsSource(f), NEW m \in DOMAIN f, NEW rs, NEW stack, Kept(f, m, rs, stack)
    PROVE  LET c == Cardinality(Starts(f, m))
           IN  /\ m \in Nat /\ m + 1 \in Nat /\ m - 1 \in Nat
               /\ c \in Nat
               /\ stack = << >> \/ \E r \in AnyRule : stack = <<r>>
               /\ Open(f, m) <=> stack # << >>
               /\ rs \o stack \in Seq(AnyRule)
               /\ rs \o stack = SaidBefore(f, m)
               /\ SaidBefore(f, m) = [i \in 1 .. c |-> SaidBefore(f, m)[i]]
               /\ Len(SaidBefore(f, m)) = c
<1>0. IsFile(f)
    BY DEF IsSource
<1>1. m \in Nat /\ m + 1 \in Nat /\ m - 1 \in Nat
    BY <1>0 DEF IsFile
<1>2. stack = << >> \/ \E r \in AnyRule : stack = <<r>>
  <2>1. ASSUME NEW s \in Starts(f, m)
        PROVE  RuleAt(f, s, m) \in AnyRule
    BY <1>0, <1>1, AnyRuleAt, StartsNext
  <2> QED
    BY <2>1 DEF Kept
<1>3. Open(f, m) <=> stack # << >>
  <2>1. \A r : <<r>> # << >>
    OBVIOUS
  <2> QED
    BY <2>1 DEF Kept
<1>4. rs \o stack \in Seq(AnyRule) /\ rs \o stack = SaidBefore(f, m)
  <2>1. rs \in Seq(AnyRule) /\ rs \o stack = SaidBefore(f, m)
    BY DEF Kept
  <2>2. stack \in Seq(AnyRule)
    <3>1. CASE stack = << >>
        BY <3>1
    <3>2. CASE \E r \in AnyRule : stack = <<r>>
        BY <3>2
    <3> QED
        BY <1>2, <3>1, <3>2
  <2>3. rs \o stack \in Seq(AnyRule)
    BY <2>1, <2>2
  <2> QED
    BY <2>1, <2>3
<1> DEFINE c == Cardinality(Starts(f, m))
           said == SaidBefore(f, m)
<1>5. c \in Nat /\ said = [i \in 1 .. c |-> RuleAt(f, Ascending(Starts(f, m))[i], m)]
    BY <1>0, SaidType
<1> HIDE DEF c, said
<1>6. said = [i \in 1 .. c |-> said[i]]
    BY <1>5
<1>7. Len(said) = c
    BY <1>5, <1>6, OneLonger
<1> QED
    BY <1>1, <1>2, <1>3, <1>4, <1>5, <1>6, <1>7 DEF c, said

(* The rules behind the next directive have one link, too. *)
LEMMA OneLinkMore ==
    ASSUME NEW f, NEW m \in Nat, \A k \in 1 .. m - 1 : f[k].kind = "rule" => OneLink(RuleSaid(f[k])),
           f[m].kind = "rule" => OneLink(RuleSaid(f[m]))
    PROVE  \A k \in 1 .. (m + 1) - 1 : f[k].kind = "rule" => OneLink(RuleSaid(f[k]))
<1>1. \A k \in 1 .. (m + 1) - 1 : k \in 1 .. m - 1 \/ k = m
    OBVIOUS
<1> QED
    BY <1>1

(* A line that says nothing changes nothing. *)
LEMMA KeptNothing ==
    ASSUME NEW f, IsSource(f), NEW m \in DOMAIN f, NEW rs, NEW stack, Kept(f, m, rs, stack),
           f[m].kind \in {"nothing", "broken"}
    PROVE  Kept(f, m + 1, rs, stack)
<1>1. IsFile(f) /\ m \notin Counting(f) /\ m \in Nat /\ f[m].kind # "rule"
    BY DEF IsSource, IsFile, Counting
<1>2. (Open(f, m + 1) <=> Open(f, m)) /\ Starts(f, m + 1) = Starts(f, m)
    BY <1>1, OpenNext, StartsNext
<1>3. SaidBefore(f, m + 1) = SaidBefore(f, m)
    BY <1>1, SaidSame
<1>4. ASSUME NEW s \in Starts(f, m), AllLinks(f, s, m - 1)
      PROVE  AllLinks(f, s, (m + 1) - 1) /\ RuleAt(f, s, m + 1) = RuleAt(f, s, m)
  <2>1. \A i \in Counting(f) : i <= (m + 1) - 1 => i <= m - 1
    BY <1>1 DEF Counting, IsFile
  <2> QED
    BY <1>1, <1>4, <2>1, SameRule DEF AllLinks
<1>5. \A k \in 1 .. (m + 1) - 1 : f[k].kind = "rule" => OneLink(RuleSaid(f[k]))
    BY <1>1, OneLinkMore DEF Kept
<1> QED
    BY <1>2, <1>3, <1>4, <1>5 DEF Kept

(* A directive of another kind ends what is open. *)
LEMMA KeptElse ==
    ASSUME NEW f, IsSource(f), NEW m \in DOMAIN f, NEW rs, NEW stack, Kept(f, m, rs, stack),
           f[m].kind = "else"
    PROVE  Kept(f, m + 1, rs \o stack, << >>)
<1>1. IsFile(f) /\ m \in Counting(f) /\ m \in Nat /\ f[m].kind \notin {"marker", "rule"}
    BY DEF IsSource, IsFile, Counting
<1>2. ~Open(f, m + 1)
    BY <1>1, OpenNext DEF GoesOn
<1>3. SaidBefore(f, m + 1) = SaidBefore(f, m)
    BY <1>1, SaidSame
<1>4. \A k \in 1 .. (m + 1) - 1 : f[k].kind = "rule" => OneLink(RuleSaid(f[k]))
    BY <1>1, OneLinkMore DEF Kept
<1>5. rs \o stack \in Seq(AnyRule) /\ rs \o stack = SaidBefore(f, m)
    BY KeptType
<1>6. (rs \o stack) \o << >> = rs \o stack
    BY <1>5
<1> QED
    BY <1>2, <1>3, <1>4, <1>5, <1>6 DEF Kept

(* What is said with a rule or marker more *)
LEMMA OneMoreSaid ==
    ASSUME NEW f, IsSource(f), NEW m \in DOMAIN f, NEW rs, NEW stack, Kept(f, m, rs, stack),
           f[m].kind \in {"marker", "rule"}, ~IsLink(f, m)
    PROVE  /\ SaidBefore(f, m + 1) = Append(rs \o stack, RuleAt(f, m, m + 1))
           /\ RuleAt(f, m, m + 1) \in AnyRule
           /\ m \in Starts(f, m + 1)
           /\ m \in Counting(f)
<1> DEFINE c == Cardinality(Starts(f, m))
           said == SaidBefore(f, m)
           more == SaidBefore(f, m + 1)
           r == RuleAt(f, m, m + 1)
<1>1. IsFile(f) /\ m \in Counting(f)
    BY DEF IsSource, IsFile, Counting
<1>2. more = [i \in 1 .. c + 1 |-> IF i = c + 1 THEN r ELSE said[i]]
    BY <1>1, SaidStarts
<1>3. c \in Nat /\ said = [i \in 1 .. c |-> said[i]] /\ rs \o stack = said
    BY KeptType
<1>4. m \in Starts(f, m + 1)
    BY <1>1, StartsNext
<1>5. m \in Nat /\ m + 1 \in Nat
    BY <1>1 DEF IsFile
<1>6. r \in AnyRule
    BY <1>5, AnyRuleAt
<1> HIDE DEF c, said, more, r
<1>7. Append(said, r) = [i \in 1 .. c + 1 |-> IF i = c + 1 THEN r ELSE said[i]]
    BY <1>3, OneLonger
<1>8. more = Append(rs \o stack, r)
    BY <1>2, <1>3, <1>7
<1> QED
    BY <1>1, <1>4, <1>6, <1>8 DEF more, r

(* A marker ends what is open, and comes behind it. *)
LEMMA KeptMarker ==
    ASSUME NEW f, IsSource(f), NEW m \in DOMAIN f, NEW rs, NEW stack, Kept(f, m, rs, stack),
           f[m].kind = "marker"
    PROVE  Kept(f, m + 1, Append(rs \o stack, Marker(f[m].name)), << >>)
<1>1. IsFile(f) /\ m \in Nat /\ f[m].kind # "rule" /\ ~IsLink(f, m)
    BY DEF IsSource, IsFile, IsLink
<1>2. /\ SaidBefore(f, m + 1) = Append(rs \o stack, Marker(f[m].name))
      /\ Marker(f[m].name) \in AnyRule /\ m \in Counting(f)
  <2>1. RuleAt(f, m, m + 1) = Marker(f[m].name)
    BY DEF RuleAt
  <2> QED
    BY <1>1, <2>1, OneMoreSaid
<1>3. ~Open(f, m + 1)
    BY <1>1, <1>2, OpenNext DEF GoesOn
<1>4. \A k \in 1 .. (m + 1) - 1 : f[k].kind = "rule" => OneLink(RuleSaid(f[k]))
    BY <1>1, OneLinkMore DEF Kept
<1> DEFINE more == Append(rs \o stack, Marker(f[m].name))
<1>5. more \in Seq(AnyRule) /\ more \o << >> = more
  <2>1. rs \o stack \in Seq(AnyRule)
    BY KeptType
  <2>2. more \in Seq(AnyRule)
    BY <1>2, <2>1
  <2> HIDE DEF more
  <2> QED
    BY <2>2
<1> HIDE DEF more
<1>6. SaidBefore(f, m + 1) = more
    BY <1>2 DEF more
<1>7. Kept(f, m + 1, more, << >>)
    BY <1>3, <1>4, <1>5, <1>6 DEF Kept
<1> QED
    BY <1>7 DEF more

(* A rule that is no link starts, by itself or with a chain. *)
LEMMA KeptRule ==
    ASSUME NEW f, IsSource(f), NEW m \in DOMAIN f, NEW rs, Kept(f, m, rs, << >>),
           f[m].kind = "rule", OneLink(RuleSaid(f[m]))
    PROVE  /\ ~f[m].chains => Kept(f, m + 1, Append(rs, RuleSaid(f[m])), << >>)
           /\ f[m].chains => Kept(f, m + 1, rs, <<RuleSaid(f[m])>>)
<1> DEFINE r == RuleSaid(f[m])
<1>1. IsFile(f) /\ m \in Nat
    BY DEF IsSource, IsFile
<1>2. ~Open(f, m) /\ ~IsLink(f, m)
    BY KeptType DEF IsLink
<1>3. rs \in Seq(AnyRule) /\ rs \o << >> = rs
  <2>1. rs \in Seq(AnyRule)
    BY DEF Kept
  <2> QED
    BY <2>1
<1>4. RuleAt(f, m, m + 1) = r
    BY <1>1, RuleStarts
<1>5. /\ SaidBefore(f, m + 1) = Append(rs, r) /\ r \in AnyRule
      /\ m \in Starts(f, m + 1) /\ m \in Counting(f)
    BY <1>2, <1>3, <1>4, OneMoreSaid
<1>6. Open(f, m + 1) <=> f[m].chains
    BY <1>1, <1>5, OpenNext DEF GoesOn
<1>7. \A k \in 1 .. (m + 1) - 1 : f[k].kind = "rule" => OneLink(RuleSaid(f[k]))
    BY <1>1, OneLinkMore DEF Kept
<1>8. AllLinks(f, m, (m + 1) - 1)
  <2>1. \A i \in Counting(f) : ~(m < i /\ i <= (m + 1) - 1)
    BY <1>1 DEF Counting, IsFile
  <2> QED
    BY <2>1 DEF AllLinks
<1> HIDE DEF r
<1>9. /\ Append(rs, r) \in Seq(AnyRule) /\ Append(rs, r) \o << >> = Append(rs, r)
      /\ rs \o <<r>> = Append(rs, r)
    BY <1>3, <1>5
<1>10. ~f[m].chains => Kept(f, m + 1, Append(rs, r), << >>)
    BY <1>5, <1>6, <1>7, <1>9 DEF Kept
<1>11. f[m].chains => Kept(f, m + 1, rs, <<r>>)
    BY <1>3, <1>4, <1>5, <1>6, <1>7, <1>8, <1>9 DEF Kept
<1> QED
    BY <1>10, <1>11 DEF r

(* A link is added to the rule on the stack, which is kept when its chain  *)
(* ends.                                                                   *)
LEMMA KeptLink ==
    ASSUME NEW f, IsSource(f), NEW m \in DOMAIN f, NEW rs, NEW stack, Kept(f, m, rs, stack),
           stack # << >>, f[m].kind = "rule", OneLink(RuleSaid(f[m]))
    PROVE  LET more == [stack EXCEPT ![Len(stack)].links = Append(@, RuleSaid(f[m]).links[1])]
           IN  /\ \E r \in AnyRule : more = <<r>>
               /\ ~f[m].chains => Kept(f, m + 1, rs \o more, << >>)
               /\ f[m].chains => Kept(f, m + 1, rs, more)
<1> DEFINE c == Cardinality(Starts(f, m))
           x == RuleSaid(f[m]).links[1]
<1>1. IsFile(f) /\ m \in Nat /\ m + 1 \in Nat /\ m \in Counting(f)
    BY DEF IsSource, IsFile, Counting
<1>2. Open(f, m) /\ IsLink(f, m)
    BY KeptType DEF IsLink
<1>3. PICK s \in Starts(f, m) :
        f[s].kind = "rule" /\ AllLinks(f, s, m - 1) /\ stack = <<RuleAt(f, s, m)>>
    BY <1>2 DEF Kept
<1>4. s \in 1 .. m - 1 /\ OneLink(RuleSaid(f[s]))
  <2>1. s \in Nat /\ s < m /\ s \in DOMAIN f
    BY <1>1, <1>3, StartsNext DEF Starts, Counting
  <2>2. s \in 1 .. m - 1
    BY <1>1, <2>1 DEF IsFile
  <2> QED
    BY <1>3, <2>2 DEF Kept
<1> DEFINE r == RuleAt(f, s, m)
           e == RuleAt(f, s, m + 1)
           said == SaidBefore(f, m)
<1>5. /\ c \in Nat \ {0} /\ AllLinks(f, s, m)
      /\ SaidBefore(f, m + 1) = [i \in 1 .. c |-> IF i = c THEN e ELSE said[i]]
    BY <1>1, <1>2, <1>3, SaidLonger
<1>6. e = [r EXCEPT !.links = Append(@, x)]
    BY <1>1, <1>3, <1>4, <1>5, RuleGoesOn
<1>7. r \in AnyRule /\ e \in AnyRule
    BY <1>1, <1>4, AnyRuleAt
<1>8. /\ rs \in Seq(AnyRule) /\ rs \o <<r>> = said /\ Len(said) = c
  <2>1. rs \in Seq(AnyRule) /\ rs \o stack = said
    BY DEF Kept
  <2>2. Len(said) = c
    BY KeptType
  <2>3. stack = <<r>>
    BY <1>3
  <2> HIDE DEF c, r, said
  <2> QED
    BY <2>1, <2>2, <2>3
<1>9. s \in Starts(f, m + 1)
    BY <1>1, <1>2, StartsNext
<1>10. AllLinks(f, s, (m + 1) - 1)
  <2>1. (m + 1) - 1 = m
    BY <1>1
  <2> QED
    BY <1>5, <2>1
<1>11. Open(f, m + 1) <=> f[m].chains
    BY <1>1, OpenNext DEF GoesOn
<1>12. \A k \in 1 .. (m + 1) - 1 : f[k].kind = "rule" => OneLink(RuleSaid(f[k]))
    BY <1>1, OneLinkMore DEF Kept
<1>13. SaidBefore(f, m + 1) = rs \o <<e>>
  <2> HIDE DEF c, r, e, said
  <2>0. /\ Len(rs \o <<r>>) = c /\ c \in Nat
        /\ rs \in Seq(AnyRule) /\ r \in AnyRule /\ e \in AnyRule
    BY <1>5, <1>7, <1>8
  <2>1. rs \o <<e>> = [i \in 1 .. c |-> IF i = c THEN e ELSE (rs \o <<r>>)[i]]
    BY <2>0, SMT
  <2> QED
    BY <1>5, <1>8, <2>1
<1>14. [stack EXCEPT ![Len(stack)].links = Append(@, x)] = <<e>>
  <2> HIDE DEF r, e, x
  <2>1. stack = <<r>> /\ Len(stack) = 1
    BY <1>3 DEF r
  <2>2. [<<r>> EXCEPT ![1].links = Append(@, x)] = <<[r EXCEPT !.links = Append(@, x)]>>
    OBVIOUS
  <2> QED
    BY <1>6, <2>1, <2>2
<1>15. rs \o <<e>> \in Seq(AnyRule) /\ (rs \o <<e>>) \o << >> = rs \o <<e>>
  <2> HIDE DEF e
  <2> QED
    BY <1>7, <1>8
<1>16. ~f[m].chains => Kept(f, m + 1, rs \o <<e>>, << >>)
    BY <1>11, <1>12, <1>13, <1>15 DEF Kept
<1>17. f[m].chains => Kept(f, m + 1, rs, <<e>>)
    BY <1>3, <1>8, <1>9, <1>10, <1>11, <1>12, <1>13 DEF Kept
<1> HIDE DEF e, x
<1> QED
    BY <1>7, <1>14, <1>16, <1>17 DEF x

(* Before the first directive nothing is said, behind the last one all of  *)
(* it.                                                                     *)
LEMMA KeptNone ==
    ASSUME NEW f, IsSource(f)
    PROVE  Kept(f, 1, << >>, << >>)
<1>1. \A k \in Counting(f) : ~(k < 1)
    BY DEF IsSource, IsFile, Counting
<1>2. ~Open(f, 1) /\ Starts(f, 1) = {}
    BY <1>1 DEF Open, Starts
<1>3. DOMAIN Ascending({}) = {} /\ << >> = [i \in {} |-> RuleAt(f, Ascending({})[i], 1)]
    BY AscendingEmpty
<1>4. SaidBefore(f, 1) = << >>
    BY <1>2, <1>3 DEF SaidBefore
<1>5. 1 .. 1 - 1 = {}
    OBVIOUS
<1> QED
    BY <1>2, <1>4, <1>5 DEF Kept

----------------------------------------------------------------------------
(* The two loops *)

(* Every readable file the build finds is one the proofs above are about. *)
LEMMA SourceFile ==
    ASSUME ParserIInv
    PROVE  /\ IsSequence(files)
           /\ \A k \in DOMAIN files : files[k] # Unreadable => IsSource(files[k])
<1>1. files \in Sources
    BY DEF ParserIInv
<1>2. IsSequence(files)
    BY <1>1, ParserAssumption
<1>3. ASSUME NEW k \in DOMAIN files, files[k] # Unreadable
      PROVE  IsSource(files[k])
  <2>1. IsFile(files[k])
    BY <1>1, <1>3, ParserAssumption DEF IsFile, IsSequence
  <2>2. files[k] \in Range(files)
    BY DEF Range
  <2> QED
    BY <1>1, <2>1, <2>2 DEF IsSource
<1> QED
    BY <1>2, <1>3

(* A line that is looked at, and the directive it reads as *)
LEMMA LineKnown ==
    ASSUME ParserIInv, LinesAreRead, lines # Absent, n \in DOMAIN lines
    PROVE  LET f == files[file]
           IN  /\ IsSource(f)
               /\ n \in DOMAIN f
               /\ Kept(f, n, rules, chain)
               /\ ReadsAs(line, f[n])
               /\ f[n].kind = "rule" => OneLink(RuleSaid(f[n])) /\ RuleSaid(f[n]).links[1] = Link(line)
               /\ Reverse(chain) = chain
               /\ Flushed = rules \o chain
<1> DEFINE f == files[file]
<1>1. file \in DOMAIN files /\ f # Unreadable /\ Kept(f, n, rules, chain)
    BY DEF ParserIInv
<1>2. IsSource(f)
    BY <1>1, SourceFile
<1>3. n \in DOMAIN f /\ ReadsAs(line, f[n])
    BY DEF LinesAreRead
<1>4. f[n].kind = "rule" => OneLink(RuleSaid(f[n])) /\ RuleSaid(f[n]).links[1] = Link(line)
    BY <1>3, RuleShape DEF ReadsAs
<1> HIDE DEF f
<1>5. chain = << >> \/ \E r \in AnyRule : chain = <<r>>
    BY <1>1, <1>2, <1>3, KeptType
<1>6. Reverse(chain) = chain
    BY <1>5, ReverseOfOne
<1> QED
    BY <1>1, <1>2, <1>3, <1>4, <1>6 DEF Flushed, f

(* The invariant holds behind a line if what is kept then is what the      *)
(* directives say.                                                         *)
LEMMA LineBehind ==
    ASSUME ParserIInv, Looking, n \in DOMAIN files[file],
           Kept(files[file], n + 1, rules', chain')
    PROVE  ParserIInv'
<1>1. /\ lines # Absent /\ lines' # Absent /\ n' = n + 1
      /\ files' = files /\ file' = file /\ allRules' = allRules
    BY DEF Looking
<1>2. /\ file \in DOMAIN files /\ files[file] # Unreadable
    BY <1>1 DEF ParserIInv
<1>3. n + 1 \in 1 .. Len(files[file]) + 1
    BY <1>2, SourceFile DEF IsSource, IsFile
<1> QED
    BY <1>1, <1>2, <1>3 DEF ParserIInv, RulesAsWritten

(* Each kind of line, and what parse_str does with it *)
LEMMA LineStep ==
    ASSUME ParserIInv, LinesAreRead,
           Ignored \/ AtMarker \/ RuleAlone \/ OpensChain \/ Links \/ ClosesChain \/ OtherDirective
    PROVE  ParserIInv'
<1> DEFINE f == files[file]
<1>1. Looking
    BY DEF Ignored, AtMarker, RuleAlone, OpensChain, Links, ClosesChain, OtherDirective, AtRule
<1>2. /\ IsSource(f) /\ n \in DOMAIN f /\ Kept(f, n, rules, chain) /\ ReadsAs(line, f[n])
      /\ f[n].kind = "rule" => OneLink(RuleSaid(f[n])) /\ RuleSaid(f[n]).links[1] = Link(line)
      /\ Reverse(chain) = chain /\ Flushed = rules \o chain
    BY <1>1, LineKnown DEF Looking
<1>3. f[n].kind \in Kind
    BY <1>2 DEF IsSource, IsFile
<1>4. SUFFICES Kept(f, n + 1, rules', chain')
    BY <1>1, <1>2, LineBehind
<1> HIDE DEF f
<1>5. ASSUME Ignored PROVE Kept(f, n + 1, rules', chain')
  <2>1. f[n].kind \in {"nothing", "broken"} /\ rules' = rules /\ chain' = chain
    BY <1>2, <1>5 DEF Ignored, ReadsAs
  <2> QED
    BY <1>2, <2>1, KeptNothing
<1>6. ASSUME AtMarker PROVE Kept(f, n + 1, rules', chain')
  <2>1. /\ f[n].kind = "marker" /\ chain' = << >>
        /\ rules' = Append(rules \o chain, Marker(f[n].name))
    BY <1>2, <1>6 DEF AtMarker, ReadsAs
  <2> QED
    BY <1>2, <2>1, KeptMarker
<1>7. ASSUME AtRule
      PROVE  /\ f[n].kind = "rule" /\ RuleOf(line) = RuleSaid(f[n]) /\ IsChain(line) = f[n].chains
             /\ OneLink(RuleSaid(f[n])) /\ Link(line) = RuleSaid(f[n]).links[1]
    BY <1>2, <1>7 DEF AtRule, ReadsAs
<1>8. ASSUME RuleAlone PROVE Kept(f, n + 1, rules', chain')
  <2>1. AtRule /\ chain = << >> /\ ~IsChain(line) /\ rules' = Append(rules, RuleOf(line)) /\ chain' = chain
    BY <1>8 DEF RuleAlone
  <2> QED
    BY <1>2, <1>7, <2>1, KeptRule
<1>9. ASSUME OpensChain PROVE Kept(f, n + 1, rules', chain')
  <2>1. AtRule /\ chain = << >> /\ IsChain(line) /\ rules' = rules /\ chain' = <<RuleOf(line)>>
    BY <1>9 DEF OpensChain
  <2> QED
    BY <1>2, <1>7, <2>1, KeptRule
<1>10. ASSUME AtRule, chain # << >>
       PROVE  /\ Reverse(Extended) = Extended
              /\ ~f[n].chains => Kept(f, n + 1, rules \o Extended, << >>)
              /\ f[n].chains => Kept(f, n + 1, rules, Extended)
  <2> DEFINE more == [chain EXCEPT ![Len(chain)].links = Append(@, RuleSaid(f[n]).links[1])]
  <2>1. Extended = more
    BY <1>7, <1>10 DEF Extended
  <2>2. f[n].kind = "rule" /\ OneLink(RuleSaid(f[n])) /\ chain # << >>
    BY <1>7, <1>10
  <2>3. /\ \E r \in AnyRule : more = <<r>>
        /\ ~f[n].chains => Kept(f, n + 1, rules \o more, << >>)
        /\ f[n].chains => Kept(f, n + 1, rules, more)
    BY <1>2, <2>2, KeptLink
  <2> HIDE DEF more
  <2> QED
    BY <2>1, <2>3, ReverseOfOne
<1>11. ASSUME Links PROVE Kept(f, n + 1, rules', chain')
  <2>1. AtRule /\ chain # << >> /\ IsChain(line) /\ rules' = rules /\ chain' = Extended
    BY <1>11 DEF Links
  <2> QED
    BY <1>7, <1>10, <2>1
<1>12. ASSUME ClosesChain PROVE Kept(f, n + 1, rules', chain')
  <2>1. /\ AtRule /\ chain # << >> /\ ~IsChain(line)
        /\ rules' = rules \o Reverse(Extended) /\ chain' = << >>
    BY <1>12 DEF ClosesChain
  <2> QED
    BY <1>7, <1>10, <2>1
<1>13. ASSUME OtherDirective PROVE Kept(f, n + 1, rules', chain')
  <2>1. f[n].kind = "else" /\ rules' = rules \o chain /\ chain' = << >>
    BY <1>2, <1>3, <1>13 DEF OtherDirective, ReadsAs, Kind
  <2> QED
    BY <1>2, <2>1, KeptElse
<1> QED
    BY <1>5, <1>6, <1>8, <1>9, <1>11, <1>12, <1>13

(* A file that is opened, one that is not there, and the end of one *)
LEMMA FileStep ==
    ASSUME ParserIInv, LinesAreRead, OpenFile \/ FileMissing \/ EndOfFile
    PROVE  ParserIInv'
<1>1. /\ files \in Sources /\ IsSequence(files)
      /\ \A k \in DOMAIN files : files[k] # Unreadable => IsSource(files[k])
      /\ file \in 1 .. Len(files) + 1
      /\ \A k \in DOMAIN files : k \in Nat /\ k + 1 \in 1 .. Len(files) + 1 /\ (k + 1) - 1 = k
      /\ allRules \in Seq(AnyRule) /\ RulesAsWritten
    BY SourceFile DEF ParserIInv, IsSequence
<1>2. CASE OpenFile
  <2>1. /\ lines = Absent /\ file \in DOMAIN files /\ files[file] # Unreadable /\ n' = 1
        /\ rules' = rules /\ chain' = chain
        /\ files' = files /\ file' = file /\ allRules' = allRules
    BY <1>2 DEF OpenFile
  <2>2. IsSource(files[file]) /\ 1 \in 1 .. Len(files[file]) + 1
    BY <1>1, <2>1 DEF IsSource, IsFile
  <2>3. rules = << >> /\ chain = << >>
    BY <2>1 DEF ParserIInv
  <2>4. Kept(files[file], 1, << >>, << >>)
    BY <2>2, KeptNone
  <2> QED
    BY <1>1, <2>1, <2>2, <2>3, <2>4 DEF ParserIInv, RulesAsWritten
<1>3. CASE FileMissing
  <2>1. /\ lines = Absent /\ file \in DOMAIN files /\ files[file] = Unreadable
        /\ file' = file + 1 /\ lines' = lines /\ rules' = rules /\ chain' = chain
        /\ files' = files /\ allRules' = allRules
    BY <1>3 DEF FileMissing
  <2>2. rules = << >> /\ chain = << >>
    BY <2>1 DEF ParserIInv
  <2>3. SaidUpTo(files)[file] = SaidUpTo(files)[file - 1] \o << >>
    BY <1>1, <2>1, SaidUpToIs DEF SaidBy
  <2>4. allRules \o << >> = allRules
    BY <1>1
  <2>5. allRules = SaidUpTo(files)[(file + 1) - 1]
    BY <1>1, <2>1, <2>3, <2>4 DEF RulesAsWritten
  <2> QED
    BY <1>1, <2>1, <2>2, <2>5 DEF ParserIInv, RulesAsWritten
<1>4. CASE EndOfFile
  <2> DEFINE f == files[file]
  <2>1. /\ lines # Absent /\ n \notin DOMAIN lines
        /\ allRules' = allRules \o Flushed /\ rules' = << >> /\ chain' = << >>
        /\ lines' = Absent /\ file' = file + 1 /\ files' = files
    BY <1>4 DEF EndOfFile
  <2>2. /\ file \in DOMAIN files /\ f # Unreadable
        /\ n \in 1 .. Len(f) + 1 /\ Kept(f, n, rules, chain)
    BY <2>1 DEF ParserIInv
  <2>3. IsSource(f)
    BY <1>1, <2>2
  <2>4. n = Len(f) + 1
    BY <2>1, <2>2, <2>3 DEF LinesAreRead, IsSource, IsFile
  <2> HIDE DEF f
  <2>5. chain = << >> \/ \E r \in AnyRule : chain = <<r>>
    <3>1. n \in Nat /\ \A s \in Starts(f, n) : s \in Nat
        BY <2>2, <2>3 DEF IsSource, IsFile, Starts, Counting
    <3>2. \A s \in Starts(f, n) : RuleAt(f, s, n) \in AnyRule
        BY <2>3, <3>1, AnyRuleAt
    <3> QED
        BY <2>2, <3>2 DEF Kept
  <2>6. Flushed = rules \o chain
    BY <2>5, ReverseOfOne DEF Flushed
  <2>7. Flushed \in Seq(AnyRule)
    <3>1. rules \in Seq(AnyRule)
        BY <2>2 DEF Kept
    <3>2. chain \in Seq(AnyRule)
      <4>1. CASE chain = << >>
        BY <4>1
      <4>2. CASE \E r \in AnyRule : chain = <<r>>
        BY <4>2
      <4> QED
        BY <2>5, <4>1, <4>2
    <3> QED
        BY <2>6, <3>1, <3>2
  <2>8. Flushed = SaidBy(f)
    BY <2>2, <2>4, <2>6 DEF Kept, SaidBy
  <2>9. SaidUpTo(files)[file] = SaidUpTo(files)[file - 1] \o SaidBy(f)
    BY <1>1, <2>2, SaidUpToIs DEF f
  <2>10. allRules \o Flushed = SaidUpTo(files)[(file + 1) - 1]
    BY <1>1, <2>2, <2>8, <2>9 DEF RulesAsWritten
  <2>11. allRules \o Flushed \in Seq(AnyRule)
    BY <1>1, <2>7
  <2> QED
    BY <1>1, <2>1, <2>2, <2>10, <2>11 DEF ParserIInv, RulesAsWritten
<1> QED
    BY <1>2, <1>3, <1>4

(* After each file the embedded rules are those the files so far were      *)
(* written to say, in order, each with the links that follow it and no     *)
(* other's, for any files whose lines read as what their directives say:   *)
(* LinesAreRead, which the run checks by itself, is all that is assumed of *)
(* the quotes, commas and continuations parse_str cuts them at.  The stack *)
(* never holds more than the rule whose chain is open.                     *)
LEMMA RulesOfReadLines == ParserSpec /\ []LinesAreRead => []RulesAsWritten
<1>1. ParserInit => ParserIInv
  <2> SUFFICES ASSUME ParserInit PROVE ParserIInv
    OBVIOUS
  <2>1. files \in Sources /\ IsSequence(files)
    BY ParserAssumption DEF ParserInit
  <2>2. 1 \in 1 .. Len(files) + 1 /\ 1 - 1 = 0
    BY <2>1 DEF IsSequence
  <2>3. << >> \in Seq(AnyRule)
    OBVIOUS
  <2>4. RulesAsWritten
    BY <2>1, <2>2, SaidUpToIs DEF ParserInit, RulesAsWritten
  <2> QED
    BY <2>1, <2>2, <2>3, <2>4 DEF ParserInit, ParserIInv
<1>2. ParserIInv /\ LinesAreRead /\ [ParserNext]_parserVars => ParserIInv'
  <2> SUFFICES ASSUME ParserIInv, LinesAreRead, [ParserNext]_parserVars PROVE ParserIInv'
    OBVIOUS
  <2>1. CASE Ignored \/ AtMarker \/ RuleAlone \/ OpensChain \/ Links \/ ClosesChain \/ OtherDirective
    BY <2>1, LineStep
  <2>2. CASE OpenFile \/ FileMissing \/ EndOfFile
    BY <2>2, FileStep
  <2>3. CASE UNCHANGED parserVars
    BY <2>3 DEF parserVars, ParserIInv, RulesAsWritten
  <2> QED
    BY <2>1, <2>2, <2>3 DEF ParserNext
<1>3. ParserIInv => RulesAsWritten
    BY DEF ParserIInv
<1> QED
    BY <1>1, <1>2, <1>3, PTL DEF ParserSpec

----------------------------------------------------------------------------
(* Texts: CrsText *)

(* A text is a function of its places. *)
IsText(s) == Len(s) \in Nat /\ s = [i \in 1 .. Len(s) |-> s[i]]

(* A text is a sequence of the characters in it. *)
LEMMA TextIsSequence ==
    ASSUME NEW s, IsText(s)
    PROVE  s \in Seq({s[i] : i \in 1 .. Len(s)})
<1> DEFINE T == {s[i] : i \in 1 .. Len(s)}
<1>1. s \in [1 .. Len(s) -> T]
    BY DEF IsText
<1>2. Len(s) \in Nat
    BY DEF IsText
<1> HIDE DEF T
<1>3. s \in Seq(T)
    BY <1>1, <1>2
<1> QED
    BY <1>3 DEF T

(* Two texts, one behind the other *)
LEMMA TwoTexts ==
    ASSUME NEW s, IsText(s), NEW t, IsText(t)
    PROVE  /\ IsText(s \o t) /\ Len(s \o t) = Len(s) + Len(t)
           /\ s \o << >> = s /\ << >> \o s = s
           /\ \A i \in 1 .. Len(s) : (s \o t)[i] = s[i]
           /\ \A i \in 1 .. Len(t) : (s \o t)[Len(s) + i] = t[i]
<1> DEFINE T == {s[i] : i \in 1 .. Len(s)} \cup {t[i] : i \in 1 .. Len(t)}
<1>1. s \in [1 .. Len(s) -> T] /\ t \in [1 .. Len(t) -> T] /\ Len(s) \in Nat /\ Len(t) \in Nat
    BY DEF IsText
<1> HIDE DEF T
<1>2. s \in Seq(T) /\ t \in Seq(T)
    BY <1>1
<1> DEFINE u == s \o t
<1>3. /\ u \in Seq(T) /\ Len(u) = Len(s) + Len(t)
      /\ s \o << >> = s /\ << >> \o s = s
      /\ \A i \in 1 .. Len(s) : u[i] = s[i]
      /\ \A i \in 1 .. Len(t) : u[Len(s) + i] = t[i]
    BY <1>2
<1> HIDE DEF u
<1>4. IsText(u)
    BY <1>3 DEF IsText
<1> QED
    BY <1>3, <1>4 DEF u

(* A text without its first character *)
LEMMA Rest ==
    ASSUME NEW s, IsText(s), s # << >>
    PROVE  /\ Len(s) >= 1 /\ Head(s) = s[1]
           /\ IsText(Tail(s)) /\ Len(Tail(s)) = Len(s) - 1
           /\ \A i \in 1 .. Len(s) - 1 : Tail(s)[i] = s[i + 1]
<1> DEFINE T == {s[i] : i \in 1 .. Len(s)}
           u == Tail(s)
<1>1. s \in Seq(T)
    BY TextIsSequence
<1> HIDE DEF T
<1>2. /\ Len(s) >= 1 /\ Head(s) = s[1]
      /\ u \in Seq(T) /\ Len(u) = Len(s) - 1
      /\ \A i \in 1 .. Len(s) - 1 : u[i] = s[i + 1]
    BY <1>1
<1> HIDE DEF u
<1>3. IsText(u)
    BY <1>2 DEF IsText
<1> QED
    BY <1>2, <1>3 DEF u

(* A stretch of a text *)
LEMMA Stretch ==
    ASSUME NEW s, IsText(s), NEW i \in Int, NEW j \in Int, 1 <= i, i <= j, j <= Len(s)
    PROVE  Len(SubSeq(s, i, j)) = j - i + 1
<1> DEFINE T == {s[k] : k \in 1 .. Len(s)}
<1>1. s \in Seq(T)
    BY TextIsSequence
<1> HIDE DEF T
<1> QED
    BY <1>1

(* Short texts *)
LEMMA Short ==
    /\ IsText(<< >>) /\ Len(<< >>) = 0
    /\ \A a : IsText(<<a>>) /\ Len(<<a>>) = 1 /\ <<a>>[1] = a
    /\ \A a, b : IsText(<<a, b>>)
    /\ \A a, b, c : IsText(<<a, b, c>>)
    /\ \A a, b, c, d : IsText(<<a, b, c, d>>)
<1>1. IsText(<< >>) /\ Len(<< >>) = 0
    BY DEF IsText
<1>2. ASSUME NEW a
      PROVE  IsText(<<a>>) /\ Len(<<a>>) = 1 /\ <<a>>[1] = a
    BY DEF IsText
<1>3. ASSUME NEW a, NEW b
      PROVE  IsText(<<a, b>>)
    BY DEF IsText
<1>4. ASSUME NEW a, NEW b, NEW c
      PROVE  IsText(<<a, b, c>>)
    BY DEF IsText
<1>5. ASSUME NEW a, NEW b, NEW c, NEW d
      PROVE  IsText(<<a, b, c, d>>)
    BY DEF IsText
<1> QED
    BY <1>1, <1>2, <1>3, <1>4, <1>5

----------------------------------------------------------------------------
(* Texts one behind the other *)

(* FlattenSeq: its function exists, which is not obvious of a recursive    *)
(* one.                                                                    *)
LEMMA FlatExists ==
    ASSUME NEW seqs, IsText(seqs), seqs # << >>
    PROVE  \E flat : flat = [i \in 1 .. Len(seqs) |->
                IF i = 1 THEN seqs[i] ELSE flat[i - 1] \o seqs[i]]
<1> DEFINE More(s, i) == s \o seqs[i]
           UpTo(m, flat) ==
            /\ flat = [i \in 1 .. m |-> flat[i]]
            /\ \A i \in 1 .. m : flat[i] = IF i = 1 THEN seqs[i] ELSE More(flat[i - 1], i)
           S == {m \in Nat : \E flat : UpTo(m, flat)}
<1> HIDE DEF More
<1>1. 0 \in S
  <2>1. UpTo(0, [i \in 1 .. 0 |-> << >>])
    OBVIOUS
  <2> QED
    BY <2>1
<1>2. ASSUME NEW m \in Nat, m \in S
      PROVE  m + 1 \in S
  <2>1. PICK flat : UpTo(m, flat)
    BY <1>2
  <2> DEFINE next == IF m = 0 THEN seqs[1] ELSE More(flat[m], m + 1)
             more == [i \in 1 .. m + 1 |-> IF i = m + 1 THEN next ELSE flat[i]]
  <2>2. more = [i \in 1 .. m + 1 |-> more[i]]
    OBVIOUS
  <2>3. \A i \in 1 .. m + 1 : more[i] = IF i = 1 THEN seqs[i] ELSE More(more[i - 1], i)
    <3> TAKE i \in 1 .. m + 1
    <3>1. CASE i = m + 1
      <4>1. more[i] = next
        BY <3>1
      <4>2. CASE m = 0
        BY <3>1, <4>1, <4>2
      <4>3. CASE m # 0
        <5>1. i # 1 /\ i - 1 = m /\ more[m] = flat[m]
            BY <3>1, <4>3
        <5> QED
            BY <3>1, <4>1, <4>3, <5>1
      <4> QED
        BY <4>2, <4>3
    <3>2. CASE i # m + 1
      <4>1. i \in 1 .. m /\ more[i] = flat[i]
        BY <3>2
      <4>2. flat[i] = IF i = 1 THEN seqs[i] ELSE More(flat[i - 1], i)
        BY <2>1, <4>1
      <4>3. i # 1 => i - 1 \in 1 .. m /\ more[i - 1] = flat[i - 1]
        BY <4>1
      <4> HIDE DEF more
      <4> QED
        BY <4>1, <4>2, <4>3
    <3> QED
        BY <3>1, <3>2
  <2>4. UpTo(m + 1, more)
    BY <2>2, <2>3
  <2> HIDE DEF UpTo, more
  <2> QED
    BY <2>4
<1> HIDE DEF S
<1>3. Len(seqs) \in S
    BY <1>1, <1>2, UpFromZero DEF IsText
<1>4. PICK flat : UpTo(Len(seqs), flat)
    BY <1>3 DEF S
<1>5. flat = [i \in 1 .. Len(seqs) |-> IF i = 1 THEN seqs[i] ELSE More(flat[i - 1], i)]
    BY <1>4
<1> QED
    BY <1>5 DEF More

(* FlattenSeq puts one text behind the other. *)
LEMMA FlatSteps ==
    ASSUME NEW seqs, IsText(seqs), seqs # << >>
    PROVE  \E flat : /\ FlattenSeq(seqs) = flat[Len(seqs)]
                     /\ \A i \in 1 .. Len(seqs) :
                            flat[i] = IF i = 1 THEN seqs[i] ELSE flat[i - 1] \o seqs[i]
<1> DEFINE flat == CHOOSE f : f = [i \in 1 .. Len(seqs) |->
                        IF i = 1 THEN seqs[i] ELSE f[i - 1] \o seqs[i]]
<1>1. Len(seqs) # 0
    BY Rest
<1>2. FlattenSeq(seqs) = flat[Len(seqs)]
    BY <1>1 DEF FlattenSeq
<1>3. flat = [i \in 1 .. Len(seqs) |-> IF i = 1 THEN seqs[i] ELSE flat[i - 1] \o seqs[i]]
    BY FlatExists
<1> HIDE DEF flat
<1>4. \A i \in 1 .. Len(seqs) : flat[i] = IF i = 1 THEN seqs[i] ELSE flat[i - 1] \o seqs[i]
    BY <1>3
<1> QED
    BY <1>2, <1>4

(* Texts, one behind the other, are a text. *)
LEMMA Flattened ==
    ASSUME NEW seqs, IsText(seqs), \A i \in 1 .. Len(seqs) : IsText(seqs[i])
    PROVE  IsText(FlattenSeq(seqs))
<1>1. Len(seqs) \in Nat
    BY DEF IsText
<1>2. CASE Len(seqs) = 0
    BY <1>2 DEF FlattenSeq
<1>3. CASE Len(seqs) # 0
  <2>1. seqs # << >>
    BY <1>3
  <2>2. PICK flat : /\ FlattenSeq(seqs) = flat[Len(seqs)]
                    /\ \A i \in 1 .. Len(seqs) :
                            flat[i] = IF i = 1 THEN seqs[i] ELSE flat[i - 1] \o seqs[i]
    BY <2>1, FlatSteps
  <2> DEFINE S == {m \in Nat : m + 1 \in 1 .. Len(seqs) => IsText(flat[m + 1])}
  <2>3. 0 \in S
    BY <2>2
  <2>4. ASSUME NEW m \in Nat, m \in S
        PROVE  m + 1 \in S
    <3> SUFFICES ASSUME m + 2 \in 1 .. Len(seqs)
                 PROVE  IsText(flat[m + 2])
        OBVIOUS
    <3>1. m + 1 \in 1 .. Len(seqs)
        BY <1>1
    <3>2. IsText(flat[m + 1])
        BY <2>4, <3>1
    <3>3. IsText(seqs[m + 2])
        OBVIOUS
    <3>4. flat[m + 2] = flat[m + 1] \o seqs[m + 2]
      <4>1. m + 2 # 1 /\ (m + 2) - 1 = m + 1
        OBVIOUS
      <4>2. flat[m + 2] = flat[(m + 2) - 1] \o seqs[m + 2]
        BY <2>2, <4>1
      <4> QED
        BY <4>1, <4>2
    <3> QED
        BY <3>2, <3>3, <3>4, TwoTexts
  <2> HIDE DEF S
  <2>5. Len(seqs) - 1 \in S
    <3>1. Len(seqs) - 1 \in Nat
        BY <1>1, <1>3
    <3> QED
        BY <2>3, <2>4, <3>1, UpFromZero
  <2>6. IsText(flat[Len(seqs)])
    BY <1>1, <1>3, <2>5 DEF S
  <2> QED
    BY <2>2, <2>6
<1> QED
    BY <1>2, <1>3

(* Digits are a text. *)
LEMMA DigitsAreText ==
    ASSUME NEW size, NEW width \in Nat
    PROVE  IsText(HexOf(size, width))
<1> DEFINE digits == [k \in 1 .. width |-> Hex((size \div 16 ^ (width - k)) % 16)]
<1>1. Len(digits) = width /\ DOMAIN digits = 1 .. width
  <2> DEFINE D(k) == Hex((size \div 16 ^ (width - k)) % 16)
             T == {D(k) : k \in 1 .. width}
  <2> HIDE DEF D
  <2>1. [k \in 1 .. width |-> D(k)] \in [1 .. width -> T]
    OBVIOUS
  <2> HIDE DEF T
  <2>2. Len([k \in 1 .. width |-> D(k)]) = width
    BY <2>1
  <2> QED
    BY <2>2 DEF D
<1>2. \A i \in 1 .. width : IsText(digits[i])
    BY Short DEF Hex
<1>3. IsText(digits)
    BY <1>1 DEF IsText
<1> HIDE DEF digits
<1>4. IsText(FlattenSeq(digits))
    BY <1>1, <1>2, <1>3, Flattened
<1> QED
    BY <1>4 DEF HexOf, digits

(* What a transform goes through is a text. *)
LEMMA UnitsAreText ==
    ASSUME NEW t, NEW s, IsText(s)
    PROVE  IsText(Units(t, s))
<1> DEFINE bytes == [k \in DOMAIN s |-> Utf8(s[k])]
<1>1. DOMAIN s = 1 .. Len(s) /\ Len(s) \in Nat
    BY DEF IsText
<1>2. ASSUME NEW k \in DOMAIN s
      PROVE  IsText(bytes[k])
    BY Short DEF Utf8
<1>3. Len(bytes) = Len(s)
  <2> DEFINE B(k) == Utf8(s[k])
             T == {B(k) : k \in 1 .. Len(s)}
  <2> HIDE DEF B
  <2>1. [k \in 1 .. Len(s) |-> B(k)] \in [1 .. Len(s) -> T]
    OBVIOUS
  <2> HIDE DEF T
  <2>2. Len([k \in 1 .. Len(s) |-> B(k)]) = Len(s)
    BY <1>1, <2>1
  <2> QED
    BY <1>1, <2>2 DEF B
<1>4. IsText(bytes)
    BY <1>1, <1>3 DEF IsText
<1> HIDE DEF bytes
<1>5. IsText(FlattenSeq(bytes))
    BY <1>1, <1>2, <1>3, <1>4, Flattened
<1> QED
    BY <1>5 DEF Units, bytes

----------------------------------------------------------------------------
(* One turn of a loop *)

(* The least and the greatest of some places are among them. *)
LEMMA Extremes ==
    ASSUME NEW size \in Nat, NEW S \in SUBSET (1 .. size), S # {}
    PROVE  Min(S) \in S /\ Max(S) \in S
<1>1. Min(S) \in S
  <2>1. PICK k \in S : \A m \in S : k <= m
    BY Least
  <2> QED
    BY <2>1 DEF Min
<1>2. \E k \in S : \A m \in S : k >= m
  <2>1. \A a, b \in Int : size - a <= size - b => a >= b
    OBVIOUS
  <2>2. \A a \in S : a \in Int /\ size - a \in Nat
    OBVIOUS
  <2> DEFINE T == {size - a : a \in S}
  <2>3. T \in SUBSET Nat /\ T # {}
    BY <2>2
  <2>4. PICK j \in T : \A m \in T : j <= m
    BY <2>3, Least
  <2>5. PICK a \in S : j = size - a
    OBVIOUS
  <2>6. \A m \in S : size - a <= size - m
    BY <2>4, <2>5
  <2>7. \A m \in S : a >= m
    BY <2>1, <2>2, <2>6, Zenon
  <2> QED
    BY <2>7
<1>3. Max(S) \in S
    BY <1>2 DEF Max
<1> QED
    BY <1>1, <1>3

(* What a transform may make of the text at i: a text for some of the      *)
(* units there are, at least one.                                          *)
Fits(w, s, i) == IsText(w.out) /\ w.taken \in 1 .. Len(s) + 1 - i

(* A unit that is kept *)
LEMMA KeepFits ==
    ASSUME NEW s, IsText(s), NEW i \in 1 .. Len(s)
    PROVE  /\ Fits(Keep(s, i), s, i)
           /\ \A c, size : size \in 1 .. Len(s) + 1 - i => Fits(Write(<<c>>, size), s, i)
           /\ Fits(Write(<< >>, 1), s, i)
<1>1. 1 \in 1 .. Len(s) + 1 - i
    BY DEF IsText
<1> QED
    BY <1>1, Short DEF Fits, Keep, Write

(* The escapes of a URL *)
LEMMA UrlFits ==
    ASSUME NEW s, IsText(s), NEW i \in 1 .. Len(s)
    PROVE  Fits(UrlDecodeSimple(s, i), s, i) /\ Fits(UrlDecodeUni(s, i), s, i)
<1>1. Len(s) \in Nat
    BY DEF IsText
<1>2. Follow(s, i, 2) => 3 \in 1 .. Len(s) + 1 - i
    BY <1>1 DEF Follow
<1>3. Follow(s, i, 5) => 6 \in 1 .. Len(s) + 1 - i
    BY <1>1 DEF Follow
<1>4. 1 \in 1 .. Len(s) + 1 - i
    BY <1>1
<1>5. Fits(UrlDecodeSimple(s, i), s, i)
    BY <1>2, <1>4, KeepFits DEF UrlDecodeSimple
<1>6. Fits(UrlDecodeUni(s, i), s, i)
    BY <1>2, <1>3, KeepFits DEF UrlDecodeUni
<1> QED
    BY <1>5, <1>6

(* The escapes of JavaScript *)
LEMMA JsFits ==
    ASSUME NEW s, IsText(s), NEW i \in 1 .. Len(s)
    PROVE  Fits(JsDecode(s, i), s, i)
<1> DEFINE c == s[i + 1]
           size == IF c \in LetterU /\ Follow(s, i, 5) THEN 4
                ELSE IF c \in LetterX /\ Follow(s, i, 3) THEN 2 ELSE 0
<1>1. Len(s) \in Nat
    BY DEF IsText
<1>2. size \in {0, 2, 4} /\ (size = 4 => Follow(s, i, 5)) /\ (size = 2 => Follow(s, i, 3))
    OBVIOUS
<1> HIDE DEF size
<1>3. size > 0 => size + 2 \in 1 .. Len(s) + 1 - i
    BY <1>1, <1>2 DEF Follow
<1>4. Follow(s, i, 1) => 2 \in 1 .. Len(s) + 1 - i
    BY <1>1 DEF Follow
<1>5. CASE s[i] # Backslash \/ ~Follow(s, i, 1)
    BY <1>5, KeepFits DEF JsDecode
<1>6. CASE s[i] = Backslash /\ Follow(s, i, 1) /\ size > 0
  <2>1. JsDecode(s, i) = IF IsChar(HexAt(s, i + 2, size)) THEN Write(<<HexAt(s, i + 2, size)>>, size + 2)
                         ELSE Keep(s, i)
    BY <1>6, Zenon DEF JsDecode, size
  <2> QED
    BY <1>3, <1>6, <2>1, KeepFits
<1>7. CASE s[i] = Backslash /\ Follow(s, i, 1) /\ ~(size > 0)
  <2> DEFINE char == CASE c = LetterN -> 10 [] c = LetterR -> 13 [] c = LetterT -> 9 [] OTHER -> c
  <2>1. JsDecode(s, i) = Write(<<char>>, 2)
    BY <1>7, Zenon DEF JsDecode, size
  <2> HIDE DEF char
  <2> QED
    BY <1>4, <1>7, <2>1, KeepFits
<1> QED
    BY <1>5, <1>6, <1>7

(* The escapes of CSS *)
LEMMA CssFits ==
    ASSUME NEW s, IsText(s), NEW i \in 1 .. Len(s)
    PROVE  Fits(CssDecode(s, i), s, i)
<1> DEFINE runs == {size \in 1 .. 6 : Follow(s, i, size) /\ HexAt(s, i + 1, size) # -1}
           most == Max(runs)
           closed == i + most < Len(s) /\ s[i + most + 1] = Space
           taken == most + IF closed THEN 2 ELSE 1
<1>1. Len(s) \in Nat
    BY DEF IsText
<1>2. runs # {} => most \in 1 .. 6 /\ Follow(s, i, most)
  <2>1. runs \in SUBSET (1 .. 6)
    OBVIOUS
  <2>2. runs # {} => most \in runs
    BY <2>1, Extremes
  <2> QED
    BY <2>2
<1> HIDE DEF most
<1>3. runs # {} => taken \in 1 .. Len(s) + 1 - i
    BY <1>1, <1>2 DEF Follow
<1>4. CssDecode(s, i) =
        IF s[i] = Backslash /\ runs # {} /\ IsChar(HexAt(s, i + 1, most))
        THEN Write(<<HexAt(s, i + 1, most)>>, taken) ELSE Keep(s, i)
    BY Zenon DEF CssDecode, most
<1> HIDE DEF runs, taken
<1> QED
    BY <1>3, <1>4, KeepFits

(* The entities of HTML *)
LEMMA HtmlFits ==
    ASSUME NEW s, IsText(s), NEW i \in 1 .. Len(s)
    PROVE  Fits(HtmlEntityDecode(s, i), s, i)
<1> DEFINE hex == Follow(s, i, 2) /\ s[i + 2] \in LetterX
           from == IF hex THEN i + 3 ELSE i + 2
           ends == {k \in from .. Len(s) : s[k] = Semicolon}
           first == Min(ends)
           size == SignedNumber(SubSeq(s, from, first - 1), IF hex THEN 16 ELSE 10)
           named == CHOOSE e \in Named(s, i) : TRUE
<1>1. Len(s) \in Nat
    BY DEF IsText
<1>2. ends # {} => first \in from .. Len(s)
  <2>1. ends \in SUBSET (1 .. Len(s))
    BY <1>1
  <2>2. ends # {} => first \in ends
    BY <1>1, <2>1, Extremes
  <2> HIDE DEF first
  <2> QED
    BY <2>2
<1> HIDE DEF first, ends
<1>3. ends # {} => first - i + 1 \in 1 .. Len(s) + 1 - i
    BY <1>1, <1>2
<1>4. Named(s, i) # {} => Len(named[2]) + 2 \in 1 .. Len(s) + 1 - i
  <2> SUFFICES ASSUME Named(s, i) # {}
               PROVE  Len(named[2]) + 2 \in 1 .. Len(s) + 1 - i
    OBVIOUS
  <2>1. named \in Named(s, i)
    OBVIOUS
  <2>2. PICK e \in Entity : /\ e = named
                            /\ IsPrefix(<<Amp>> \o e[2] \o <<Semicolon>>, SubSeq(s, i, Len(s)))
    BY <2>1 DEF Named
  <2>3. Len(<<Amp>> \o e[2] \o <<Semicolon>>) = Len(e[2]) + 2 /\ Len(e[2]) \in Nat
    <3>1. IsText(e[2])
        BY Short DEF Entity
    <3>2. IsText(<<Amp>> \o e[2]) /\ Len(<<Amp>> \o e[2]) = Len(e[2]) + 1
      <4>1. Len(<<Amp>> \o e[2]) = 1 + Len(e[2])
        BY <3>1, TwoTexts, Short
      <4> QED
        BY <3>1, <4>1, TwoTexts, Short DEF IsText
    <3>3. Len((<<Amp>> \o e[2]) \o <<Semicolon>>) = Len(<<Amp>> \o e[2]) + 1
        BY <3>2, TwoTexts, Short
    <3> QED
        BY <3>1, <3>2, <3>3 DEF IsText
  <2>4. Len(SubSeq(s, i, Len(s))) = Len(s) - i + 1
    BY <1>1, Stretch
  <2>5. Len(<<Amp>> \o e[2] \o <<Semicolon>>) <= Len(SubSeq(s, i, Len(s)))
    BY <2>2 DEF IsPrefix
  <2> HIDE DEF named
  <2> QED
    BY <1>1, <2>2, <2>3, <2>4, <2>5
<1>5. HtmlEntityDecode(s, i) =
        IF s[i] # Amp THEN Keep(s, i)
        ELSE IF Named(s, i) # {} THEN Write(<<named[1]>>, Len(named[2]) + 2)
        ELSE IF Follow(s, i, 1) /\ s[i + 1] = Hash /\ ends # {} /\ IsChar(size)
             THEN Write(<<size>>, first - i + 1)
        ELSE Keep(s, i)
    BY Zenon DEF HtmlEntityDecode, first, ends
<1> HIDE DEF size, named
<1> QED
    BY <1>3, <1>4, <1>5, KeepFits

(* Each turn of each loop takes at least one unit, and only such as there  *)
(* are; what it writes is a text.                                          *)
LEMMA TurnFits ==
    ASSUME NEW t, NEW s, IsText(s), NEW i \in 1 .. Len(s)
    PROVE  Fits(Written(t, s, i), s, i)
<1>1. 1 \in 1 .. Len(s) + 1 - i
    BY DEF IsText
<1>2. Fits(Utf8ToUnicode(s, i), s, i)
  <2> DEFINE width == IF s[i] < 65536 THEN 4 ELSE IF s[i] < 1048576 THEN 5 ELSE 6
             chars == <<Backslash, 117>> \o HexOf(s[i], width)
  <2>1. IsText(HexOf(s[i], width))
    <3>1. width \in Nat
        OBVIOUS
    <3> HIDE DEF width
    <3> QED
        BY <3>1, DigitsAreText
  <2>2. IsText(chars)
    BY <2>1, TwoTexts, Short
  <2>3. Utf8ToUnicode(s, i) = IF s[i] < 128 THEN Keep(s, i) ELSE Write(chars, 1)
    BY DEF Utf8ToUnicode
  <2> HIDE DEF chars
  <2> QED
    BY <1>1, <2>2, <2>3, KeepFits DEF Fits, Write
<1>3. Fits(CompressWhitespace(s, i), s, i)
    BY <1>1, KeepFits DEF CompressWhitespace
<1> QED
    BY <1>1, <1>2, <1>3, KeepFits, UrlFits, JsFits, CssFits, HtmlFits DEF Written

(* No letter is a capital in lower case. *)
LEMMA NoCapital == \A c : Lowercase(c) \notin 65 .. 90
<1> SUFFICES ASSUME NEW c PROVE Lowercase(c) \notin 65 .. 90
    OBVIOUS
<1>1. CASE c \in 65 .. 90
    BY <1>1 DEF Lowercase
<1>2. CASE c \in 192 .. 214
    BY <1>2 DEF Lowercase
<1>3. CASE c \in 216 .. 222
    BY <1>3 DEF Lowercase
<1>4. CASE c \notin (65 .. 90) \cup (192 .. 214) \cup (216 .. 222)
  <2>1. Lowercase(c) = c
    BY <1>4, Zenon DEF Lowercase
  <2> QED
    BY <1>4, <2>1, Zenon
<1> QED
    BY <1>1, <1>2, <1>3, <1>4

(* What a transform has promised of its text so far it still promises when *)
(* it has written what is next, and behind what is no blank another one    *)
(* may come.                                                               *)
LEMMA TurnDelivers ==
    ASSUME NEW t, NEW s, IsText(s), NEW i \in 1 .. Len(s), NEW o, IsText(o),
           Promised(t, o),
           t = "compressWhitespace" /\ ~spaced => o = << >> \/ o[Len(o)] # Space
    PROVE  LET q == o \o Written(t, s, i).out
           IN  /\ Promised(t, q)
               /\ t = "compressWhitespace" /\ s[i] \notin AsciiSpace
                    => q[Len(q)] # Space
<1>1. /\ Len(o) \in Nat /\ DOMAIN o = 1 .. Len(o) /\ o \o << >> = o
      /\ o = << >> => Len(o) = 0
    BY TwoTexts, Short DEF IsText
<1>2. ASSUME NEW c
      PROVE  /\ DOMAIN (o \o <<c>>) = 1 .. Len(o) + 1 /\ Len(o \o <<c>>) = Len(o) + 1
             /\ (o \o <<c>>)[Len(o) + 1] = c
             /\ \A k \in 1 .. Len(o) : (o \o <<c>>)[k] = o[k]
  <2> DEFINE q == o \o <<c>>
  <2>1. IsText(q) /\ Len(q) = Len(o) + 1
    BY TwoTexts, Short
  <2>2. q[Len(o) + 1] = c
    BY TwoTexts, Short
  <2>3. \A k \in 1 .. Len(o) : q[k] = o[k]
    BY TwoTexts, Short
  <2> HIDE DEF q
  <2>4. DOMAIN q = 1 .. Len(o) + 1
    BY <2>1 DEF IsText
  <2> QED
    BY <2>1, <2>2, <2>3, <2>4 DEF q
<1> DEFINE w == Written(t, s, i).out
           q == o \o w
<1>3. CASE t = "compressWhitespace"
  <2>1. w = IF s[i] \notin AsciiSpace THEN <<s[i]>> ELSE IF spaced THEN << >> ELSE <<Space>>
    BY <1>3 DEF Written, CompressWhitespace, Keep, Write
  <2>2. \A k \in DOMAIN o : o[k] \in AsciiSpace => o[k] = Space /\ (k > 1 => o[k - 1] # Space)
    BY <1>3 DEF Promised
  <2> HIDE DEF w
  <2>3. CASE s[i] \notin AsciiSpace
    <3>1. q = o \o <<s[i]>>
        BY <2>1, <2>3
    <3>2. \A k \in DOMAIN q : q[k] \in AsciiSpace => q[k] = Space /\ (k > 1 => q[k - 1] # Space)
      <4> TAKE k \in DOMAIN q
      <4> HAVE q[k] \in AsciiSpace
      <4>1. DOMAIN q = 1 .. Len(o) + 1 /\ q[Len(o) + 1] = s[i] /\ \A j \in 1 .. Len(o) : q[j] = o[j]
        BY <1>2, <3>1
      <4> HIDE DEF q
      <4>2. k \in 1 .. Len(o)
        BY <1>1, <2>3, <4>1
      <4>3. q[k] = o[k] /\ (k > 1 => q[k - 1] = o[k - 1])
        BY <1>1, <4>1, <4>2
      <4> QED
        BY <1>1, <2>2, <4>2, <4>3
    <3>3. Len(q) = Len(o) + 1 /\ q[Len(o) + 1] = s[i]
        BY <1>2, <3>1
    <3> HIDE DEF q
    <3>4. q[Len(q)] # Space
        BY <2>3, <3>3 DEF Space, AsciiSpace
    <3> QED
        BY <1>3, <3>2, <3>4 DEF Promised, q, w
  <2>4. CASE s[i] \in AsciiSpace /\ spaced
    <3>1. q = o
        BY <1>1, <2>1, <2>4
    <3> QED
        BY <2>4, <3>1 DEF w
  <2>5. CASE s[i] \in AsciiSpace /\ ~spaced
    <3>1. q = o \o <<Space>>
        BY <2>1, <2>5
    <3>2. \A k \in DOMAIN q : q[k] \in AsciiSpace => q[k] = Space /\ (k > 1 => q[k - 1] # Space)
      <4> TAKE k \in DOMAIN q
      <4> HAVE q[k] \in AsciiSpace
      <4>1. DOMAIN q = 1 .. Len(o) + 1 /\ q[Len(o) + 1] = Space /\ \A j \in 1 .. Len(o) : q[j] = o[j]
        BY <1>2, <3>1
      <4>2. o = << >> \/ o[Len(o)] # Space
        BY <1>3, <2>5
      <4> HIDE DEF q
      <4>3. CASE k \in 1 .. Len(o)
        <5>1. q[k] = o[k] /\ (k > 1 => q[k - 1] = o[k - 1])
            BY <1>1, <4>1, <4>3
        <5> QED
            BY <1>1, <2>2, <4>3, <5>1
      <4>4. CASE k = Len(o) + 1
        <5>1. k > 1 => Len(o) \in 1 .. Len(o) /\ k - 1 = Len(o) /\ o # << >>
            BY <1>1, <4>4
        <5> QED
            BY <4>1, <4>2, <4>4, <5>1
      <4> QED
        BY <1>1, <4>1, <4>3, <4>4
    <3> QED
        BY <1>3, <2>5, <3>2 DEF Promised, w
  <2> QED
    BY <2>3, <2>4, <2>5
<1>4. ASSUME t \in {"removeWhitespace", "removeNulls", "lowercase"}
      PROVE  Promised(t, q)
  <2> DEFINE Fine(c) == CASE t = "removeWhitespace" -> c \notin AsciiSpace
                          [] t = "removeNulls" -> c # Nul
                          [] t = "lowercase" -> c \notin 65 .. 90
  <2>1. w = << >> \/ \E c : w = <<c>> /\ Fine(c)
    <3>1. CASE t = "removeWhitespace"
        BY <3>1 DEF Written, Write
    <3>2. CASE t = "removeNulls"
        BY <3>2 DEF Written, Write
    <3>3. CASE t = "lowercase"
      <4>1. w = <<Lowercase(s[i])>>
        BY <3>3 DEF Written, Write
      <4>2. Lowercase(s[i]) \notin 65 .. 90
        BY NoCapital
      <4> QED
        BY <3>3, <4>1, <4>2
    <3> QED
        BY <1>4, <3>1, <3>2, <3>3
  <2>2. \A k \in DOMAIN o : Fine(o[k])
    BY <1>4 DEF Promised
  <2>3. \A u : (\A k \in DOMAIN u : Fine(u[k])) => Promised(t, u)
    BY <1>4 DEF Promised
  <2> HIDE DEF Fine, w
  <2>4. \A k \in DOMAIN q : Fine(q[k])
    <3>1. CASE w = << >>
        BY <1>1, <2>2, <3>1
    <3>2. CASE \E c : w = <<c>> /\ Fine(c)
      <4>1. PICK c : w = <<c>> /\ Fine(c)
        BY <3>2
      <4>2. /\ DOMAIN q = 1 .. Len(o) + 1 /\ q[Len(o) + 1] = c
            /\ \A k \in 1 .. Len(o) : q[k] = o[k]
        BY <1>2, <4>1
      <4> HIDE DEF q
      <4>3. \A k \in DOMAIN q : k = Len(o) + 1 \/ k \in 1 .. Len(o)
        BY <1>1, <4>2
      <4> QED
        BY <1>1, <2>2, <4>1, <4>2, <4>3
    <3> QED
        BY <2>1, <3>1, <3>2
  <2> QED
    BY <2>3, <2>4
<1>5. CASE t \notin {"compressWhitespace", "removeWhitespace", "removeNulls", "lowercase"}
    BY <1>5 DEF Promised
<1>6. t \in {"removeWhitespace", "removeNulls", "lowercase"} => t # "compressWhitespace"
    OBVIOUS
<1> QED
    BY <1>3, <1>4, <1>5, <1>6

----------------------------------------------------------------------------
(* The invariant of the transforms *)

(* What is waiting and what is written are texts, and the transform at     *)
(* work is one of those of the condition.                                  *)
TextsMade ==
    /\ input \in Inputs
    /\ IsText(waiting) /\ \A k \in 1 .. Len(waiting) : IsText(waiting[k])
    /\ IsText(out)
    /\ IsText(done)
    /\ passes \in 0 .. Len(Passes(input))
    /\ spaced \in BOOLEAN

(* A loop begins at the first unit with nothing written, and is never      *)
(* further than behind the last unit.                                      *)
LoopStarts ==
    /\ at \in Nat \ {0}
    /\ Working => at <= Len(units) + 1
    /\ ~Working => at = 1 /\ out = << >> /\ spaced = FALSE

(* The text being written is as its transform promises, and the value at   *)
(* work as the one before it did; spaced tells whether a blank was last.   *)
KeptPromises ==
    /\ Working =>
        /\ Promised(transform, out)
        /\ transform = "compressWhitespace" /\ ~spaced => out = << >> \/ out[Len(out)] # Space
    /\ passes # 0 /\ waiting # << >> => Promised(Passes(input)[passes], waiting[1])

TextIInv == TextsMade /\ LoopStarts /\ KeptPromises /\ TransformsDeliver

(* Of nothing everything is promised. *)
LEMMA PromisedOfNothing == \A t : Promised(t, << >>)
<1>1. DOMAIN << >> = {}
    OBVIOUS
<1> QED
    BY <1>1 DEF Promised

(* The transforms of an input are a sequence, and its values texts. *)
LEMMA InputTyped ==
    ASSUME NEW x \in Inputs
    PROVE  /\ IsText(Passes(x)) /\ Len(Passes(x)) \in Nat
           /\ IsText(ReadFrom(x)) /\ \A k \in 1 .. Len(ReadFrom(x)) : IsText(ReadFrom(x)[k])
<1>1. x.transforms \in Seq(STRING) /\ ReadFrom(x) \in Seq(Seq(Nat))
    BY TextAssumption
<1>2. IsText(Passes(x))
  <2>1. IsText(x.transforms)
    BY <1>1 DEF IsText
  <2> QED
    BY <2>1, TwoTexts, Short DEF Passes
<1>3. Len(Passes(x)) \in Nat
    BY <1>2 DEF IsText
<1> DEFINE read == ReadFrom(x)
<1> HIDE DEF read
<1>4. read \in Seq(Seq(Nat))
    BY <1>1 DEF read
<1>5. IsText(read)
    BY <1>4 DEF IsText
<1>6. ASSUME NEW k \in 1 .. Len(read)
      PROVE  IsText(read[k])
  <2>1. read[k] \in Seq(Nat)
    BY <1>4
  <2> QED
    BY <2>1 DEF IsText
<1> QED
    BY <1>2, <1>3, <1>5, <1>6 DEF read

(* The first of some texts, and what a transform goes through in it *)
LEMMA FirstUnits ==
    ASSUME NEW ws, IsText(ws), \A k \in 1 .. Len(ws) : IsText(ws[k]), ws # << >>, NEW t
    PROVE  /\ Len(ws) >= 1 /\ Head(ws) = ws[1] /\ IsText(ws[1])
           /\ IsText(Units(t, Head(ws))) /\ Len(Units(t, Head(ws))) \in Nat
<1>1. /\ Len(ws) >= 1 /\ Head(ws) = ws[1] /\ Len(ws) \in Nat
    BY Rest DEF IsText
<1>2. IsText(ws[1])
    BY <1>1
<1>3. IsText(Units(t, Head(ws)))
    BY <1>1, <1>2, UnitsAreText
<1> QED
    BY <1>1, <1>2, <1>3 DEF IsText

(* Every first state satisfies the invariant. *)
LEMMA TextInitInv == TextInit => TextIInv
<1> SUFFICES ASSUME TextInit PROVE TextIInv
    OBVIOUS
<1>1. /\ input \in Inputs /\ waiting = ReadFrom(input)
      /\ passes = 0 /\ at = 1 /\ spaced = FALSE /\ out = << >> /\ done = << >>
    BY DEF TextInit
<1>2. TextsMade
  <2>1. IsText(waiting) /\ \A k \in 1 .. Len(waiting) : IsText(waiting[k])
    BY <1>1, InputTyped
  <2>2. passes \in 0 .. Len(Passes(input))
    BY <1>1, InputTyped
  <2>3. spaced \in BOOLEAN
    BY <1>1
  <2> QED
    BY <1>1, <2>1, <2>2, <2>3, Short DEF TextsMade
<1>3. Working => IsText(units)
  <2> SUFFICES ASSUME Working PROVE IsText(units)
    OBVIOUS
  <2> QED
    BY <1>2, FirstUnits DEF TextsMade, Working, units
<1>4. LoopStarts
    BY <1>1, <1>3 DEF LoopStarts, IsText
<1>5. KeptPromises
    BY <1>1, PromisedOfNothing DEF KeptPromises
<1>6. TransformsDeliver
    BY <1>1 DEF TransformsDeliver
<1> QED
    BY <1>2, <1>4, <1>5, <1>6 DEF TextIInv

(* One turn of a loop keeps the invariant, moves on and stays in the text. *)
LEMMA TakeKeeps ==
    ASSUME TextIInv, Take
    PROVE  TextIInv' /\ at' \in at + 1 .. Len(units) + 1
<1>1. /\ Working /\ at <= Len(units)
      /\ input' = input /\ waiting' = waiting /\ passes' = passes /\ done' = done
    BY DEF Take
<1> DEFINE w == Written(transform, units, at)
<1>2. out' = out \o w.out /\ at' = at + w.taken
    BY DEF Take
<1>3. spaced' = (transform = "compressWhitespace" /\ units[at] \in AsciiSpace)
    BY DEF Take, Blank
<1>4. IsText(units) /\ Len(units) \in Nat
    BY <1>1, FirstUnits DEF TextIInv, TextsMade, Working, units
<1>5. at \in Nat \ {0}
    BY DEF TextIInv, LoopStarts
<1>6. at \in 1 .. Len(units)
    BY <1>1, <1>4, <1>5
<1>7. IsText(w.out) /\ w.taken \in 1 .. Len(units) + 1 - at
    BY <1>4, <1>6, TurnFits DEF Fits
<1>8. Working' /\ units' = units /\ transform' = transform
    BY <1>1 DEF Working, units, transform
<1>9. Promised(transform, out)
      /\ (transform = "compressWhitespace" /\ ~spaced => out = << >> \/ out[Len(out)] # Space)
    BY <1>1 DEF TextIInv, KeptPromises
<1>10. IsText(out)
    BY DEF TextIInv, TextsMade
<1>11. Promised(transform, out')
       /\ (transform = "compressWhitespace" /\ units[at] \notin AsciiSpace
                => out'[Len(out')] # Space)
  <2> DEFINE q == out \o w.out
  <2>1. Promised(transform, q)
        /\ (transform = "compressWhitespace" /\ units[at] \notin AsciiSpace => q[Len(q)] # Space)
    BY <1>4, <1>6, <1>9, <1>10, TurnDelivers
  <2>2. out' = q
    BY <1>2
  <2> HIDE DEF q
  <2> QED
    BY <2>1, <2>2
<1>12. IsText(out')
    BY <1>2, <1>7, <1>10, TwoTexts
<1> HIDE DEF w
<1>13. at' \in at + 1 .. Len(units) + 1
    BY <1>2, <1>4, <1>6, <1>7
<1>14. TextsMade'
  <2>1. spaced' \in BOOLEAN
    BY <1>3
  <2> QED
    BY <1>1, <1>12, <2>1 DEF TextIInv, TextsMade
<1>15. LoopStarts'
    BY <1>4, <1>6, <1>8, <1>13 DEF LoopStarts
<1>16. KeptPromises'
  <2>1. transform' = "compressWhitespace" /\ ~spaced' => out' = << >> \/ out'[Len(out')] # Space
    BY <1>3, <1>8, <1>11
  <2> QED
    BY <1>1, <1>8, <1>11, <2>1 DEF TextIInv, KeptPromises
<1>17. TransformsDeliver'
    BY <1>1 DEF TextIInv, TransformsDeliver
<1> QED
    BY <1>13, <1>14, <1>15, <1>16, <1>17 DEF TextIInv

(* The next transform gets the text this one made, as it promised it. *)
LEMMA NextTransformKeeps ==
    ASSUME TextIInv, NextTransform
    PROVE  TextIInv'
<1>1. /\ Working
      /\ input' = input /\ done' = done
      /\ waiting' = <<out>> \o Tail(waiting) /\ passes' = passes + 1
      /\ at' = 1 /\ out' = << >> /\ spaced' = FALSE
    BY DEF NextTransform
<1>2. /\ IsText(waiting) /\ \A k \in 1 .. Len(waiting) : IsText(waiting[k])
      /\ IsText(out) /\ IsText(done) /\ input \in Inputs /\ passes \in 0 .. Len(Passes(input))
    BY DEF TextIInv, TextsMade
<1>3. waiting # << >> /\ passes < Len(Passes(input))
    BY <1>1 DEF Working
<1>4. /\ IsText(waiting') /\ waiting'[1] = out
      /\ \A k \in 1 .. Len(waiting') : IsText(waiting'[k])
  <2> DEFINE rest == Tail(waiting)
             more == <<out>> \o rest
  <2>1. /\ IsText(rest) /\ Len(rest) = Len(waiting) - 1 /\ Len(waiting) \in Nat
        /\ \A i \in 1 .. Len(rest) : rest[i] = waiting[i + 1]
    BY <1>2, <1>3, Rest DEF IsText
  <2> HIDE DEF rest
  <2>2. \A i \in 1 .. Len(rest) : IsText(rest[i])
    BY <1>2, <2>1
  <2>3. IsText(more) /\ Len(more) = 1 + Len(rest) /\ more[1] = out
        /\ \A i \in 1 .. Len(rest) : more[1 + i] = rest[i]
    BY <2>1, TwoTexts, Short
  <2> HIDE DEF more
  <2>4. ASSUME NEW k \in 1 .. Len(more)
        PROVE  IsText(more[k])
    <3>1. k = 1 \/ (k - 1 \in 1 .. Len(rest) /\ k = 1 + (k - 1))
        BY <2>1, <2>3
    <3> QED
        BY <1>2, <2>2, <2>3, <3>1
  <2> QED
    BY <1>1, <2>3, <2>4 DEF more, rest
<1>5. Len(Passes(input)) \in Nat
    BY <1>2, InputTyped
<1>6. TextsMade'
  <2>1. passes' \in 0 .. Len(Passes(input))
    BY <1>1, <1>2, <1>3, <1>5
  <2>2. spaced' \in BOOLEAN
    BY <1>1
  <2> QED
    BY <1>1, <1>2, <1>4, <2>1, <2>2, Short DEF TextsMade
<1>7. LoopStarts'
  <2>1. Working' => Len(units') \in Nat
    BY <1>6, FirstUnits DEF TextsMade, Working, units
  <2> QED
    BY <1>1, <2>1 DEF LoopStarts
<1>8. KeptPromises'
  <2>1. Promised(Passes(input)[passes + 1], out)
    BY <1>1 DEF TextIInv, KeptPromises, transform
  <2>2. Promised(transform', out')
    BY <1>1, PromisedOfNothing
  <2> QED
    BY <1>1, <1>4, <2>1, <2>2 DEF KeptPromises
<1>9. TransformsDeliver'
    BY <1>1 DEF TextIInv, TransformsDeliver
<1> QED
    BY <1>6, <1>7, <1>8, <1>9 DEF TextIInv

(* A value that has gone through all transforms is as the last promised. *)
LEMMA NextValueKeeps ==
    ASSUME TextIInv, NextValue
    PROVE  TextIInv'
<1>1. /\ waiting # << >> /\ ~Working
      /\ input' = input /\ at' = at /\ spaced' = spaced /\ out' = out
      /\ done' = Append(done, Head(waiting)) /\ waiting' = Tail(waiting) /\ passes' = 0
    BY DEF NextValue
<1>2. /\ IsText(waiting) /\ \A k \in 1 .. Len(waiting) : IsText(waiting[k])
      /\ IsText(out) /\ IsText(done) /\ input \in Inputs /\ passes \in 0 .. Len(Passes(input))
      /\ spaced \in BOOLEAN
    BY DEF TextIInv, TextsMade
<1>3. /\ at = 1 /\ out = << >> /\ spaced = FALSE
    BY <1>1 DEF TextIInv, LoopStarts
<1>4. /\ Head(waiting) = waiting[1]
      /\ IsText(waiting') /\ \A k \in 1 .. Len(waiting') : IsText(waiting'[k])
  <2> DEFINE rest == Tail(waiting)
  <2>1. /\ IsText(rest) /\ Len(rest) = Len(waiting) - 1 /\ Len(waiting) \in Nat
        /\ \A i \in 1 .. Len(rest) : rest[i] = waiting[i + 1]
        /\ Head(waiting) = waiting[1]
    BY <1>1, <1>2, Rest DEF IsText
  <2> HIDE DEF rest
  <2>2. \A i \in 1 .. Len(rest) : IsText(rest[i])
    BY <1>2, <2>1
  <2> QED
    BY <1>1, <2>1, <2>2 DEF rest
<1>5. /\ IsText(done') /\ Len(done') = Len(done) + 1 /\ Len(done) \in Nat
      /\ \A k \in 1 .. Len(done) : done'[k] = done[k]
      /\ done'[Len(done) + 1] = waiting[1]
  <2> DEFINE one == Head(waiting)
             more == Append(done, one)
             count == Len(done)
  <2>0. Len(done) \in Nat /\ done = [i \in 1 .. Len(done) |-> done[i]]
    BY <1>2 DEF IsText
  <2>1. count \in Nat /\ done = [i \in 1 .. count |-> done[i]]
    BY <2>0
  <2> HIDE DEF one, count
  <2>2. more = done \o <<one>>
    BY <2>1, OneLonger
  <2>3. IsText(more) /\ Len(more) = Len(done) + 1
    BY <1>2, <2>2, TwoTexts, Short
  <2>4. done' = more /\ one = waiting[1]
    BY <1>1, <1>4 DEF one
  <2>5. Len(done) + 1 \in Nat /\ \A k \in 1 .. Len(done) : more[k] = done[k]
    BY <2>0
  <2>6. more[Len(done) + 1] = one
    BY <2>0
  <2> HIDE DEF more
  <2> QED
    BY <2>0, <2>3, <2>4, <2>5, <2>6
<1>6. Len(Passes(input)) \in Nat /\ IsText(Passes(input))
    BY <1>2, InputTyped
<1>7. TextsMade'
  <2>1. passes' \in 0 .. Len(Passes(input))
    BY <1>1, <1>6
  <2> QED
    BY <1>1, <1>2, <1>4, <1>5, <2>1 DEF TextsMade
<1>8. LoopStarts'
  <2>1. Working' => Len(units') \in Nat
    BY <1>7, FirstUnits DEF TextsMade, Working, units
  <2> QED
    BY <1>1, <1>3, <2>1 DEF LoopStarts
<1>9. KeptPromises'
    BY <1>1, <1>3, PromisedOfNothing DEF KeptPromises
<1>10. TransformsDeliver'
  <2> SUFFICES ASSUME Passes(input) # << >>, NEW k \in DOMAIN done'
               PROVE  Promised(Last(Passes(input)), done'[k])
    BY <1>1 DEF TransformsDeliver
  <2>1. passes = Len(Passes(input)) /\ passes # 0
    BY <1>1, <1>2, <1>6 DEF Working
  <2>2. Promised(Last(Passes(input)), waiting[1])
    BY <1>1, <2>1 DEF TextIInv, KeptPromises, Last
  <2>3. k \in 1 .. Len(done) \/ k = Len(done) + 1
    BY <1>5 DEF IsText
  <2>4. k \in 1 .. Len(done) => Promised(Last(Passes(input)), done[k])
    BY <1>2 DEF TextIInv, TransformsDeliver, IsText
  <2> QED
    BY <1>5, <2>2, <2>3, <2>4
<1> QED
    BY <1>7, <1>8, <1>9, <1>10 DEF TextIInv

(* The invariant behind the others holds always. *)
THEOREM TextInvariance == TextSpec => []TextIInv
<1>1. TextIInv /\ [TextNext]_textVars => TextIInv'
  <2>1. TextIInv /\ UNCHANGED textVars => TextIInv'
    BY DEF textVars, TextIInv, TextsMade, LoopStarts, KeptPromises, TransformsDeliver,
           Working, transform, units
  <2> QED
    BY <2>1, TakeKeeps, NextTransformKeeps, NextValueKeeps DEF TextNext
<1> QED
    BY <1>1, TextInitInv, PTL DEF TextSpec

(* An operator is given no value with what the last transform of its       *)
(* condition takes out: blanks (in a row, or at all), nuls or capitals,    *)
(* whatever the transforms before it made.  Of decoders it says nothing.   *)
THEOREM TransformsDeliverAlways == TextSpec => []TransformsDeliver
<1>1. TextIInv => TransformsDeliver
    BY DEF TextIInv
<1> QED
    BY <1>1, TextInvariance, PTL

(* Each turn of each transform moves on and stays within the text, for any *)
(* text and any escape in it.                                              *)
THEOREM TextAdvances == TextSpec => AdvancesInText
<1>1. TextIInv /\ [TextNext]_textVars => [Take => at' \in at + 1 .. Len(units) + 1]_textVars
    BY TakeKeeps
<1> QED
    BY <1>1, TextInvariance, PTL DEF TextSpec, AdvancesInText

----------------------------------------------------------------------------
(* The lines of a file: CrsParser *)

(* A stretch of the first of two texts, and the whole of the second *)
LEMMA StretchOfTwo ==
    ASSUME NEW s, IsText(s), NEW t, IsText(t)
    PROVE  /\ \A i, j \in Nat : 1 <= i /\ j <= Len(s) => SubSeq(s \o t, i, j) = SubSeq(s, i, j)
           /\ SubSeq(s \o t, Len(s) + 1, Len(s) + Len(t)) = t
<1> DEFINE T == {s[i] : i \in 1 .. Len(s)} \cup {t[i] : i \in 1 .. Len(t)}
<1>1. s \in [1 .. Len(s) -> T] /\ t \in [1 .. Len(t) -> T] /\ Len(s) \in Nat /\ Len(t) \in Nat
    BY DEF IsText
<1> HIDE DEF T
<1>2. s \in Seq(T) /\ t \in Seq(T)
    BY <1>1
<1>3. ASSUME NEW i \in Nat, NEW j \in Nat, 1 <= i, j <= Len(s)
      PROVE  SubSeq(s \o t, i, j) = SubSeq(s, i, j)
    BY <1>2, <1>3
<1>4. SubSeq(s \o t, Len(s) + 1, Len(s) + Len(t)) = t
    BY <1>2
<1> QED
    BY <1>3, <1>4

(* Where the logical lines of a text end *)
EndsOf(physical) ==
    {k \in DOMAIN physical : ~Continued(physical[k])} \cup {Len(physical)}

(* The physical lines of a directive: one logical line, as it has its      *)
(* continuations within itself.                                            *)
IsRun(run) == IsText(run) /\ run # << >> /\ \A k \in 1 .. Len(run) - 1 : Continued(run[k])

(* Lines of which the last is complete, and those of a directive behind    *)
(* them: one logical line more.                                            *)
LEMMA OneRunMore ==
    ASSUME NEW physical, IsText(physical), NEW run, IsRun(run), NEW c \in Nat,
           c = 0 => physical = << >>,
           c # 0 => /\ physical # << >> /\ ~Continued(physical[Len(physical)])
                    /\ Cardinality(EndsOf(physical)) = c
                    /\ Ascending(EndsOf(physical))[c] = Len(physical)
    PROVE  LET both == physical \o run
           IN  /\ both # << >> /\ Cardinality(EndsOf(both)) = c + 1
               /\ Ascending(EndsOf(both))[c + 1] = Len(both)
               /\ LogicalLines(both) =
                    [k \in 1 .. c + 1 |-> IF k = c + 1 THEN Joined(run) ELSE LogicalLines(physical)[k]]
<1> DEFINE both == physical \o run
           S == IF c = 0 THEN {} ELSE EndsOf(physical)
           x == Len(both)
           E == Ascending(EndsOf(both))
           A == Ascending(S)
<1>1. /\ IsText(run) /\ Len(run) \in Nat /\ Len(run) >= 1 /\ DOMAIN run = 1 .. Len(run)
      /\ Len(physical) \in Nat /\ DOMAIN physical = 1 .. Len(physical)
    BY Rest DEF IsRun, IsText
<1>2. /\ IsText(both) /\ Len(both) = Len(physical) + Len(run)
      /\ \A i \in 1 .. Len(physical) : both[i] = physical[i]
      /\ \A i \in 1 .. Len(run) : both[Len(physical) + i] = run[i]
    BY <1>1, TwoTexts
<1>3. /\ \A i, j \in Nat : 1 <= i /\ j <= Len(physical) => SubSeq(both, i, j) = SubSeq(physical, i, j)
      /\ SubSeq(both, Len(physical) + 1, Len(physical) + Len(run)) = run
  <2>1. IsText(run)
    BY <1>1
  <2> HIDE DEF S, x, E, A
  <2> QED
    BY <2>1, StretchOfTwo
<1>4. DOMAIN both = 1 .. Len(both)
    BY <1>2 DEF IsText
<1>5. c = 0 => Len(physical) = 0
    BY Short
<1> HIDE DEF both
<1>6. S \subseteq 1 .. Len(physical) /\ \A k \in 1 .. Len(physical) : k \in S <=> ~Continued(physical[k])
  <2>1. CASE c = 0
    BY <1>5, <2>1
  <2>2. CASE c # 0
    <3>1. Len(physical) \in 1 .. Len(physical) /\ ~Continued(physical[Len(physical)])
        BY <1>1, <2>2, Rest
    <3>2. S = {k \in 1 .. Len(physical) : ~Continued(physical[k])} \cup {Len(physical)}
        BY <1>1, <2>2 DEF EndsOf
    <3> HIDE DEF S
    <3> QED
        BY <3>1, <3>2
  <2> QED
    BY <2>1, <2>2
<1>7. EndsOf(both) = S \cup {x}
  <2>1. ASSUME NEW k \in 1 .. Len(both), k # Len(both)
        PROVE  ~Continued(both[k]) <=> k \in S
    <3>1. CASE k <= Len(physical)
        BY <1>1, <1>2, <1>6, <3>1
    <3>2. CASE k > Len(physical)
      <4>1. k - Len(physical) \in 1 .. Len(run) - 1 /\ k = Len(physical) + (k - Len(physical))
        BY <1>1, <1>2, <2>1, <3>2
      <4>2. both[k] = run[k - Len(physical)] /\ Continued(run[k - Len(physical)])
        BY <1>1, <1>2, <4>1 DEF IsRun
      <4>3. k \notin S
        BY <1>1, <1>6, <3>2
      <4> QED
        BY <4>2, <4>3
    <3> QED
        BY <1>1, <3>1, <3>2
  <2>2. S \subseteq 1 .. Len(both)
    BY <1>1, <1>2, <1>6
  <2> HIDE DEF S
  <2> QED
    BY <1>4, <2>1, <2>2 DEF EndsOf
<1>8. S \in SUBSET Nat /\ S \in SUBSET (0 .. Len(physical)) /\ x \in Nat /\ \A k \in S : k < x
    BY <1>1, <1>2, <1>6
<1>9. Cardinality(S) = c
    BY AscendingEmpty
<1> HIDE DEF S, x
<1>10. Cardinality(EndsOf(both)) = c + 1
    BY <1>7, <1>8, <1>9, OneMore
<1>11. E = [i \in 1 .. c + 1 |-> IF i = c + 1 THEN x ELSE A[i]]
    BY <1>7, <1>8, <1>9, AscendingNext
<1>12. \A i \in 1 .. c : A[i] \in 1 .. Len(physical)
    BY <1>1, <1>6, <1>8, <1>9, AscendingIn
<1>13. both # << >>
    BY <1>1, <1>2, Short
<1> DEFINE Run(k) == Joined(SubSeq(both, IF k = 1 THEN 1 ELSE E[k - 1] + 1, E[k]))
<1>14. LogicalLines(both) = [k \in 1 .. c + 1 |-> Run(k)]
  <2>1. DOMAIN E = 1 .. c + 1
    BY <1>11
  <2>2. LogicalLines(both) = [k \in DOMAIN E |-> Run(k)]
    BY <1>13, Zenon DEF LogicalLines, EndsOf
  <2> HIDE DEF E, Run
  <2> QED
    BY <2>1, <2>2
<1>15. Run(c + 1) = Joined(run)
  <2>1. (IF c + 1 = 1 THEN 1 ELSE E[(c + 1) - 1] + 1) = Len(physical) + 1
    <3>1. CASE c = 0
        BY <1>1, <1>5, <3>1
    <3>2. CASE c # 0
      <4>1. c + 1 # 1 /\ (c + 1) - 1 = c /\ c \in 1 .. c + 1 /\ c # c + 1
        BY <3>2
      <4>2. E[c] = A[c]
        BY <1>11, <4>1
      <4>3. A[c] = Len(physical)
        BY <3>2 DEF S
      <4> QED
        BY <4>1, <4>2, <4>3
    <3> QED
        BY <3>1, <3>2
  <2>2. E[c + 1] = Len(physical) + Len(run)
    BY <1>2, <1>11 DEF x
  <2> HIDE DEF E
  <2> QED
    BY <1>3, <2>1, <2>2
<1>16. ASSUME NEW k \in 1 .. c
       PROVE  Run(k) = LogicalLines(physical)[k]
  <2>1. c # 0 /\ physical # << >> /\ S = EndsOf(physical)
    BY DEF S
  <2> DEFINE from == IF k = 1 THEN 1 ELSE A[k - 1] + 1
  <2>2. LogicalLines(physical)[k] = Joined(SubSeq(physical, from, A[k]))
    <3>1. DOMAIN A = 1 .. c
        BY <1>9 DEF Ascending
    <3>2. LogicalLines(physical) =
            [i \in DOMAIN A |-> Joined(SubSeq(physical, IF i = 1 THEN 1 ELSE A[i - 1] + 1, A[i]))]
        BY <2>1, Zenon DEF LogicalLines, EndsOf
    <3> HIDE DEF A
    <3> QED
        BY <3>1, <3>2
  <2>3. k \in 1 .. c + 1 /\ k # c + 1 /\ (k # 1 => k - 1 \in 1 .. c /\ k - 1 \in 1 .. c + 1 /\ k - 1 # c + 1)
    OBVIOUS
  <2>4. E[k] = A[k] /\ (k # 1 => E[k - 1] = A[k - 1])
    BY <1>11, <2>3
  <2>5. A[k] \in Nat /\ A[k] <= Len(physical) /\ from \in Nat /\ 1 <= from
    <3>1. k # 1 => A[k - 1] \in 1 .. Len(physical)
        BY <1>12, <2>3
    <3>2. A[k] \in 1 .. Len(physical)
        BY <1>12
    <3> HIDE DEF A
    <3> QED
        BY <1>1, <3>1, <3>2
  <2>6. Run(k) = Joined(SubSeq(both, from, A[k]))
    BY <2>4, Zenon
  <2> HIDE DEF from, A, E, Run
  <2>7. SubSeq(both, from, A[k]) = SubSeq(physical, from, A[k])
    BY <1>3, <2>5
  <2> QED
    BY <2>2, <2>6, <2>7
<1>17. E[c + 1] = Len(both)
    BY <1>11 DEF x
<1> HIDE DEF E, Run
<1>18. LogicalLines(both) =
        [k \in 1 .. c + 1 |-> IF k = c + 1 THEN Joined(run) ELSE LogicalLines(physical)[k]]
  <2>1. \A k \in 1 .. c + 1 : Run(k) = IF k = c + 1 THEN Joined(run) ELSE LogicalLines(physical)[k]
    <3> TAKE k \in 1 .. c + 1
    <3>1. k = c + 1 \/ k \in 1 .. c
        OBVIOUS
    <3>2. k \in 1 .. c => k # c + 1
        OBVIOUS
    <3> QED
        BY <1>15, <1>16, <3>1, <3>2
  <2> QED
    BY <1>14, <2>1
<1> QED
    BY <1>10, <1>13, <1>17, <1>18 DEF both, E

(* A file of whole directives: of the lines of each all but the last are   *)
(* continued, and the last is not, unless the file ends with it.           *)
Whole(f) ==
    \A d \in DOMAIN f : /\ IsRun(f[d].lines)
                        /\ d < Len(f) => ~Continued(f[d].lines[Len(f[d].lines)])

AllWhole ==
    \A fs \in Sources : \A k \in DOMAIN fs : fs[k] # Unreadable => Whole(fs[k])

(* Each directive, joined to one line, reads as it is written. *)
AllRead ==
    \A fs \in Sources : \A k \in DOMAIN fs : fs[k] # Unreadable =>
        \A d \in DOMAIN fs[k] : ReadsAs(Joined(fs[k][d].lines), fs[k][d])

(* Physical lines that are those of the first c directives *)
AreOf(physical, f, c) ==
    /\ IsText(physical)
    /\ c = 0 => physical = << >>
    /\ c # 0 => /\ physical # << >>
                /\ c < Len(f) => ~Continued(physical[Len(physical)])
                /\ Cardinality(EndsOf(physical)) = c
                /\ Ascending(EndsOf(physical))[c] = Len(physical)
    /\ LogicalLines(physical) = [d \in 1 .. c |-> Joined(f[d].lines)]

(* The lines of the next directive are one logical line more. *)
LEMMA OneDirectiveMore ==
    ASSUME NEW f, IsSequence(f), Whole(f),
           NEW c \in Nat, c < Len(f), NEW physical, AreOf(physical, f, c)
    PROVE  AreOf(physical \o f[c + 1].lines, f, c + 1)
<1> DEFINE run == f[c + 1].lines
           both == physical \o run
<1>1. Len(f) \in Nat /\ c + 1 \in DOMAIN f
    BY DEF IsSequence
<1>2. IsRun(run) /\ (c + 1 < Len(f) => ~Continued(run[Len(run)]))
    BY <1>1 DEF Whole
<1> HIDE DEF run
<1>3. IsText(physical) /\ IsText(run) /\ run # << >>
    BY <1>2 DEF AreOf, IsRun
<1>4. /\ both # << >> /\ Cardinality(EndsOf(both)) = c + 1
      /\ Ascending(EndsOf(both))[c + 1] = Len(both)
      /\ LogicalLines(both) =
            [k \in 1 .. c + 1 |-> IF k = c + 1 THEN Joined(run) ELSE LogicalLines(physical)[k]]
    BY <1>2, <1>3, OneRunMore DEF AreOf
<1>5. LogicalLines(both) = [d \in 1 .. c + 1 |-> Joined(f[d].lines)]
  <2>1. LogicalLines(physical) = [d \in 1 .. c |-> Joined(f[d].lines)]
    BY DEF AreOf
  <2>2. ASSUME NEW k \in 1 .. c + 1
        PROVE  (IF k = c + 1 THEN Joined(run) ELSE LogicalLines(physical)[k]) = Joined(f[k].lines)
    <3>1. CASE k = c + 1
        BY <3>1 DEF run
    <3>2. CASE k # c + 1
      <4>1. k \in 1 .. c
        BY <3>2
      <4> QED
        BY <2>1, <3>2, <4>1
    <3> QED
        BY <3>1, <3>2
  <2> HIDE DEF both
  <2> QED
    BY <1>4, <2>2
<1>6. IsText(both) /\ both[Len(both)] = run[Len(run)]
  <2>1. Len(run) \in Nat /\ Len(run) >= 1
    BY <1>3, Rest DEF IsText
  <2> QED
    BY <1>3, <2>1, TwoTexts
<1>7. c + 1 # 0
    OBVIOUS
<1> HIDE DEF both
<1>8. AreOf(both, f, c + 1)
    BY <1>2, <1>4, <1>5, <1>6, <1>7 DEF AreOf
<1> QED
    BY <1>8 DEF both, run

(* The logical lines of a file are those of its directives, however many   *)
(* physical lines each takes.                                              *)
LEMMA LinesOfFile ==
    ASSUME NEW f, IsSequence(f), Whole(f)
    PROVE  LogicalLines(Physical(f)) = [d \in 1 .. Len(f) |-> Joined(f[d].lines)]
<1> DEFINE runs == [d \in 1 .. Len(f) |-> f[d].lines]
<1>1. Len(f) \in Nat /\ DOMAIN f = 1 .. Len(f)
    BY DEF IsSequence
<1>2. Physical(f) = FlattenSeq(runs)
    BY <1>1 DEF Physical
<1>3. Len(runs) = Len(f) /\ IsText(runs)
  <2> DEFINE R(d) == f[d].lines
             T == {R(d) : d \in 1 .. Len(f)}
  <2> HIDE DEF R
  <2>1. [d \in 1 .. Len(f) |-> R(d)] \in [1 .. Len(f) -> T]
    OBVIOUS
  <2> HIDE DEF T
  <2>2. Len([d \in 1 .. Len(f) |-> R(d)]) = Len(f)
    BY <1>1, <2>1
  <2>3. Len(runs) = Len(f)
    BY <2>2 DEF R
  <2> QED
    BY <1>1, <2>3 DEF IsText
<1>4. AreOf(<< >>, f, 0)
  <2>1. LogicalLines(<< >>) = << >>
    BY DEF LogicalLines
  <2>2. [d \in 1 .. 0 |-> Joined(f[d].lines)] = << >>
    OBVIOUS
  <2> QED
    BY <2>1, <2>2, Short DEF AreOf
<1>5. CASE Len(f) = 0
  <2>1. runs = << >>
    BY <1>5
  <2>2. FlattenSeq(runs) = << >>
    BY <2>1 DEF FlattenSeq
  <2> HIDE DEF runs
  <2> QED
    BY <1>2, <1>4, <1>5, <2>2 DEF AreOf
<1>6. CASE Len(f) # 0
  <2>1. runs # << >> /\ \A i \in 1 .. Len(f) : runs[i] = f[i].lines
    BY <1>3, <1>6, Short
  <2> HIDE DEF runs
  <2>2. PICK flat : /\ FlattenSeq(runs) = flat[Len(f)]
                    /\ \A i \in 1 .. Len(f) :
                            flat[i] = IF i = 1 THEN runs[i] ELSE flat[i - 1] \o runs[i]
    BY <1>3, <2>1, FlatSteps
  <2> DEFINE S == {m \in Nat : m < Len(f) => AreOf(flat[m + 1], f, m + 1)}
  <2>3. 0 \in S
    <3>1. 1 \in 1 .. Len(f) /\ 0 < Len(f)
        BY <1>1, <1>6
    <3>2. AreOf(<< >> \o f[0 + 1].lines, f, 0 + 1)
        BY <1>4, <3>1, OneDirectiveMore
    <3>3. << >> \o f[1].lines = f[1].lines
      <4>1. IsText(f[1].lines)
        BY <1>1, <3>1 DEF Whole, IsRun
      <4> QED
        BY <4>1, TwoTexts
    <3>4. flat[1] = f[1].lines
        BY <2>1, <2>2, <3>1
    <3> QED
        BY <3>2, <3>3, <3>4
  <2>4. ASSUME NEW m \in Nat, m \in S
        PROVE  m + 1 \in S
    <3> SUFFICES ASSUME m + 1 < Len(f)
                 PROVE  AreOf(flat[(m + 1) + 1], f, (m + 1) + 1)
        OBVIOUS
    <3>1. m < Len(f) /\ (m + 1) + 1 \in 1 .. Len(f) /\ (m + 1) + 1 # 1 /\ ((m + 1) + 1) - 1 = m + 1
          /\ m + 1 \in Nat
        BY <1>1
    <3>2. AreOf(flat[m + 1], f, m + 1)
        BY <2>4, <3>1
    <3>3. flat[(m + 1) + 1] = flat[m + 1] \o f[(m + 1) + 1].lines
      <4>1. flat[(m + 1) + 1] = flat[((m + 1) + 1) - 1] \o runs[(m + 1) + 1]
        BY <2>2, <3>1
      <4> QED
        BY <2>1, <3>1, <4>1
    <3> HIDE DEF S
    <3> QED
        BY <3>1, <3>2, <3>3, OneDirectiveMore
  <2> HIDE DEF S
  <2>5. Len(f) - 1 \in S
    <3>1. Len(f) - 1 \in Nat
        BY <1>1, <1>6
    <3> QED
        BY <2>3, <2>4, <3>1, UpFromZero
  <2>6. AreOf(flat[Len(f)], f, Len(f))
    <3>1. (Len(f) - 1) + 1 = Len(f) /\ Len(f) - 1 < Len(f)
        BY <1>1
    <3> QED
        BY <2>5, <3>1 DEF S
  <2> QED
    BY <1>2, <2>2, <2>6 DEF AreOf
<1> QED
    BY <1>5, <1>6

(* What is read of a file is its logical lines. *)
LinesIInv ==
    /\ files \in Sources
    /\ lines # Absent => /\ file \in DOMAIN files /\ files[file] # Unreadable
                         /\ lines = LogicalLines(Physical(files[file]))

(* What is read of a file stays its logical lines. *)
LEMMA LinesInvariance == ParserSpec => []LinesIInv
<1>1. ParserInit => LinesIInv
    BY DEF ParserInit, LinesIInv
<1>2. LinesIInv /\ [ParserNext]_parserVars => LinesIInv'
  <2> SUFFICES ASSUME LinesIInv, [ParserNext]_parserVars PROVE LinesIInv'
    OBVIOUS
  <2>1. CASE Looking
    BY <2>1 DEF LinesIInv, Looking
  <2>2. CASE OpenFile
    BY <2>2 DEF LinesIInv, OpenFile
  <2>3. CASE FileMissing \/ EndOfFile
    BY <2>3 DEF LinesIInv, FileMissing, EndOfFile
  <2>4. CASE UNCHANGED parserVars
    BY <2>4 DEF LinesIInv, parserVars
  <2> QED
    BY <2>1, <2>2, <2>3, <2>4 DEF ParserNext, Ignored, AtMarker, RuleAlone, OpensChain, Links,
       ClosesChain, OtherDirective, AtRule
<1> QED
    BY <1>1, <1>2, PTL DEF ParserSpec

(* What parse_str goes through: one line for each directive *)
LinesAreJoined ==
    lines # Absent =>
        lines = [d \in 1 .. Len(files[file]) |-> Joined(files[file][d].lines)]

(* join_continuations makes one line of each directive, for any number of  *)
(* directives of any number of lines, whatever the others are and however  *)
(* their lines are broken.                                                 *)
THEOREM LinesAreJoinedHolds ==
    ASSUME AllWhole
    PROVE  ParserSpec => []LinesAreJoined
<1>1. LinesIInv => LinesAreJoined
  <2> SUFFICES ASSUME LinesIInv, lines # Absent
               PROVE  lines = [d \in 1 .. Len(files[file]) |-> Joined(files[file][d].lines)]
    BY DEF LinesAreJoined
  <2>1. /\ files \in Sources /\ file \in DOMAIN files /\ files[file] # Unreadable
        /\ lines = LogicalLines(Physical(files[file]))
    BY DEF LinesIInv
  <2>2. Whole(files[file])
    BY <2>1 DEF AllWhole
  <2>3. IsSequence(files[file])
    BY <2>1, ParserAssumption
  <2> QED
    BY <2>1, <2>2, <2>3, LinesOfFile
<1> QED
    BY <1>1, LinesInvariance, PTL

(* If each directive reads as it is written once its lines are joined, so  *)
(* does each line that parse_str comes to.                                 *)
LEMMA JoinedLinesAreRead ==
    ASSUME AllWhole, AllRead
    PROVE  ParserSpec => []LinesAreRead
<1>1. LinesIInv /\ LinesAreJoined => LinesAreRead
  <2> SUFFICES ASSUME LinesIInv, LinesAreJoined, lines # Absent
               PROVE  /\ DOMAIN lines = DOMAIN files[file]
                      /\ n \in DOMAIN lines => ReadsAs(line, files[file][n])
    BY DEF LinesAreRead
  <2>1. /\ files \in Sources /\ file \in DOMAIN files /\ files[file] # Unreadable
        /\ lines = [d \in 1 .. Len(files[file]) |-> Joined(files[file][d].lines)]
    BY DEF LinesIInv, LinesAreJoined
  <2>2. IsSequence(files[file])
    BY <2>1, ParserAssumption
  <2>3. DOMAIN lines = DOMAIN files[file]
    BY <2>1, <2>2 DEF IsSequence
  <2>4. ASSUME n \in DOMAIN lines
        PROVE  ReadsAs(line, files[file][n])
    <3>1. line = Joined(files[file][n].lines)
        BY <2>1, <2>4 DEF line
    <3>2. ReadsAs(Joined(files[file][n].lines), files[file][n])
        BY <2>1, <2>3, <2>4 DEF AllRead
    <3> QED
        BY <3>1, <3>2
  <2> QED
    BY <2>3, <2>4
<1> QED
    BY <1>1, LinesInvariance, LinesAreJoinedHolds, PTL

(* For any number of files whose directives each read as they are written, *)
(* which is assumed here of the lines of each on its own: the build embeds *)
(* what RulesAsWritten says, the files in their order, each rule that goes *)
(* on with the rules behind it for links, wherever markers, comments,      *)
(* broken lines and other directives stand.                                *)
THEOREM RulesAsWrittenHolds ==
    ASSUME AllWhole, AllRead
    PROVE  ParserSpec => []RulesAsWritten
<1>1. ParserSpec => []LinesAreRead
    BY JoinedLinesAreRead
<1> QED
    BY <1>1, RulesOfReadLines, PTL
============================================================================
