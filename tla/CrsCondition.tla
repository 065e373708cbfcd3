--------------------------- MODULE CrsCondition ---------------------------
(***************************************************************************)
(* One condition of a CRS rule against one request: what the parser makes  *)
(* of its text (parse_variable and parse_operator of crs-parser), the      *)
(* values its variables have in the request (resolve_variables of          *)
(* crs-engine/src/engine.rs) and the test of each (operators::matches).    *)
(*                                                                         *)
(* A string is a value.  What matters of it is the number it reads as, if  *)
(* it does, the words in it, and which patterns match it: constants.       *)
(* The case of a variable's name and of a header's does not count: names   *)
(* are in upper case here, headers and selectors in lower case, as the     *)
(* gateway gives them.  The argument of within and of validateByteRange is *)
(* the set of values it admits.                                            *)
(***************************************************************************)
EXTENDS Integers, Sequences

CONSTANTS
    Conditions,     \* conditions as they are written
    Requests,       \* requests, as the rules see them
    Empty,          \* the empty string
    None,           \* the absent value of every Option
    NumberOf,       \* parse_i64 of each value, or None
    WordsOf,        \* the words each value contains, whatever the case
    TextHits,       \* pairs of a text operator and a value it matches; one
                    \* with a pattern that does not compile is in no pair
    PhrasesOf,      \* the phrases in each data file of the CRS
    Transformed,    \* what the condition's transforms make of each value
    CookiesIn,      \* for each variable of cookies, what it finds in a
                    \* cookie header of each value
    HeaderCalled    \* the name of the header that an unknown variable, of
                    \* some name and selector, is taken for

Value == DOMAIN NumberOf

(* Variables that stand for a set of strings of the request *)
Plain == {"ARGS", "ARGS_NAMES", "REQUEST_FILENAME", "REQUEST_METHOD", "REQUEST_URI",
          "REQUEST_BODY"}

CookieVariables == {"REQUEST_COOKIES", "REQUEST_COOKIES_NAMES"}

(* Two names of one variable *)
Alias == [raw \in {"REQUEST_URI_RAW", "REQUEST_BODY_RAW"} |->
            IF raw = "REQUEST_URI_RAW" THEN "REQUEST_URI" ELSE "REQUEST_BODY"]

ASSUME ConditionAssumption ==
    /\ Empty \in Value /\ NumberOf[Empty] = None
    /\ DOMAIN WordsOf = Value
    /\ Transformed \in [Value -> Value] /\ Transformed[Empty] = Empty
    /\ CookiesIn \in [CookieVariables -> [Value -> SUBSET Value]]
    /\ \A r \in Requests :
        /\ DOMAIN r = {"plain", "headers", "userAgent"}
        /\ r.plain \in [Plain -> SUBSET Value]
        /\ \A name \in DOMAIN r.headers : r.headers[name] \in Value
        /\ r.userAgent \in Value \cup {None}

VARIABLES
    condition,  \* the condition at hand: its variables, operator and negation
    request,    \* the RequestContext: plain variables, headers, user agent
    values,     \* values resolved and not yet tested
    result      \* how far condition_matches has come, or what it returned

vars == <<condition, request, values, result>>

TypeOK ==
    /\ values \subseteq Value
    /\ result \in {"resolving", "testing", "match", "mismatch"}

Init ==
    /\ condition \in Conditions
    /\ request \in Requests
    /\ values = {}
    /\ result = "resolving"

----------------------------------------------------------------------------
(* The parser *)

(* A variable as it is written: [!]NAME[:selector].  Whatever is not known *)
(* is taken for the name of a header, and ! is lost but on a header.       *)
VariableOf(written) ==
    LET name == IF written.name \in DOMAIN Alias THEN Alias[written.name] ELSE written.name
        bare == written.selector = None
    IN  CASE name = "REQUEST_HEADERS" /\ bare -> <<"headers">>
          [] name = "REQUEST_HEADERS" /\ ~bare ->
                <<IF written.negated THEN "exclude" ELSE "header", written.selector>>
          [] name \in Plain /\ bare -> <<"plain", name>>
          [] name \in CookieVariables /\ bare -> <<"cookies", name>>
          [] name \in {"TX", "XML"} /\ ~bare -> <<name>>
          [] OTHER -> <<"header", HeaderCalled[written.name, written.selector]>>

Variables(c) == {VariableOf(w) : w \in c.variables}

Numeric == {"lt", "le", "ge", "gt"}
Text == {"rx", "contains", "beginsWith", "endsWith"}

(* The argument of a numeric operator is 0 if it does not read as a number *)
(* (a macro, say); that of pmFromFile is the name of the file.             *)
ArgumentOf(c) == IF c.op \in Numeric /\ c.arg = None THEN 0 ELSE c.arg

----------------------------------------------------------------------------
(* resolve_variables *)

(* Mutant of Excluded: an exclusion is looked up as it is spelled. *)
ExcludedNone(vs) == {}

Excluded(vs) == {v[2] : v \in {u \in vs : u[1] = "exclude"}}

(* Transaction variables are not tracked. *)
Unset == {Empty}

ValuesOf(v, vs, r) ==
    CASE v[1] = "plain" -> r.plain[v[2]]
      [] v[1] = "cookies" ->
            UNION {CookiesIn[v[2]][r.headers[name]] : name \in DOMAIN r.headers \cap {"cookie"}}
      [] v[1] = "headers" ->
            {r.headers[name] : name \in DOMAIN r.headers \ Excluded(vs)}
      [] v[1] = "header" ->
            {r.headers[name] : name \in DOMAIN r.headers \cap {v[2]}}
                \cup IF v[2] = "user-agent" /\ r.userAgent # None
                        /\ "user-agent" \notin DOMAIN r.headers
                     THEN {r.userAgent} ELSE {}
      [] v[1] = "TX" -> Unset
      [] v[1] \in {"exclude", "XML"} -> {}

Resolve ==
    /\ result = "resolving"
    /\ values' = UNION {ValuesOf(v, Variables(condition), request) :
                            v \in Variables(condition)}
    /\ result' = "testing"
    /\ UNCHANGED <<condition, request>>

----------------------------------------------------------------------------
(* operators::matches *)

Compares(op, m, k) ==
    CASE op = "lt" -> m < k
      [] op = "le" -> m <= k
      [] op = "ge" -> m >= k
      [] op = "gt" -> m > k

(* Without the negation; the operators of libinjection and those that are  *)
(* not known match nothing.                                                *)
Hits(c, s) ==
    \/ c.op \in Numeric /\ NumberOf[s] # None /\ Compares(c.op, NumberOf[s], ArgumentOf(c))
    \/ c.op \in Text /\ <<c.arg, s>> \in TextHits
    \/ c.op = "pm" /\ c.arg \cap WordsOf[s] # {}
    \/ c.op = "pmFromFile" /\ c.arg \in WordsOf[s]
    \/ c.op = "streq" /\ s = c.arg
    \/ c.op \in {"within", "validateByteRange"} /\ s \in c.arg

Matches(c, s) == Hits(c, Transformed[s]) # c.negated

(* Values are tested in some order until one matches. *)
Match ==
    /\ result = "testing"
    /\ \E s \in values : Matches(condition, s)
    /\ result' = "match"
    /\ UNCHANGED <<condition, request, values>>

(* Mutant of Left: the first value decides. *)
LeftNone(s) == {}

Left(s) == values \ {s}

Miss ==
    /\ result = "testing"
    /\ \E s \in values : ~Matches(condition, s) /\ values' = Left(s)
    /\ UNCHANGED <<condition, request, result>>

NoMatch ==
    /\ result = "testing"
    /\ values = {}
    /\ result' = "mismatch"
    /\ UNCHANGED <<condition, request, values>>

Next == Resolve \/ Match \/ Miss \/ NoMatch

Spec == Init /\ [][Next]_vars

----------------------------------------------------------------------------
(* Properties *)

Returned == result \in {"match", "mismatch"}

Inspected(c, r) == UNION {ValuesOf(v, Variables(c), r) : v \in Variables(c)}

(* A condition matches if one value of one of its variables does,          *)
(* whichever is tested first, and a condition without values never does,   *)
(* negated or not.                                                         *)
AnyValueDecides ==
    Returned =>
        (result = "match") = (\E s \in Inspected(condition, request) : Matches(condition, s))

(* What makes it inductive: the values still to be tested are values of    *)
(* the condition, and those already tested do not match.                   *)
TestedSoFar ==
    result = "testing" =>
        /\ values \subseteq Inspected(condition, request)
        /\ \A s \in Inspected(condition, request) \ values : ~Matches(condition, s)

IInv ==
    /\ condition \in Conditions
    /\ request \in Requests
    /\ TypeOK
    /\ TestedSoFar
    /\ AnyValueDecides

Without(r, name) ==
    [r EXCEPT !.headers = [h \in DOMAIN @ \ {name} |-> @[h]]]

(* What the variables of cookies find, excluded or not *)
Cookies(c, r) ==
    UNION {ValuesOf(v, Variables(c), r) : v \in {u \in Variables(c) : u[1] = "cookies"}}

(* A header a condition excludes decides nothing as a header, wherever     *)
(* among the variables it is excluded: without it the condition comes to   *)
(* the same.  Two things are not excluded with it: the header if a         *)
(* variable asks for it by name, and, of an excluded cookie header, the    *)
(* cookies that REQUEST_COOKIES and REQUEST_COOKIES_NAMES find in it.      *)
ExclusionsHold ==
    Returned => \A v \in Variables(condition) :
        v[1] = "exclude" /\ <<"header", v[2]>> \notin Variables(condition) =>
            (result = "match") =
                (\E s \in Inspected(condition, Without(request, v[2]))
                            \cup Cookies(condition, request) :
                    Matches(condition, s))

(* "the pre-loaded newline-separated phrases embedded by build.rs", says   *)
(* the comment on @pmFromFile of its operand.                              *)
PhrasesComeFromTheFile ==
    Returned /\ condition.op = "pmFromFile" /\ ~condition.negated =>
        (result = "match") =
            (\E s \in Inspected(condition, request) :
                PhrasesOf[condition.arg] \cap WordsOf[Transformed[s]] # {})
============================================================================
