-------------------------- MODULE MCCrsCondition --------------------------
(* Up to three variables of every kind, every operator, and requests in    *)
(* which the values differ from variable to variable.                      *)
EXTENDS CrsCondition

MCNumberOf == [s \in {"", "0", "7", "select", "SELECT", "0=7"} |->
    CASE s = "0" -> 0 [] s = "7" -> 7 [] OTHER -> None]

MCWordsOf == [s \in Value |->
    IF s \in {"select", "SELECT"} THEN {"select"} ELSE {}]

MCTransformed == [s \in Value |-> IF s = "SELECT" THEN "select" ELSE s]

MCTextHits == {<<"sel", "select">>}

MCCookiesIn == [v \in CookieVariables |-> [s \in Value |->
    IF s # "0=7" THEN {} ELSE IF v = "REQUEST_COOKIES" THEN {"7"} ELSE {"0"}]]

MCHeaderCalled == [w \in {<<"ARGS", "id">>, <<"COOKIE", None>>} |->
    IF w[1] = "ARGS" THEN "args:id" ELSE "cookie"]

MCPhrasesOf == [f \in {"sql.data"} |-> {"select"}]

Written(negated, name, selector) ==
    [negated |-> negated, name |-> name, selector |-> selector]

VariableSet == {
    Written(FALSE, "ARGS", None), Written(TRUE, "ARGS", None), Written(FALSE, "ARGS", "id"),
    Written(FALSE, "REQUEST_URI_RAW", None), Written(FALSE, "REQUEST_HEADERS", None),
    Written(FALSE, "REQUEST_COOKIES", None), Written(FALSE, "REQUEST_COOKIES_NAMES", None),
    Written(FALSE, "COOKIE", None),
    Written(FALSE, "REQUEST_HEADERS", "user-agent"), Written(TRUE, "REQUEST_HEADERS", "user-agent"),
    Written(TRUE, "REQUEST_HEADERS", "cookie"), Written(FALSE, "TX", "level"),
    Written(FALSE, "XML", "/*") }

Operators == {
    <<"rx", "sel">>, <<"rx", "(">>, <<"pm", {"select"}>>, <<"pmFromFile", "sql.data">>,
    <<"streq", "0">>, <<"lt", 1>>, <<"ge", 1>>, <<"le", 0>>, <<"gt", None>>,
    <<"within", {"7", ""}>>, <<"validateByteRange", {"", "0", "7"}>>, <<"detectSQLi", "">>,
    <<"ipMatch", "">> }

MCConditions ==
    {[variables |-> {v, w, x}, op |-> o[1], arg |-> o[2], negated |-> neg] :
        v \in VariableSet, w \in VariableSet, x \in VariableSet, o \in Operators, neg \in BOOLEAN}

MCRequests ==
    {[plain |-> [x \in Plain |-> IF x = "ARGS" THEN args ELSE {"7"}],
      headers |-> headers, userAgent |-> ua] :
        args \in {{}, {"SELECT", "0"}},
        headers \in {[x \in names |-> IF x = "cookie" THEN "0=7" ELSE "select"] :
                        names \in SUBSET {"cookie", "user-agent"}},
        ua \in {None, "select"}}
============================================================================
