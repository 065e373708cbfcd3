---------------------------- MODULE MCCrsParser ----------------------------
(* Files of one rule, of every shape and written in every way, files of up *)
(* to four directives, and short files one after the other.                *)
EXTENDS CrsParser

MCNumerals == [s \in {"1", "2", "3", "9"} |->
    CASE s = "1" -> 1 [] s = "2" -> 2 [] s = "3" -> 3 [] s = "9" -> 9]

(* Two accented letters, and their bytes; U+A0 is a blank. *)
MCMangled == [c \in {"U+C9", "U+E0"} |-> <<"U+C3", IF c = "U+C9" THEN "U+89" ELSE " ">>]

Digits(k) == CHOOSE s \in DOMAIN Numerals : Numerals[s] = k

Spread(parts, between) ==
    FlattenSeq([k \in DOMAIN parts |-> IF k = 1 THEN parts[k] ELSE between \o parts[k]])

InQuotes(s) == <<"\"">> \o s \o <<"\"">>

InApostrophes(s) == <<"'">> \o s \o <<"'">>

(* The actions of a rule; an earlier id and an earlier pass do not count.  *)
ActionTokens(r, chains) ==
    << <<"id:", "9">>, <<"pass">>, <<"id:", Digits(r.id)>>, <<"phase:", Digits(r.phase)>> >>
    \o (IF r.action = "Block" THEN << <<"block">> >> ELSE << >>)
    \o (IF r.msg = Absent THEN << >> ELSE << <<"msg:">> \o InApostrophes(r.msg) >>)
    \o [k \in DOMAIN r.tags |-> <<"tag:">> \o InApostrophes(r.tags[k])]
    \o [k \in DOMAIN r.links[1].transforms |-> <<"t:">> \o r.links[1].transforms[k]]
    \o (IF r.severity = Absent THEN << >> ELSE << <<"severity:">> \o InApostrophes(<<r.severity>>) >>)
    \o (IF r.score = Absent THEN << >>
        ELSE << <<"setvar:", "'", "tx.x", "=", "1", "'">>,
                <<"setvar:", "'", "tx.y", "=", Scores[6 - r.score][1], "'">>,
                <<"setvar:", "'", "tx.z", "=", "notice_anomaly_score", "'">> >>)
    \o (IF chains THEN << <<"chain">> >> ELSE << >>)
    \o (IF r.skipAfter = Absent THEN << >> ELSE << <<"skipAfter:">> \o r.skipAfter >>)

InText(op) ==
    (IF op.negated THEN <<"!">> ELSE << >>)
        \o (IF op.name = "rx" THEN << >> ELSE <<"@", op.name, " ">>) \o op.operand

(* On one line; actions on a line of their own; an action to a line *)
Styles == {"one", "two", "many"}

LinesOf(r, chains, style) ==
    LET link == r.links[1]
        head == <<"SecRule", " ">> \o Spread([k \in DOMAIN link.variables |-> <<link.variables[k]>>], <<"|">>)
                    \o <<" ">> \o InQuotes(InText(link.operator))
        tokens == ActionTokens(r, chains)
    IN  CASE style = "one" -> << head \o <<" ">> \o InQuotes(Spread(tokens, <<",">>)) >>
          [] style = "two" -> << head \o <<" ", "\\">>, <<" ">> \o InQuotes(Spread(tokens, <<",", " ">>)) >>
          [] style = "many" ->
                << head \o <<"\\">>, <<" ", "\"", "\\">> >>
                \o [k \in DOMAIN tokens |-> <<" ">> \o tokens[k] \o <<IF k = Len(tokens) THEN "\"" ELSE ",">>
                                                \o IF k = Len(tokens) THEN << >> ELSE <<"\\">>]

Directive(ls, kind) == [lines |-> ls, kind |-> kind]

RuleDirective(r, chains, style) ==
    [lines |-> LinesOf(r, chains, style), kind |-> "rule", rule |-> r, chains |-> chains]

LinkTo(variables, operator, transforms) ==
    [variables |-> variables, operator |-> operator, transforms |-> transforms]

Op(negated, name, operand) == [negated |-> negated, name |-> name, operand |-> operand]

Rule(id, action, msg, link) ==
    [id |-> id, phase |-> 1, action |-> action, msg |-> msg, tags |-> << >>, severity |-> Absent,
     skipAfter |-> Absent, score |-> Absent, level |-> 0, links |-> <<link>>]

(* A comma, a space, an escaped quote, apostrophe and backslash, and what  *)
(* is not ASCII; texts may begin and end with each of them.                *)
Pieces == {<<"a">>, <<",">>, <<" ">>, <<"\\", "\"">>, <<"\\", "'">>, <<"\\", "\\">>, <<"U+C9">>}

Ends == {<<"m">>, << >>}

Messages == {b \o p \o q \o e : b \in Ends, p \in Pieces, q \in Pieces, e \in Ends} \cup {<< >>}

Operands == {p \o q \o e : p \in Pieces \ {<<" ">>}, q \in Pieces \cup {<<"'">>, <<"@">>}, e \in Ends}

Plain == LinkTo(<<"ARGS">>, Op(FALSE, "pm", <<"o">>), << >>)

Listed == LinkTo(<<"ARGS", "!XML">>, Op(FALSE, "pm", <<"o">>), << <<"lowercase">>, <<"none">> >>)

Ruled(g, op, w) == Rule(2, "Pass", Absent, [Listed EXCEPT !.operator = Op(g, op, w)])

Full(score, skip) ==
    [Rule(3, "Block", <<"m">>, Plain) EXCEPT
        !.severity = "CRITICAL", !.score = score, !.skipAfter = skip, !.phase = 3, !.level = 2,
        !.tags = << <<"x", "U+C9", "\\", "'">>, <<"paranoia-level/", "2">>, <<"paranoia-level/", "3">> >>]

Single ==
    {RuleDirective(Rule(2, "Block", m, Plain), FALSE, s) : m \in Messages, s \in Styles}
    \cup {RuleDirective(Ruled(g, op, w), FALSE, s) :
            g \in BOOLEAN, op \in {"rx", "pm"}, w \in Operands, s \in Styles}
    \cup {RuleDirective(Full(score, skip), c, s) :
            score \in {Absent, 5, 4, 3, 2}, skip \in {Absent, <<"end">>, <<"end", "U+C9">>, <<"end", "U+E0">>}, c \in BOOLEAN, s \in Styles}

Short(id, chains, style) ==
    RuleDirective(Rule(id, "Block", <<"a", ",", "b">>, LinkTo(<<"X">>, Op(FALSE, "rx", <<Digits(id)>>), << >>)),
                  chains, style)

Directives == {
    Short(1, TRUE, "one"), Short(2, FALSE, "two"), Short(3, TRUE, "many"),
    [lines |-> <<<<"SecMarker", " ", "\"", "end", "U+C9", "\"">>>>, kind |-> "marker", name |-> <<"end", "U+C9">>],
    Directive(<<<<"#", " ", "\\">>, <<"SecRule", " ", "X", " ", "x", " ", "\"", "id:", "1", "\"">>>>,
              "nothing"),
    Directive(<<<< >>>>, "nothing"),
    Directive(<<<<"SecRule", " ", "X", " ", "\"", "x", "\"">>>>, "broken"),
    Directive(<<<<"SecRule", "RemoveById", " ", "1">>>>, "broken"),
    Directive(<<<<"SecRule", " ", "X", " ", "x", " ", "\"", "id:", "1", "\\", "\"">>>>, "broken"),
    Directive(<<<<"SecAction", " ", "\"", "id:", "1", "\"">>>>, "else") }

Files(l) == UNION {[1 .. k -> Directives] : k \in 0 .. l}

MCSources ==
    {<< <<d>> >> : d \in Single}
    \cup {<<f>> : f \in Files(4)}
    \cup {<<f, g>> : f \in Files(2), g \in Files(1) \cup {Unreadable}}
    \cup {<<Unreadable, f>> : f \in Files(1)}
============================================================================
