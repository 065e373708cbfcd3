----------------------------- MODULE CrsParser -----------------------------
(***************************************************************************)
(* How the rules that are embedded come about: main() of crs-engine's      *)
(* build.rs goes through the CRS files, and crs-parser's parse_str through *)
(* the lines of each, which it cuts into variables, operator and actions.  *)
(* A file that is not there and a directory that is not there come to the  *)
(* same: nothing is read.                                                  *)
(*                                                                         *)
(* A physical line is a sequence of symbols: the characters that cut it,   *)
(* and what stands between them.  A file is a sequence of directives, each *)
(* with its lines and what it says; what it says the code never sees.      *)
(***************************************************************************)
EXTENDS Naturals, SequencesExt

CONSTANTS
    Sources,    \* what is at the paths of the CRS files, in order
    Unreadable, \* stands for a file that cannot be read
    Absent,     \* the absent value of every Option
    Numerals,   \* the symbols that read as numbers, and which
    Mangled     \* for each symbol beyond ASCII, the bytes of its UTF-8, each
                \* taken for a character

(* What a directive is: a rule (and whether one that goes on in the next), *)
(* a marker, nothing, something else, or a rule line that is broken, one   *)
(* that cannot be parsed.                                                  *)
Kind == {"rule", "broken", "marker", "nothing", "else"}

IsSequence(s) == Len(s) \in Nat /\ DOMAIN s = 1 .. Len(s)

ASSUME ParserAssumption ==
    \A fs \in Sources :
        /\ IsSequence(fs)
        /\ \A k \in DOMAIN fs : fs[k] # Unreadable =>
            /\ IsSequence(fs[k])
            /\ \A d \in DOMAIN fs[k] : /\ fs[k][d].kind \in Kind
                                       /\ fs[k][d].kind = "rule" => fs[k][d].chains \in BOOLEAN

VARIABLES
    files,      \* what the build finds
    file,       \* the file read next
    lines,      \* its logical lines, Absent between two files
    n,          \* the logical line looked at next
    chain,      \* chain_stack
    rules,      \* rules of this file
    allRules    \* all_rules of the build

parserVars == <<files, file, lines, n, chain, rules, allRules>>

ParserInit ==
    /\ files \in Sources
    /\ file = 1
    /\ lines = Absent
    /\ n = 1
    /\ chain = << >>
    /\ rules = << >>
    /\ allRules = << >>

----------------------------------------------------------------------------
(* The members of a finite set of numbers, one after the other *)
Ranked(S, i) == {k \in S : Cardinality({j \in S : j <= k}) = i}

Ascending(S) == [i \in 1 .. Cardinality(S) |-> CHOOSE k \in Ranked(S, i) : TRUE]

(* join_continuations: a logical line is a run of physical ones, all but   *)
(* the last of which end in "\"; the file may end within one.              *)
Continued(physical) == physical # << >> /\ Last(physical) = "\\"

Joined(run) ==
    FlattenSeq([k \in DOMAIN run |-> IF Continued(run[k]) THEN Append(Front(run[k]), " ") ELSE run[k]])

LogicalLines(physical) ==
    IF physical = << >> THEN << >>
    ELSE LET ends == Ascending({k \in DOMAIN physical : ~Continued(physical[k])} \cup {Len(physical)})
         IN  [k \in DOMAIN ends |->
                Joined(SubSeq(physical, IF k = 1 THEN 1 ELSE ends[k - 1] + 1, ends[k]))]

(* trim and trim_matches *)
TrimOf(s, c) ==
    LET kept == {i \in DOMAIN s : s[i] # c}
    IN  IF kept = {} THEN << >> ELSE SubSeq(s, Min(kept), Max(kept))

Trim(s) == TrimOf(s, " ")

(* trim_end_matches *)
TrimEnd(s, c) ==
    LET kept == {i \in DOMAIN s : s[i] # c} IN IF kept = {} THEN << >> ELSE SubSeq(s, 1, Max(kept))

Drop(s, k) == SubSeq(s, k + 1, Len(s))

StartsWith(s, c) == s # << >> /\ s[1] = c

----------------------------------------------------------------------------
(* parse_secrule.  An odd number of "\" before a symbol escapes it.        *)
Escaped(s, i) ==
    LET run == {j \in 1 .. i - 1 : \A k \in j .. i - 1 : s[k] = "\\"}
    IN  Cardinality(run) % 2 = 1

Quotes(s) == {i \in DOMAIN s : s[i] = "\""}

Opening(s) == {i \in Quotes(s) \ {Max(Quotes(s))} : ~Escaped(s, i)}

(* find_last_quoted_block_start *)
BlockStart(s) == Max(Opening(s))

(* find_closing_quote, in what follows the opening quote *)
Closing(s) == {i \in Quotes(s) : ~Escaped(s, i)}

Behind(s) == Drop(s, BlockStart(s))

Before(s) == Trim(SubSeq(s, 1, BlockStart(s) - 1))

Blanks(s) == {i \in DOMAIN s : s[i] = " "}

(* Without a quoted block, or with nothing but the variables before it,    *)
(* there is no rule.                                                       *)
Parses(s) ==
    /\ Quotes(s) # {} /\ Opening(s) # {}
    /\ Closing(Behind(s)) # {}
    /\ Blanks(Before(s)) # {}

VariablesIn(s) == SelectSeq(SubSeq(Before(s), 1, Min(Blanks(Before(s))) - 1), LAMBDA c : c # "|")

ActionsRaw(s) == SubSeq(Behind(s), 1, Min(Closing(Behind(s))) - 1)

(* The operator without its quotes: all at both ends are stripped. *)
OperatorText(s) == Trim(TrimOf(Trim(Drop(Before(s), Min(Blanks(Before(s))))), "\""))

(* parse_operator: a bare operand is one of @rx. *)
Operator(s) ==
    LET written == OperatorText(s)
        negated == StartsWith(written, "!")
        op == IF negated THEN Tail(written) ELSE written
        named == StartsWith(op, "@")
    IN  [negated |-> negated,
         name |-> IF named THEN op[2] ELSE "rx",
         operand |-> IF named THEN Trim(Drop(op, 2)) ELSE op]

(* Mutant of Apostrophes: commas count wherever they stand. *)
ApostrophesNone == {}

(* `b as char`, of every byte *)
Mangle(s) == FlattenSeq([k \in DOMAIN s |-> IF s[k] \in DOMAIN Mangled THEN Mangled[s[k]] ELSE <<s[k]>>])

(* split_actions: a comma ends a token unless it is quoted or escaped, and *)
(* what is kept is kept byte by byte.                                      *)
Apostrophes == {"'", "\""}

Cut(acc, c) ==
    IF acc.escape THEN [acc EXCEPT !.token = @ \o Mangle(<<c>>), !.escape = FALSE]
    ELSE IF c = "," /\ acc.quote = Absent
         THEN [acc EXCEPT !.tokens = Append(@, acc.token), !.token = << >>]
    ELSE [acc EXCEPT !.token = @ \o Mangle(<<c>>),
                     !.escape = (c = "\\"),
                     !.quote = IF c \in Apostrophes /\ @ = Absent THEN c ELSE IF c = @ THEN Absent ELSE @]

Tokens(raw) ==
    LET cut == FoldLeft(Cut, [tokens |-> << >>, token |-> << >>, quote |-> Absent, escape |-> FALSE], raw)
        all == Append(cut.tokens, cut.token)
    IN  [k \in DOMAIN all |-> Trim(all[k])]

----------------------------------------------------------------------------
(* parse_actions.  A token is a key, which holds its colon, and what       *)
(* follows; a key whose value has to be quoted takes no other.             *)
Of(tokens, keys) == {k \in DOMAIN tokens : tokens[k] # << >> /\ tokens[k][1] \in keys}

Alone(tokens, words) == {k \in Of(tokens, words) : Len(tokens[k]) = 1}

Quoted(tokens, key) == {k \in Of(tokens, {key}) : Len(tokens[k]) > 1 /\ tokens[k][2] \in {"'", "\""}}

ValueOf(token) == Drop(token, 1)

Unquoted(token) == TrimEnd(Drop(token, 2), token[2])

(* Of tokens of one kind the last counts. *)
LastOf(found, tokens, default) == IF found = {} THEN default ELSE tokens[Max(found)]

ReadNumber(s) == IF Len(s) = 1 /\ s[1] \in DOMAIN Numerals THEN Numerals[s[1]] ELSE 0

ReadPhase(s) ==
    LET named == {p \in {<<1, "request-headers">>, <<2, "request-body">>, <<3, "response-headers">>,
                         <<4, "response-body">>, <<5, "logging">>} : s = <<p[2]>>}
    IN  IF named # {} THEN (CHOOSE p \in named : TRUE)[1]
        ELSE IF ReadNumber(s) \in 1 .. 5 THEN ReadNumber(s) ELSE 2

Severities == <<"EMERGENCY", "ALERT", "CRITICAL", "ERROR", "WARNING", "NOTICE", "INFO", "DEBUG">>

ReadSeverity(s) ==
    LET numbered == s # << >> /\ s[1] \in DOMAIN Numerals
        meant == {k \in 1 .. 8 : s = <<Severities[k]>> \/ (numbered /\ ReadNumber(s) = k - 1)}
    IN  IF meant = {} THEN Absent ELSE Severities[Min(meant)]

(* extract_anomaly_score: the names are looked for in this order. *)
Scores == << <<"critical_anomaly_score", 5>>, <<"error_anomaly_score", 4>>,
             <<"warning_anomaly_score", 3>>, <<"notice_anomaly_score", 2>> >>

ScoresIn(token) == {k \in DOMAIN Scores : Contains(token, Scores[k][1])}

(* The first of those tags decides, even if it holds no number. *)
Leveled(tag) == StartsWith(tag, "paranoia-level/")

At(tokens, found) ==
    LET places == Ascending(found) IN [k \in DOMAIN places |-> tokens[places[k]]]

Tags(tokens) ==
    LET quoted == At(tokens, Quoted(tokens, "tag:")) IN [k \in DOMAIN quoted |-> Unquoted(quoted[k])]

Levels(tokens) == SelectSeq(Tags(tokens), Leveled)

Actions(tokens) ==
    LET levels == Levels(tokens)
        setvars == {k \in Quoted(tokens, "setvar:") : ScoresIn(tokens[k]) # {}}
        transforms == At(tokens, Of(tokens, {"t:"}))
        words == Alone(tokens, {"block", "deny", "pass", "allow"})
        messages == Quoted(tokens, "msg:")
        severities == Quoted(tokens, "severity:")
        skips == Of(tokens, {"skipAfter:"})
    IN  [id |-> ReadNumber(ValueOf(LastOf(Of(tokens, {"id:"}), tokens, << >>))),
         phase |-> ReadPhase(Trim(ValueOf(LastOf(Of(tokens, {"phase:"}), tokens, << >>)))),
         action |-> IF LastOf(words, tokens, <<"pass">>)[1] \in {"block", "deny"} THEN "Block" ELSE "Pass",
         msg |-> IF messages = {} THEN Absent ELSE Unquoted(LastOf(messages, tokens, << >>)),
         tags |-> Tags(tokens),
         severity |-> ReadSeverity(Unquoted(LastOf(severities, tokens, << >>))),
         skipAfter |-> IF skips = {} THEN Absent ELSE Trim(ValueOf(LastOf(skips, tokens, << >>))),
         score |-> IF setvars = {} THEN Absent ELSE Scores[Min(ScoresIn(tokens[Min(setvars)]))][2],
         level |-> IF levels = << >> THEN 0 ELSE ReadNumber(ValueOf(levels[1])),
         links |-> << [transforms |-> [k \in DOMAIN transforms |-> ValueOf(transforms[k])]] >>]

----------------------------------------------------------------------------
(* A logical line: what it starts with decides. *)
StartOf(l) == IF Trim(l) = << >> THEN "" ELSE Trim(l)[1]

Body(l) == Trim(Tail(Trim(l)))

IsChain(l) == Alone(Tokens(ActionsRaw(Body(l))), {"chain"}) # {}

(* ChainedRule: of a chained rule this is all that is kept. *)
RuleOf(l) ==
    LET s == Body(l)
    IN  [Actions(Tokens(ActionsRaw(s))) EXCEPT
            !.links = << [variables |-> VariablesIn(s), operator |-> Operator(s),
                          transforms |-> @[1].transforms] >>]

Link(l) == RuleOf(l).links[1]

Marker(name) ==
    [id |-> 0, phase |-> 2, action |-> "Pass", msg |-> Absent, tags |-> << >>, severity |-> Absent,
     skipAfter |-> name, score |-> Absent, level |-> 0, links |-> << >>]

MarkerOf(l) == Marker(Trim(TrimOf(Body(l), "\"")))

----------------------------------------------------------------------------
(* The loop of parse_str *)

line == lines[n]

Looking ==
    /\ lines # Absent
    /\ n \in DOMAIN lines
    /\ n' = n + 1
    /\ UNCHANGED <<files, file, lines, allRules>>

(* Mutant of Flushed: a rule whose chain is cut short is dropped. *)
FlushedNot == rules

(* flush_chain *)
Flushed == rules \o Reverse(chain)

Ignored ==
    /\ Looking
    /\ \/ StartOf(line) \in {"", "#"}
       \/ StartOf(line) = "SecRule" /\ ~Parses(Body(line))
    /\ UNCHANGED <<chain, rules>>

AtMarker ==
    /\ Looking
    /\ StartOf(line) = "SecMarker"
    /\ rules' = Append(Flushed, MarkerOf(line))
    /\ chain' = << >>

AtRule == Looking /\ StartOf(line) = "SecRule" /\ Parses(Body(line))

RuleAlone ==
    /\ AtRule
    /\ chain = << >> /\ ~IsChain(line)
    /\ rules' = Append(rules, RuleOf(line))
    /\ UNCHANGED chain

OpensChain ==
    /\ AtRule
    /\ chain = << >> /\ IsChain(line)
    /\ chain' = <<RuleOf(line)>>
    /\ UNCHANGED rules

(* top.chained.push(chained) *)
Extended == [chain EXCEPT ![Len(chain)].links = Append(@, Link(line))]

Links ==
    /\ AtRule
    /\ chain # << >> /\ IsChain(line)
    /\ chain' = Extended
    /\ UNCHANGED rules

ClosesChain ==
    /\ AtRule
    /\ chain # << >> /\ ~IsChain(line)
    /\ rules' = rules \o Reverse(Extended)
    /\ chain' = << >>

(* Any other directive ends a chain. *)
OtherDirective ==
    /\ Looking
    /\ StartOf(line) \notin {"", "#", "SecMarker", "SecRule"}
    /\ rules' = Flushed
    /\ chain' = << >>

----------------------------------------------------------------------------
(* The loop of the build script *)

Physical(f) == FlattenSeq([d \in DOMAIN f |-> f[d].lines])

OpenFile ==
    /\ lines = Absent
    /\ file \in DOMAIN files
    /\ files[file] # Unreadable
    /\ lines' = LogicalLines(Physical(files[file]))
    /\ n' = 1
    /\ UNCHANGED <<files, file, chain, rules, allRules>>

(* A warning, and the build goes on *)
FileMissing ==
    /\ lines = Absent
    /\ file \in DOMAIN files
    /\ files[file] = Unreadable
    /\ file' = file + 1
    /\ UNCHANGED <<files, lines, n, chain, rules, allRules>>

(* A chain that is still open at the end of the file is flushed too. *)
EndOfFile ==
    /\ lines # Absent
    /\ n \notin DOMAIN lines
    /\ allRules' = allRules \o Flushed
    /\ rules' = << >>
    /\ chain' = << >>
    /\ lines' = Absent
    /\ file' = file + 1
    /\ UNCHANGED <<files, n>>

ParserNext ==
    \/ Ignored \/ AtMarker \/ RuleAlone \/ OpensChain \/ Links \/ ClosesChain
    \/ OtherDirective \/ OpenFile \/ FileMissing \/ EndOfFile

ParserSpec == ParserInit /\ [][ParserNext]_parserVars

----------------------------------------------------------------------------
(* What the directives of a file before directive m say, without a loop.   *)
(* A chain is open at k if the last directive before k that counts is a    *)
(* rule that goes on: if k is a rule, it is a link.  A broken rule line    *)
(* counts no more than a comment does.                                     *)

(* What is kept of a rule as it is written: its message, tags and skip are *)
(* mangled (the rest of its actions is ASCII), message and tags lose the   *)
(* escaped apostrophe they end in, and the operand an escaped quote; a     *)
(* skip or an operand loses the blanks at its ends.                        *)
AsKept(rule) ==
    LET text(s) == TrimEnd(Mangle(s), "'")
    IN  [rule EXCEPT !.msg = IF @ = Absent THEN Absent ELSE text(@),
                     !.tags = [k \in DOMAIN @ |-> text(@[k])],
                     !.skipAfter = IF @ = Absent THEN Absent ELSE Trim(Mangle(@)),
                     !.links = << [@[1] EXCEPT !.operator.operand = Trim(TrimEnd(@, "\""))] >>]

RuleSaid(directive) == AsKept(directive.rule)

Counting(f) == {k \in DOMAIN f : f[k].kind \notin {"nothing", "broken"}}

GoesOn(directive) == directive.kind = "rule" /\ directive.chains

Open(f, k) ==
    \E j \in Counting(f) : /\ j < k /\ GoesOn(f[j])
                           /\ \A i \in Counting(f) : i < k => i <= j

IsLink(f, k) == f[k].kind = "rule" /\ Open(f, k)

Starts(f, m) == {k \in Counting(f) : k < m /\ f[k].kind \in {"marker", "rule"} /\ ~IsLink(f, k)}

AllLinks(f, k, j) == \A i \in Counting(f) : k < i /\ i <= j => IsLink(f, i)

(* The rule that starts at k, and those that go on with it *)
Chained(f, k, m) == {k} \cup {j \in Counting(f) : k < j /\ j < m /\ AllLinks(f, k, j)}

LinksOf(f, chained) == [i \in DOMAIN chained |-> RuleSaid(f[chained[i]]).links[1]]

RuleAt(f, k, m) ==
    IF f[k].kind = "marker" THEN Marker(f[k].name)
    ELSE [RuleSaid(f[k]) EXCEPT !.links = LinksOf(f, Ascending(Chained(f, k, m)))]

SaidBefore(f, m) ==
    LET starts == Ascending(Starts(f, m)) IN [i \in DOMAIN starts |-> RuleAt(f, starts[i], m)]

SaidBy(f) == IF f = Unreadable THEN << >> ELSE SaidBefore(f, Len(f) + 1)

(* What the first files say, for any number of them *)
SaidUpTo(fs) ==
    LET said[k \in 0 .. Len(fs)] == IF k = 0 THEN << >> ELSE said[k - 1] \o SaidBy(fs[k])
    IN  said

(* After each file, the embedded rules are those the files so far hold, in *)
(* the files' order: each with its variables, operator, message and        *)
(* actions, but for what AsKept names, whatever is quoted or escaped in    *)
(* them and wherever its line is broken.  A rule that goes on has for      *)
(* links the rules behind it, up to the first that does not; no chain is   *)
(* carried over a marker, another directive or the end of a file, none is  *)
(* left open.  A broken rule line drops out of its chain and does not end  *)
(* it: if it was the last link, the chain takes the next rule for it.      *)
RulesAsWritten == allRules = SaidUpTo(files)[file - 1]

(* A logical line reads as its directive: it is nothing, a broken rule     *)
(* line, a marker, another directive or a rule, with all that is kept of   *)
(* it.                                                                     *)
ReadsAs(l, directive) ==
    LET kind == directive.kind
        secRule == StartOf(l) = "SecRule"
    IN  /\ kind = "nothing" <=> StartOf(l) \in {"", "#"}
        /\ kind = "broken" <=> secRule /\ ~Parses(Body(l))
        /\ kind = "marker" <=> StartOf(l) = "SecMarker"
        /\ kind = "rule" <=> secRule /\ Parses(Body(l))
        /\ kind = "marker" => MarkerOf(l) = Marker(directive.name)
        /\ kind = "rule" => RuleOf(l) = RuleSaid(directive) /\ IsChain(l) = directive.chains

(* The logical lines of a file are its directives, however their physical  *)
(* lines are broken, and each reads as it is written: no quote, comma,     *)
(* apostrophe or backslash in it moves the boundary of another part, and   *)
(* nothing of a rule is lost or changed but what AsKept names.             *)
LinesAreRead ==
    lines # Absent =>
        /\ DOMAIN lines = DOMAIN files[file]
        /\ n \in DOMAIN lines => ReadsAs(line, files[file][n])
============================================================================
