------------------------------ MODULE CrsText ------------------------------
(***************************************************************************)
(* From the text of a request to the values an operator is given: forms    *)
(* and cookies are split (crs-engine/src/engine.rs) and each value goes    *)
(* through the transforms of the condition (crs-engine/src/transforms.rs). *)
(* A transform is a loop: it takes a unit of its text and perhaps some     *)
(* behind it, writes what they stand for and goes on.                      *)
(*                                                                         *)
(* A text is a sequence of characters, a character its code point.  The    *)
(* decoders of escapes go through the UTF-8 bytes of a text; a byte they   *)
(* do not decode they write as the character of that number.               *)
(***************************************************************************)
EXTENDS Integers, SequencesExt

CONSTANT Inputs

(* What is read of the request (source), the query and the body or the     *)
(* header it is read from (parts), the transforms of the condition, and    *)
(* the values the parts were written for (meant).                          *)
Source == {"ARGS", "ARGS_NAMES", "REQUEST_COOKIES", "REQUEST_COOKIES_NAMES", "REQUEST_BODY"}

VARIABLES
    input,      \* what is inspected
    waiting,    \* values that have not gone through all, the first one at work
    passes,     \* loops the first value has behind it
    at,         \* the unit looked at next
    spaced,     \* prev_ws of compress_whitespace
    out,        \* `result` of the loop at work
    done        \* values as the operator gets them

textVars == <<input, waiting, passes, at, spaced, out, done>>

----------------------------------------------------------------------------
(* Characters that mean something *)
Nul == 0
Space == 32
Quote == 34
Hash == 35
Percent == 37
Amp == 38
Apostrophe == 39
Plus == 43
Semicolon == 59
Less == 60
Equal == 61
Greater == 62
Backslash == 92
LetterN == 110
LetterR == 114
LetterT == 116
LetterU == {85, 117}
LetterX == {88, 120}

AsciiSpace == {9, 10, 12, 13, 32}
White == AsciiSpace \cup {11, 133, 160}

Utf8(c) ==
    IF c < 128 THEN <<c>>
    ELSE IF c < 2048 THEN <<192 + c \div 64, 128 + (c % 64)>>
    ELSE IF c < 65536 THEN <<224 + c \div 4096, 128 + ((c \div 64) % 64), 128 + (c % 64)>>
    ELSE <<240 + c \div 262144, 128 + ((c \div 4096) % 64), 128 + ((c \div 64) % 64),
           128 + (c % 64)>>

(* -1 stands for what is no digit and for what is no number *)
Digit(c) ==
    CASE c \in 48 .. 57 -> c - 48
      [] c \in 65 .. 70 -> c - 55
      [] c \in 97 .. 102 -> c - 87
      [] OTHER -> -1

IsDigit(c, base) == Digit(c) >= 0 /\ Digit(c) < base

Biggest == 1114111

(* What digits come to; all that is beyond the last character is as big *)
Number(digits, base) ==
    IF digits = << >> \/ \E k \in DOMAIN digits : ~IsDigit(digits[k], base) THEN -1
    ELSE FoldLeft(LAMBDA n, c : Min({n * base + Digit(c), Biggest + 1}), 0, digits)

(* from_str_radix and parse take a sign *)
SignedNumber(s, base) ==
    Number(IF s # << >> /\ Head(s) = Plus THEN Tail(s) ELSE s, base)

(* char::from_u32 *)
IsChar(n) == n \in 0 .. 55295 \/ n \in 57344 .. Biggest

HexAt(s, i, n) == Number(SubSeq(s, i, i + n - 1), 16)

----------------------------------------------------------------------------
(* What a loop makes of the text at i: what it writes, what it takes *)

Write(chars, n) == [out |-> chars, taken |-> n]

(* Mutant of Keep: what is no escape is looked at again. *)
KeepStays(s, i) == Write(<<s[i]>>, 0)

Keep(s, i) == Write(<<s[i]>>, 1)

(* Mutant of Follow: an escape at the end of the text is cut off. *)
FollowBehind(s, i, n) == i + n < Len(s)

(* There are n units behind the one at i. *)
Follow(s, i, n) == i + n <= Len(s)

UrlDecodeSimple(s, i) ==
    IF s[i] = Plus THEN Write(<<Space>>, 1)
    ELSE IF s[i] = Percent /\ Follow(s, i, 2) /\ HexAt(s, i + 1, 2) # -1
         THEN Write(<<HexAt(s, i + 1, 2)>>, 3)
    ELSE Keep(s, i)

UrlDecodeUni(s, i) ==
    IF s[i] = Percent /\ Follow(s, i, 5) /\ s[i + 1] \in LetterU /\ IsChar(HexAt(s, i + 2, 4))
    THEN Write(<<HexAt(s, i + 2, 4)>>, 6)
    ELSE IF s[i] = Percent /\ Follow(s, i, 2) /\ HexAt(s, i + 1, 2) # -1
         THEN Write(<<HexAt(s, i + 1, 2)>>, 3)
    ELSE Keep(s, i)

(* \u and \x that are too short for their digits stand for the letter,     *)
(* those whose digits are none for the backslash.                          *)
JsDecode(s, i) ==
    LET c == s[i + 1]
        n == IF c \in LetterU /\ Follow(s, i, 5) THEN 4
             ELSE IF c \in LetterX /\ Follow(s, i, 3) THEN 2 ELSE 0
    IN  IF s[i] # Backslash \/ ~Follow(s, i, 1) THEN Keep(s, i)
        ELSE IF n > 0
             THEN IF IsChar(HexAt(s, i + 2, n)) THEN Write(<<HexAt(s, i + 2, n)>>, n + 2)
                  ELSE Keep(s, i)
        ELSE Write(<<CASE c = LetterN -> 10 [] c = LetterR -> 13 [] c = LetterT -> 9 [] OTHER -> c>>, 2)

(* One to six digits and the space that may close them *)
CssDecode(s, i) ==
    LET runs == {n \in 1 .. 6 : Follow(s, i, n) /\ HexAt(s, i + 1, n) # -1}
        closed == i + Max(runs) < Len(s) /\ s[i + Max(runs) + 1] = Space
    IN  IF s[i] = Backslash /\ runs # {} /\ IsChar(HexAt(s, i + 1, Max(runs)))
        THEN Write(<<HexAt(s, i + 1, Max(runs))>>, Max(runs) + IF closed THEN 2 ELSE 1)
        ELSE Keep(s, i)

Entity == { <<Less, <<108, 116>>>>, <<Greater, <<103, 116>>>>, <<Amp, <<97, 109, 112>>>>,
            <<Quote, <<113, 117, 111, 116>>>>, <<Apostrophe, <<97, 112, 111, 115>>>> }

Named(s, i) ==
    {e \in Entity : IsPrefix(<<Amp>> \o e[2] \o <<Semicolon>>, SubSeq(s, i, Len(s)))}

HtmlEntityDecode(s, i) ==
    LET hex == Follow(s, i, 2) /\ s[i + 2] \in LetterX
        from == IF hex THEN i + 3 ELSE i + 2
        ends == {k \in from .. Len(s) : s[k] = Semicolon}
        n == SignedNumber(SubSeq(s, from, Min(ends) - 1), IF hex THEN 16 ELSE 10)
    IN  IF s[i] # Amp THEN Keep(s, i)
        ELSE IF Named(s, i) # {}
             THEN LET e == CHOOSE e \in Named(s, i) : TRUE IN Write(<<e[1]>>, Len(e[2]) + 2)
        ELSE IF Follow(s, i, 1) /\ s[i + 1] = Hash /\ ends # {} /\ IsChar(n)
             THEN Write(<<n>>, Min(ends) - i + 1)
        ELSE Keep(s, i)

Hex(n) == <<IF n < 10 THEN 48 + n ELSE 55 + n>>

HexOf(n, width) == FlattenSeq([k \in 1 .. width |-> Hex((n \div 16 ^ (width - k)) % 16)])

(* \u{:04X}: at least four digits *)
Utf8ToUnicode(s, i) ==
    IF s[i] < 128 THEN Keep(s, i)
    ELSE LET width == IF s[i] < 65536 THEN 4 ELSE IF s[i] < 1048576 THEN 5 ELSE 6
         IN  Write(<<Backslash, 117>> \o HexOf(s[i], width), 1)

(* As far as the case of ASCII and Latin-1 goes *)
Lowercase(c) == IF c \in (65 .. 90) \cup (192 .. 214) \cup (216 .. 222) THEN c + 32 ELSE c

CompressWhitespace(s, i) ==
    IF s[i] \notin AsciiSpace THEN Keep(s, i)
    ELSE Write(IF spaced THEN << >> ELSE <<Space>>, 1)

Written(t, s, i) ==
    CASE t = "urlDecodeSimple" -> UrlDecodeSimple(s, i)
      [] t = "urlDecodeUni" -> UrlDecodeUni(s, i)
      [] t = "jsDecode" -> JsDecode(s, i)
      [] t = "cssDecode" -> CssDecode(s, i)
      [] t = "htmlEntityDecode" -> HtmlEntityDecode(s, i)
      [] t = "utf8toUnicode" -> Utf8ToUnicode(s, i)
      [] t = "lowercase" -> Write(<<Lowercase(s[i])>>, 1)
      [] t = "compressWhitespace" -> CompressWhitespace(s, i)
      [] t = "removeWhitespace" -> Write(IF s[i] \in AsciiSpace THEN << >> ELSE <<s[i]>>, 1)
      [] t = "removeNulls" -> Write(IF s[i] = Nul THEN << >> ELSE <<s[i]>>, 1)
      [] OTHER -> Keep(s, i)

ByBytes == {"urlDecodeSimple", "urlDecodeUni", "jsDecode", "cssDecode"}

Units(t, s) == IF t \in ByBytes THEN FlattenSeq([k \in DOMAIN s |-> Utf8(s[k])]) ELSE s

----------------------------------------------------------------------------
(* The values of a variable *)

(* str::split *)
Split(s, c) ==
    LET cuts == SetToSortSeq({0, Len(s) + 1} \cup {i \in DOMAIN s : s[i] = c}, <)
    IN  [k \in 1 .. Len(cuts) - 1 |-> SubSeq(s, cuts[k] + 1, cuts[k + 1] - 1)]

Stripped(s) ==
    LET black == {i \in DOMAIN s : s[i] \notin White}
    IN  IF black = {} THEN << >> ELSE SubSeq(s, Min(black), Max(black))

EqualSigns(s) == {i \in DOMAIN s : s[i] = Equal}

(* Mutant of CutAt: a pair is cut at its last equal sign. *)
CutLast(s) == Max(EqualSigns(s))

(* split_once *)
CutAt(s) == Min(EqualSigns(s))

NamesIn(pairs) ==
    LET named == SelectSeq(pairs, LAMBDA p : EqualSigns(p) # {})
    IN  [k \in DOMAIN named |-> SubSeq(named[k], 1, CutAt(named[k]) - 1)]

ValuesIn(pairs) ==
    [k \in DOMAIN pairs |-> IF EqualSigns(pairs[k]) = {} THEN pairs[k]
                            ELSE SubSeq(pairs[k], CutAt(pairs[k]) + 1, Len(pairs[k]))]

FormPairs(s) == SelectSeq(Split(s, Amp), LAMBDA p : p # << >>)

Trimmed(pairs) == [k \in DOMAIN pairs |-> Stripped(pairs[k])]

CookiePairs(s) == SelectSeq(Trimmed(Split(s, Semicolon)), LAMBDA p : p # << >>)

Resolved(source, s) ==
    CASE source = "ARGS" -> ValuesIn(FormPairs(s))
      [] source = "ARGS_NAMES" -> NamesIn(FormPairs(s))
      [] source = "REQUEST_COOKIES" -> Trimmed(ValuesIn(CookiePairs(s)))
      [] source = "REQUEST_COOKIES_NAMES" -> Trimmed(NamesIn(CookiePairs(s)))
      [] source = "REQUEST_BODY" -> <<s>>

(* The values of a form are decoded before any transform sees them. *)
Passes(x) ==
    (IF x.source \in {"ARGS", "ARGS_NAMES"} THEN <<"urlDecodeSimple">> ELSE << >>) \o x.transforms

ReadFrom(x) == FlattenSeq([k \in DOMAIN x.parts |-> Resolved(x.source, x.parts[k])])

ASSUME TextAssumption ==
    \A x \in Inputs : /\ DOMAIN x = {"source", "parts", "transforms", "meant"}
                      /\ x.source \in Source
                      /\ x.transforms \in Seq(STRING)
                      /\ ReadFrom(x) \in Seq(Seq(Nat))

TextInit ==
    /\ input \in Inputs
    /\ waiting = ReadFrom(input)
    /\ passes = 0
    /\ at = 1
    /\ spaced = FALSE
    /\ out = << >>
    /\ done = << >>

----------------------------------------------------------------------------
(* apply_transforms, for one value after the other; the operator that may  *)
(* end the walk at a value it matches is in CrsCondition.                  *)

transform == Passes(input)[passes + 1]
units == Units(transform, Head(waiting))

Working == waiting # << >> /\ passes < Len(Passes(input))

(* Mutant of Blank: once a blank was seen, all are taken for its repeats. *)
BlankSticks(c) == spaced \/ c \in AsciiSpace

(* Mutant of Blank: each blank counts as the first. *)
BlankNever(c) == FALSE

Blank(c) == c \in AsciiSpace

Take ==
    /\ Working
    /\ at <= Len(units)
    /\ LET w == Written(transform, units, at)
       IN  out' = out \o w.out /\ at' = at + w.taken
    /\ spaced' = (transform = "compressWhitespace" /\ Blank(units[at]))
    /\ UNCHANGED <<input, waiting, passes, done>>

NextTransform ==
    /\ Working
    /\ at > Len(units)
    /\ waiting' = <<out>> \o Tail(waiting)
    /\ passes' = passes + 1
    /\ at' = 1 /\ out' = << >> /\ spaced' = FALSE
    /\ UNCHANGED <<input, done>>

NextValue ==
    /\ waiting # << >> /\ ~Working
    /\ done' = Append(done, Head(waiting))
    /\ waiting' = Tail(waiting)
    /\ passes' = 0
    /\ UNCHANGED <<input, at, spaced, out>>

TextNext == Take \/ NextTransform \/ NextValue

TextSpec == TextInit /\ [][TextNext]_textVars

----------------------------------------------------------------------------
(* What was written.  Spellings of a character a decoder is to undo, and   *)
(* ends of a text that look like the beginning of one, with what is to     *)
(* come of them.                                                           *)

Lower(s) == [k \in DOMAIN s |-> IF s[k] \in 65 .. 70 THEN s[k] + 32 ELSE s[k]]

Unspelled(c, special) == IF c < 128 /\ c \notin special THEN {<<c>>} ELSE {}

Spellings(t, c) ==
    CASE t = "urlDecodeSimple" ->
            {<<Percent>> \o HexOf(c, 2), <<Percent>> \o Lower(HexOf(c, 2))}
                \cup Unspelled(c, {Percent, Plus, Space, Amp, Equal})
                \cup IF c = Space THEN {<<Plus>>} ELSE {}
      [] t = "urlDecodeUni" ->
            {<<Percent, 117>> \o HexOf(c, 4), <<Percent, 85>> \o Lower(HexOf(c, 4))}
                \cup (IF c < 256 THEN {<<Percent>> \o HexOf(c, 2)} ELSE {})
                \cup Unspelled(c, {Percent})
      [] t = "jsDecode" ->
            {<<Backslash, 117>> \o Lower(HexOf(c, 4)), <<Backslash, 85>> \o HexOf(c, 4)}
                \cup (IF c < 256 THEN {<<Backslash, 120>> \o HexOf(c, 2)} ELSE {})
                \cup (IF c < 48 THEN {<<Backslash, c>>} ELSE {})
                \cup (IF c = 10 THEN {<<Backslash, LetterN>>} ELSE {})
                \cup Unspelled(c, {Backslash})
      [] t = "cssDecode" ->
            {<<Backslash>> \o HexOf(c, n) \o <<Space>> : n \in {k \in 2 .. 6 : c < 16 ^ k}}
                \cup {<<Backslash>> \o Lower(HexOf(c, 6))} \cup Unspelled(c, {Backslash, Space})
      [] t = "htmlEntityDecode" ->
            {<<Amp, Hash, x>> \o HexOf(c, n) \o <<Semicolon>> :
                    x \in LetterX, n \in {k \in {2, 4, 6} : c < 16 ^ k}}
                \cup {<<Amp>> \o e[2] \o <<Semicolon>> : e \in {f \in Entity : f[1] = c}}
                \cup (IF c \in 10 .. 99 THEN {<<Amp, Hash, 48 + c \div 10, 48 + (c % 10), Semicolon>>} ELSE {})
                \cup (IF c # Amp THEN {<<c>>} ELSE {})

(* Tails a decoder leaves alone: too short, no digits, no character *)
Broken(t) ==
    CASE t = "urlDecodeSimple" -> {<<Percent>>, <<Percent, 51>>, <<Percent, 51, 71>>}
      [] t = "urlDecodeUni" -> {<<Percent>>, <<Percent, 51>>, <<Percent, 117, 48, 48, 51>>,
                                <<Percent, 117, 68, 56, 48, 48>>}
      [] t = "jsDecode" -> {<<Backslash>>, <<Backslash, 117, 68, 56, 48, 48>>,
                            <<Backslash, 120, 51, 71>>, <<Backslash, 117, 48, 48, 51, 71>>}
      [] t = "cssDecode" -> {<<Backslash>>, <<Backslash, 71>>, <<Backslash, 49, 49, 48, 48, 48, 48>>}
      [] t = "htmlEntityDecode" ->
            {<<Amp>>, <<Amp, Hash>>, <<Amp, Hash, 51, 56>>, <<Amp, Hash, 120, 68, 56, 48, 48, Semicolon>>,
             <<Amp, Hash, Plus, Semicolon>>, <<Amp, 108, 116>>}

(* Those of which it takes the backslash away: the text ends before the    *)
(* digits do.                                                              *)
Shortened(t) ==
    IF t = "jsDecode"
    THEN {<<Backslash, 117>>, <<Backslash, 117, 48, 48, 51>>, <<Backslash, 120>>, <<Backslash, 120, 51>>}
    ELSE {}

(* A character beyond ASCII that is spelled, if at all, byte by byte: what *)
(* a decoder of bytes makes of it is Utf8(c).                              *)
Bytewise(t, c) == {<<c>>, FlattenSeq([k \in DOMAIN Utf8(c) |-> CHOOSE x \in Spellings(t, Utf8(c)[k]) : TRUE])}

----------------------------------------------------------------------------
(* Properties *)

Finished == waiting = << >>

(* A value of which the words count, and not the blanks between them *)
Squeezed == input.transforms # << >> /\ Last(input.transforms) = "compressWhitespace"

(* A word comes out of the decoders as it was before it was spelled in     *)
(* their escapes, however it was spelled, one layer of escapes for each    *)
(* decoder, up to the last unit of the text.  What only looks like an      *)
(* escape stays as it is, but for a \u or \x with too few digits at the    *)
(* end of a text, which loses its backslash; and what is not ASCII and not *)
(* spelled by its code point (left as it is, or its UTF-8 bytes spelled    *)
(* one by one) comes out of a decoder of bytes as one character for each   *)
(* byte.                                                                   *)
EncodedIsDecoded ==
    Finished /\ input.source = "REQUEST_BODY" /\ ~Squeezed => done = input.meant

(* The operators get every value, or name, of the fields of the form or    *)
(* the cookie, in order, and nothing else, whichever of them has no name,  *)
(* an equal sign in its value or is empty; a form's, bytes for what is not *)
(* ASCII in them.                                                          *)
FormsAreRead ==
    Finished /\ input.source # "REQUEST_BODY" => done = input.meant

Words(s) ==
    LET marked == [k \in DOMAIN s |-> IF s[k] \in AsciiSpace THEN Space ELSE s[k]]
    IN  SelectSeq(Split(marked, Space), LAMBDA w : w # << >>)

(* compressWhitespace loses no letter of the words between the blanks and  *)
(* joins none of them.                                                     *)
WordsAreKept ==
    Finished /\ Squeezed =>
        \A k \in DOMAIN done : Words(done[k]) = Words(input.meant[k])

(* What a transform promises of the text it makes *)
Promised(t, s) ==
    CASE t = "compressWhitespace" ->
            \A i \in DOMAIN s :
                s[i] \in AsciiSpace => s[i] = Space /\ (i > 1 => s[i - 1] # Space)
      [] t = "removeWhitespace" -> \A i \in DOMAIN s : s[i] \notin AsciiSpace
      [] t = "removeNulls" -> \A i \in DOMAIN s : s[i] # Nul
      [] t = "lowercase" -> \A i \in DOMAIN s : s[i] \notin 65 .. 90
      [] OTHER -> TRUE

(* An operator is given no value that breaks what the last transform of    *)
(* its condition promises, whatever the transforms before it decoded: two  *)
(* blanks in a row or one that is no space, a blank, a nul, a capital of   *)
(* ASCII.  The decoders promise nothing: one layer of escapes taken off,   *)
(* another may show.                                                       *)
TransformsDeliver ==
    Passes(input) # << >> => \A k \in DOMAIN done : Promised(Last(Passes(input)), done[k])

(* A loop moves on by what it took, which never reaches past the end of    *)
(* the text, however an escape is cut off there: each transform ends.      *)
AdvancesInText == [][Take => at' \in at + 1 .. Len(units) + 1]_textVars
============================================================================
