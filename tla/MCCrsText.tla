----------------------------- MODULE MCCrsText -----------------------------
(* Words of up to two characters in every spelling and with every tail,    *)
(* words in two layers of escapes, texts of up to five blanks and letters, *)
(* forms and cookies of up to two fields.                                  *)
EXTENDS CrsText

Input(source, parts, transforms, meant) ==
    [source |-> source, parts |-> parts, transforms |-> transforms, meant |-> meant]

Body(text, transforms, meant) == Input("REQUEST_BODY", <<text>>, transforms, <<meant>>)

Decoders == {"urlDecodeUni", "jsDecode", "cssDecode", "htmlEntityDecode"}

Letters == {10, Less, Quote, Amp, Percent, Backslash, 97, 233, 8232}

Chars == {<<c>> : c \in Letters}

Pairs == {<<a, b>> : a \in {Less, Backslash, 233}, b \in {Amp, Percent, 97, 8232}}

Spelled(t, w) ==
    IF Len(w) = 1 THEN Spellings(t, w[1])
    ELSE {a \o b : a \in Spellings(t, w[1]), b \in Spellings(t, w[2])}

OneLayer ==
    UNION {UNION {{Body(s, <<t>>, w) : s \in Spelled(t, w)} : w \in Chars \cup Pairs} : t \in Decoders}

WithTail ==
    UNION {{Body(s \o b, <<t>>, <<Less>> \o b) : s \in Spellings(t, Less), b \in Broken(t)}
           \cup {Body(s \o b, <<t>>, <<Less>> \o Tail(b)) : s \in Spellings(t, Less), b \in Shortened(t)} :
                t \in Decoders}

ByTheByte ==
    UNION {{Body(s, <<t>>, Utf8(c)) : s \in Bytewise(t, c)} :
              t \in Decoders \cap ByBytes, c \in {233, 8232}}

(* One spelling for each character *)
Escaped(t, s) == FlattenSeq([k \in DOMAIN s |-> CHOOSE x \in Spellings(t, s[k]) : TRUE])

TwoLayers ==
    UNION {UNION {{Body(Escaped(t[1], s), t, w) : s \in Spelled(t[2], w)} : w \in Chars} :
              t \in Decoders \X Decoders}

Others ==
    {Body(<<a, b>>, <<"utf8toUnicode", "jsDecode">>, <<a, b>>) :
        a \in Letters \ {Backslash}, b \in {97, 233, 8232}}
    \cup {Body(<<128512>>, <<"utf8toUnicode">>, <<Backslash, 117>> \o HexOf(128512, 5)),
          Body(<<Percent, 52, 49, 65, 201>>, <<"none", "lowercase">>, <<Percent, 52, 49, 97, 233>>),
          Body(<<Percent, 52, 49, 65>>, <<"urlDecodeUni", "lowercase">>, <<97, 97>>),
          Body(<<97, 0, 32, 0, 9, 98>>, <<"removeNulls", "removeWhitespace">>, <<97, 98>>),
          Body(<<97, Percent, 48, 48, 0, 98>>, <<"urlDecodeUni", "removeNulls">>, <<97, 98>>)}

Texts == UNION {[1 .. n -> {97, Space, 9}] : n \in 0 .. 5}

Blanks ==
    UNION {{Body(s, <<"compressWhitespace">>, s),
            Body(Escaped("urlDecodeUni", s \o <<0>>),
                 <<"urlDecodeUni", "removeNulls", "compressWhitespace">>, s)} : s \in Texts}

----------------------------------------------------------------------------
(* A field has a name or is its value alone; its value may be empty, hold  *)
(* an equal sign, or what would end the field if it were not escaped.      *)

Field(names, value) == [names |-> names, value |-> value]

FormFields ==
    {Field(<<n>>, v) : n \in {<< >>, <<97>>}, v \in {<< >>, <<98, Equal, 98>>, <<Amp, Percent>>}}
    \cup {Field(<< >>, v) : v \in {<< >>, <<98, Space>>}}

CookieFields ==
    {Field(<< <<97>> >>, v) : v \in {<< >>, <<98, Equal, Percent>>}} \cup {Field(<< >>, v) : v \in {<< >>, <<98>>}}

InForm(f) ==
    LET value == FlattenSeq([k \in DOMAIN f.value |-> IF f.value[k] = Equal THEN <<Equal>>
                                                      ELSE Escaped("urlDecodeSimple", <<f.value[k]>>)])
    IN  IF f.names = << >> THEN value ELSE Escaped("urlDecodeSimple", f.names[1]) \o <<Equal>> \o value

InCookie(f) == IF f.names = << >> THEN f.value ELSE f.names[1] \o <<Space, Equal, Space>> \o f.value

NamesOf(fs) == FlattenSeq([k \in DOMAIN fs |-> fs[k].names])

ValuesOf(fs) ==
    LET some == SelectSeq(fs, LAMBDA f : f.names # << >> \/ f.value # << >>)
    IN  [k \in DOMAIN some |-> some[k].value]

Accented ==
    UNION {{Input("ARGS", <<s>>, << >>, <<Utf8(c)>>) : s \in Bytewise("urlDecodeSimple", c)} :
              c \in {233, 8232}}

FieldPairs(fields) == {<<f, g>> : f \in fields, g \in fields}

Form(fs) == InForm(fs[1]) \o <<Amp>> \o InForm(fs[2])

Forms ==
    UNION {{Input("ARGS", <<Form(fs)>>, << >>, ValuesOf(fs)),
            Input("ARGS_NAMES", <<Form(fs)>>, << >>, NamesOf(fs)),
            Input("ARGS", <<InForm(fs[1]), InForm(fs[2])>>, <<"lowercase">>, ValuesOf(fs)),
            Input("ARGS_NAMES", <<InForm(fs[1]), InForm(fs[2])>>, << >>, NamesOf(fs))} :
                fs \in FieldPairs(FormFields)}

Cookie(fs) == InCookie(fs[1]) \o <<Semicolon, Space>> \o InCookie(fs[2])

Cookies ==
    UNION {{Input("REQUEST_COOKIES", <<Cookie(fs)>>, << >>, ValuesOf(fs)),
            Input("REQUEST_COOKIES_NAMES", <<Cookie(fs)>>, << >>, NamesOf(fs))} :
                fs \in FieldPairs(CookieFields)}

MCInputs == OneLayer \cup WithTail \cup ByTheByte \cup TwoLayers \cup Others \cup Blanks \cup Forms \cup Accented \cup Cookies
============================================================================
