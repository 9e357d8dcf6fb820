-------------------------------- MODULE XmlTok --------------------------------
(***************************************************************************)
(* The tokenizers of expat (lib/xmltok_impl.c): each takes the bytes from *)
(* where the parser stands to the end of the buffer and returns the first *)
(* token and where the next one begins, an error and its place, or that   *)
(* the buffer ends too early.                                              *)
(*                                                                         *)
(* A text is a sequence of bytes, one for each type of sbperbyte that a   *)
(* tokenizer tells apart; "lead" is the first byte of a character of two  *)
(* bytes, always followed by "trail", and is a letter; "bad" stands for   *)
(* BT_NONXML and BT_MALFORM.  A position past the end holds "end".        *)
(* MINBPC is 1 (UTF-8): the units of UTF-16 are not cut in two here.      *)
(***************************************************************************)
EXTENDS Naturals, Sequences, FiniteSets

CONSTANTS
    CDATA_LSQB,  \* how "CDATA[" is spelled: fewer bytes make a smaller model
    XmlTarget,   \* how "xml" is spelled as the target of an instruction
    XmlMisspelt  \* the other spellings of it, with a capital letter

At(s, i) == IF i \in 1 .. Len(s) THEN s[i] ELSE "end"

Blanks    == {" ", "TAB", "CR", "LF"}
Letters   == {"a", "x", "X"}
Digits    == {"1"}
HexDigits == {"1", "a"}
NmStrt    == Letters \cup {"lead"}
NameChars == NmStrt \cup Digits \cup {"trail", "-"}
Malformed == {"bad"}
Quotes    == {"'", "\""}

\* The first position from i on that is in P; Past when there is none.
Past(s) == Len(s) + 1
First(s, P) == IF P = {} THEN Past(s) ELSE CHOOSE p \in P : \A q \in P : p <= q
Find(s, i, C) == First(s, {p \in i .. Len(s) : s[p] \in C})
After(s, i, C) == First(s, {p \in i .. Len(s) : s[p] \notin C})

Found(t, i) == [tok |-> t, next |-> i]
Invalid(i)  == Found("INVALID", i)

\* The buffer ends within a token, or within a character.
Partial(s) ==
    Found(IF s # <<>> /\ s[Len(s)] = "lead" THEN "PARTIAL_CHAR" ELSE "PARTIAL", 0)

\* A scan is at j and must find c there, which ends the token t.
Ends(s, j, c, t) ==
    CASE At(s, j) = "end" -> Partial(s)
      [] At(s, j) = c     -> Found(t, j + 1)
      [] OTHER            -> Invalid(j)

-----------------------------------------------------------------------------
(* Markup that content and prolog share *)

\* i is after "<!-"
scanComment(s, i) ==
    LET stops == {p \in (i + 1) .. Len(s) :
                    \/ s[p] \in Malformed
                    \/ s[p] = "-" /\ At(s, p + 1) \in {"-", "end"}}
        p == First(s, stops)
    IN CASE At(s, i) = "end"            -> Partial(s)
         [] At(s, i) # "-"              -> Invalid(i)
         [] stops = {}                  -> Partial(s)
         [] s[p] \in Malformed          -> Invalid(p)
         [] At(s, p + 1) = "end"        -> Partial(s)
         [] OTHER                       -> Ends(s, p + 2, ">", "COMMENT")

\* The token for a target that is s[i] to s[j - 1]; a capital is an error.
checkPiTarget(s, i, j) ==
    LET target == SubSeq(s, i, j - 1)
    IN IF target = XmlTarget THEN "XML_DECL"
       ELSE IF target \in XmlMisspelt THEN "INVALID" ELSE "PI"

\* i is after "<?"
scanPi(s, i) ==
    LET j     == After(s, i, NameChars)
        tok   == checkPiTarget(s, i, j)
        stops == {p \in (j + 1) .. Len(s) :
                    \/ s[p] \in Malformed
                    \/ s[p] = "?" /\ At(s, p + 1) \in {">", "end"}}
        p     == First(s, stops)
    IN CASE At(s, i) = "end"                              -> Partial(s)
         [] At(s, i) \notin NmStrt                        -> Invalid(i)
         [] At(s, j) = "end"                              -> Partial(s)
         [] At(s, j) \notin Blanks \cup {"?"}             -> Invalid(j)
         [] tok = "INVALID"                               -> Invalid(j)
         [] At(s, j) = "?"                                -> Ends(s, j + 1, ">", tok)
         [] stops = {} \/ (At(s, p) = "?" /\ p = Len(s))  -> Partial(s)
         [] s[p] \in Malformed                            -> Invalid(p)
         [] OTHER                                         -> Found(tok, p + 2)

\* i is after "&#x", "&#", "&"
scanHexCharRef(s, i) ==
    IF At(s, i) \in {"end"} \cup HexDigits
    THEN Ends(s, After(s, i, HexDigits), ";", "CHAR_REF") ELSE Invalid(i)

scanCharRef(s, i) ==
    CASE At(s, i) = "x"                   -> scanHexCharRef(s, i + 1)
      [] At(s, i) \in {"end"} \cup Digits -> Ends(s, After(s, i, Digits), ";", "CHAR_REF")
      [] OTHER                            -> Invalid(i)

scanRef(s, i) ==
    CASE At(s, i) = "#"                   -> scanCharRef(s, i + 1)
      [] At(s, i) \in {"end"} \cup NmStrt -> Ends(s, After(s, i, NameChars), ";", "ENTITY_REF")
      [] OTHER                            -> Invalid(i)

-----------------------------------------------------------------------------
(* Content *)

\* i is after "<!["; nothing is compared before all of it is there.
scanCdataSection(s, i) ==
    LET n     == Len(CDATA_LSQB)
        wrong == {p \in i .. (i + n - 1) : s[p] # CDATA_LSQB[p - i + 1]}
    IN IF Len(s) - i + 1 < n THEN Found("PARTIAL", 0)
       ELSE IF wrong = {} THEN Found("CDATA_SECT_OPEN", i + n)
       ELSE Invalid(First(s, wrong))

\* i is after "</"
scanEndTag(s, i) ==
    LET j == After(s, i, NameChars \cup {":"})
    IN IF At(s, i) \in {"end"} \cup NmStrt
       THEN Ends(s, IF At(s, j) \in Blanks THEN After(s, j, Blanks) ELSE j, ">", "END_TAG")
       ELSE Invalid(i)

\* The rest of a name with at most one colon: "go" on from where it ends.
Go(i) == Found("go", i)

QName(s, i) ==
    LET j == After(s, i, NameChars)
        k == After(s, j + 1, NameChars)
    IN CASE At(s, j) # ":"             -> Go(j)
         [] At(s, j + 1) = "end"       -> Partial(s)
         [] At(s, j + 1) \notin NmStrt -> Invalid(j + 1)
         [] At(s, k) = ":"             -> Invalid(k)
         [] OTHER                      -> Go(k)

\* From inside an attribute value to the quote that closes it.
Value(s, i, open) ==
    LET in[p \in 1 .. (Past(s) + 1)] ==
          LET q   == Find(s, p, {open, "&", "<"} \cup Malformed)
              ref == scanRef(s, q + 1)
          IN CASE At(s, q) = "end"                        -> Partial(s)
               [] At(s, q) = open                         -> Go(q)
               [] At(s, q) # "&"                          -> Invalid(q)
               [] ref.tok \in {"CHAR_REF", "ENTITY_REF"}  -> in[ref.next]
               [] OTHER                                   -> ref
    IN in[i]

\* j is after the name of an attribute: on to the quote that opens its value.
Opening(s, j) ==
    LET equals == IF At(s, j) \in Blanks THEN After(s, j, Blanks) ELSE j
        quote  == After(s, equals + 1, Blanks)
    IN CASE At(s, equals) = "end"        -> Partial(s)
         [] At(s, equals) # "="          -> Invalid(equals)
         [] At(s, quote) = "end"         -> Partial(s)
         [] At(s, quote) \notin Quotes   -> Invalid(quote)
         [] OTHER                        -> Go(quote)

\* i is after the first byte of an attribute's name.
scanAtts(s, i) ==
    LET att[p \in 1 .. (Past(s) + 1)] ==
          LET name  == QName(s, p)
              open  == Opening(s, name.next)
              value == Value(s, open.next + 1, s[open.next])
              close == value.next + 1
              more  == After(s, close, Blanks)
          IN CASE name.tok # "go"                        -> name
               [] name.tok = "go" /\ open.tok # "go"     -> open
               [] name.tok = "go" /\ open.tok = "go" /\ value.tok # "go" -> value
               [] OTHER ->
                    CASE At(s, more) = "end"  -> Partial(s)
                      [] At(s, more) = ">"    -> Found("START_TAG_WITH_ATTS", more + 1)
                      [] At(s, more) = "/"    -> Ends(s, more + 1, ">", "EMPTY_ELEMENT_WITH_ATTS")
                      [] more > close /\ At(s, more) \in NmStrt -> att[more + 1]
                      [] OTHER                -> Invalid(more)
    IN att[i]

\* i is after "<"
scanLt(s, i) ==
    LET name == QName(s, i)
        more == After(s, name.next, Blanks)
    IN CASE At(s, i) = "end"  -> Partial(s)
         [] At(s, i) = "!"    ->
              CASE At(s, i + 1) = "end" -> Partial(s)
                [] At(s, i + 1) = "-"   -> scanComment(s, i + 2)
                [] At(s, i + 1) = "["   -> scanCdataSection(s, i + 2)
                [] OTHER                -> Invalid(i + 1)
         [] At(s, i) = "?"    -> scanPi(s, i + 1)
         [] At(s, i) = "/"    -> scanEndTag(s, i + 1)
         [] At(s, i) \notin NmStrt \cup {"end", "!", "?", "/"} -> Invalid(i)
         [] At(s, i) \in NmStrt /\ name.tok # "go" -> name
         [] OTHER ->
              CASE At(s, more) = "end" -> Partial(s)
                [] At(s, more) = ">"   -> Found("START_TAG_NO_ATTS", more + 1)
                [] At(s, more) = "/"   -> Ends(s, more + 1, ">", "EMPTY_ELEMENT_NO_ATTS")
                [] more > name.next /\ At(s, more) \in NmStrt -> scanAtts(s, more + 1)
                [] OTHER               -> Invalid(more)

DataFromEager(s, p) ==
    LET stops == {q \in p .. Len(s) :
                    \/ s[q] \in {"&", "<", "CR", "LF"} \cup Malformed
                    \/ s[q] = "lead" /\ q = Len(s)
                    \/ s[q] = "]" /\ At(s, q + 1) = "]" /\ At(s, q + 2) = ">"}
        q == First(s, stops)
    IN IF At(s, q) = "]" THEN Invalid(q + 2) ELSE Found("DATA_CHARS", q)

\* Characters from p on, the first one taken: they end before anything that is
\* not plain data, before half a character, and before what may be a "]]>".
DataFrom(s, p) ==
    LET stops == {q \in p .. Len(s) :
                    \/ s[q] \in {"&", "<", "CR", "LF"} \cup Malformed
                    \/ s[q] = "lead" /\ q = Len(s)
                    \/ s[q] = "]" /\ (\/ At(s, q + 1) = "end"
                                      \/ /\ At(s, q + 1) = "]"
                                         /\ At(s, q + 2) \in {"end", ">"})}
        q == First(s, stops)
    IN IF At(s, q) = "]" /\ At(s, q + 2) = ">" THEN Invalid(q + 2)
       ELSE Found("DATA_CHARS", q)

Newline(s, i) == Found("DATA_NEWLINE", IF At(s, i + 1) = "LF" THEN i + 2 ELSE i + 1)

TrailingCREager(s, i) == Newline(s, i)

\* A CR may have its LF in the next buffer.
TrailingCR(s, i) == IF i = Len(s) THEN Found("TRAILING_CR", 0) ELSE Newline(s, i)

contentTok(s, i) ==
    CASE At(s, i) = "end" -> Found("NONE", 0)
      [] At(s, i) = "<"   -> scanLt(s, i + 1)
      [] At(s, i) = "&"   -> scanRef(s, i + 1)
      [] At(s, i) = "CR"  -> TrailingCR(s, i)
      [] At(s, i) = "LF"  -> Found("DATA_NEWLINE", i + 1)
      [] At(s, i) = "]"   ->
           CASE i = Len(s)                                   -> Found("TRAILING_RSQB", 0)
             [] At(s, i + 1) = "]" /\ i + 1 = Len(s)         -> Found("TRAILING_RSQB", 0)
             [] At(s, i + 1) = "]" /\ At(s, i + 2) = ">"     -> Invalid(i + 2)
             [] OTHER                                        -> DataFrom(s, i + 1)
      [] At(s, i) \in Malformed              -> Invalid(i)
      [] At(s, i) = "lead" /\ i = Len(s)     -> Partial(s)
      [] OTHER                               -> DataFrom(s, i + 1)

cdataSectionTok(s, i) ==
    LET stops == {q \in (i + 1) .. Len(s) :
                    \/ s[q] \in {"CR", "LF", "]"} \cup Malformed
                    \/ s[q] = "lead" /\ q = Len(s)}
        data  == Found("DATA_CHARS", First(s, stops))
    IN CASE At(s, i) = "end" -> Found("NONE", 0)
         [] At(s, i) = "]"   ->
              CASE i = Len(s)                                -> Partial(s)
                [] At(s, i + 1) # "]"                        -> data
                [] i + 1 = Len(s)                            -> Partial(s)
                [] At(s, i + 2) = ">"                        -> Found("CDATA_SECT_CLOSE", i + 3)
                [] OTHER                                     -> data
         [] At(s, i) = "CR"  -> IF i = Len(s) THEN Partial(s) ELSE Newline(s, i)
         [] At(s, i) = "LF"  -> Found("DATA_NEWLINE", i + 1)
         [] At(s, i) \in Malformed              -> Invalid(i)
         [] At(s, i) = "lead" /\ i = Len(s)     -> Partial(s)
         [] OTHER                               -> data

-----------------------------------------------------------------------------
(* The prolog.  A token that may go on in the next buffer is "Ended": the   *)
(* negative of its number in the source.                                   *)

Ended(t) == [tok |-> "ended", as |-> t, next |-> 0]

\* i is after "<!"
scanDecl(s, i) ==
    LET j == After(s, i, Letters)
    IN CASE At(s, i) = "end"           -> Partial(s)
         [] At(s, i) = "-"             -> scanComment(s, i + 1)
         [] At(s, i) = "["             -> Found("COND_SECT_OPEN", i + 1)
         [] At(s, i) \notin Letters \cup {"end", "-", "["} -> Invalid(i)
         [] j > i /\ At(s, j) = "end"  -> Partial(s)
         [] j > i /\ At(s, j) = "%"    ->
              CASE At(s, j + 1) = "end"                  -> Partial(s)
                [] At(s, j + 1) \in Blanks \cup {"%"}    -> Invalid(j)
                [] OTHER                                 -> Found("DECL_OPEN", j)
         [] j > i /\ At(s, j) \in Blanks -> Found("DECL_OPEN", j)
         [] OTHER                      -> Invalid(j)

\* i is after "%"
scanPercent(s, i) ==
    CASE At(s, i) = "end"                  -> Ended("PERCENT")
      [] At(s, i) \in NmStrt               -> Ends(s, After(s, i, NameChars), ";", "PARAM_ENTITY_REF")
      [] At(s, i) \in Blanks \cup {"%"}    -> Found("PERCENT", i)
      [] OTHER                             -> Invalid(i)

\* i is after "#"
scanPoundName(s, i) ==
    LET j == After(s, i, NameChars)
    IN CASE At(s, i) = "end"       -> Partial(s)
         [] At(s, i) \notin NmStrt -> Invalid(i)
         [] At(s, j) = "end"       -> IF s[Len(s)] = "lead" THEN Partial(s)
                                      ELSE Ended("POUND_NAME")
         [] At(s, j) \in Blanks \cup {")", ">", "%", "|"} -> Found("POUND_NAME", j)
         [] OTHER                  -> Invalid(j)

\* i is after the opening quote
scanLit(s, i, open) ==
    LET j == Find(s, i, {open} \cup Malformed)
    IN CASE At(s, j) = "end"         -> Partial(s)
         [] At(s, j) \in Malformed   -> Invalid(j)
         [] j = Len(s)               -> Ended("LITERAL")
         [] At(s, j + 1) \in Blanks \cup {">", "%", "["} -> Found("LITERAL", j + 1)
         [] OTHER                    -> Invalid(j + 1)

Punctuation == [c \in {",", "[", "(", "|", ">"} |->
    CASE c = "," -> "COMMA" [] c = "[" -> "OPEN_BRACKET" [] c = "(" -> "OPEN_PAREN"
      [] c = "|" -> "OR"    [] c = ">" -> "DECL_CLOSE"]

\* White space, without a CR that ends the buffer: "don't split CR/LF pair".
Blank(s, i) ==
    LET j == First(s, {p \in (i + 1) .. Len(s) :
                          s[p] \notin Blanks \/ (s[p] = "CR" /\ p = Len(s))})
    IN IF s[i] = "CR" /\ i = Len(s) THEN Ended("PROLOG_S") ELSE Found("PROLOG_S", j)

CloseParen(s, i) ==
    CASE At(s, i + 1) = "end" -> Ended("CLOSE_PAREN")
      [] At(s, i + 1) = "*"   -> Found("CLOSE_PAREN_ASTERISK", i + 2)
      [] At(s, i + 1) = "?"   -> Found("CLOSE_PAREN_QUESTION", i + 2)
      [] At(s, i + 1) = "+"   -> Found("CLOSE_PAREN_PLUS", i + 2)
      [] At(s, i + 1) \in Blanks \cup {">", ",", "|", ")"} -> Found("CLOSE_PAREN", i + 1)
      [] OTHER                -> Invalid(i + 1)

CloseBracket(s, i) ==
    CASE At(s, i + 1) = "end" -> Ended("CLOSE_BRACKET")
      [] At(s, i + 1) = "]" /\ At(s, i + 2) = "end" -> Partial(s)
      [] At(s, i + 1) = "]" /\ At(s, i + 2) = ">"   -> Found("COND_SECT_CLOSE", i + 3)
      [] OTHER                -> Found("CLOSE_BRACKET", i + 1)

\* A name or a name token, with its colons and its quantifier; tok is what it
\* is so far.
NameTok(s, i) ==
    LET goes[p \in 1 .. (Past(s) + 1), tok \in {"NAME", "PREFIXED_NAME", "NMTOKEN"}] ==
          LET j == After(s, p, NameChars)
              quantified(t) == IF tok = "NMTOKEN" THEN Invalid(j) ELSE Found(t, j + 1)
          IN CASE At(s, j) = "end" -> IF s[Len(s)] = "lead" THEN Partial(s) ELSE Ended(tok)
               [] At(s, j) \in Blanks \cup {">", ")", ",", "|", "[", "%"} -> Found(tok, j)
               [] At(s, j) = "+"   -> quantified("NAME_PLUS")
               [] At(s, j) = "*"   -> quantified("NAME_ASTERISK")
               [] At(s, j) = "?"   -> quantified("NAME_QUESTION")
               [] At(s, j) = ":" /\ tok = "NAME" ->
                    CASE j = Len(s)                  -> Partial(s)
                      [] At(s, j + 1) \in NameChars -> goes[j + 1, "PREFIXED_NAME"]
                      [] OTHER                       -> goes[j + 1, "NMTOKEN"]
               [] At(s, j) = ":" /\ tok # "NAME" -> goes[j + 1, "NMTOKEN"]
               [] OTHER            -> Invalid(j)
    IN IF s[i] \in NmStrt THEN goes[i, "NAME"] ELSE goes[i + 1, "NMTOKEN"]

prologTok(s, i) ==
    LET c == At(s, i)
    IN CASE c = "end"                   -> Found("NONE", 0)
         [] c \in Quotes                -> scanLit(s, i + 1, c)
         [] c = "<"                     ->
              CASE At(s, i + 1) = "end"        -> Partial(s)
                [] At(s, i + 1) = "!"          -> scanDecl(s, i + 2)
                [] At(s, i + 1) = "?"          -> scanPi(s, i + 2)
                [] At(s, i + 1) \in NmStrt     -> Found("INSTANCE_START", i)
                [] OTHER                       -> Invalid(i + 1)
         [] c \in Blanks                -> Blank(s, i)
         [] c = "%"                     -> scanPercent(s, i + 1)
         [] c \in DOMAIN Punctuation    -> Found(Punctuation[c], i + 1)
         [] c = "]"                     -> CloseBracket(s, i)
         [] c = ")"                     -> CloseParen(s, i)
         [] c = "#"                     -> scanPoundName(s, i + 1)
         [] c \in NameChars \cup {":"}  -> NameTok(s, i)
         [] OTHER                       -> Invalid(i)

\* An IGNORE section, from after its "[" on.
ignoreSectionTok(s, i) ==
    LET from[p \in 1 .. (Len(s) + 3), level \in 0 .. Len(s)] ==
          LET q == Find(s, p, {"<", "]"} \cup Malformed)
          IN CASE At(s, q) = "end"               -> Partial(s)
               [] At(s, q) \in Malformed         -> Invalid(q)
               [] At(s, q + 1) = "end"           -> Partial(s)
               [] At(s, q) = "<" /\ At(s, q + 1) = "!" ->
                    CASE At(s, q + 2) = "end"    -> Partial(s)
                      [] At(s, q + 2) = "["      -> from[q + 3, level + 1]
                      [] OTHER                   -> from[q + 2, level]
               [] At(s, q) = "]" /\ At(s, q + 1) = "]" ->
                    CASE At(s, q + 2) = "end"    -> Partial(s)
                      [] At(s, q + 2) # ">"      -> from[q + 2, level]
                      [] level > 0               -> from[q + 3, level - 1]
                      [] OTHER                   -> Found("IGNORE_SECT", q + 3)
               [] OTHER                          -> from[q + 1, level]
    IN from[i, 0]

-----------------------------------------------------------------------------
(* Texts that are complete when they are read: attribute and entity values *)

\* Data up to the next byte in C, which is a token of its own.
ValueData(s, i, C) == Found("DATA_CHARS", Find(s, i, C))

attributeValueTok(s, i) ==
    CASE At(s, i) = "end"             -> Found("NONE", 0)
      [] At(s, i) = "&"               -> scanRef(s, i + 1)
      [] At(s, i) = "<"               -> Invalid(i)
      [] At(s, i) = "LF"              -> Found("DATA_NEWLINE", i + 1)
      [] At(s, i) = "CR"              -> TrailingCR(s, i)
      [] At(s, i) \in {" ", "TAB"}    -> Found("ATTRIBUTE_VALUE_S", i + 1)
      [] OTHER                        ->
           LET data == ValueData(s, i, Blanks \cup {"&", "<"})
           IN IF At(s, data.next) = "<" THEN Invalid(data.next) ELSE data

entityValueTok(s, i) ==
    CASE At(s, i) = "end" -> Found("NONE", 0)
      [] At(s, i) = "&"   -> scanRef(s, i + 1)
      [] At(s, i) = "%"   ->
           LET ref == scanPercent(s, i + 1)
           IN IF ref.tok = "PERCENT" THEN Found("INVALID", ref.next) ELSE ref
      [] At(s, i) = "LF"  -> Found("DATA_NEWLINE", i + 1)
      [] At(s, i) = "CR"  -> TrailingCR(s, i)
      [] OTHER            -> ValueData(s, i, {"&", "%", "LF", "CR"})

-----------------------------------------------------------------------------
(* The attributes of a start tag that scanAtts has accepted: getAtts, from *)
(* its "<" at i on.  It looks at the names and the quotes only.            *)

NoAttribute == [name |-> 0, valuePtr |-> 0, valueEnd |-> 0, normalized |-> TRUE]

BlankChangesInside(s, st, p) ==
    s[p] # " " \/ At(s, p + 1) = " "

\* A blank that collapsing the value would change: at an edge of it, next to
\* another, or not a space.
BlankChanges(s, st, p) ==
    \/ p = st.att.valuePtr \/ s[p] # " "
    \/ At(s, p + 1) \in {" ", st.open}

\* What the byte at p does to the attributes found so far and the state; att
\* is the one at atts[nAtts].
AttStep(s, st, p) ==
    LET c == s[p]
        quoteOpens  == c \in Quotes /\ st.state # "inValue"
        quoteCloses == c \in Quotes /\ st.state = "inValue" /\ st.open = c
    IN CASE c \in NmStrt /\ st.state = "other" ->
              [st EXCEPT !.state = "inName", !.att.name = p, !.att.normalized = TRUE]
         [] quoteOpens  -> [st EXCEPT !.state = "inValue", !.open = c,
                                      !.att.valuePtr = p + 1]
         [] quoteCloses -> [st EXCEPT !.state = "other", !.att = NoAttribute,
                                      !.atts = Append(@, [st.att EXCEPT !.valueEnd = p])]
         [] c = "&"     -> [st EXCEPT !.att.normalized = FALSE]
         [] c \in Blanks /\ st.state = "inName" -> [st EXCEPT !.state = "other"]
         [] c \in {" ", "TAB"} /\ st.state = "inValue" /\ BlankChanges(s, st, p) ->
              [st EXCEPT !.att.normalized = FALSE]
         [] c \in {"CR", "LF"} /\ st.state = "inValue" ->
              [st EXCEPT !.att.normalized = FALSE]
         [] OTHER       -> st

\* A ">" or "/" ends the tag, unless it is in a value.
TagEnds(c, state) == c \in {">", "/"} /\ state # "inValue"

getAtts(s, i) ==
    LET upTo[p \in i .. Len(s)] ==
          IF p = i THEN [state |-> "inName", open |-> "none", att |-> NoAttribute,
                         atts |-> <<>>, over |-> FALSE]
          ELSE LET st == upTo[p - 1]
               IN IF st.over \/ s[p] = "trail" THEN st
                  ELSE IF TagEnds(s[p], st.state) THEN [st EXCEPT !.over = TRUE]
                  ELSE AttStep(s, st, p)
    IN upTo[Len(s)].atts

===============================================================================
