------------------------------- MODULE XmlChunks -------------------------------
(***************************************************************************)
(* A document that reaches the parser of expat in pieces: after each piece*)
(* the loops of doProlog, doContent, doCdataSection and doIgnoreSection   *)
(* (lib/xmlparse.c) take the tokens there are, and leave what may still go*)
(* on for the next piece.  What a token does to the parser is not here,   *)
(* only which loop takes the next one.                                     *)
(***************************************************************************)
EXTENDS XmlTok, SequencesExt

CONSTANTS
    Beginnings  \* what is looked at: the loop, the bytes text begins with, the
                \* bytes it may go on with, and the bound len of them in all

VARIABLES
    start,    \* the one of Beginnings
    text,     \* the bytes that have come
    given,    \* how many of them XML_Parse was given
    parse,    \* what the parser has made of those
    position  \* line and column of the end of them, less what is left over

xvars == <<start, text, given, parse, position>>

-----------------------------------------------------------------------------

\* The loops: the token at i, and the loop that takes the one after it.
Token(loop, s, i) ==
    CASE loop = "prolog"  -> prologTok(s, i)
      [] loop = "content" -> contentTok(s, i)
      [] loop = "cdata"   -> cdataSectionTok(s, i)
      [] loop = "ignore"  -> ignoreSectionTok(s, i)

NextLoop(loop, t) ==
    CASE t = "INSTANCE_START"   -> "content"
      [] t = "CDATA_SECT_OPEN"  -> "cdata"
      [] t = "CDATA_SECT_CLOSE" -> "content"
      [] t = "IGNORE_SECT"      -> "prolog"
      [] OTHER                  -> loop

\* Data and white space may come in several pieces: one token here.
Joined == {"DATA_CHARS", "PROLOG_S"}

Taken(p, t, next) ==
    LET piece == [loop |-> p.loop, tok |-> t, from |-> p.at, to |-> next - 1]
        last  == p.tokens[Len(p.tokens)]
        joins == /\ t \in Joined /\ p.tokens # <<>>
                 /\ last.tok = t /\ last.loop = p.loop
    IN [p EXCEPT !.at = next, !.loop = NextLoop(@, t),
                 !.tokens = IF joins THEN [@ EXCEPT ![Len(@)].to = next - 1]
                                     ELSE Append(@, piece)]

Fails(p, code, place) == [p EXCEPT !.status = code, !.at = place]

\* A token that the end of the buffer cuts short, when nothing comes after it.
AtTheEnd(p, s, r) ==
    CASE r.tok = "ended"         -> Taken(p, r.as, Past(s))
      [] r.tok = "TRAILING_CR"   -> Taken(p, "DATA_NEWLINE", Past(s))
      [] r.tok = "TRAILING_RSQB" -> Taken(p, "DATA_CHARS", Past(s))
      [] r.tok = "PARTIAL"       -> Fails(p, "UNCLOSED_TOKEN", p.at)
      [] r.tok = "PARTIAL_CHAR"  -> Fails(p, "PARTIAL_CHAR", p.at)
      [] r.tok = "NONE"          -> Fails(p, "over", p.at)

Waits == {"ended", "TRAILING_CR", "TRAILING_RSQB", "PARTIAL", "PARTIAL_CHAR", "NONE"}

\* All the tokens of s from where p stands, and from r on, the first of them.
RECURSIVE Tokens(_, _, _)
TokensFrom(p, s, haveMore, r) ==
    IF p.status # "open" THEN p
    ELSE IF r.tok = "INVALID" THEN Fails(p, "INVALID_TOKEN", r.next)
    ELSE IF r.tok \notin Waits THEN Tokens(Taken(p, r.tok, r.next), s, haveMore)
    ELSE IF haveMore THEN p
    ELSE Tokens(AtTheEnd(p, s, r), s, haveMore)

Tokens(p, s, haveMore) == TokensFrom(p, s, haveMore, Token(p.loop, s, p.at))

Fresh(loop) == [loop |-> loop, at |-> 1, tokens |-> <<>>, status |-> "open"]

\* Lines and columns from i to j - 1, counted on from pos.
RECURSIVE updatePosition(_, _, _, _)
updatePosition(s, i, j, pos) ==
    IF i >= j THEN pos
    ELSE LET next == IF s[i] = "lead" \/ (s[i] = "CR" /\ i + 1 < j /\ s[i + 1] = "LF")
                     THEN i + 2 ELSE i + 1
         IN updatePosition(s, next, j,
              IF s[i] \in {"CR", "LF"} THEN [line |-> pos.line + 1, column |-> 0]
                                       ELSE [pos EXCEPT !.column = @ + 1])

-----------------------------------------------------------------------------

ChunksInit ==
    /\ start \in Beginnings
    /\ text = start.text
    /\ given = 0
    /\ parse = Fresh(start.loop)
    /\ position = [line |-> 0, column |-> 0]

\* One more byte comes, even after an error, whose place it must not change.
\* Characters are whole but for the end of the document.
Byte ==
    /\ Len(text) < start.len
    /\ \/ parse.status = "open"
       \/ parse.status = "INVALID_TOKEN" /\ given = Len(text)
    /\ \E b \in start.bytes \cup {"trail"} :
          /\ b = "trail" <=> At(text, Len(text)) = "lead"
          /\ text' = Append(text, b)
    /\ UNCHANGED <<start, given, parse, position>>

\* A piece of the document is given to the parser, the last one or not.
XML_Parse(isFinal) ==
    /\ parse.status = "open"
    /\ isFinal \/ given < Len(text)
    /\ given' = Len(text)
    /\ parse' = Tokens(parse, text, ~isFinal)
    /\ position' = IF parse'.status = "open"
                   THEN updatePosition(text, parse.at, parse'.at, position)
                   ELSE position
    /\ UNCHANGED <<start, text>>

ChunksNext == Byte \/ \E isFinal \in BOOLEAN : XML_Parse(isFinal)

-----------------------------------------------------------------------------
(* Properties *)

(***************************************************************************)
(* A document is the same whatever the pieces it comes in: the tokens, the*)
(* errors and their places are those of the document given at once.  A    *)
(* token found is never found too early, and one that is left over is     *)
(* found again from its beginning.  Only the data right before an error   *)
(* may or may not be told: it is one scan that finds the "]]>" behind it. *)
(***************************************************************************)
Told(p) ==
    LET n == Len(p.tokens)
    IN IF p.status = "INVALID_TOKEN" /\ n > 0 /\ p.tokens[n].tok = "DATA_CHARS"
       THEN [p EXCEPT !.tokens = SubSeq(@, 1, n - 1)] ELSE p

PiecesDoNotMatter ==
    given = Len(text) \/ parse.status = "INVALID_TOKEN" =>
        Told(parse) = Told(Tokens(Fresh(start.loop), text,
                                  parse.status \in {"open", "INVALID_TOKEN"}))

(***************************************************************************)
(* Lines and columns add up over the pieces: updatePosition counts what   *)
(* each call has consumed, and no call ends between the CR and the LF of  *)
(* one line end.  A line end is a LF, or a CR without one.                *)
(***************************************************************************)
LinesAddUp ==
    LET read == {i \in 1 .. (parse.at - 1) : TRUE}
        ends == {i \in read : \/ text[i] = "CR" /\ At(text, i + 1) # "LF"
                              \/ text[i] = "LF"}
        rest == {i \in read : /\ \A e \in ends : e < i
                              /\ text[i] # "trail"}
    IN parse.status = "open" =>
          position = [line |-> Cardinality(ends), column |-> Cardinality(rest)]

IsData(t) ==
    LET spells == SubSeq(text, t.from, t.to)
    IN /\ t.tok = "DATA_CHARS" /\ t.loop = "content" =>
             /\ \A i \in DOMAIN spells : spells[i] \notin {"<", "&"}
             /\ \A i \in 3 .. Len(spells) :
                   SubSeq(spells, i - 2, i) # <<"]", "]", ">">>
       /\ t.tok = "DATA_CHARS" =>
             \A i \in DOMAIN spells : spells[i] \notin {"CR", "LF", "bad"}
       /\ t.tok = "DATA_NEWLINE" =>
             /\ spells \in {<<"LF">>, <<"CR", "LF">>, <<"CR">>}
             /\ spells = <<"CR">> => At(text, t.to + 1) # "LF"

\* The attributes of the tag t: their names, their values between the same
\* quotes, and normalized just when collapsing the blanks of the value would
\* change nothing and it holds no reference.
Spells(t, atts) ==
    LET value(a) == SubSeq(text, a.valuePtr, a.valueEnd - 1)
        collapsed(v) ==
            /\ \A i \in DOMAIN v : v[i] \notin {"TAB", "CR", "LF", "&"}
            /\ v # <<>> => v[1] # " " /\ v[Len(v)] # " "
            /\ \A i \in 2 .. Len(v) : SubSeq(v, i - 1, i) # <<" ", " ">>
        inside == UNION {(a.valuePtr - 1) .. a.valueEnd : a \in Range(atts)}
    IN /\ \A k \in DOMAIN atts :
            LET a == atts[k] IN
            /\ a.name < a.valuePtr /\ a.valuePtr <= a.valueEnd
            /\ text[a.name] \in NmStrt /\ text[a.name - 1] \in Blanks
            /\ \A i \in a.name .. (a.valuePtr - 2) :
                  text[i] \in NameChars \cup Blanks \cup {":", "="}
            /\ text[a.valueEnd] \in Quotes /\ text[a.valuePtr - 1] = text[a.valueEnd]
            /\ \A i \in DOMAIN value(a) : value(a)[i] # text[a.valueEnd]
            /\ a.normalized <=> collapsed(value(a))
            /\ k > 1 => atts[k - 1].valueEnd < a.name
       /\ \A i \in (t.from .. t.to) \ inside : text[i] \notin Quotes
       /\ Len(atts) = Cardinality({i \in (t.from .. t.to) \ inside : text[i] = "="})

(***************************************************************************)
(* Every token is what its name says, however the document was cut.       *)
(* Character data is what XML lets it be: neither a "]]>" nor a "<" or "&"*)
(* is ever given as data, a CR never is, and every line end is one        *)
(* newline (contentTok, cdataSectionTok).  And getAtts, which checks      *)
(* nothing, finds in every start tag that scanAtts has accepted the       *)
(* attributes that are there, in order and none left out.                  *)
(***************************************************************************)
TokensAsSpelled ==
    \A k \in DOMAIN parse.tokens :
        LET t == parse.tokens[k] IN
        /\ IsData(t)
        /\ t.tok \in {"START_TAG_WITH_ATTS", "EMPTY_ELEMENT_WITH_ATTS"} =>
              Spells(t, getAtts(SubSeq(text, 1, t.to), t.from))

===============================================================================
