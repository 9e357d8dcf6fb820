------------------------------- MODULE XmlValues -------------------------------
(***************************************************************************)
(* The values of expat (lib/xmlparse.c): what storeEntityValue keeps of   *)
(* the literal of an entity declaration, and what storeAttributeValue and *)
(* appendAttributeValue make of an attribute value that refers to such    *)
(* entities.  A few entities are declared, then one attribute is read, in *)
(* the prolog as a default or in the content.                              *)
(*                                                                         *)
(* A value is a sequence of the bytes of XmlTok.  Entity values are parsed*)
(* again where they are referred to: a character reference can make       *)
(* markup of them, "&#38;a;" a reference to a.                             *)
(***************************************************************************)
EXTENDS XmlTok, SequencesExt

CONSTANTS
    Pieces,       \* what literals are put together from
    MaxPieces,    \* how many of them there are in all, declarations included
    Names,        \* the names of entities
    Tables,       \* the tables there may be to begin with: [general, param]
    Predefined,   \* the predefined entities: name to character
    EntityPlaces, \* where an entity is declared: see storeEntityValue
    AttributePlaces,  \* where an attribute stands: see NeedsDeclaration
    CharRefs      \* the characters there are by number, to the character

VARIABLES
    general,  \* dtd->generalEntities
    param,    \* dtd->paramEntities
    literal,  \* the literal being written
    pieces,   \* how many pieces there have been
    stored    \* the last value kept, with all it was made from

valvars == <<general, param, literal, pieces, stored>>

-----------------------------------------------------------------------------
(* Entities and results *)

\* internal is is_internal: declared in the internal subset itself.
Entity(kind, text, internal) == [kind |-> kind, text |-> text, internal |-> internal]

Ok(text)  == [text |-> text, error |-> "NONE", skipped |-> FALSE]
Err(code) == [text |-> <<>>, error |-> code, skipped |-> FALSE]

Nothing == [what |-> "nothing", result |-> Ok(<<>>)]

\* The name between "&" or "%" at i and the ";" before next.
NameOf(s, i, next) == SubSeq(s, i + 1, next - 2)

-----------------------------------------------------------------------------
(* Attribute values *)

\* A blank that a value other than CDATA does without.
Needless(isCdata, pool) == ~isCdata /\ (pool = <<>> \/ pool[Len(pool)] = " ")

\* Whether a reference must be to a declared entity; from is where it stands.
NeedsDeclaration(from) ==
    IF from.prolog
    THEN /\ from.documentEntity
         /\ IF from.standalone THEN ~from.inEntity ELSE ~from.hasParamEntityRefs
    ELSE ~from.hasParamEntityRefs \/ from.standalone

\* What keeps a reference to e from being replaced; skipped only without need.
Refused(n, e, open, from) ==
    CASE NeedsDeclaration(from) /\ e.kind = "undeclared" -> "UNDEFINED_ENTITY"
      [] NeedsDeclaration(from) /\ ~e.internal           -> "ENTITY_DECLARED_IN_PE"
      [] e.kind = "undeclared"                           -> "skipped"
      [] n \in open                                      -> "RECURSIVE_ENTITY_REF"
      [] e.kind = "unparsed"                             -> "BINARY_ENTITY_REF"
      [] e.kind = "external"                             -> "ATTRIBUTE_EXTERNAL_ENTITY_REF"
      [] OTHER                                           -> "NONE"

\* A space by number is left out where a blank would be.
CharacterReference(isCdata, pool, c) ==
    IF c = " " /\ Needless(isCdata, pool) THEN Ok(pool) ELSE Ok(Append(pool, c))

RECURSIVE appendAttributeValue(_, _, _, _, _, _)
appendAttributeValue(isCdata, s, i, pool, open, from) ==
    LET t       == attributeValueTok(s, i)
        next    == IF t.tok = "TRAILING_CR" THEN i + 1 ELSE t.next
        name    == NameOf(s, i, next)
        on(r)   == IF r.error # "NONE" THEN r
                   ELSE appendAttributeValue(isCdata, s, next, r.text, open, from)
        refused == Refused(name, general[name], open, from)
    IN CASE t.tok = "NONE"       -> Ok(pool)
         [] t.tok \in {"INVALID", "PARTIAL"} -> Err("INVALID_TOKEN")
         [] t.tok = "CHAR_REF"   ->
              IF name \in DOMAIN CharRefs
              THEN on(CharacterReference(isCdata, pool, CharRefs[name]))
              ELSE Err("BAD_CHAR_REF")
         [] t.tok = "DATA_CHARS" -> on(Ok(pool \o SubSeq(s, i, next - 1)))
         [] t.tok \in {"TRAILING_CR", "ATTRIBUTE_VALUE_S", "DATA_NEWLINE"} ->
              on(Ok(IF Needless(isCdata, pool) THEN pool ELSE Append(pool, " ")))
         [] t.tok = "ENTITY_REF" ->
              IF name \in DOMAIN Predefined THEN on(Ok(Append(pool, Predefined[name])))
              ELSE IF refused = "skipped" THEN on(Ok(pool))
              ELSE IF refused # "NONE" THEN Err(refused)
              ELSE on(appendAttributeValue(isCdata, general[name].text, 1, pool,
                                           open \cup {name}, from))

storeAttributeValue(isCdata, s, from) ==
    LET r == appendAttributeValue(isCdata, s, 1, <<>>, {}, from)
    IN IF ~isCdata /\ r.text # <<>> /\ Last(r.text) = " "
       THEN [r EXCEPT !.text = Front(@)] ELSE r

\* In the content, getAtts has said whether there is anything to be done.
Quoted == <<"<", "a", " ", "a", "=", "'">> \o literal \o <<"'", ">">>

Specified(isCdata, from) ==
    IF getAtts(Quoted, 1)[1].normalized THEN Ok(literal)
    ELSE storeAttributeValue(isCdata, literal, from)

-----------------------------------------------------------------------------
(* Entity values *)

SkipsSilently(value) == Ok(value)

\* Nothing more is processed, unless the document is standalone.
Skips(value) == [Ok(value) EXCEPT !.skipped = TRUE]

\* from says where the literal stands: whether "%" is allowed (isParamEntity),
\* what becomes of external entities (the text is read by a parser of its own,
\* into the same value, or not), and which parameter entity it declares: that
\* one is in the table already, without a text.
RECURSIVE storeEntityValue(_, _, _, _, _)
storeEntityValue(s, i, value, open, from) ==
    LET t       == entityValueTok(s, i)
        next    == IF t.tok = "TRAILING_CR" THEN i + 1 ELSE t.next
        name    == NameOf(s, i, next)
        e       == IF name = from.self THEN Entity("internal", <<>>, TRUE) ELSE param[name]
        on(r)   == LET rest == storeEntityValue(s, next, r.text, open, from)
                   IN IF r.error # "NONE" THEN r
                      ELSE [rest EXCEPT !.skipped = @ \/ r.skipped]
        replace == storeEntityValue(e.text, 1, value, open \cup {name},
                                    [from EXCEPT !.isParamEntity = TRUE])
    IN CASE t.tok = "NONE" -> Ok(value)
         [] t.tok \in {"INVALID", "PARTIAL"} -> Err("INVALID_TOKEN")
         [] t.tok \in {"ENTITY_REF", "DATA_CHARS"} ->
              on(Ok(value \o SubSeq(s, i, next - 1)))
         [] t.tok \in {"TRAILING_CR", "DATA_NEWLINE"} -> on(Ok(Append(value, "LF")))
         [] t.tok = "CHAR_REF" ->
              IF name \in DOMAIN CharRefs THEN on(Ok(Append(value, CharRefs[name])))
              ELSE Err("BAD_CHAR_REF")
         [] t.tok = "PARAM_ENTITY_REF" ->
              CASE ~from.isParamEntity      -> Err("PARAM_ENTITY_REF")
                [] e.kind = "undeclared"    -> Skips(value)
                [] name \in open            -> Err("RECURSIVE_ENTITY_REF")
                [] e.kind = "internal"      -> on(replace)
                [] from.external = "read"   -> on(replace)
                [] from.external = "unread" -> on(Skips(value))
                [] OTHER                    -> Err("EXTERNAL_ENTITY_HANDLING")

-----------------------------------------------------------------------------
(* Literals are written, entities declared with them, and one attribute    *)

Write ==
    /\ stored.what # "attribute" /\ stored.result.error = "NONE" /\ pieces < MaxPieces
    /\ \E p \in Pieces : literal' = literal \o p
    /\ pieces' = pieces + 1
    /\ stored' = [Nothing EXCEPT !.result.skipped = stored.result.skipped]
    /\ UNCHANGED <<general, param>>

\* The first declaration of n (ENTITY_VALUE); each counts as one more piece.
Declare(table, n, from) ==
    /\ stored.what # "attribute" /\ pieces < MaxPieces
    /\ stored.result.error = "NONE" /\ ~stored.result.skipped
    /\ (IF table = "general" THEN general[n] ELSE param[n]).kind = "undeclared"
    /\ LET result == storeEntityValue(literal, 1, <<>>, {}, from)
           e      == Entity("internal", result.text, ~from.isParamEntity)
       IN /\ stored' = [what |-> "entity", literal |-> literal, from |-> from,
                        result |-> result]
          /\ general' = IF table = "general" THEN [general EXCEPT ![n] = e] ELSE general
          /\ param'   = IF table = "param" THEN [param EXCEPT ![n] = e] ELSE param
    /\ literal' = <<>> /\ pieces' = pieces + 1

\* A default in the prolog, or an attribute of a tag that scanAtts accepts.
Attribute(isCdata, from) ==
    /\ stored.what # "attribute"
    /\ stored.result.error = "NONE"
    /\ from.prolog \/ contentTok(Quoted, 1).tok = "START_TAG_WITH_ATTS"
    /\ (\E n \in Names : general[n].kind # "undeclared" /\ ~general[n].internal)
          => from.hasParamEntityRefs
    /\ stored' = [what |-> "attribute", literal |-> literal, from |-> from,
                  isCdata |-> isCdata,
                  result |-> IF from.prolog
                             THEN storeAttributeValue(isCdata, literal, from)
                             ELSE Specified(isCdata, from)]
    /\ UNCHANGED <<general, param, literal, pieces>>

ValuesInit ==
    /\ \E t \in Tables : general = t.general /\ param = t.param
    /\ literal = <<>> /\ pieces = 0 /\ stored = Nothing

ValuesNext ==
    \/ Write
    \/ \E n \in Names, from \in EntityPlaces :
          \/ Declare("general", n, from @@ [self |-> <<>>])
          \/ Declare("param", n, from @@ [self |-> n])
    \/ \E isCdata \in BOOLEAN, from \in AttributePlaces : Attribute(isCdata, from)

-----------------------------------------------------------------------------
(* Properties *)

(* What a value means, by rewriting it: the leftmost reference is replaced  *)
(* until there is none.  A character knows whether it may still be markup,  *)
(* and the path of references that it came through.                         *)

Chars(text, path) == [i \in DOMAIN text |-> [c |-> text[i], markup |-> TRUE, path |-> path]]

\* A line end is one character, in each text by itself.
Lines(text, path) ==
    LET units == Chars(text, path)
        pair(i) == text[i] = "CR" /\ At(text, i + 1) = "LF"
        idx == SelectSeq([i \in DOMAIN text |-> i], LAMBDA i : ~pair(i))
    IN [k \in DOMAIN idx |-> [units[idx[k]] EXCEPT !.c = IF @ = "CR" THEN "LF" ELSE @]]

Through(path) == {path[k][1] : k \in DOMAIN path}

\* The characters between the mark at k and its ";", in the same text.
Body(u, k) ==
    LET ends == {j \in k + 1 .. Len(u) : u[j].c = ";" /\ u[j].path = u[k].path}
        j == CHOOSE j \in ends : \A m \in ends : j <= m
    IN IF ends = {} THEN <<>> ELSE [i \in 1 .. j - k - 1 |-> u[k + i].c]

IsName(b) == b # <<>> /\ b[1] \in NmStrt /\ \A i \in DOMAIN b : b[i] \in NameChars
IsNumber(b) ==
    /\ Len(b) >= 2 /\ b[1] = "#"
    /\ LET hex == b[2] = "x" IN
       /\ hex => Len(b) >= 3
       /\ \A i \in (IF hex THEN 3 ELSE 2) .. Len(b) :
             b[i] \in IF hex THEN HexDigits ELSE Digits

Kept(c, path) == <<[c |-> c, markup |-> FALSE, path |-> path]>>

Replace(u, k, by) == SubSeq(u, 1, k - 1) \o by \o SubSeq(u, k + Len(Body(u, k)) + 2, Len(u))

Leftmost(u, marks) ==
    First(u, {k \in DOMAIN u : u[k].markup /\ u[k].c \in marks})

RECURSIVE AttributeMeans(_, _)
AttributeMeans(u, from) ==
    LET k    == Leftmost(u, {"&", "<"})
        b    == Body(u, k)
        path == u[k].path
        by(units) == AttributeMeans(Replace(u, k, units), from)
        refused == Refused(b, general[b], Through(path), from)
    IN IF k = Past(u) THEN [units |-> u, error |-> "NONE"]
       ELSE IF u[k].c = "<" \/ ~(IsName(b) \/ IsNumber(b))
       THEN [units |-> <<>>, error |-> "INVALID_TOKEN"]
       ELSE IF IsNumber(b)
       THEN IF b \in DOMAIN CharRefs THEN by(Kept(CharRefs[b], path))
            ELSE [units |-> <<>>, error |-> "BAD_CHAR_REF"]
       ELSE IF b \in DOMAIN Predefined THEN by(Kept(Predefined[b], path))
       ELSE CASE refused = "NONE" ->
                   by(Lines(general[b].text, Append(path, <<b, k>>)))
              [] refused = "skipped" -> by(<<>>)
              [] OTHER -> [units |-> <<>>, error |-> refused]

\* Blanks are spaces; without CDATA, there is one between two words only.
Normalized(isCdata, u) ==
    LET c == [i \in DOMAIN u |-> IF u[i].markup /\ u[i].c \in Blanks THEN " " ELSE u[i].c]
        needed(i) == \/ c[i] # " "
                     \/ /\ i > 1 /\ c[i - 1] # " "
                        /\ \E j \in i .. Len(c) : c[j] # " "
    IN IF isCdata THEN c
       ELSE LET idx == SelectSeq([i \in DOMAIN c |-> i], needed)
            IN [k \in DOMAIN idx |-> c[idx[k]]]

RECURSIVE EntityMeans(_, _, _)
EntityMeans(u, from, skipped) ==
    LET k    == Leftmost(u, {"&", "%"})
        b    == Body(u, k)
        path == u[k].path
        e    == IF b = from.self THEN Entity("internal", <<>>, TRUE) ELSE param[b]
        on(v, s) == EntityMeans(v, from, skipped \/ s)
        fails(c) == [units |-> <<>>, error |-> c, skipped |-> FALSE]
        asIs == [i \in 1 .. Len(b) + 2 |-> [u[k + i - 1] EXCEPT !.markup = FALSE]]
        rest == SelectSeq(SubSeq(u, k, Len(u)), LAMBDA x : x.path # path)
    IN IF k = Past(u) THEN [units |-> u, error |-> "NONE", skipped |-> skipped]
       ELSE IF ~IsName(b) /\ (u[k].c = "%" \/ ~IsNumber(b)) THEN fails("INVALID_TOKEN")
       ELSE IF IsNumber(b)
       THEN IF b \in DOMAIN CharRefs THEN on(Replace(u, k, Kept(CharRefs[b], path)), FALSE)
            ELSE fails("BAD_CHAR_REF")
       ELSE IF u[k].c = "&" THEN on(Replace(u, k, asIs), FALSE)
       ELSE CASE path = <<>> /\ ~from.isParamEntity -> fails("PARAM_ENTITY_REF")
              [] e.kind = "undeclared"   -> on(SubSeq(u, 1, k - 1) \o rest, TRUE)
              [] b \in Through(path)     -> fails("RECURSIVE_ENTITY_REF")
              [] e.kind = "internal" \/ from.external = "read" ->
                   on(Replace(u, k, Lines(e.text, Append(path, <<b, k>>))), FALSE)
              [] from.external = "unread" -> on(Replace(u, k, <<>>), TRUE)
              [] OTHER                    -> fails("EXTERNAL_ENTITY_HANDLING")

(***************************************************************************)
(* An attribute has the value that its text stands for: every reference   *)
(* replaced, also those that only the replacement of others makes, blanks *)
(* normalized afterwards; a space by number counts as a space where the   *)
(* type is not CDATA, other characters by number are never blanks.  The   *)
(* shortcut for values that getAtts calls normalized changes nothing, for *)
(* either type.  An error is given just when the text has one, the first. *)
(* The value of an entity is its literal with character references and    *)
(* references to parameter entities replaced, at every depth, and the     *)
(* references to general entities left as they are; processing goes on    *)
(* unless something was skipped.  After an undeclared parameter entity the*)
(* rest of the text that refers to it is lost, and no more than that.     *)
(***************************************************************************)
ValuesAsSpelled ==
    /\ stored.what = "attribute" =>
          LET m == AttributeMeans(Lines(stored.literal, <<>>), stored.from)
          IN /\ stored.result.error = m.error
             /\ m.error = "NONE" =>
                   stored.result.text = Normalized(stored.isCdata, m.units)
    /\ stored.what = "entity" =>
          LET m == EntityMeans(Lines(stored.literal, <<>>), stored.from, FALSE)
          IN /\ stored.result.error = m.error
             /\ m.error = "NONE" =>
                   /\ stored.result.text = [i \in DOMAIN m.units |-> m.units[i].c]
                   /\ stored.result.skipped = m.skipped

===============================================================================
