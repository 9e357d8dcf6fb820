------------------------------- MODULE XmlRole -------------------------------
(***************************************************************************)
(* The prolog state machine of expat (lib/xmlrole.c): the function that   *)
(* turns each token of a document type declaration into the role it plays *)
(* there.  A handler of the source is a set of rows: the tokens of one    *)
(* "case", the handler that takes the next token, the role returned, and  *)
(* what becomes of the counters.  A token no row of the handler names     *)
(* goes to common.                                                        *)
(***************************************************************************)
EXTENDS Naturals, FiniteSets

CONSTANTS
    MaxLevel,    \* bound: how deep the groups of one content model nest
    MaxInclude   \* bound: how deep INCLUDE sections nest

ASSUME BoundsAssumption == MaxLevel \in Nat \ {0, 1} /\ MaxInclude \in Nat

VARIABLES
    handler,        \* state->handler, by the name of the function
    level,          \* open groups of a content model
    role_none,      \* what declClose answers
    includeLevel,   \* open INCLUDE sections
    documentEntity, \* false for an external subset or parameter entity
    role,           \* what the last call returned
    told            \* history: the roles given for the declaration being read

vars == <<handler, level, role_none, includeLevel, documentEntity, role, told>>

-----------------------------------------------------------------------------
(* Tokens: the kind XmlPrologTok returns, and the word that a name, a      *)
(* #name or the opening of a declaration spells.                           *)

DeclWords  == {"DOCTYPE", "ENTITY", "ATTLIST", "ELEMENT", "NOTATION", "other"}
PoundWords == {"IMPLIED", "REQUIRED", "FIXED", "PCDATA", "other"}
TypeWords  == {"CDATA", "ID", "IDREF", "IDREFS", "ENTITY", "ENTITIES",
               "NMTOKEN", "NMTOKENS"}
NameWords  == TypeWords \cup {"SYSTEM", "PUBLIC", "NDATA", "NOTATION", "EMPTY",
                              "ANY", "INCLUDE", "IGNORE", "other"}
PlainKinds ==
    {"PROLOG_S", "XML_DECL", "PI", "COMMENT", "BOM", "INSTANCE_START", "NONE",
     "PREFIXED_NAME", "NMTOKEN", "NAME_QUESTION", "NAME_ASTERISK", "NAME_PLUS",
     "LITERAL", "PERCENT", "PARAM_ENTITY_REF", "COMMA", "OR", "DECL_CLOSE",
     "OPEN_BRACKET", "CLOSE_BRACKET", "OPEN_PAREN", "CLOSE_PAREN",
     "CLOSE_PAREN_QUESTION", "CLOSE_PAREN_ASTERISK", "CLOSE_PAREN_PLUS",
     "COND_SECT_OPEN", "COND_SECT_CLOSE"}

Plain(kinds) == kinds \X {""}
Name(words)  == {"NAME"} \X words
Pound(words) == {"POUND_NAME"} \X words
Decl(words)  == {"DECL_OPEN"} \X words
AnyName      == Name(NameWords) \cup Plain({"PREFIXED_NAME"})

Tokens == Plain(PlainKinds) \cup Name(NameWords) \cup Pound(PoundWords)
            \cup Decl(DeclWords)

-----------------------------------------------------------------------------
(* Rows *)

Row(on, to, r) ==
    [on |-> on, to |-> to, role |-> r, level |-> level,
     includeLevel |-> includeLevel, role_none |-> role_none]

\* White space is skipped with the role NONE of the declaration.
Blank(h, r) == Row(Plain({"PROLOG_S"}), h, r)

setTopLevel == IF documentEntity THEN "internalSubset" ELSE "externalSubset1"

\* The last part of a declaration: declClose waits for its ">".
Final(on, r, none) == [Row(on, "declClose", r) EXCEPT !.role_none = none]

Misc(h) == {Row(Plain({"PI"}), h, "PI"), Row(Plain({"COMMENT"}), h, "COMMENT")}

(* The prolog, around the document type declaration *)

prolog0 ==
    {Blank("prolog1", "NONE"), Row(Plain({"XML_DECL"}), "prolog1", "XML_DECL"),
     Row(Plain({"BOM"}), "prolog0", "NONE"),
     Row(Decl({"DOCTYPE"}), "doctype0", "DOCTYPE_NONE"),
     Row(Plain({"INSTANCE_START"}), "error", "INSTANCE_START")}
    \cup Misc("prolog1")

prolog1 ==
    {Blank("prolog1", "NONE"), Row(Plain({"BOM"}), "prolog1", "NONE"),
     Row(Decl({"DOCTYPE"}), "doctype0", "DOCTYPE_NONE"),
     Row(Plain({"INSTANCE_START"}), "error", "INSTANCE_START")}
    \cup Misc("prolog1")

prolog2 ==
    {Blank("prolog2", "NONE"),
     Row(Plain({"INSTANCE_START"}), "error", "INSTANCE_START")}
    \cup Misc("prolog2")

doctype0 == {Blank("doctype0", "DOCTYPE_NONE"),
             Row(AnyName, "doctype1", "DOCTYPE_NAME")}

OpensOrCloses ==
    {Row(Plain({"OPEN_BRACKET"}), "internalSubset", "DOCTYPE_INTERNAL_SUBSET"),
     Row(Plain({"DECL_CLOSE"}), "prolog2", "DOCTYPE_CLOSE")}

doctype1 == {Blank("doctype1", "DOCTYPE_NONE"),
             Row(Name({"SYSTEM"}), "doctype3", "DOCTYPE_NONE"),
             Row(Name({"PUBLIC"}), "doctype2", "DOCTYPE_NONE")}
            \cup OpensOrCloses

doctype2 == {Blank("doctype2", "DOCTYPE_NONE"),
             Row(Plain({"LITERAL"}), "doctype3", "DOCTYPE_PUBLIC_ID")}

doctype3 == {Blank("doctype3", "DOCTYPE_NONE"),
             Row(Plain({"LITERAL"}), "doctype4", "DOCTYPE_SYSTEM_ID")}

doctype4 == {Blank("doctype4", "DOCTYPE_NONE")} \cup OpensOrCloses

doctype5 == {Blank("doctype5", "DOCTYPE_NONE"),
             Row(Plain({"DECL_CLOSE"}), "prolog2", "DOCTYPE_CLOSE")}

(* The subsets, between two declarations *)

\* What a declaration, a comment or a reference does in either subset; h is
\* the handler of that subset.
Subset(h) ==
    {Blank(h, "NONE"),
     Row(Decl({"ENTITY"}), "entity0", "ENTITY_NONE"),
     Row(Decl({"ATTLIST"}), "attlist0", "ATTLIST_NONE"),
     Row(Decl({"ELEMENT"}), "element0", "ELEMENT_NONE"),
     Row(Decl({"NOTATION"}), "notation0", "NOTATION_NONE"),
     Row(Plain({"PARAM_ENTITY_REF"}), h, "PARAM_ENTITY_REF")}
    \cup Misc(h)

internalSubset ==
    {Row(Plain({"CLOSE_BRACKET"}), "doctype5", "DOCTYPE_NONE"),
     Row(Plain({"NONE"}), "internalSubset", "NONE")}
    \cup Subset("internalSubset")

externalSubset1 ==
    {Row(Plain({"COND_SECT_OPEN"}), "condSect0", "NONE")}
    \cup (IF includeLevel = 0
          THEN {Row(Plain({"NONE"}), "externalSubset1", "NONE")}
          ELSE {[Row(Plain({"COND_SECT_CLOSE"}), "externalSubset1", "NONE")
                     EXCEPT !.includeLevel = includeLevel - 1]})
    \cup Subset("externalSubset1")

externalSubset0 ==
    {Row(Plain({"XML_DECL"}), "externalSubset1", "TEXT_DECL")}
    \cup externalSubset1

condSect0 == {Blank("condSect0", "NONE"),
              Row(Name({"INCLUDE"}), "condSect1", "NONE"),
              Row(Name({"IGNORE"}), "condSect2", "NONE")}

condSect1 == {Blank("condSect1", "NONE"),
              [Row(Plain({"OPEN_BRACKET"}), "externalSubset1", "NONE")
                   EXCEPT !.includeLevel = includeLevel + 1]}

condSect2 == {Blank("condSect2", "NONE"),
              Row(Plain({"OPEN_BRACKET"}), "externalSubset1", "IGNORE_SECT")}

(* <!ENTITY ...>: entity2 to entity6 for a general entity, entity7 to      *)
(* entity10 for a parameter entity                                         *)

entity0 == {Blank("entity0", "ENTITY_NONE"),
            Row(Plain({"PERCENT"}), "entity1", "ENTITY_NONE"),
            Row(Name(NameWords), "entity2", "GENERAL_ENTITY_NAME")}

entity1 == {Blank("entity1", "ENTITY_NONE"),
            Row(Name(NameWords), "entity7", "PARAM_ENTITY_NAME")}

\* The value, or the words that announce the identifiers.
EntityText(h, public, system) ==
    {Blank(h, "ENTITY_NONE"),
     Row(Name({"SYSTEM"}), system, "ENTITY_NONE"),
     Row(Name({"PUBLIC"}), public, "ENTITY_NONE"),
     Final(Plain({"LITERAL"}), "ENTITY_VALUE", "ENTITY_NONE")}

entity2 == EntityText("entity2", "entity3", "entity4")

entity3 == {Blank("entity3", "ENTITY_NONE"),
            Row(Plain({"LITERAL"}), "entity4", "ENTITY_PUBLIC_ID")}

entity4 == {Blank("entity4", "ENTITY_NONE"),
            Row(Plain({"LITERAL"}), "entity5", "ENTITY_SYSTEM_ID")}

entity5 == {Blank("entity5", "ENTITY_NONE"),
            Row(Plain({"DECL_CLOSE"}), setTopLevel, "ENTITY_COMPLETE"),
            Row(Name({"NDATA"}), "entity6", "ENTITY_NONE")}

entity6 == {Blank("entity6", "ENTITY_NONE"),
            Final(Name(NameWords), "ENTITY_NOTATION_NAME", "ENTITY_NONE")}

entity7 == EntityText("entity7", "entity8", "entity9")

entity8 == {Blank("entity8", "ENTITY_NONE"),
            Row(Plain({"LITERAL"}), "entity9", "ENTITY_PUBLIC_ID")}

entity9 == {Blank("entity9", "ENTITY_NONE"),
            Row(Plain({"LITERAL"}), "entity10", "ENTITY_SYSTEM_ID")}

entity10 == {Blank("entity10", "ENTITY_NONE"),
             Row(Plain({"DECL_CLOSE"}), setTopLevel, "ENTITY_COMPLETE")}

(* <!NOTATION ...> *)

notation0 == {Blank("notation0", "NOTATION_NONE"),
              Row(Name(NameWords), "notation1", "NOTATION_NAME")}

notation1 == {Blank("notation1", "NOTATION_NONE"),
              Row(Name({"SYSTEM"}), "notation3", "NOTATION_NONE"),
              Row(Name({"PUBLIC"}), "notation2", "NOTATION_NONE")}

notation2 == {Blank("notation2", "NOTATION_NONE"),
              Row(Plain({"LITERAL"}), "notation4", "NOTATION_PUBLIC_ID")}

NotationSystemId ==
    Final(Plain({"LITERAL"}), "NOTATION_SYSTEM_ID", "NOTATION_NONE")

notation3Forgets == {Blank("notation3", "NOTATION_NONE"),
                     Row(Plain({"LITERAL"}), "declClose", "NOTATION_SYSTEM_ID")}

notation3 == {Blank("notation3", "NOTATION_NONE"), NotationSystemId}

notation4 ==
    {Blank("notation4", "NOTATION_NONE"), NotationSystemId,
     Row(Plain({"DECL_CLOSE"}), setTopLevel, "NOTATION_NO_SYSTEM_ID")}

(* <!ATTLIST ...>: attlist1 to attlist9 once for each attribute *)

attlist0 == {Blank("attlist0", "ATTLIST_NONE"),
             Row(AnyName, "attlist1", "ATTLIST_ELEMENT_NAME")}

attlist1 == {Blank("attlist1", "ATTLIST_NONE"),
             Row(Plain({"DECL_CLOSE"}), setTopLevel, "ATTLIST_NONE"),
             Row(AnyName, "attlist2", "ATTRIBUTE_NAME")}

\* XML_ROLE_ATTRIBUTE_TYPE_CDATA + i
TypeRole ==
    [CDATA   |-> "ATTRIBUTE_TYPE_CDATA",   ID       |-> "ATTRIBUTE_TYPE_ID",
     IDREF   |-> "ATTRIBUTE_TYPE_IDREF",   IDREFS   |-> "ATTRIBUTE_TYPE_IDREFS",
     ENTITY  |-> "ATTRIBUTE_TYPE_ENTITY",  ENTITIES |-> "ATTRIBUTE_TYPE_ENTITIES",
     NMTOKEN |-> "ATTRIBUTE_TYPE_NMTOKEN", NMTOKENS |-> "ATTRIBUTE_TYPE_NMTOKENS"]

attlist2 == {Blank("attlist2", "ATTLIST_NONE"),
             Row(Name({"NOTATION"}), "attlist5", "ATTLIST_NONE"),
             Row(Plain({"OPEN_PAREN"}), "attlist3", "ATTLIST_NONE")}
            \cup {Row(Name({w}), "attlist8", TypeRole[w]) : w \in TypeWords}

attlist3 == {Blank("attlist3", "ATTLIST_NONE"),
             Row(AnyName \cup Plain({"NMTOKEN"}), "attlist4",
                 "ATTRIBUTE_ENUM_VALUE")}

\* After one value of an enumeration: another one (at more) or the end.
EnumGoesOn(h, more) ==
    {Blank(h, "ATTLIST_NONE"),
     Row(Plain({"CLOSE_PAREN"}), "attlist8", "ATTLIST_NONE"),
     Row(Plain({"OR"}), more, "ATTLIST_NONE")}

attlist4 == EnumGoesOn("attlist4", "attlist3")

attlist5 == {Blank("attlist5", "ATTLIST_NONE"),
             Row(Plain({"OPEN_PAREN"}), "attlist6", "ATTLIST_NONE")}

attlist6 == {Blank("attlist6", "ATTLIST_NONE"),
             Row(Name(NameWords), "attlist7", "ATTRIBUTE_NOTATION_VALUE")}

attlist7 == EnumGoesOn("attlist7", "attlist6")

attlist8 ==
    {Blank("attlist8", "ATTLIST_NONE"),
     Row(Pound({"IMPLIED"}), "attlist1", "IMPLIED_ATTRIBUTE_VALUE"),
     Row(Pound({"REQUIRED"}), "attlist1", "REQUIRED_ATTRIBUTE_VALUE"),
     Row(Pound({"FIXED"}), "attlist9", "ATTLIST_NONE"),
     Row(Plain({"LITERAL"}), "attlist1", "DEFAULT_ATTRIBUTE_VALUE")}

attlist9 == {Blank("attlist9", "ATTLIST_NONE"),
             Row(Plain({"LITERAL"}), "attlist1", "FIXED_ATTRIBUTE_VALUE")}

(* <!ELEMENT ...> *)

element0 == {Blank("element0", "ELEMENT_NONE"),
             Row(AnyName, "element1", "ELEMENT_NAME")}

element1 ==
    {Blank("element1", "ELEMENT_NONE"),
     Final(Name({"EMPTY"}), "CONTENT_EMPTY", "ELEMENT_NONE"),
     Final(Name({"ANY"}), "CONTENT_ANY", "ELEMENT_NONE"),
     [Row(Plain({"OPEN_PAREN"}), "element2", "GROUP_OPEN") EXCEPT !.level = 1]}

\* A child element with its quantifier.
Child ==
    {Row(AnyName, "element7", "CONTENT_ELEMENT"),
     Row(Plain({"NAME_QUESTION"}), "element7", "CONTENT_ELEMENT_OPT"),
     Row(Plain({"NAME_ASTERISK"}), "element7", "CONTENT_ELEMENT_REP"),
     Row(Plain({"NAME_PLUS"}), "element7", "CONTENT_ELEMENT_PLUS")}

element2 ==
    {Blank("element2", "ELEMENT_NONE"),
     Row(Pound({"PCDATA"}), "element3", "CONTENT_PCDATA"),
     [Row(Plain({"OPEN_PAREN"}), "element6", "GROUP_OPEN") EXCEPT !.level = 2]}
    \cup Child

element3 ==
    {Blank("element3", "ELEMENT_NONE"),
     Final(Plain({"CLOSE_PAREN"}), "GROUP_CLOSE", "ELEMENT_NONE"),
     Final(Plain({"CLOSE_PAREN_ASTERISK"}), "GROUP_CLOSE_REP", "ELEMENT_NONE"),
     Row(Plain({"OR"}), "element4", "ELEMENT_NONE")}

element4 == {Blank("element4", "ELEMENT_NONE"),
             Row(AnyName, "element5", "CONTENT_ELEMENT")}

element5 ==
    {Blank("element5", "ELEMENT_NONE"),
     Final(Plain({"CLOSE_PAREN_ASTERISK"}), "GROUP_CLOSE_REP", "ELEMENT_NONE"),
     Row(Plain({"OR"}), "element4", "ELEMENT_NONE")}

element6 ==
    {Blank("element6", "ELEMENT_NONE"),
     [Row(Plain({"OPEN_PAREN"}), "element6", "GROUP_OPEN")
          EXCEPT !.level = level + 1]}
    \cup Child

\* The last ")" of a content model is its end.
CloseGroup(kind, r) ==
    [(IF level = 1 THEN Final(Plain({kind}), r, "ELEMENT_NONE")
                   ELSE Row(Plain({kind}), "element7", r))
        EXCEPT !.level = level - 1]

element7 ==
    {Blank("element7", "ELEMENT_NONE"),
     CloseGroup("CLOSE_PAREN", "GROUP_CLOSE"),
     CloseGroup("CLOSE_PAREN_ASTERISK", "GROUP_CLOSE_REP"),
     CloseGroup("CLOSE_PAREN_QUESTION", "GROUP_CLOSE_OPT"),
     CloseGroup("CLOSE_PAREN_PLUS", "GROUP_CLOSE_PLUS"),
     Row(Plain({"COMMA"}), "element6", "GROUP_SEQUENCE"),
     Row(Plain({"OR"}), "element6", "GROUP_CHOICE")}

declClose == {Blank("declClose", role_none),
              Row(Plain({"DECL_CLOSE"}), setTopLevel, role_none)}

error == {Row(Tokens, "error", "NONE")}

\* What no case of a handler takes.
common(t) ==
    IF ~documentEntity /\ t \in Plain({"PARAM_ENTITY_REF"})
    THEN Row({t}, handler, "INNER_PARAM_ENTITY_REF")
    ELSE Row({t}, "error", "ERROR")

\* The call through state->handler.
Rows ==
    CASE handler = "prolog0" -> prolog0
      [] handler = "prolog1" -> prolog1
      [] handler = "prolog2" -> prolog2
      [] handler = "doctype0" -> doctype0
      [] handler = "doctype1" -> doctype1
      [] handler = "doctype2" -> doctype2
      [] handler = "doctype3" -> doctype3
      [] handler = "doctype4" -> doctype4
      [] handler = "doctype5" -> doctype5
      [] handler = "internalSubset" -> internalSubset
      [] handler = "externalSubset0" -> externalSubset0
      [] handler = "externalSubset1" -> externalSubset1
      [] handler = "condSect0" -> condSect0
      [] handler = "condSect1" -> condSect1
      [] handler = "condSect2" -> condSect2
      [] handler = "entity0" -> entity0
      [] handler = "entity1" -> entity1
      [] handler = "entity2" -> entity2
      [] handler = "entity3" -> entity3
      [] handler = "entity4" -> entity4
      [] handler = "entity5" -> entity5
      [] handler = "entity6" -> entity6
      [] handler = "entity7" -> entity7
      [] handler = "entity8" -> entity8
      [] handler = "entity9" -> entity9
      [] handler = "entity10" -> entity10
      [] handler = "notation0" -> notation0
      [] handler = "notation1" -> notation1
      [] handler = "notation2" -> notation2
      [] handler = "notation3" -> notation3
      [] handler = "notation4" -> notation4
      [] handler = "attlist0" -> attlist0
      [] handler = "attlist1" -> attlist1
      [] handler = "attlist2" -> attlist2
      [] handler = "attlist3" -> attlist3
      [] handler = "attlist4" -> attlist4
      [] handler = "attlist5" -> attlist5
      [] handler = "attlist6" -> attlist6
      [] handler = "attlist7" -> attlist7
      [] handler = "attlist8" -> attlist8
      [] handler = "attlist9" -> attlist9
      [] handler = "element0" -> element0
      [] handler = "element1" -> element1
      [] handler = "element2" -> element2
      [] handler = "element3" -> element3
      [] handler = "element4" -> element4
      [] handler = "element5" -> element5
      [] handler = "element6" -> element6
      [] handler = "element7" -> element7
      [] handler = "declClose" -> declClose
      [] handler = "error" -> error

\* The roles one call of the machine may return.
Answers(t) ==
    LET found == {r \in Rows : t \in r.on}
    IN IF found = {} THEN {common(t)} ELSE found

-----------------------------------------------------------------------------
(* Where in the prolog a handler is; declClose is in the declaration that   *)
(* sent there, which only role_none tells.                                 *)

Place ==
    CASE handler = "prolog0"         -> "start"
      [] handler = "prolog1"         -> "prolog"
      [] handler = "prolog2"         -> "misc"
      [] handler = "doctype5"        -> "closing"
      [] handler = "externalSubset0" -> "begin"
      [] handler = "error"           -> "over"
      [] handler \in {"internalSubset", "externalSubset1"}        -> "subset"
      [] handler \in {"doctype0", "doctype1", "doctype2", "doctype3",
                      "doctype4"}                                 -> "doctype"
      [] handler \in {"condSect0", "condSect1", "condSect2"}      -> "section"
      [] handler \in {"notation0", "notation1", "notation2", "notation3",
                      "notation4"}                                -> "notation"
      [] handler \in {"attlist0", "attlist1", "attlist2", "attlist3", "attlist4",
                      "attlist5", "attlist6", "attlist7", "attlist8",
                      "attlist9"}                                 -> "attlist"
      [] handler \in {"element0", "element1", "element2", "element3", "element4",
                      "element5", "element6", "element7"}         -> "element"
      [] handler = "declClose" /\ role_none = "ELEMENT_NONE"      -> "element"
      [] handler = "declClose" /\ role_none = "NOTATION_NONE"     -> "notation"
      [] OTHER                                                    -> "entity"

\* The groups still open: level counts them only while there is one.
Depth == IF handler \in {"element2", "element3", "element4", "element5",
                         "element6", "element7"}
         THEN level ELSE 0

D == INSTANCE Declarations WITH place <- Place, depth <- Depth

-----------------------------------------------------------------------------
(* The behaviour *)

Between == {"internalSubset", "externalSubset1", "prolog1", "prolog2", "error"}

NoneRoles == {"ENTITY_NONE", "NOTATION_NONE", "ELEMENT_NONE"}

\* level and role_none are not set before a declaration needs them
\* (parserInit leaves the memory of the parser as malloc gave it).
Init ==
    /\ \/ handler = "prolog0" /\ documentEntity = TRUE
       \/ handler = "externalSubset0" /\ documentEntity = FALSE
    /\ level \in 0 .. MaxLevel
    /\ role_none \in NoneRoles \cup {"ERROR"}
    /\ includeLevel = 0
    /\ role = "NONE"
    /\ told = {}

XmlTokenRole(t) ==
    \E r \in Answers(t) :
        /\ r.level <= MaxLevel
        /\ r.includeLevel <= MaxInclude
        /\ handler' = r.to
        /\ role' = r.role
        /\ level' = r.level
        /\ includeLevel' = r.includeLevel
        /\ role_none' = r.role_none
        /\ told' = IF r.to \in Between THEN {} ELSE D!Recalled(told, r.role)
        /\ UNCHANGED documentEntity

(***************************************************************************)
(* The roles come in the order the parser relies on: every declaration is  *)
(* told part by part, ends when it is complete with its groups closed, and *)
(* the one whose ">" declClose awaits is the one that sent there.  And the *)
(* two kinds of subset share the handlers of declarations but not what     *)
(* they lead to: the external subset never gets back to the document type  *)
(* declaration, and the internal subset knows no conditional section and   *)
(* no reference within a declaration (setTopLevel, common).                *)
(***************************************************************************)
TellsDeclarations ==
    /\ D!Spec
    /\ [][/\ ~documentEntity =>
                Place' \notin {"start", "prolog", "doctype", "closing", "misc"}
          /\ documentEntity =>
                /\ Place' \notin {"begin", "section"} /\ includeLevel' = 0
                /\ role' \notin {"TEXT_DECL", "IGNORE_SECT",
                                  "INNER_PARAM_ENTITY_REF"}]_vars

=============================================================================
