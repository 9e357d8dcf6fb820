----------------------------- MODULE Declarations -----------------------------
(***************************************************************************)
(* What the parser may rely on when it reads a document type declaration: *)
(* the order of the roles it is told (the switch of doProlog acts on each *)
(* one without looking back).  One declaration is open at a time, its     *)
(* parts come once and in order, and it ends when it is complete.         *)
(***************************************************************************)
EXTENDS Naturals

VARIABLES
    place,   \* where in the prolog we are: a declaration, or between two
    depth,   \* open groups of the content model
    told,    \* the parts of the open declaration already told
    role     \* the last role told

vars == <<place, depth, told, role>>

Kinds  == {"entity", "notation", "attlist", "element"}
Places == Kinds \cup {"start", "prolog", "doctype", "begin", "subset", "closing",
                      "misc", "section", "over"}

None(kind) == CASE kind = "entity"   -> "ENTITY_NONE"
                [] kind = "notation" -> "NOTATION_NONE"
                [] kind = "attlist"  -> "ATTLIST_NONE"
                [] kind = "element"  -> "ELEMENT_NONE"

Names    == {"GENERAL_ENTITY_NAME", "PARAM_ENTITY_NAME"}
Types    == {"ATTRIBUTE_TYPE_CDATA", "ATTRIBUTE_TYPE_ID", "ATTRIBUTE_TYPE_IDREF",
             "ATTRIBUTE_TYPE_IDREFS", "ATTRIBUTE_TYPE_ENTITY",
             "ATTRIBUTE_TYPE_ENTITIES", "ATTRIBUTE_TYPE_NMTOKEN",
             "ATTRIBUTE_TYPE_NMTOKENS"}
Values   == {"ATTRIBUTE_ENUM_VALUE", "ATTRIBUTE_NOTATION_VALUE"}
Defaults == {"IMPLIED_ATTRIBUTE_VALUE", "REQUIRED_ATTRIBUTE_VALUE",
             "DEFAULT_ATTRIBUTE_VALUE", "FIXED_ATTRIBUTE_VALUE"}
Children == {"CONTENT_ELEMENT", "CONTENT_ELEMENT_OPT", "CONTENT_ELEMENT_REP",
             "CONTENT_ELEMENT_PLUS"}
Closes   == {"GROUP_CLOSE", "GROUP_CLOSE_OPT", "GROUP_CLOSE_REP",
             "GROUP_CLOSE_PLUS"}

\* The roles that tell a part of a declaration, of each kind.
EntityParts   == Names \cup {"ENTITY_VALUE", "ENTITY_PUBLIC_ID",
                            "ENTITY_SYSTEM_ID", "ENTITY_NOTATION_NAME"}
NotationParts == {"NOTATION_NAME", "NOTATION_PUBLIC_ID", "NOTATION_SYSTEM_ID"}
AttlistParts  == {"ATTLIST_ELEMENT_NAME", "ATTRIBUTE_NAME"} \cup Types
                   \cup Values \cup Defaults
ElementParts  == {"ELEMENT_NAME", "CONTENT_EMPTY", "CONTENT_ANY",
                  "CONTENT_PCDATA", "GROUP_OPEN", "GROUP_CHOICE",
                  "GROUP_SEQUENCE"} \cup Children \cup Closes

Parts(kind) == CASE kind = "entity"   -> EntityParts
                 [] kind = "notation" -> NotationParts
                 [] kind = "attlist"  -> AttlistParts
                 [] kind = "element"  -> ElementParts

AllParts == UNION {Parts(k) : k \in Kinds}

\* The parts that come back within one declaration: only their place counts.
Repeated == Children \cup Closes \cup {"GROUP_CHOICE", "GROUP_SEQUENCE"}

\* What is remembered of the parts of a declaration once r is told: the
\* default of an attribute makes room for the next attribute.
Recalled(before, r) ==
    IF r \in Defaults THEN {"ATTLIST_ELEMENT_NAME"}
    ELSE IF r \in AllParts \ Repeated THEN before \cup {r} ELSE before

Has(parts) == told \cap parts # {}

\* The parts that must have been told, or not, before this one is.
MayTell(r) ==
    CASE r \in Names                  -> told = {}
      [] r = "ENTITY_VALUE"           -> Has(Names) /\ told \subseteq Names
      [] r = "ENTITY_PUBLIC_ID"       -> Has(Names) /\ told \subseteq Names
      [] r = "ENTITY_SYSTEM_ID"       ->
            /\ Has(Names)
            /\ told \subseteq Names \cup {"ENTITY_PUBLIC_ID"}
      [] r = "ENTITY_NOTATION_NAME"   ->
            /\ {"GENERAL_ENTITY_NAME", "ENTITY_SYSTEM_ID"} \subseteq told
            /\ "ENTITY_NOTATION_NAME" \notin told
      [] r = "NOTATION_NAME"          -> told = {}
      [] r = "NOTATION_PUBLIC_ID"     -> told = {"NOTATION_NAME"}
      [] r = "NOTATION_SYSTEM_ID"     ->
            /\ "NOTATION_NAME" \in told
            /\ "NOTATION_SYSTEM_ID" \notin told
      [] r = "ATTLIST_ELEMENT_NAME"   -> told = {}
      [] r = "ATTRIBUTE_NAME"         -> told = {"ATTLIST_ELEMENT_NAME"}
      [] r \in Types                  ->
            told = {"ATTLIST_ELEMENT_NAME", "ATTRIBUTE_NAME"}
      [] r \in Values                 ->
            /\ "ATTRIBUTE_NAME" \in told
            /\ ~Has((Values \ {r}) \cup Types)
      [] r \in Defaults               -> Has(Types \cup Values)
      [] r = "ELEMENT_NAME"           -> told = {}
      [] r \in {"CONTENT_EMPTY", "CONTENT_ANY"} -> told = {"ELEMENT_NAME"}
      [] r = "CONTENT_PCDATA"         -> told = {"ELEMENT_NAME", "GROUP_OPEN"}
      [] r = "GROUP_OPEN"             ->
            IF depth = 0 THEN told = {"ELEMENT_NAME"}
                         ELSE ~Has({"CONTENT_PCDATA"})
      [] r \in Children \cup Closes   -> depth > 0
      [] OTHER                        -> depth > 0 /\ ~Has({"CONTENT_PCDATA"})

\* A declaration may end.
Complete ==
    CASE place = "entity"   ->
            Has({"ENTITY_VALUE", "ENTITY_NOTATION_NAME"})
      [] place = "notation" -> Has({"NOTATION_SYSTEM_ID"})
      [] place = "attlist"  -> told = {"ATTLIST_ELEMENT_NAME"}
      [] place = "element"  ->
            depth = 0 /\ Has({"CONTENT_EMPTY", "CONTENT_ANY", "GROUP_OPEN"})

-----------------------------------------------------------------------------

Init ==
    /\ place \in {"start", "begin"}
    /\ depth = 0 /\ told = {} /\ role = "NONE"

Moves(from, to, r) ==
    /\ place \in from /\ place' = to /\ role' = r /\ told' = {} /\ depth' = 0

\* White space, comments, references: between two declarations.
Between ==
    \/ \E r \in {"NONE", "PI", "COMMENT"} :
          \/ Moves({"start", "prolog"}, "prolog", r)
          \/ Moves({"misc"}, "misc", r)
    \/ Moves({"start"}, "start", "NONE")
    \/ \E r \in {"NONE", "PI", "COMMENT", "PARAM_ENTITY_REF"} :
          Moves({"begin", "subset"}, "subset", r)

\* The XML declaration, and the text declaration of an external subset, come
\* before anything else.
FirstDeclaration ==
    Moves({"start"}, "prolog", "XML_DECL") \/ Moves({"begin"}, "subset", "TEXT_DECL")

\* The document type declaration, at most once.
Doctype ==
    \/ Moves({"start", "prolog"}, "doctype", "DOCTYPE_NONE")
    \/ \E r \in {"DOCTYPE_NONE", "DOCTYPE_NAME", "DOCTYPE_PUBLIC_ID",
                 "DOCTYPE_SYSTEM_ID"} : Moves({"doctype"}, "doctype", r)
    \/ Moves({"doctype"}, "subset", "DOCTYPE_INTERNAL_SUBSET")
    \/ Moves({"subset", "closing"}, "closing", "DOCTYPE_NONE")
    \/ Moves({"doctype", "closing"}, "misc", "DOCTYPE_CLOSE")

Sections ==
    \/ Moves({"begin", "subset", "section"}, "section", "NONE")
    \/ \E r \in {"NONE", "IGNORE_SECT"} : Moves({"section"}, "subset", r)

Begin(kind) == Moves({"begin", "subset"}, kind, None(kind))

Tell(kind, r) ==
    /\ place = kind /\ MayTell(r)
    /\ place' = kind /\ role' = r
    /\ told' = Recalled(told, r)
    /\ depth' = IF r = "GROUP_OPEN" THEN depth + 1
                ELSE IF r \in Closes THEN depth - 1 ELSE depth

\* White space within a declaration, or a parameter entity reference there.
Wait ==
    /\ \/ place \in Kinds /\ role' = None(place)
       \/ role' = "INNER_PARAM_ENTITY_REF"
    /\ UNCHANGED <<place, depth, told>>

End(kind) ==
    \/ place = kind /\ Complete /\ Moves({kind}, "subset", None(kind))
    \/ /\ kind = "entity"
       /\ Has({"ENTITY_SYSTEM_ID"}) /\ ~Has({"ENTITY_NOTATION_NAME"})
       /\ Moves({"entity"}, "subset", "ENTITY_COMPLETE")
    \/ /\ kind = "notation"
       /\ told = {"NOTATION_NAME", "NOTATION_PUBLIC_ID"}
       /\ Moves({"notation"}, "subset", "NOTATION_NO_SYSTEM_ID")

\* The root element, or an error: nothing is told after it.
Over ==
    \/ Moves({"start", "prolog", "misc"}, "over", "INSTANCE_START")
    \/ Moves(Places \ {"over"}, "over", "ERROR")
    \/ Moves({"over"}, "over", "NONE")

Next ==
    \/ Between \/ FirstDeclaration \/ Doctype \/ Sections
    \/ \E kind \in Kinds :
          \/ Begin(kind)
          \/ \E r \in Parts(kind) : Tell(kind, r)
          \/ End(kind)
    \/ Wait \/ Over

Spec == Init /\ [][Next]_vars

=============================================================================
