----------------------------- MODULE XmlRoleInv -----------------------------
(***************************************************************************)
(* The inductive invariant of the prolog state machine of expat (XmlRole): *)
(* where in a declaration a handler is is what it has told of it.          *)
(***************************************************************************)
EXTENDS XmlRole

\* The handlers, by the part of the prolog they read.
DocumentHandlers ==
    {"prolog0", "prolog1", "prolog2", "doctype0", "doctype1", "doctype2",
     "doctype3", "doctype4", "doctype5", "internalSubset"}
ExternalHandlers ==
    {"externalSubset0", "externalSubset1", "condSect0", "condSect1",
     "condSect2"}
EntityHandlers ==
    {"entity0", "entity1", "entity2", "entity3", "entity4", "entity5",
     "entity6", "entity7", "entity8", "entity9", "entity10"}
NotationHandlers ==
    {"notation0", "notation1", "notation2", "notation3", "notation4"}
AttlistHandlers ==
    {"attlist0", "attlist1", "attlist2", "attlist3", "attlist4",
     "attlist5", "attlist6", "attlist7", "attlist8", "attlist9"}
ElementHandlers ==
    {"element0", "element1", "element2", "element3", "element4",
     "element5", "element6", "element7"}

Handlers ==
    DocumentHandlers \cup ExternalHandlers \cup EntityHandlers
      \cup NotationHandlers \cup AttlistHandlers \cup ElementHandlers
      \cup {"declClose", "error"}

\* What is known of an entity by now: its name, and for an external one the
\* identifiers in their order.
EntityTold ==
    /\ handler \in {"entity0", "entity1"} => told = {}
    /\ handler \in {"entity2", "entity3"} => told = {"GENERAL_ENTITY_NAME"}
    /\ handler = "entity4" =>
          told \in {{"GENERAL_ENTITY_NAME"},
                    {"GENERAL_ENTITY_NAME", "ENTITY_PUBLIC_ID"}}
    /\ handler \in {"entity5", "entity6"} =>
          told \in {{"GENERAL_ENTITY_NAME", "ENTITY_SYSTEM_ID"},
                    {"GENERAL_ENTITY_NAME", "ENTITY_PUBLIC_ID", "ENTITY_SYSTEM_ID"}}
    /\ handler \in {"entity7", "entity8"} => told = {"PARAM_ENTITY_NAME"}
    /\ handler = "entity9" =>
          told \in {{"PARAM_ENTITY_NAME"},
                    {"PARAM_ENTITY_NAME", "ENTITY_PUBLIC_ID"}}
    /\ handler = "entity10" =>
          told \in {{"PARAM_ENTITY_NAME", "ENTITY_SYSTEM_ID"},
                    {"PARAM_ENTITY_NAME", "ENTITY_PUBLIC_ID", "ENTITY_SYSTEM_ID"}}

\* What is known of a notation.
NotationTold ==
    /\ handler = "notation0" => told = {}
    /\ handler \in {"notation1", "notation2", "notation3"} =>
          told = {"NOTATION_NAME"}
    /\ handler = "notation4" => told = {"NOTATION_NAME", "NOTATION_PUBLIC_ID"}

\* What is known of the attribute being declared: an enumeration is of one of
\* the two kinds.
AttlistTold ==
    LET named == {"ATTLIST_ELEMENT_NAME", "ATTRIBUTE_NAME"} IN
    /\ handler = "attlist0" => told = {}
    /\ handler = "attlist1" => told = {"ATTLIST_ELEMENT_NAME"}
    /\ handler \in {"attlist2", "attlist5"} => told = named
    /\ handler = "attlist3" => told \in {named, named \cup {"ATTRIBUTE_ENUM_VALUE"}}
    /\ handler = "attlist4" => told = named \cup {"ATTRIBUTE_ENUM_VALUE"}
    /\ handler = "attlist6" =>
          told \in {named, named \cup {"ATTRIBUTE_NOTATION_VALUE"}}
    /\ handler = "attlist7" => told = named \cup {"ATTRIBUTE_NOTATION_VALUE"}
    /\ handler \in {"attlist8", "attlist9"} => told \cap (D!Types \cup D!Values) # {}

\* What is known of an element, and how many groups are open: the handlers of
\* mixed content stay in the outermost one.
ElementTold ==
    /\ handler = "element0" => told = {}
    /\ handler = "element1" => told = {"ELEMENT_NAME"}
    /\ handler \in {"element2", "element6", "element7"} =>
          told = {"ELEMENT_NAME", "GROUP_OPEN"}
    /\ handler \in {"element3", "element4", "element5"} =>
          told = {"ELEMENT_NAME", "GROUP_OPEN", "CONTENT_PCDATA"}
    /\ handler \in {"element2", "element3", "element4", "element5"} => level = 1
    /\ handler \in {"element6", "element7"} => level >= 1

\* Who sent to declClose: a declaration that is complete.
DeclCloseTold ==
    handler = "declClose" =>
      /\ role_none \in NoneRoles
      /\ role_none = "ENTITY_NONE" =>
            told \cap {"ENTITY_VALUE", "ENTITY_NOTATION_NAME"} # {}
      /\ role_none = "NOTATION_NONE" => "NOTATION_SYSTEM_ID" \in told
      /\ role_none = "ELEMENT_NONE" =>
            told \cap {"CONTENT_EMPTY", "CONTENT_ANY", "GROUP_OPEN"} # {}

(***************************************************************************)
(* Each handler has been told what its place in a declaration says and no  *)
(* more, the counters are numbers, and the handlers of the two kinds of    *)
(* subset keep apart: the parameter entities have no document handlers,    *)
(* the document entity no conditional section.                             *)
(***************************************************************************)
RoleInv ==
    /\ handler \in Handlers /\ level \in Nat /\ includeLevel \in Nat
    /\ documentEntity \in BOOLEAN
    /\ documentEntity => handler \notin ExternalHandlers /\ includeLevel = 0
    /\ ~documentEntity => handler \notin DocumentHandlers
    /\ handler \in DocumentHandlers \cup ExternalHandlers \cup {"error"} => told = {}
    /\ EntityTold /\ NotationTold /\ AttlistTold /\ ElementTold /\ DeclCloseTold

=============================================================================
