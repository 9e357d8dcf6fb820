--------------------------- MODULE XmlDoctypeProofs ---------------------------
(***************************************************************************)
(* Proofs about the document type declaration in the parser of expat       *)
(* (XmlDoctype): DInv is an invariant of doProlog with the role machine,   *)
(* the first declaration of an entity is the binding one, nothing is       *)
(* recorded after a skipped reference, the application is told what the    *)
(* declarations say (SpellInv), and the recording of a content model keeps *)
(* step with the machine.                                                  *)
(*                                                                         *)
(* First the machine by itself: RoleInv is an invariant of XmlRole, and    *)
(* the roles come in the order Declarations promises the parser, for any   *)
(* sequence of tokens.  For each part of the prolog there are three        *)
(* lemmas: which rows its handlers have (Rows), that a row is a step of    *)
(* Declarations (Next), and that it keeps the invariant (Keeps).  From     *)
(* there on what the machine does is a step of Declarations; the handlers  *)
(* of lib/xmlrole.c appear only where Declarations does not tell places    *)
(* apart: the prolog and the DOCTYPE (InTurn).                             *)
(***************************************************************************)
EXTENDS XmlDoctypeInv, XmlRoleInv, Integers, TLAPS

-----------------------------------------------------------------------------
(* The machine of lib/xmlrole.c *)

\* The machine by itself: xmlTokenRole is called with one token after another.
RoleSpec == Init /\ [][\E t \in Tokens : XmlTokenRole(t)]_vars

\* What XmlTokenRole does with the row of its token.
Step(r) ==
    /\ handler' = r.to
    /\ role' = r.role
    /\ level' = r.level
    /\ includeLevel' = r.includeLevel
    /\ role_none' = r.role_none
    /\ told' = IF r.to \in Between THEN {} ELSE D!Recalled(told, r.role)
    /\ UNCHANGED documentEntity

\* The parts of the four kinds of declaration.
LEMMA PartsAre ==
  D!AllParts =
    D!EntityParts \cup D!NotationParts \cup D!AttlistParts \cup D!ElementParts
BY DEF D!AllParts, D!Parts, D!Kinds

\* What is remembered once a role is told.
LEMMA Recall ==
  ASSUME NEW s, NEW r
  PROVE /\ r \in D!Defaults => D!Recalled(s, r) = {"ATTLIST_ELEMENT_NAME"}
        /\ r \notin D!AllParts => D!Recalled(s, r) = s
        /\ r \in D!Repeated => D!Recalled(s, r) = s
        /\ r \in D!AllParts /\ r \notin D!Repeated /\ r \notin D!Defaults =>
               D!Recalled(s, r) = s \cup {r}
<1>1. D!Repeated \cap D!Defaults = {}
 BY DEF D!Repeated, D!Defaults, D!Children, D!Closes
<1>2. D!Defaults \subseteq D!AllParts
 BY PartsAre DEF D!AttlistParts
<1> QED BY <1>1, <1>2 DEF D!Recalled

\* The roles that tell no part of a declaration.
Silent ==
    {"ENTITY_NONE", "NOTATION_NONE", "ATTLIST_NONE", "ELEMENT_NONE", "NONE", "PI",
     "COMMENT", "DOCTYPE_NONE", "DOCTYPE_NAME", "DOCTYPE_PUBLIC_ID",
     "DOCTYPE_SYSTEM_ID", "DOCTYPE_INTERNAL_SUBSET", "DOCTYPE_CLOSE", "XML_DECL",
     "TEXT_DECL", "PARAM_ENTITY_REF", "INNER_PARAM_ENTITY_REF", "IGNORE_SECT",
     "INSTANCE_START", "ERROR", "ENTITY_COMPLETE", "NOTATION_NO_SYSTEM_ID"}

\* A role that is no part, or comes back, changes nothing of what is known.
LEMMA Kept ==
  ASSUME NEW s, NEW r \in Silent \cup D!Repeated
  PROVE D!Recalled(s, r) = s
<1>1. r \in Silent => r \notin D!AllParts
 BY PartsAre DEF D!Names, D!Types, D!Values, Silent,
      D!Defaults, D!EntityParts, D!AttlistParts, D!NotationParts, D!ElementParts,
      D!Children, D!Closes
<1> QED BY <1>1, Recall

\* The roles that tell a part once.
Noted ==
    D!EntityParts \cup D!NotationParts
      \cup {"ATTLIST_ELEMENT_NAME", "ATTRIBUTE_NAME"} \cup D!Types \cup D!Values
      \cup {"ELEMENT_NAME", "CONTENT_EMPTY", "CONTENT_ANY", "CONTENT_PCDATA",
            "GROUP_OPEN"}

\* Such a part is remembered.
LEMMA Told ==
  ASSUME NEW s, NEW r \in Noted
  PROVE D!Recalled(s, r) = s \cup {r}
<1>1. r \in D!AllParts /\ r \notin D!Repeated /\ r \notin D!Defaults
 BY PartsAre DEF D!Names, D!Types, D!Values, D!Repeated, Noted,
      D!Defaults, D!EntityParts, D!AttlistParts, D!NotationParts, D!ElementParts,
      D!Children, D!Closes
<1> QED BY <1>1, Recall

\* Telling a part that may be told is a step of Declarations.
LEMMA Telling ==
  ASSUME NEW kind \in D!Kinds, NEW r \in D!Parts(kind), D!MayTell(r),
         Place = kind, Place' = kind, role' = r, told' = D!Recalled(told, r),
         Depth' = IF r = "GROUP_OPEN" THEN Depth + 1
                  ELSE IF r \in D!Closes THEN Depth - 1 ELSE Depth
  PROVE  D!Next
BY DEF D!Next, D!Tell

\* So is white space within a declaration.
LEMMA Waiting ==
  ASSUME Place \in D!Kinds, Place' = Place, role' = D!None(Place),
         told' = told, Depth' = Depth
  PROVE  D!Next
BY DEF D!Next, D!Wait

-----------------------------------------------------------------------------
(* What Declarations lets be told, and its steps *)

\* When the parts of an entity may be told.
LEMMA EntityMayTell ==
  /\ told = {} => \A r \in D!Names : D!MayTell(r)
  /\ D!Has(D!Names) /\ told \subseteq D!Names =>
         D!MayTell("ENTITY_VALUE") /\ D!MayTell("ENTITY_PUBLIC_ID")
  /\ D!Has(D!Names) /\ told \subseteq D!Names \cup {"ENTITY_PUBLIC_ID"} =>
         D!MayTell("ENTITY_SYSTEM_ID")
  /\ (/\ {"GENERAL_ENTITY_NAME", "ENTITY_SYSTEM_ID"} \subseteq told
      /\ "ENTITY_NOTATION_NAME" \notin told) =>
         D!MayTell("ENTITY_NOTATION_NAME")
<1> USE DEF D!MayTell, D!Names, D!Types, D!Values, D!Defaults, D!Children, D!Closes
<1>1. told = {} => \A r \in D!Names : D!MayTell(r)
  OBVIOUS
<1>2. D!Has(D!Names) /\ told \subseteq D!Names =>
          D!MayTell("ENTITY_VALUE") /\ D!MayTell("ENTITY_PUBLIC_ID")
  OBVIOUS
<1>3. D!Has(D!Names) /\ told \subseteq D!Names \cup {"ENTITY_PUBLIC_ID"} =>
          D!MayTell("ENTITY_SYSTEM_ID")
  OBVIOUS
<1>4. ASSUME {"GENERAL_ENTITY_NAME", "ENTITY_SYSTEM_ID"} \subseteq told,
             "ENTITY_NOTATION_NAME" \notin told
      PROVE  D!MayTell("ENTITY_NOTATION_NAME")
  BY <1>4
<1> QED  BY <1>1, <1>2, <1>3, <1>4

\* When the parts of a notation may be told.
LEMMA NotationMayTell ==
  /\ told = {} => D!MayTell("NOTATION_NAME")
  /\ told = {"NOTATION_NAME"} => D!MayTell("NOTATION_PUBLIC_ID")
  /\ "NOTATION_NAME" \in told /\ "NOTATION_SYSTEM_ID" \notin told =>
         D!MayTell("NOTATION_SYSTEM_ID")
<1> USE DEF D!MayTell, D!Names, D!Types, D!Values, D!Defaults, D!Children, D!Closes
<1>1. told = {} => D!MayTell("NOTATION_NAME")
  OBVIOUS
<1>2. told = {"NOTATION_NAME"} => D!MayTell("NOTATION_PUBLIC_ID")
  OBVIOUS
<1>3. "NOTATION_NAME" \in told /\ "NOTATION_SYSTEM_ID" \notin told =>
          D!MayTell("NOTATION_SYSTEM_ID")
  OBVIOUS
<1> QED  BY <1>1, <1>2, <1>3

\* When the parts of an attribute may be told.
LEMMA AttlistMayTell ==
  /\ told = {} => D!MayTell("ATTLIST_ELEMENT_NAME")
  /\ told = {"ATTLIST_ELEMENT_NAME"} => D!MayTell("ATTRIBUTE_NAME")
  /\ told = {"ATTLIST_ELEMENT_NAME", "ATTRIBUTE_NAME"} =>
         \A r \in D!Types : D!MayTell(r)
  /\ \A r \in D!Values : "ATTRIBUTE_NAME" \in told /\ ~D!Has((D!Values \ {r}) \cup D!Types)
                            => D!MayTell(r)
  /\ \A r \in D!Defaults : D!Has(D!Types \cup D!Values) => D!MayTell(r)
<1> USE DEF D!MayTell, D!Names, D!Types, D!Values, D!Defaults, D!Children, D!Closes
<1>1. told = {} => D!MayTell("ATTLIST_ELEMENT_NAME")
  OBVIOUS
<1>2. told = {"ATTLIST_ELEMENT_NAME"} => D!MayTell("ATTRIBUTE_NAME")
  OBVIOUS
<1>3. told = {"ATTLIST_ELEMENT_NAME", "ATTRIBUTE_NAME"} =>
          \A r \in D!Types : D!MayTell(r)
  OBVIOUS
<1>4. \A r \in D!Values : "ATTRIBUTE_NAME" \in told /\ ~D!Has((D!Values \ {r}) \cup D!Types)
                            => D!MayTell(r)
  OBVIOUS
<1>5. \A r \in D!Defaults : D!Has(D!Types \cup D!Values) => D!MayTell(r)
  OBVIOUS
<1> QED  BY <1>1, <1>2, <1>3, <1>4, <1>5

\* When the parts of a content model may be told.
LEMMA ElementMayTell ==
  /\ told = {} => D!MayTell("ELEMENT_NAME")
  /\ told = {"ELEMENT_NAME"} =>
         D!MayTell("CONTENT_EMPTY") /\ D!MayTell("CONTENT_ANY")
  /\ told = {"ELEMENT_NAME", "GROUP_OPEN"} => D!MayTell("CONTENT_PCDATA")
  /\ told = {"ELEMENT_NAME"} /\ Depth = 0 => D!MayTell("GROUP_OPEN")
  /\ Depth # 0 /\ ~D!Has({"CONTENT_PCDATA"}) => D!MayTell("GROUP_OPEN")
  /\ \A r \in D!Children \cup D!Closes : Depth > 0 => D!MayTell(r)
  /\ Depth > 0 /\ ~D!Has({"CONTENT_PCDATA"}) =>
         D!MayTell("GROUP_CHOICE") /\ D!MayTell("GROUP_SEQUENCE")
<1> USE DEF D!MayTell, D!Names, D!Types, D!Values, D!Defaults, D!Children, D!Closes
<1>1. told = {} => D!MayTell("ELEMENT_NAME")
  OBVIOUS
<1>2. told = {"ELEMENT_NAME"} =>
          D!MayTell("CONTENT_EMPTY") /\ D!MayTell("CONTENT_ANY")
  OBVIOUS
<1>3. told = {"ELEMENT_NAME", "GROUP_OPEN"} => D!MayTell("CONTENT_PCDATA")
  OBVIOUS
<1>4. told = {"ELEMENT_NAME"} /\ Depth = 0 => D!MayTell("GROUP_OPEN")
  OBVIOUS
<1>5. Depth # 0 /\ ~D!Has({"CONTENT_PCDATA"}) => D!MayTell("GROUP_OPEN")
  OBVIOUS
<1>6. \A r \in D!Children \cup D!Closes : Depth > 0 => D!MayTell(r)
  OBVIOUS
<1>7. Depth > 0 /\ ~D!Has({"CONTENT_PCDATA"}) =>
          D!MayTell("GROUP_CHOICE") /\ D!MayTell("GROUP_SEQUENCE")
  OBVIOUS
<1> QED  BY <1>1, <1>2, <1>3, <1>4, <1>5, <1>6, <1>7

\* The end of a complete declaration is a step of Declarations.
LEMMA Ending ==
  ASSUME NEW kind \in D!Kinds, Place = kind, D!Complete, Place' = "subset",
         role' = D!None(kind), told' = {}, Depth' = 0
  PROVE  D!Next
BY DEF D!Next, D!End, D!Moves

\* So is the begin of one.
LEMMA Beginning ==
  ASSUME NEW kind \in D!Kinds, D!Begin(kind)
  PROVE  D!Next
BY DEF D!Next, D!Begin

\* The next handler, and the role that is returned.
To(h, r) == handler' = h /\ role' = r

-----------------------------------------------------------------------------
(* The rows of the handlers *)

\* The rows of entity0 to entity10.
LEMMA EntityRows ==
  ASSUME handler \in EntityHandlers, NEW r \in Rows, Step(r)
  PROVE /\ handler = "entity0" =>
             \/ To("entity0", "ENTITY_NONE")
             \/ To("entity1", "ENTITY_NONE")
             \/ To("entity2", "GENERAL_ENTITY_NAME")
        /\ handler = "entity1" =>
             \/ To("entity1", "ENTITY_NONE")
             \/ To("entity7", "PARAM_ENTITY_NAME")
        /\ handler = "entity2" =>
             \/ To("entity2", "ENTITY_NONE")
             \/ To("entity3", "ENTITY_NONE")
             \/ To("entity4", "ENTITY_NONE")
             \/ To("declClose", "ENTITY_VALUE") /\ role_none' = "ENTITY_NONE"
        /\ handler = "entity3" =>
             \/ To("entity3", "ENTITY_NONE")
             \/ To("entity4", "ENTITY_PUBLIC_ID")
        /\ handler = "entity4" =>
             \/ To("entity4", "ENTITY_NONE")
             \/ To("entity5", "ENTITY_SYSTEM_ID")
        /\ handler = "entity5" =>
             \/ To("entity5", "ENTITY_NONE")
             \/ To(setTopLevel, "ENTITY_COMPLETE")
             \/ To("entity6", "ENTITY_NONE")
        /\ handler = "entity6" =>
             \/ To("entity6", "ENTITY_NONE")
             \/ /\ To("declClose", "ENTITY_NOTATION_NAME")
                /\ role_none' = "ENTITY_NONE"
        /\ handler = "entity7" =>
             \/ To("entity7", "ENTITY_NONE")
             \/ To("entity8", "ENTITY_NONE")
             \/ To("entity9", "ENTITY_NONE")
             \/ To("declClose", "ENTITY_VALUE") /\ role_none' = "ENTITY_NONE"
        /\ handler = "entity8" =>
             \/ To("entity8", "ENTITY_NONE")
             \/ To("entity9", "ENTITY_PUBLIC_ID")
        /\ handler = "entity9" =>
             \/ To("entity9", "ENTITY_NONE")
             \/ To("entity10", "ENTITY_SYSTEM_ID")
        /\ handler = "entity10" =>
             \/ To("entity10", "ENTITY_NONE")
             \/ To(setTopLevel, "ENTITY_COMPLETE")
        /\ UNCHANGED <<level, includeLevel, documentEntity>>
<1> USE DEF To, Step, Row, Blank, Final
<1>1. CASE handler = "entity0"
  BY <1>1 DEF Rows, entity0
<1>2. CASE handler = "entity1"
  BY <1>2 DEF Rows, entity1
<1>3. CASE handler = "entity2"
  BY <1>3 DEF Rows, entity2, EntityText
<1>4. CASE handler = "entity3"
  BY <1>4 DEF Rows, entity3
<1>5. CASE handler = "entity4"
  BY <1>5 DEF Rows, entity4
<1>6. CASE handler = "entity5"
  BY <1>6 DEF Rows, entity5
<1>7. CASE handler = "entity6"
  BY <1>7 DEF Rows, entity6
<1>8. CASE handler = "entity7"
  BY <1>8 DEF Rows, entity7, EntityText
<1>9. CASE handler = "entity8"
  BY <1>9 DEF Rows, entity8
<1>10. CASE handler = "entity9"
  BY <1>10 DEF Rows, entity9
<1>11. CASE handler = "entity10"
  BY <1>11 DEF Rows, entity10
<1> QED  BY <1>1, <1>2, <1>3, <1>4, <1>5, <1>6, <1>7, <1>8, <1>9, <1>10, <1>11
       DEF EntityHandlers

\* The rows of notation0 to notation4.
LEMMA NotationRows ==
  ASSUME handler \in NotationHandlers, NEW r \in Rows, Step(r)
  PROVE /\ handler = "notation0" =>
             \/ To("notation0", "NOTATION_NONE")
             \/ To("notation1", "NOTATION_NAME")
        /\ handler = "notation1" =>
             \/ To("notation1", "NOTATION_NONE")
             \/ To("notation3", "NOTATION_NONE")
             \/ To("notation2", "NOTATION_NONE")
        /\ handler = "notation2" =>
             \/ To("notation2", "NOTATION_NONE")
             \/ To("notation4", "NOTATION_PUBLIC_ID")
        /\ handler = "notation3" =>
             \/ To("notation3", "NOTATION_NONE")
             \/ /\ To("declClose", "NOTATION_SYSTEM_ID")
                /\ role_none' = "NOTATION_NONE"
        /\ handler = "notation4" =>
             \/ To("notation4", "NOTATION_NONE")
             \/ /\ To("declClose", "NOTATION_SYSTEM_ID")
                /\ role_none' = "NOTATION_NONE"
             \/ To(setTopLevel, "NOTATION_NO_SYSTEM_ID")
        /\ UNCHANGED <<level, includeLevel, documentEntity>>
<1> USE DEF To, Step, Row, Blank, Final
<1>1. CASE handler = "notation0"
  BY <1>1 DEF Rows, notation0
<1>2. CASE handler = "notation1"
  BY <1>2 DEF Rows, notation1
<1>3. CASE handler = "notation2"
  BY <1>3 DEF Rows, notation2
<1>4. CASE handler = "notation3"
  BY <1>4 DEF Rows, notation3, NotationSystemId
<1>5. CASE handler = "notation4"
  BY <1>5 DEF Rows, notation4, NotationSystemId
<1> QED  BY <1>1, <1>2, <1>3, <1>4, <1>5 DEF NotationHandlers

\* The rows of attlist0 to attlist9.
LEMMA AttlistRows ==
  ASSUME handler \in AttlistHandlers, NEW r \in Rows, Step(r)
  PROVE /\ handler = "attlist0" =>
             \/ To("attlist0", "ATTLIST_NONE")
             \/ To("attlist1", "ATTLIST_ELEMENT_NAME")
        /\ handler = "attlist1" =>
             \/ To("attlist1", "ATTLIST_NONE")
             \/ To(setTopLevel, "ATTLIST_NONE")
             \/ To("attlist2", "ATTRIBUTE_NAME")
        /\ handler = "attlist2" =>
             \/ To("attlist2", "ATTLIST_NONE")
             \/ To("attlist5", "ATTLIST_NONE")
             \/ To("attlist3", "ATTLIST_NONE")
             \/ handler' = "attlist8" /\ role' \in D!Types
        /\ handler = "attlist3" =>
             \/ To("attlist3", "ATTLIST_NONE")
             \/ To("attlist4", "ATTRIBUTE_ENUM_VALUE")
        /\ handler = "attlist4" =>
             \/ To("attlist4", "ATTLIST_NONE")
             \/ To("attlist8", "ATTLIST_NONE")
             \/ To("attlist3", "ATTLIST_NONE")
        /\ handler = "attlist5" =>
             \/ To("attlist5", "ATTLIST_NONE")
             \/ To("attlist6", "ATTLIST_NONE")
        /\ handler = "attlist6" =>
             \/ To("attlist6", "ATTLIST_NONE")
             \/ To("attlist7", "ATTRIBUTE_NOTATION_VALUE")
        /\ handler = "attlist7" =>
             \/ To("attlist7", "ATTLIST_NONE")
             \/ To("attlist8", "ATTLIST_NONE")
             \/ To("attlist6", "ATTLIST_NONE")
        /\ handler = "attlist8" =>
             \/ To("attlist8", "ATTLIST_NONE")
             \/ To("attlist1", "IMPLIED_ATTRIBUTE_VALUE")
             \/ To("attlist1", "REQUIRED_ATTRIBUTE_VALUE")
             \/ To("attlist9", "ATTLIST_NONE")
             \/ To("attlist1", "DEFAULT_ATTRIBUTE_VALUE")
        /\ handler = "attlist9" =>
             \/ To("attlist9", "ATTLIST_NONE")
             \/ To("attlist1", "FIXED_ATTRIBUTE_VALUE")
        /\ UNCHANGED <<level, includeLevel, documentEntity>>
<1> USE DEF To, Step, Row, Blank, Final
<1>1. CASE handler = "attlist0"
  BY <1>1 DEF Rows, attlist0
<1>2. CASE handler = "attlist1"
  BY <1>2 DEF Rows, attlist1
<1>3. CASE handler = "attlist2"
  BY <1>3 DEF Rows, attlist2, TypeRole, TypeWords, D!Types
<1>4. CASE handler = "attlist3"
  BY <1>4 DEF Rows, attlist3
<1>5. CASE handler = "attlist4"
  BY <1>5 DEF Rows, attlist4, EnumGoesOn
<1>6. CASE handler = "attlist5"
  BY <1>6 DEF Rows, attlist5
<1>7. CASE handler = "attlist6"
  BY <1>7 DEF Rows, attlist6
<1>8. CASE handler = "attlist7"
  BY <1>8 DEF Rows, attlist7, EnumGoesOn
<1>9. CASE handler = "attlist8"
  BY <1>9 DEF Rows, attlist8
<1>10. CASE handler = "attlist9"
  BY <1>10 DEF Rows, attlist9
<1> QED  BY <1>1, <1>2, <1>3, <1>4, <1>5, <1>6, <1>7, <1>8, <1>9, <1>10
       DEF AttlistHandlers

\* The rows of element0 to element7.
LEMMA ElementRows ==
  ASSUME handler \in ElementHandlers, NEW r \in Rows, Step(r)
  PROVE /\ handler = "element0" =>
             \/ To("element0", "ELEMENT_NONE")
             \/ To("element1", "ELEMENT_NAME")
        /\ handler = "element1" =>
             \/ To("element1", "ELEMENT_NONE")
             \/ To("declClose", "CONTENT_EMPTY") /\ role_none' = "ELEMENT_NONE"
             \/ To("declClose", "CONTENT_ANY") /\ role_none' = "ELEMENT_NONE"
             \/ To("element2", "GROUP_OPEN") /\ level' = 1
        /\ handler = "element2" =>
             \/ To("element2", "ELEMENT_NONE") /\ level' = level
             \/ To("element3", "CONTENT_PCDATA") /\ level' = level
             \/ To("element6", "GROUP_OPEN") /\ level' = 2
             \/ To("element7", "CONTENT_ELEMENT") /\ level' = level
             \/ To("element7", "CONTENT_ELEMENT_OPT") /\ level' = level
             \/ To("element7", "CONTENT_ELEMENT_REP") /\ level' = level
             \/ To("element7", "CONTENT_ELEMENT_PLUS") /\ level' = level
        /\ handler = "element3" =>
             \/ To("element3", "ELEMENT_NONE") /\ level' = level
             \/ To("declClose", "GROUP_CLOSE") /\ role_none' = "ELEMENT_NONE"
             \/ To("declClose", "GROUP_CLOSE_REP") /\ role_none' = "ELEMENT_NONE"
             \/ To("element4", "ELEMENT_NONE") /\ level' = level
        /\ handler = "element4" =>
             \/ To("element4", "ELEMENT_NONE") /\ level' = level
             \/ To("element5", "CONTENT_ELEMENT") /\ level' = level
        /\ handler = "element5" =>
             \/ To("element5", "ELEMENT_NONE") /\ level' = level
             \/ To("declClose", "GROUP_CLOSE_REP") /\ role_none' = "ELEMENT_NONE"
             \/ To("element4", "ELEMENT_NONE") /\ level' = level
        /\ handler = "element6" =>
             \/ To("element6", "ELEMENT_NONE") /\ level' = level
             \/ To("element6", "GROUP_OPEN") /\ level' = level + 1
             \/ To("element7", "CONTENT_ELEMENT") /\ level' = level
             \/ To("element7", "CONTENT_ELEMENT_OPT") /\ level' = level
             \/ To("element7", "CONTENT_ELEMENT_REP") /\ level' = level
             \/ To("element7", "CONTENT_ELEMENT_PLUS") /\ level' = level
        /\ handler = "element7" =>
             \/ To("element7", "ELEMENT_NONE") /\ level' = level
             \/ /\ To("declClose", "GROUP_CLOSE") /\ role_none' = "ELEMENT_NONE"
                /\ level = 1 /\ level' = 0
             \/ To("element7", "GROUP_CLOSE") /\ level # 1 /\ level' = level - 1
             \/ /\ To("declClose", "GROUP_CLOSE_REP") /\ role_none' = "ELEMENT_NONE"
                /\ level = 1 /\ level' = 0
             \/ To("element7", "GROUP_CLOSE_REP") /\ level # 1 /\ level' = level - 1
             \/ /\ To("declClose", "GROUP_CLOSE_OPT") /\ role_none' = "ELEMENT_NONE"
                /\ level = 1 /\ level' = 0
             \/ To("element7", "GROUP_CLOSE_OPT") /\ level # 1 /\ level' = level - 1
             \/ /\ To("declClose", "GROUP_CLOSE_PLUS") /\ role_none' = "ELEMENT_NONE"
                /\ level = 1 /\ level' = 0
             \/ /\ To("element7", "GROUP_CLOSE_PLUS") /\ level # 1
                /\ level' = level - 1
             \/ To("element6", "GROUP_SEQUENCE") /\ level' = level
             \/ To("element6", "GROUP_CHOICE") /\ level' = level
        /\ \/ level' \in {level, 1, 2, level + 1}
           \/ handler = "element7" /\ level' = level - 1
        /\ UNCHANGED <<includeLevel, documentEntity>>
<1> USE DEF To, Step, Row, Blank, Final
<1>1. CASE handler = "element0"
  BY <1>1 DEF Rows, element0
<1>2. CASE handler = "element1"
  BY <1>2 DEF Rows, element1
<1>3. CASE handler = "element2"
  BY <1>3 DEF Rows, element2, Child
<1>4. CASE handler = "element3"
  BY <1>4 DEF Rows, element3
<1>5. CASE handler = "element4"
  BY <1>5 DEF Rows, element4
<1>6. CASE handler = "element5"
  BY <1>6 DEF Rows, element5
<1>7. CASE handler = "element6"
  BY <1>7 DEF Rows, element6, Child
<1>8. CASE handler = "element7"
  BY <1>8 DEF Rows, element7, CloseGroup
<1> QED  BY <1>1, <1>2, <1>3, <1>4, <1>5, <1>6, <1>7, <1>8 DEF ElementHandlers

\* The rows of the handlers of the prolog and of the DOCTYPE.
LEMMA DocumentRows ==
  ASSUME handler \in DocumentHandlers, NEW r \in Rows, Step(r)
  PROVE /\ handler = "prolog0" =>
             \/ To("prolog1", "NONE")
             \/ To("prolog1", "XML_DECL")
             \/ To("prolog0", "NONE")
             \/ To("doctype0", "DOCTYPE_NONE")
             \/ To("error", "INSTANCE_START")
             \/ To("prolog1", "PI")
             \/ To("prolog1", "COMMENT")
        /\ handler = "prolog1" =>
             \/ To("prolog1", "NONE")
             \/ To("doctype0", "DOCTYPE_NONE")
             \/ To("error", "INSTANCE_START")
             \/ To("prolog1", "PI")
             \/ To("prolog1", "COMMENT")
        /\ handler = "prolog2" =>
             \/ To("prolog2", "NONE")
             \/ To("error", "INSTANCE_START")
             \/ To("prolog2", "PI")
             \/ To("prolog2", "COMMENT")
        /\ handler = "doctype0" =>
             \/ To("doctype0", "DOCTYPE_NONE")
             \/ To("doctype1", "DOCTYPE_NAME")
        /\ handler = "doctype1" =>
             \/ To("doctype1", "DOCTYPE_NONE")
             \/ To("doctype3", "DOCTYPE_NONE")
             \/ To("doctype2", "DOCTYPE_NONE")
             \/ To("internalSubset", "DOCTYPE_INTERNAL_SUBSET")
             \/ To("prolog2", "DOCTYPE_CLOSE")
        /\ handler = "doctype2" =>
             \/ To("doctype2", "DOCTYPE_NONE")
             \/ To("doctype3", "DOCTYPE_PUBLIC_ID")
        /\ handler = "doctype3" =>
             \/ To("doctype3", "DOCTYPE_NONE")
             \/ To("doctype4", "DOCTYPE_SYSTEM_ID")
        /\ handler = "doctype4" =>
             \/ To("doctype4", "DOCTYPE_NONE")
             \/ To("internalSubset", "DOCTYPE_INTERNAL_SUBSET")
             \/ To("prolog2", "DOCTYPE_CLOSE")
        /\ handler = "doctype5" =>
             \/ To("doctype5", "DOCTYPE_NONE")
             \/ To("prolog2", "DOCTYPE_CLOSE")
        /\ handler = "internalSubset" =>
             \/ To("doctype5", "DOCTYPE_NONE")
             \/ To("internalSubset", "NONE")
             \/ To("entity0", "ENTITY_NONE")
             \/ To("attlist0", "ATTLIST_NONE")
             \/ To("element0", "ELEMENT_NONE")
             \/ To("notation0", "NOTATION_NONE")
             \/ To("internalSubset", "PARAM_ENTITY_REF")
             \/ To("internalSubset", "PI")
             \/ To("internalSubset", "COMMENT")
        /\ UNCHANGED <<level, includeLevel, documentEntity>>
<1> USE DEF To, Step, Row, Blank, Final
<1>1. CASE handler = "prolog0"
  BY <1>1 DEF Rows, prolog0, Misc
<1>2. CASE handler = "prolog1"
  BY <1>2 DEF Rows, prolog1, Misc
<1>3. CASE handler = "prolog2"
  BY <1>3 DEF Rows, prolog2, Misc
<1>4. CASE handler = "doctype0"
  BY <1>4 DEF Rows, doctype0
<1>5. CASE handler = "doctype1"
  BY <1>5 DEF Rows, doctype1, OpensOrCloses
<1>6. CASE handler = "doctype2"
  BY <1>6 DEF Rows, doctype2
<1>7. CASE handler = "doctype3"
  BY <1>7 DEF Rows, doctype3
<1>8. CASE handler = "doctype4"
  BY <1>8 DEF Rows, doctype4, OpensOrCloses
<1>9. CASE handler = "doctype5"
  BY <1>9 DEF Rows, doctype5
<1>10. CASE handler = "internalSubset"
  BY <1>10 DEF Rows, internalSubset, Subset, Misc
<1> QED  BY <1>1, <1>2, <1>3, <1>4, <1>5, <1>6, <1>7, <1>8, <1>9, <1>10
       DEF DocumentHandlers

\* The rows of the handlers of an external subset and its sections.
LEMMA ExternalRows ==
  ASSUME handler \in ExternalHandlers, NEW r \in Rows, Step(r)
  PROVE /\ handler = "externalSubset0" =>
             \/ To("externalSubset1", "TEXT_DECL") /\ includeLevel' = includeLevel
             \/ To("condSect0", "NONE") /\ includeLevel' = includeLevel
             \/ /\ To("externalSubset1", "NONE") /\ includeLevel # 0
                /\ includeLevel' = includeLevel - 1
             \/ To("externalSubset1", "NONE") /\ includeLevel' = includeLevel
             \/ To("entity0", "ENTITY_NONE") /\ includeLevel' = includeLevel
             \/ To("attlist0", "ATTLIST_NONE") /\ includeLevel' = includeLevel
             \/ To("element0", "ELEMENT_NONE") /\ includeLevel' = includeLevel
             \/ To("notation0", "NOTATION_NONE") /\ includeLevel' = includeLevel
             \/ /\ To("externalSubset1", "PARAM_ENTITY_REF")
                /\ includeLevel' = includeLevel
             \/ To("externalSubset1", "PI") /\ includeLevel' = includeLevel
             \/ To("externalSubset1", "COMMENT") /\ includeLevel' = includeLevel
        /\ handler = "externalSubset1" =>
             \/ To("condSect0", "NONE") /\ includeLevel' = includeLevel
             \/ /\ To("externalSubset1", "NONE") /\ includeLevel # 0
                /\ includeLevel' = includeLevel - 1
             \/ To("externalSubset1", "NONE") /\ includeLevel' = includeLevel
             \/ To("entity0", "ENTITY_NONE") /\ includeLevel' = includeLevel
             \/ To("attlist0", "ATTLIST_NONE") /\ includeLevel' = includeLevel
             \/ To("element0", "ELEMENT_NONE") /\ includeLevel' = includeLevel
             \/ To("notation0", "NOTATION_NONE") /\ includeLevel' = includeLevel
             \/ /\ To("externalSubset1", "PARAM_ENTITY_REF")
                /\ includeLevel' = includeLevel
             \/ To("externalSubset1", "PI") /\ includeLevel' = includeLevel
             \/ To("externalSubset1", "COMMENT") /\ includeLevel' = includeLevel
        /\ handler = "condSect0" =>
             \/ To("condSect0", "NONE") /\ includeLevel' = includeLevel
             \/ To("condSect1", "NONE") /\ includeLevel' = includeLevel
             \/ To("condSect2", "NONE") /\ includeLevel' = includeLevel
        /\ handler = "condSect1" =>
             \/ To("condSect1", "NONE") /\ includeLevel' = includeLevel
             \/ To("externalSubset1", "NONE") /\ includeLevel' = includeLevel + 1
        /\ handler = "condSect2" =>
             \/ To("condSect2", "NONE") /\ includeLevel' = includeLevel
             \/ To("externalSubset1", "IGNORE_SECT") /\ includeLevel' = includeLevel
        /\ UNCHANGED <<level, documentEntity>>
<1> USE DEF To, Step, Row, Blank, Final
<1>1. CASE handler = "externalSubset0"
  BY <1>1 DEF Rows, externalSubset0, externalSubset1, Subset, Misc
<1>2. CASE handler = "externalSubset1"
  BY <1>2 DEF Rows, externalSubset1, Subset, Misc
<1>3. CASE handler = "condSect0"
  BY <1>3 DEF Rows, condSect0
<1>4. CASE handler = "condSect1"
  BY <1>4 DEF Rows, condSect1
<1>5. CASE handler = "condSect2"
  BY <1>5 DEF Rows, condSect2
<1> QED  BY <1>1, <1>2, <1>3, <1>4, <1>5 DEF ExternalHandlers

\* The rows of declClose.
LEMMA CloseRows ==
  ASSUME handler = "declClose", NEW r \in Rows, Step(r)
  PROVE /\ \/ handler' = "declClose" /\ role' = role_none /\ role_none' = role_none
           \/ handler' = setTopLevel /\ role' = role_none
        /\ UNCHANGED <<level, includeLevel, documentEntity>>
BY DEF Rows, declClose, Row, Blank, Step

\* The row of error.
LEMMA ErrorRows ==
  ASSUME handler = "error", NEW r \in Rows, Step(r)
  PROVE To("error", "NONE") /\ UNCHANGED <<level, includeLevel, documentEntity>>
BY DEF Rows, error, Row, Step, To

\* What common answers: an error, or a reference in a parameter entity.
LEMMA CommonRow ==
  ASSUME NEW t \in Tokens, Step(common(t))
  PROVE /\ \/ /\ ~documentEntity /\ role_none' = role_none
              /\ To(handler, "INNER_PARAM_ENTITY_REF")
           \/ To("error", "ERROR")
        /\ UNCHANGED <<level, includeLevel, documentEntity>>
BY DEF common, Row, Step, To

\* A token is answered by a row of the handler or by common, error by a row.
LEMMA Answer ==
  ASSUME NEW t \in Tokens, XmlTokenRole(t)
  PROVE  \/ \E r \in Rows : Step(r)
         \/ handler # "error" /\ Step(common(t))
<1>1. PICK r \in Answers(t) : Step(r)
  BY DEF XmlTokenRole, Step
<1>2. CASE r \in Rows
  BY <1>1, <1>2
<1>3. CASE r \notin Rows
  <2>1. {x \in Rows : t \in x.on} = {} /\ r = common(t)
    BY <1>3 DEF Answers
  <2>2. handler # "error"
    <3> SUFFICES ASSUME handler = "error" PROVE FALSE
      OBVIOUS
    <3>1. Row(Tokens, "error", "NONE") \in Rows
      BY DEF Rows, error
    <3>2. Row(Tokens, "error", "NONE").on = Tokens
      BY DEF Row
    <3> QED  BY <2>1, <3>1, <3>2
  <2> QED  BY <2>1, <2>2, <1>1
<1> QED  BY <1>2, <1>3

-----------------------------------------------------------------------------
(* The handlers of declarations *)

\* A step of entity0 to entity10 is one of Declarations.
LEMMA EntityNext ==
  ASSUME RoleInv, handler \in EntityHandlers, NEW r \in Rows, Step(r)
  PROVE  D!Next
<1> USE DEF EntityHandlers
<1>1. Place = "entity" /\ Depth = 0
  BY DEF Place, Depth
<1>2. told' = IF handler' \in Between THEN {} ELSE D!Recalled(told, role')
  BY DEF Step
<1>3. \/ handler' \in EntityHandlers /\ Place' = "entity" /\ Depth' = 0
      \/ /\ handler' = "declClose" /\ role_none' = "ENTITY_NONE"
         /\ Place' = "entity" /\ Depth' = 0
      \/ role' = "ENTITY_COMPLETE"
  BY EntityRows DEF To, Place, Depth
<1>4. role' = "ENTITY_COMPLETE" \/ told' = D!Recalled(told, role')
  BY <1>2, <1>3 DEF Between
<1>5. CASE role' = "ENTITY_NONE"
  BY <1>1, <1>3, <1>4, <1>5, Kept, Waiting DEF D!Kinds, D!None, Silent
<1>6. CASE role' = "GENERAL_ENTITY_NAME"
  <2>1. handler \in {"entity0"} /\ told \in {{}}
    BY <1>6, EntityRows DEF To, RoleInv, EntityTold
  <2>2. D!MayTell("GENERAL_ENTITY_NAME")
    BY <2>1, EntityMayTell DEF D!Has, D!Names, D!Types, D!Values
  <2> QED  BY <2>2, <1>1, <1>3, <1>4, <1>6, Telling
         DEF D!Kinds, D!Names, D!Closes, D!Parts, D!EntityParts
<1>7. CASE role' = "PARAM_ENTITY_NAME"
  <2>1. handler \in {"entity1"} /\ told \in {{}}
    BY <1>7, EntityRows DEF To, RoleInv, EntityTold
  <2>2. D!MayTell("PARAM_ENTITY_NAME")
    BY <2>1, EntityMayTell DEF D!Has, D!Names, D!Types, D!Values
  <2> QED  BY <2>2, <1>1, <1>3, <1>4, <1>7, Telling
         DEF D!Kinds, D!Names, D!Closes, D!Parts, D!EntityParts
<1>8. CASE role' = "ENTITY_VALUE"
  <2>1. /\ handler \in {"entity2", "entity7"}
        /\ told \in {{"GENERAL_ENTITY_NAME"}, {"PARAM_ENTITY_NAME"}}
    BY <1>8, EntityRows DEF To, RoleInv, EntityTold
  <2>2. D!MayTell("ENTITY_VALUE")
    BY <2>1, EntityMayTell DEF D!Has, D!Names, D!Types, D!Values
  <2> QED  BY <2>2, <1>1, <1>3, <1>4, <1>8, Telling
         DEF D!Kinds, D!Names, D!Closes, D!Parts, D!EntityParts
<1>9. CASE role' = "ENTITY_PUBLIC_ID"
  <2>1. /\ handler \in {"entity3", "entity8"}
        /\ told \in {{"GENERAL_ENTITY_NAME"}, {"PARAM_ENTITY_NAME"}}
    BY <1>9, EntityRows DEF To, RoleInv, EntityTold
  <2>2. D!MayTell("ENTITY_PUBLIC_ID")
    BY <2>1, EntityMayTell DEF D!Has, D!Names, D!Types, D!Values
  <2> QED  BY <2>2, <1>1, <1>3, <1>4, <1>9, Telling
         DEF D!Kinds, D!Names, D!Closes, D!Parts, D!EntityParts
<1>10. CASE role' = "ENTITY_SYSTEM_ID"
  <2>1. /\ handler \in {"entity4", "entity9"}
        /\ told \in {{"GENERAL_ENTITY_NAME"}, {"PARAM_ENTITY_NAME"},
                     {"GENERAL_ENTITY_NAME", "ENTITY_PUBLIC_ID"},
                     {"PARAM_ENTITY_NAME", "ENTITY_PUBLIC_ID"}}
    BY <1>10, EntityRows DEF To, RoleInv, EntityTold
  <2>2. D!MayTell("ENTITY_SYSTEM_ID")
    BY <2>1, EntityMayTell DEF D!Has, D!Names, D!Types, D!Values
  <2> QED  BY <2>2, <1>1, <1>3, <1>4, <1>10, Telling
         DEF D!Kinds, D!Names, D!Closes, D!Parts, D!EntityParts
<1>11. CASE role' = "ENTITY_NOTATION_NAME"
  <2>1. /\ handler = "entity6"
        /\ told \in {{"GENERAL_ENTITY_NAME", "ENTITY_SYSTEM_ID"},
                     {"GENERAL_ENTITY_NAME", "ENTITY_PUBLIC_ID", "ENTITY_SYSTEM_ID"}}
    BY <1>11, EntityRows DEF To, RoleInv, EntityTold
  <2>2. D!MayTell("ENTITY_NOTATION_NAME")
    BY <2>1, EntityMayTell DEF D!Has, D!Names, D!Types, D!Values
  <2> QED  BY <2>2, <1>1, <1>3, <1>4, <1>11, Telling
         DEF D!Kinds, D!Names, D!Closes, D!Parts, D!EntityParts
<1>12. CASE role' = "ENTITY_COMPLETE"
  <2>1. handler \in {"entity5", "entity10"} /\ handler' = setTopLevel
    BY <1>12, EntityRows DEF To
  <2>2. "ENTITY_SYSTEM_ID" \in told /\ "ENTITY_NOTATION_NAME" \notin told
    BY <2>1 DEF RoleInv, EntityTold
  <2>3. Place' = "subset" /\ Depth' = 0 /\ told' = {}
    BY <2>1, <1>2 DEF setTopLevel, Place, Depth, Between
  <2> QED  BY <1>1, <1>12, <2>2, <2>3 DEF D!Next, D!End, D!Moves, D!Has, D!Kinds
<1> QED  BY <1>5, <1>6, <1>7, <1>8, <1>9, <1>10, <1>11, <1>12, EntityRows DEF To

\* Such a step keeps the invariant.
LEMMA EntityKeeps ==
  ASSUME RoleInv, handler \in EntityHandlers, NEW r \in Rows, Step(r)
  PROVE  RoleInv'
<1>1. /\ handler' \in EntityHandlers \cup {"declClose"} =>
             told' = D!Recalled(told, role')
      /\ handler' \in {"internalSubset", "externalSubset1"} => told' = {}
  BY DEF Step, Between, EntityHandlers
<1>2. EntityTold /\ RoleInv
  BY DEF RoleInv
<1>3. /\ role' = "ENTITY_NONE" => D!Recalled(told, role') = told
      /\ role' \in D!EntityParts => D!Recalled(told, role') = told \cup {role'}
  BY Kept, Told DEF Silent, Noted
<1>4. handler' \in EntityHandlers \cup {"declClose", setTopLevel}
  BY EntityRows DEF EntityHandlers, To
<1>5. EntityTold'
  BY <1>1, <1>2, <1>3, EntityRows
     DEF EntityTold, EntityHandlers, To, D!EntityParts, D!Names, setTopLevel
<1>6. DeclCloseTold'
  BY <1>1, <1>3, EntityRows
     DEF EntityHandlers, To, DeclCloseTold, NoneRoles, D!EntityParts,
         setTopLevel
<1>7. UNCHANGED <<level, includeLevel, documentEntity>>
  BY EntityRows
<1>8. /\ handler' \in Handlers /\ (documentEntity =>
             handler' \notin ExternalHandlers)
      /\ (~documentEntity => handler' \notin DocumentHandlers)
      /\ handler' \in DocumentHandlers \cup ExternalHandlers \cup {"error"} =>
             told' = {}
  BY <1>4, <1>1
     DEF Handlers, EntityHandlers, setTopLevel, ExternalHandlers,
         DocumentHandlers
<1>9. NotationTold' /\ AttlistTold' /\ ElementTold'
  BY <1>4 DEF NotationTold, AttlistTold, ElementTold, setTopLevel, EntityHandlers
<1> QED  BY <1>2, <1>5, <1>6, <1>7, <1>8, <1>9 DEF RoleInv

\* A step of notation0 to notation4 is one of Declarations.
LEMMA NotationNext ==
  ASSUME RoleInv, handler \in NotationHandlers, NEW r \in Rows, Step(r)
  PROVE  D!Next
<1> USE DEF NotationHandlers
<1>1. Place = "notation" /\ Depth = 0
  BY DEF Place, Depth
<1>2. told' = IF handler' \in Between THEN {} ELSE D!Recalled(told, role')
  BY DEF Step
<1>3. \/ handler' \in NotationHandlers /\ Place' = "notation" /\ Depth' = 0
      \/ /\ handler' = "declClose" /\ role_none' = "NOTATION_NONE"
         /\ Place' = "notation" /\ Depth' = 0
      \/ role' = "NOTATION_NO_SYSTEM_ID"
  BY NotationRows DEF To, Place, Depth
<1>4. role' = "NOTATION_NO_SYSTEM_ID" \/ told' = D!Recalled(told, role')
  BY <1>2, <1>3 DEF Between
<1>5. CASE role' = "NOTATION_NONE"
  BY <1>1, <1>3, <1>4, <1>5, Kept, Waiting DEF D!Kinds, D!None, Silent
<1>6. CASE role' = "NOTATION_NAME"
  <2>1. handler \in {"notation0"} /\ told \in {{}}
    BY <1>6, NotationRows DEF To, RoleInv, NotationTold
  <2>2. D!MayTell("NOTATION_NAME")
    BY <2>1, NotationMayTell DEF D!Has, D!Names, D!Types, D!Values
  <2> QED  BY <2>2, <1>1, <1>3, <1>4, <1>6, Telling
         DEF D!Kinds, D!Names, D!Closes, D!Parts, D!NotationParts
<1>7. CASE role' = "NOTATION_PUBLIC_ID"
  <2>1. handler \in {"notation2"} /\ told \in {{"NOTATION_NAME"}}
    BY <1>7, NotationRows DEF To, RoleInv, NotationTold
  <2>2. D!MayTell("NOTATION_PUBLIC_ID")
    BY <2>1, NotationMayTell DEF D!Has, D!Names, D!Types, D!Values
  <2> QED  BY <2>2, <1>1, <1>3, <1>4, <1>7, Telling
         DEF D!Kinds, D!Names, D!Closes, D!Parts, D!NotationParts
<1>8. CASE role' = "NOTATION_SYSTEM_ID"
  <2>1. /\ handler \in {"notation3", "notation4"}
        /\ told \in {{"NOTATION_NAME"}, {"NOTATION_NAME", "NOTATION_PUBLIC_ID"}}
    BY <1>8, NotationRows DEF To, RoleInv, NotationTold
  <2>2. D!MayTell("NOTATION_SYSTEM_ID")
    BY <2>1, NotationMayTell DEF D!Has, D!Names, D!Types, D!Values
  <2> QED  BY <2>2, <1>1, <1>3, <1>4, <1>8, Telling
         DEF D!Kinds, D!Names, D!Closes, D!Parts, D!NotationParts
<1>9. CASE role' = "NOTATION_NO_SYSTEM_ID"
  <2>1. handler = "notation4" /\ handler' = setTopLevel
    BY <1>9, NotationRows DEF To
  <2>2. told = {"NOTATION_NAME", "NOTATION_PUBLIC_ID"}
    BY <2>1 DEF RoleInv, NotationTold
  <2>3. Place' = "subset" /\ Depth' = 0 /\ told' = {}
    BY <2>1, <1>2 DEF setTopLevel, Place, Depth, Between
  <2> QED  BY <1>1, <1>9, <2>2, <2>3 DEF D!Next, D!End, D!Moves, D!Kinds
<1> QED  BY <1>5, <1>6, <1>7, <1>8, <1>9, NotationRows DEF To

\* Such a step keeps the invariant.
LEMMA NotationKeeps ==
  ASSUME RoleInv, handler \in NotationHandlers, NEW r \in Rows, Step(r)
  PROVE  RoleInv'
<1>1. /\ handler' \in NotationHandlers \cup {"declClose"} =>
             told' = D!Recalled(told, role')
      /\ handler' \in {"internalSubset", "externalSubset1"} => told' = {}
  BY DEF Step, Between, NotationHandlers
<1>2. NotationTold /\ RoleInv
  BY DEF RoleInv
<1>3. /\ role' = "NOTATION_NONE" => D!Recalled(told, role') = told
      /\ role' \in D!NotationParts => D!Recalled(told, role') = told \cup {role'}
  BY Kept, Told, Recall DEF Silent, Noted
<1>4. handler' \in NotationHandlers \cup {"declClose", setTopLevel}
  BY NotationRows DEF NotationHandlers, To
<1>5. NotationTold'
  BY <1>1, <1>2, <1>3, NotationRows
     DEF NotationTold, NotationHandlers, To, D!NotationParts, setTopLevel
<1>6. DeclCloseTold'
  BY <1>1, <1>2, <1>3, NotationRows
     DEF NotationTold, NotationHandlers, To, DeclCloseTold, NoneRoles,
         D!NotationParts, setTopLevel
<1>7. UNCHANGED <<level, includeLevel, documentEntity>>
  BY NotationRows
<1>8. /\ handler' \in Handlers /\ (documentEntity =>
             handler' \notin ExternalHandlers)
      /\ (~documentEntity => handler' \notin DocumentHandlers)
      /\ handler' \in DocumentHandlers \cup ExternalHandlers \cup {"error"} =>
             told' = {}
  BY <1>4, <1>1
     DEF Handlers, NotationHandlers, setTopLevel, ExternalHandlers,
         DocumentHandlers
<1>9. EntityTold' /\ AttlistTold' /\ ElementTold'
  BY <1>4 DEF EntityTold, AttlistTold, ElementTold, setTopLevel, NotationHandlers
<1> QED  BY <1>2, <1>5, <1>6, <1>7, <1>8, <1>9 DEF RoleInv

\* A step of attlist0 to attlist9 is one of Declarations.
LEMMA AttlistNext ==
  ASSUME RoleInv, handler \in AttlistHandlers, NEW r \in Rows, Step(r)
  PROVE  D!Next
<1> USE DEF AttlistHandlers
<1>1. Place = "attlist" /\ Depth = 0
  BY DEF Place, Depth
<1>2. told' = IF handler' \in Between THEN {} ELSE D!Recalled(told, role')
  BY DEF Step
<1>3. \/ handler' \in AttlistHandlers /\ Place' = "attlist" /\ Depth' = 0
      \/ role' = "ATTLIST_NONE" /\ handler = "attlist1" /\ handler' = setTopLevel
  BY AttlistRows DEF To, Place, Depth
<1>4. handler' \in AttlistHandlers => told' = D!Recalled(told, role')
  BY <1>2 DEF Between
<1>5. CASE role' = "ATTLIST_NONE" /\ handler' \in AttlistHandlers
  <2>1. Place' = "attlist" /\ Depth' = 0
    BY <1>5, <1>3 DEF setTopLevel
  <2> QED  BY <1>1, <2>1, <1>4, <1>5, Kept, Waiting DEF D!Kinds, D!None, Silent
<1>6. CASE handler = "attlist1" /\ handler' = setTopLevel
  <2>1. told = {"ATTLIST_ELEMENT_NAME"} /\ role' = "ATTLIST_NONE"
    BY <1>6, <1>3 DEF RoleInv, AttlistTold, setTopLevel
  <2>2. Place' = "subset" /\ Depth' = 0 /\ told' = {}
    BY <1>6, <1>2 DEF setTopLevel, Place, Depth, Between
  <2> QED  BY <1>1, <2>1, <2>2, Ending DEF D!Complete, D!Kinds, D!None
<1>7. CASE role' = "ATTLIST_ELEMENT_NAME"
  <2>1. handler \in {"attlist0"} /\ told \in {{}}
    BY <1>7, AttlistRows DEF To, RoleInv, AttlistTold, D!Types
  <2>2. D!MayTell("ATTLIST_ELEMENT_NAME")
    BY <2>1, AttlistMayTell DEF D!Has, D!Names, D!Types, D!Values
  <2> QED  BY <2>2, <1>1, <1>3, <1>4, <1>7, Telling
         DEF D!Kinds, D!Names, D!Closes, D!Parts, D!AttlistParts
<1>8. CASE role' = "ATTRIBUTE_NAME"
  <2>1. handler \in {"attlist1"} /\ told \in {{"ATTLIST_ELEMENT_NAME"}}
    BY <1>8, AttlistRows DEF To, RoleInv, AttlistTold, D!Types
  <2>2. D!MayTell("ATTRIBUTE_NAME")
    BY <2>1, AttlistMayTell DEF D!Has, D!Names, D!Types, D!Values
  <2> QED  BY <2>2, <1>1, <1>3, <1>4, <1>8, Telling
         DEF D!Kinds, D!Names, D!Closes, D!Parts, D!AttlistParts
<1>9. ASSUME NEW x \in D!Types, role' = x PROVE D!Next
  <2>1. handler = "attlist2" /\ told = {"ATTLIST_ELEMENT_NAME", "ATTRIBUTE_NAME"}
    BY <1>9, AttlistRows DEF To, RoleInv, AttlistTold, D!Types
  <2>2. /\ D!MayTell(x) /\ x \in D!Parts("attlist")
        /\ x # "GROUP_OPEN" /\ x \notin D!Closes /\ x # "ATTLIST_NONE"
    BY <2>1, AttlistMayTell DEF D!Parts, D!AttlistParts, D!Types, D!Closes
  <2> QED  BY <2>2, <1>1, <1>3, <1>4, <1>9, Telling DEF D!Kinds
<1>10. ASSUME NEW x \in D!Values, role' = x PROVE D!Next
  <2>1. \/ x = "ATTRIBUTE_ENUM_VALUE" /\ handler = "attlist3"
        \/ x = "ATTRIBUTE_NOTATION_VALUE" /\ handler = "attlist6"
    BY <1>10, AttlistRows DEF To, D!Types, D!Values
  <2>2. "ATTRIBUTE_NAME" \in told /\ ~D!Has((D!Values \ {x}) \cup D!Types)
    BY <2>1 DEF RoleInv, AttlistTold, D!Has, D!Types, D!Values
  <2>3. /\ D!MayTell(x) /\ x \in D!Parts("attlist")
        /\ x # "GROUP_OPEN" /\ x \notin D!Closes /\ x # "ATTLIST_NONE"
    BY <2>2, AttlistMayTell DEF D!Parts, D!AttlistParts, D!Values, D!Closes
  <2> QED  BY <2>3, <1>1, <1>3, <1>4, <1>10, Telling DEF D!Kinds
<1>11. ASSUME NEW x \in D!Defaults, role' = x PROVE D!Next
  <2>1. handler \in {"attlist8", "attlist9"}
    BY <1>11, AttlistRows DEF To, D!Types, D!Defaults
  <2>2. D!Has(D!Types \cup D!Values)
    BY <2>1 DEF RoleInv, AttlistTold, D!Has
  <2>3. /\ D!MayTell(x) /\ x \in D!Parts("attlist")
        /\ x # "GROUP_OPEN" /\ x \notin D!Closes /\ x # "ATTLIST_NONE"
    BY <2>2, AttlistMayTell DEF D!Parts, D!AttlistParts, D!Defaults, D!Closes
  <2> QED  BY <2>3, <1>1, <1>3, <1>4, <1>11, Telling DEF D!Kinds
<1>12. role' \in {"ATTLIST_NONE", "ATTLIST_ELEMENT_NAME", "ATTRIBUTE_NAME"}
                 \cup D!Types \cup D!Values \cup D!Defaults
  BY AttlistRows DEF To, D!Values, D!Defaults
<1> QED  BY <1>3, <1>5, <1>6, <1>7, <1>8, <1>9, <1>10, <1>11, <1>12

\* Such a step keeps the invariant.
LEMMA AttlistKeeps ==
  ASSUME RoleInv, handler \in AttlistHandlers, NEW r \in Rows, Step(r)
  PROVE  RoleInv'
<1>1. /\ handler' \in AttlistHandlers \cup {"declClose"} =>
             told' = D!Recalled(told, role')
      /\ handler' \in {"internalSubset", "externalSubset1"} => told' = {}
  BY DEF Step, Between, AttlistHandlers
<1>2. AttlistTold /\ RoleInv
  BY DEF RoleInv
<1>3. /\ role' = "ATTLIST_NONE" => D!Recalled(told, role') = told
      /\ role' \in {"ATTLIST_ELEMENT_NAME", "ATTRIBUTE_NAME"} \cup D!Types \cup D!Values
            => D!Recalled(told, role') = told \cup {role'}
      /\ role' \in D!Defaults => D!Recalled(told, role') = {"ATTLIST_ELEMENT_NAME"}
  BY Kept, Told, Recall DEF Silent, Noted
<1>4. handler' \in AttlistHandlers \cup {"declClose", setTopLevel}
  BY AttlistRows DEF AttlistHandlers, To
<1>5. AttlistTold'
  BY <1>1, <1>2, <1>3, AttlistRows
     DEF AttlistTold, AttlistHandlers, To, D!Types, D!Values, D!Defaults,
         setTopLevel
<1>6. DeclCloseTold'
  BY <1>1, <1>2, <1>3, AttlistRows
     DEF AttlistTold, AttlistHandlers, To, DeclCloseTold, NoneRoles,
         D!AttlistParts, setTopLevel
<1>7. UNCHANGED <<level, includeLevel, documentEntity>>
  BY AttlistRows
<1>8. /\ handler' \in Handlers /\ (documentEntity =>
             handler' \notin ExternalHandlers)
      /\ (~documentEntity => handler' \notin DocumentHandlers)
      /\ handler' \in DocumentHandlers \cup ExternalHandlers \cup {"error"} =>
             told' = {}
  BY <1>4, <1>1
     DEF Handlers, AttlistHandlers, setTopLevel, ExternalHandlers,
         DocumentHandlers
<1>9. EntityTold' /\ NotationTold' /\ ElementTold'
  BY <1>4 DEF EntityTold, NotationTold, ElementTold, setTopLevel, AttlistHandlers
<1> QED  BY <1>2, <1>5, <1>6, <1>7, <1>8, <1>9 DEF RoleInv

\* A step of element0 to element7 is one of Declarations.
LEMMA ElementNext ==
  ASSUME RoleInv, handler \in ElementHandlers, NEW r \in Rows, Step(r)
  PROVE  D!Next
<1> USE DEF ElementHandlers
<1>1. /\ Place = "element"
      /\ Depth = IF handler \in {"element0", "element1"} THEN 0 ELSE level
  BY DEF Place, Depth
<1>2. \/ handler' \in ElementHandlers
      \/ handler' = "declClose" /\ role_none' = "ELEMENT_NONE"
  BY ElementRows DEF To
<1>3. /\ Place' = "element"
      /\ Depth' = IF handler' \in {"element0", "element1", "declClose"} THEN 0 ELSE level'
  BY <1>2 DEF Place, Depth
<1>4. told' = D!Recalled(told, role')
  BY <1>2 DEF Step, Between
<1>5. /\ level \in Nat
      /\ handler \in {"element2", "element3", "element4", "element5"} => level = 1
      /\ handler \in {"element6", "element7"} => level >= 1
  BY DEF RoleInv, ElementTold
<1>6. CASE role' = "ELEMENT_NONE"
  <2>1. Depth' = Depth
    BY <1>6, <1>1, <1>3, ElementRows DEF To
  <2>2. told' = told
    BY <1>4, <1>6, Kept DEF Silent
  <2> QED  BY <1>1, <1>3, <1>6, <2>1, <2>2, Waiting DEF D!Kinds, D!None
<1>7. ASSUME NEW x \in D!ElementParts \ ({"GROUP_OPEN"} \cup D!Closes), role' = x
      PROVE  D!Next
  <2>1. Depth' = Depth
    BY <1>7, <1>1, <1>3, ElementRows DEF To, D!Closes
  <2>2. /\ x = "ELEMENT_NAME" => told = {}
        /\ x \in {"CONTENT_EMPTY", "CONTENT_ANY"} => told = {"ELEMENT_NAME"}
        /\ x = "CONTENT_PCDATA" => told = {"ELEMENT_NAME", "GROUP_OPEN"}
        /\ x \in {"GROUP_CHOICE", "GROUP_SEQUENCE"} =>
              handler = "element7" /\ told = {"ELEMENT_NAME", "GROUP_OPEN"}
        /\ x \in D!Children => handler \in {"element2", "element4", "element6"}
    BY <1>7, ElementRows DEF To, RoleInv, ElementTold, D!Children
  <2>3. /\ x \in {"GROUP_CHOICE", "GROUP_SEQUENCE"} =>
               Depth > 0 /\ ~D!Has({"CONTENT_PCDATA"})
        /\ x \in D!Children => Depth > 0
    BY <2>2, <1>1, <1>5 DEF D!Has
  <2>4. D!MayTell(x)
    BY <2>2, <2>3, <1>7, ElementMayTell DEF D!ElementParts
  <2>5. x \in D!Parts("element")
    BY <1>7 DEF D!Parts
  <2> QED  BY <2>1, <2>4, <2>5, <1>1, <1>3, <1>4, <1>7, Telling DEF D!Kinds
<1>8. CASE role' = "GROUP_OPEN"
  <2>1. \/ handler = "element1" /\ handler' = "element2" /\ level' = 1
        \/ handler = "element2" /\ handler' = "element6" /\ level' = 2
        \/ handler = "element6" /\ handler' = "element6" /\ level' = level + 1
    BY <1>8, ElementRows DEF To
  <2>2. Depth' = Depth + 1
    <3>1. CASE handler = "element1" /\ handler' = "element2" /\ level' = 1
      BY <3>1, <1>1, <1>3
    <3>2. CASE handler = "element2" /\ handler' = "element6" /\ level' = 2
      BY <3>2, <1>1, <1>3, <1>5
    <3>3. CASE handler = "element6" /\ handler' = "element6" /\ level' = level + 1
      BY <3>3, <1>1, <1>3
    <3> QED  BY <2>1, <3>1, <3>2, <3>3
  <2>3. D!MayTell("GROUP_OPEN")
    <3>1. CASE handler = "element1"
      BY <3>1, <1>1, ElementMayTell DEF RoleInv, ElementTold
    <3>2. CASE handler # "element1"
      <4>1. told = {"ELEMENT_NAME", "GROUP_OPEN"} /\ Depth # 0
        BY <3>2, <2>1, <1>1, <1>5 DEF RoleInv, ElementTold
      <4> QED  BY <4>1, ElementMayTell DEF D!Has
    <3> QED  BY <3>1, <3>2
  <2> QED  BY <2>2, <2>3, <1>1, <1>3, <1>4, <1>8, Telling
         DEF D!Kinds, D!Parts, D!ElementParts
<1>9. ASSUME NEW x \in D!Closes, role' = x PROVE D!Next
  <2>1. \/ handler \in {"element3", "element5"} /\ handler' = "declClose"
        \/ handler = "element7" /\ handler' = "declClose" /\ level = 1
        \/ handler = "element7" /\ handler' = "element7" /\ level' = level - 1
    BY <1>9, ElementRows DEF To, D!Closes
  <2>2. Depth > 0 /\ Depth' = Depth - 1
    <3>1. CASE handler \in {"element3", "element5"} /\ handler' = "declClose"
      BY <3>1, <1>1, <1>3, <1>5
    <3>2. CASE handler = "element7" /\ handler' = "declClose" /\ level = 1
      BY <3>2, <1>1, <1>3
    <3>3. CASE handler = "element7" /\ handler' = "element7" /\ level' = level - 1
      BY <3>3, <1>1, <1>3, <1>5
    <3> QED  BY <2>1, <3>1, <3>2, <3>3
  <2>3. D!MayTell(x)
    BY <2>2, <1>9, ElementMayTell
  <2>4. x # "GROUP_OPEN" /\ x \in D!Parts("element")
    BY <1>9 DEF D!Closes, D!Parts, D!ElementParts
  <2> QED  BY <2>2, <2>3, <2>4, <1>1, <1>3, <1>4, <1>9, Telling DEF D!Kinds
<1>10. role' \in {"ELEMENT_NONE"} \cup D!ElementParts
  BY ElementRows DEF To, D!ElementParts, D!Children, D!Closes
<1> QED  BY <1>6, <1>7, <1>8, <1>9, <1>10

\* Such a step keeps the invariant.
LEMMA ElementKeeps ==
  ASSUME RoleInv, handler \in ElementHandlers, NEW r \in Rows, Step(r)
  PROVE  RoleInv'
<1>1. /\ handler' \in ElementHandlers \cup {"declClose"} =>
             told' = D!Recalled(told, role')
      /\ handler' \in {"internalSubset", "externalSubset1"} => told' = {}
  BY DEF Step, Between, ElementHandlers
<1>2. ElementTold /\ RoleInv
  BY DEF RoleInv
<1>3. /\ role' = "ELEMENT_NONE" => D!Recalled(told, role') = told
      /\ role' \in D!Repeated => D!Recalled(told, role') = told
      /\ role' \in {"ELEMENT_NAME", "CONTENT_EMPTY", "CONTENT_ANY", "CONTENT_PCDATA", "GROUP_OPEN"}
            => D!Recalled(told, role') = told \cup {role'}
  BY Kept, Told, Recall DEF Silent, Noted
<1>4. handler' \in ElementHandlers \cup {"declClose", setTopLevel}
  BY ElementRows DEF ElementHandlers, To
<1>5. ElementTold'
  <2>1. /\ level \in Nat
        /\ handler \in {"element2", "element3", "element4", "element5"} => level = 1
        /\ handler \in {"element6", "element7"} => level >= 1
    BY <1>2 DEF ElementTold, RoleInv
  <2>2. /\ handler' \in {"element2", "element3", "element4", "element5"} =>
               level' = 1
        /\ handler' \in {"element6", "element7"} => level' >= 1
    BY <2>1, ElementRows DEF ElementHandlers, To, setTopLevel
  <2>3. /\ handler' = "element0" => told' = {}
        /\ handler' = "element1" => told' = {"ELEMENT_NAME"}
        /\ handler' \in {"element2", "element6", "element7"} =>
              told' = {"ELEMENT_NAME", "GROUP_OPEN"}
    BY <1>1, <1>2, <1>3, ElementRows
       DEF ElementTold, ElementHandlers, To, D!Repeated, D!Children, D!Closes, setTopLevel
  <2>4. handler' \in {"element3", "element4", "element5"} =>
              told' = {"ELEMENT_NAME", "GROUP_OPEN", "CONTENT_PCDATA"}
    BY <1>1, <1>2, <1>3, ElementRows
       DEF ElementTold, ElementHandlers, To, D!Repeated, D!Children, D!Closes, setTopLevel
  <2> QED  BY <2>2, <2>3, <2>4 DEF ElementTold
<1>6. DeclCloseTold'
  BY <1>1, <1>2, <1>3, ElementRows
     DEF ElementTold, ElementHandlers, To, DeclCloseTold, NoneRoles, D!Repeated,
         D!Children, D!Closes, setTopLevel
<1>7. level' \in Nat /\ UNCHANGED <<includeLevel, documentEntity>>
  BY <1>2, ElementRows DEF RoleInv, ElementTold, ElementHandlers
<1>8. /\ handler' \in Handlers /\ (documentEntity =>
             handler' \notin ExternalHandlers)
      /\ (~documentEntity => handler' \notin DocumentHandlers)
      /\ handler' \in DocumentHandlers \cup ExternalHandlers \cup {"error"} =>
             told' = {}
  BY <1>4, <1>1
     DEF Handlers, ElementHandlers, setTopLevel, ExternalHandlers,
         DocumentHandlers
<1>9. EntityTold' /\ NotationTold' /\ AttlistTold'
  BY <1>4 DEF EntityTold, NotationTold, AttlistTold, setTopLevel, ElementHandlers
<1> QED  BY <1>2, <1>5, <1>6, <1>7, <1>8, <1>9 DEF RoleInv

-----------------------------------------------------------------------------
(* The handlers between declarations, declClose, error and common *)

\* A step between declarations of the document entity is one of Declarations.
LEMMA DocumentNext ==
  ASSUME RoleInv, handler \in DocumentHandlers, NEW r \in Rows, Step(r)
  PROVE  D!Next /\ told' = {}
<1> USE DEF DocumentHandlers
<1>1. told = {} /\ role' \in Silent
  BY DocumentRows DEF RoleInv, To, Silent
<1>2. told' = {}
  BY <1>1, Kept DEF Step
<1>3. handler' \in DocumentHandlers \cup {"error", "entity0", "attlist0", "element0", "notation0"}
  BY DocumentRows DEF To
<1>4. Depth' = 0
  BY <1>3 DEF Depth
<1> USE DEF D!Moves
<1>5. CASE handler \in {"prolog0", "prolog1", "prolog2"}
  <2>1. D!Between \/ D!Doctype \/ D!FirstDeclaration \/ D!Over
    BY SMTT(30), <1>2, <1>4, <1>5, DocumentRows
       DEF To, Place, D!Between, D!Doctype, D!FirstDeclaration, D!Over
  <2> QED  BY <2>1, <1>2 DEF D!Next
<1>6. CASE handler \in {"doctype0", "doctype1", "doctype2", "doctype3", "doctype4", "doctype5"}
  <2>1. D!Doctype
    BY <1>2, <1>4, <1>6, DocumentRows DEF To, Place, D!Doctype
  <2> QED  BY <2>1, <1>2 DEF D!Next
<1>7. CASE handler = "internalSubset"
  <2>1. \/ D!Doctype \/ D!Between
        \/ D!Begin("entity") \/ D!Begin("attlist") \/ D!Begin("element") \/ D!Begin("notation")
    BY <1>2, <1>4, <1>7, DocumentRows
       DEF To, Place, D!Doctype, D!Between, D!Begin, D!None
  <2> QED  BY <2>1, <1>2, Beginning DEF D!Next, D!Kinds
<1> QED  BY <1>5, <1>6, <1>7

\* A step between declarations of an external subset is one of Declarations.
LEMMA ExternalNext ==
  ASSUME RoleInv, handler \in ExternalHandlers, NEW r \in Rows, Step(r)
  PROVE  D!Next /\ told' = {}
<1> USE DEF ExternalHandlers
<1>1. told = {} /\ role' \in Silent
  BY ExternalRows DEF RoleInv, To, Silent
<1>2. told' = {}
  BY <1>1, Kept DEF Step
<1>3. handler' \in ExternalHandlers \cup {"error", "entity0", "attlist0", "element0", "notation0"}
  BY ExternalRows DEF To
<1>4. Depth' = 0
  BY <1>3 DEF Depth
<1>5. \/ D!Between \/ D!FirstDeclaration \/ D!Sections
      \/ D!Begin("entity") \/ D!Begin("attlist") \/ D!Begin("element") \/ D!Begin("notation")
  BY SMTT(30), <1>2, <1>4, ExternalRows
     DEF To, Place, D!FirstDeclaration, D!Between, D!Sections, D!Begin, D!None,
         D!Moves
<1> QED  BY <1>5, <1>2, Beginning DEF D!Next, D!Kinds

\* A step of declClose is one of Declarations.
LEMMA CloseNext ==
  ASSUME RoleInv, handler = "declClose", NEW r \in Rows, Step(r)
  PROVE  D!Next
<1>1. PICK none \in NoneRoles : role_none = none
  BY DEF RoleInv, DeclCloseTold
<1>2. DeclCloseTold
  BY DEF RoleInv
<1>3. PICK kind \in {"entity", "notation", "element"} : Place = kind /\ none = D!None(kind)
  BY <1>1 DEF Place, NoneRoles, D!None
<1>4. Depth = 0 /\ Depth' = 0 /\ role' = none
  BY <1>1, CloseRows DEF Depth, setTopLevel
<1>5. CASE handler' = "declClose" /\ role_none' = role_none
  <2>1. Place' = Place
    BY <1>5 DEF Place
  <2>2. told' = told
    BY <1>5, <1>4, <1>1, Kept DEF Step, Between, Silent, NoneRoles
  <2> QED  BY <2>1, <2>2, <1>3, <1>4, Waiting DEF D!Kinds
<1>6. CASE handler' = setTopLevel
  <2>1. Place' = "subset" /\ told' = {}
    BY <1>6 DEF Place, Step, setTopLevel, Between
  <2>2. D!Complete
    <3>1. CASE kind = "entity"
      BY <3>1, <1>1, <1>2, <1>3 DEF D!Complete, D!Has, DeclCloseTold, D!None
    <3>2. CASE kind = "notation"
      BY <3>2, <1>1, <1>2, <1>3 DEF D!Complete, D!Has, DeclCloseTold, D!None
    <3>3. CASE kind = "element"
      BY <3>3, <1>1, <1>2, <1>3, <1>4 DEF D!Complete, D!Has, DeclCloseTold, D!None
    <3> QED  BY <3>1, <3>2, <3>3
  <2> QED  BY <2>1, <2>2, <1>3, <1>4, Ending DEF D!Kinds
<1> QED  BY <1>5, <1>6, CloseRows

\* So is a step of error.
LEMMA ErrorNext ==
  ASSUME RoleInv, handler = "error", NEW r \in Rows, Step(r)
  PROVE  D!Next
<1>1. told' = {} /\ Depth' = 0 /\ Place = "over" /\ Place' = "over" /\ role' = "NONE"
  BY ErrorRows DEF To, Step, Between, Depth, Place
<1> QED  BY <1>1 DEF D!Next, D!Over, D!Moves

\* So is an answer of common.
LEMMA CommonNext ==
  ASSUME RoleInv, handler # "error", NEW t \in Tokens, Step(common(t))
  PROVE  D!Next
<1>1. CASE To("error", "ERROR")
  <2>1. told' = {} /\ Depth' = 0 /\ Place' = "over" /\ role' = "ERROR"
    BY <1>1 DEF To, Step, Between, Depth, Place, common, Row
  <2>2. Place \in D!Places \ {"over"}
    BY DEF Place, D!Places, D!Kinds
  <2> QED  BY <2>1, <2>2 DEF D!Next, D!Over, D!Moves
<1>2. CASE To(handler, "INNER_PARAM_ENTITY_REF") /\ role_none' = role_none
  <2>1. Place' = Place /\ Depth' = Depth
    BY <1>2, CommonRow DEF To, Place, Depth
  <2>2. told' = IF handler' \in Between THEN {} ELSE D!Recalled(told, role')
    BY DEF Step, common, Row
  <2>3. handler' \in Between => told = {}
    BY <1>2 DEF To, Between, RoleInv, DocumentHandlers, ExternalHandlers
  <2>4. told' = told
    BY <2>2, <2>3, <1>2, Kept DEF To, Silent
  <2> QED  BY <2>1, <2>4, <1>2 DEF D!Next, D!Wait, To
<1> QED  BY <1>1, <1>2, CommonRow

\* A step to a handler that has been told nothing keeps the invariant.
LEMMA TopKeeps ==
  ASSUME RoleInv, told' = {}, level' = level, includeLevel' \in Nat,
         documentEntity' = documentEntity,
         handler' \in DocumentHandlers \cup ExternalHandlers
                        \cup {"entity0", "notation0", "attlist0", "element0", "error"},
         documentEntity => handler' \notin ExternalHandlers /\ includeLevel' = 0,
         ~documentEntity => handler' \notin DocumentHandlers
  PROVE  RoleInv'
<1> USE DEF DocumentHandlers, ExternalHandlers
<1>1. /\ handler' \in Handlers
      /\ handler' \in DocumentHandlers \cup ExternalHandlers \cup {"error"} =>
             told' = {}
  BY DEF Handlers, EntityHandlers, NotationHandlers, AttlistHandlers,
          ElementHandlers
<1>2. EntityTold' /\ NotationTold' /\ AttlistTold' /\ ElementTold' /\ DeclCloseTold'
  BY DEF EntityTold, NotationTold, AttlistTold, ElementTold, DeclCloseTold
<1> QED  BY <1>1, <1>2 DEF RoleInv

\* A step between declarations of the document entity keeps it.
LEMMA DocumentKeeps ==
  ASSUME RoleInv, handler \in DocumentHandlers, NEW r \in Rows, Step(r)
  PROVE  RoleInv'
<1>1. /\ handler' \in DocumentHandlers \cup {"entity0", "notation0", "attlist0", "element0", "error"}
      /\ handler' \notin ExternalHandlers
  BY DocumentRows DEF To, DocumentHandlers, ExternalHandlers
<1>2. documentEntity /\ includeLevel = 0
  BY DEF RoleInv
<1> QED  BY <1>1, <1>2, DocumentNext, DocumentRows, TopKeeps DEF RoleInv

\* A step between declarations of an external subset keeps it.
LEMMA ExternalKeeps ==
  ASSUME RoleInv, handler \in ExternalHandlers, NEW r \in Rows, Step(r)
  PROVE  RoleInv'
<1>1. /\ handler' \in ExternalHandlers \cup {"entity0", "notation0", "attlist0", "element0"}
      /\ handler' \notin DocumentHandlers
  BY ExternalRows DEF To, DocumentHandlers, ExternalHandlers
<1>2. ~documentEntity /\ includeLevel \in Nat
  BY DEF RoleInv
<1>3. includeLevel' \in Nat
  BY <1>2, ExternalRows DEF To, ExternalHandlers
<1> QED  BY <1>1, <1>2, <1>3, ExternalNext, ExternalRows, TopKeeps DEF RoleInv

\* A step of declClose keeps it.
LEMMA CloseKeeps ==
  ASSUME RoleInv, handler = "declClose", NEW r \in Rows, Step(r)
  PROVE  RoleInv'
<1>1. CASE handler' = "declClose" /\ role' = role_none /\ role_none' = role_none
  <2>1. told' = told
    BY <1>1, Kept DEF Step, Between, Silent, NoneRoles, RoleInv, DeclCloseTold
  <2>2. DeclCloseTold'
    BY <1>1, <2>1 DEF RoleInv, DeclCloseTold
  <2>3. EntityTold' /\ NotationTold' /\ AttlistTold' /\ ElementTold'
    BY <1>1 DEF EntityTold, NotationTold, AttlistTold, ElementTold
  <2> QED  BY <1>1, <2>2, <2>3, CloseRows
         DEF RoleInv, Handlers, DocumentHandlers, ExternalHandlers
<1>2. CASE handler' = setTopLevel
  <2>1. told' = {}
    BY <1>2 DEF Step, setTopLevel, Between
  <2> QED  BY <1>2, <2>1, CloseRows, TopKeeps
         DEF RoleInv, setTopLevel, DocumentHandlers, ExternalHandlers
<1> QED  BY <1>1, <1>2, CloseRows

\* A step to error keeps it.
LEMMA ErrorKeeps ==
  ASSUME RoleInv, told' = {}, handler' = "error",
         UNCHANGED <<level, includeLevel, documentEntity>>
  PROVE  RoleInv'
BY TopKeeps DEF RoleInv, DocumentHandlers, ExternalHandlers

\* An answer of common keeps it.
LEMMA CommonKeeps ==
  ASSUME RoleInv, NEW t \in Tokens, Step(common(t))
  PROVE  RoleInv'
<1>1. CASE To("error", "ERROR")
  <2>1. told' = {}
    BY <1>1 DEF To, Step, Between, common, Row
  <2> QED  BY <1>1, <2>1, CommonRow, ErrorKeeps DEF To
<1>2. CASE To(handler, "INNER_PARAM_ENTITY_REF") /\ role_none' = role_none
  <2>1. told' = IF handler' \in Between THEN {} ELSE D!Recalled(told, role')
    BY DEF Step, common, Row
  <2>2. handler' \in Between => told = {}
    BY <1>2 DEF To, Between, RoleInv, DocumentHandlers, ExternalHandlers
  <2>3. told' = told
    BY <2>1, <2>2, <1>2, Kept DEF To, Silent
  <2> QED  BY <2>3, <1>2, CommonRow
         DEF To, RoleInv, EntityTold, NotationTold, AttlistTold, ElementTold,
             DeclCloseTold
<1> QED  BY <1>1, <1>2, CommonRow

-----------------------------------------------------------------------------
(* The call *)

\* Which subset the machine is in.
Aside == /\ ~documentEntity =>
                Place' \notin {"start", "prolog", "doctype", "closing", "misc"}
         /\ documentEntity =>
                /\ Place' \notin {"begin", "section"} /\ includeLevel' = 0
                /\ role' \notin {"TEXT_DECL", "IGNORE_SECT",
                                  "INNER_PARAM_ENTITY_REF"}

\* The roles that only an external subset gives.
LEMMA RoleOfDocument ==
  ASSUME RoleInv, NEW t \in Tokens, XmlTokenRole(t), documentEntity
  PROVE  role' \notin {"TEXT_DECL", "IGNORE_SECT", "INNER_PARAM_ENTITY_REF"}
<1>1. CASE \E r \in Rows : Step(r)
  <2>1. PICK r \in Rows : Step(r)
    BY <1>1
  <2>2. handler \in Handlers \ ExternalHandlers
    BY DEF RoleInv
  <2>3. CASE handler \in DocumentHandlers
    BY <2>1, <2>3, DocumentRows DEF DocumentHandlers, To
  <2>4. CASE handler \in EntityHandlers
    BY <2>1, <2>4, EntityRows DEF EntityHandlers, To
  <2>5. CASE handler \in NotationHandlers
    BY <2>1, <2>5, NotationRows DEF NotationHandlers, To
  <2>6. CASE handler \in AttlistHandlers
    BY <2>1, <2>6, AttlistRows DEF AttlistHandlers, To, D!Types
  <2>7. CASE handler \in ElementHandlers
    BY <2>1, <2>7, ElementRows DEF ElementHandlers, To
  <2>8. CASE handler = "declClose"
    BY <2>1, <2>8, CloseRows DEF RoleInv, DeclCloseTold, NoneRoles
  <2>9. CASE handler = "error"
    BY <2>1, <2>9, ErrorRows DEF To
  <2> QED  BY <2>2, <2>3, <2>4, <2>5, <2>6, <2>7, <2>8, <2>9 DEF Handlers
<1>2. CASE Step(common(t))
  BY <1>2, CommonRow DEF To
<1> QED  BY <1>1, <1>2, Answer

\* A call of xmlTokenRole keeps the invariant, is a step of Declarations, and
\* stays in its kind of subset.
LEMMA RoleStep ==
  ASSUME RoleInv, NEW t \in Tokens, XmlTokenRole(t)
  PROVE  RoleInv' /\ D!Next /\ Aside
<1>1. RoleInv' /\ D!Next
  <2>1. CASE \E r \in Rows : Step(r)
    <3>1. PICK r \in Rows : Step(r)
      BY <2>1
    <3>2. CASE handler \in DocumentHandlers
      BY <3>1, <3>2, DocumentNext, DocumentKeeps
    <3>3. CASE handler \in ExternalHandlers
      BY <3>1, <3>3, ExternalNext, ExternalKeeps
    <3>4. CASE handler \in EntityHandlers
      BY <3>1, <3>4, EntityNext, EntityKeeps
    <3>5. CASE handler \in NotationHandlers
      BY <3>1, <3>5, NotationNext, NotationKeeps
    <3>6. CASE handler \in AttlistHandlers
      BY <3>1, <3>6, AttlistNext, AttlistKeeps
    <3>7. CASE handler \in ElementHandlers
      BY <3>1, <3>7, ElementNext, ElementKeeps
    <3>8. CASE handler = "declClose"
      BY <3>1, <3>8, CloseNext, CloseKeeps
    <3>9. CASE handler = "error"
      <4>1. told' = {}
        BY <3>1, <3>9, ErrorRows DEF To, Step, Between
      <4> QED  BY <3>1, <3>9, <4>1, ErrorNext, ErrorRows, ErrorKeeps DEF To
    <3> QED  BY <3>2, <3>3, <3>4, <3>5, <3>6, <3>7, <3>8, <3>9 DEF RoleInv, Handlers
  <2>2. CASE handler # "error" /\ Step(common(t))
    BY <2>2, CommonNext, CommonKeeps
  <2> QED  BY <2>1, <2>2, Answer
<1>2. Aside
  <2>1. documentEntity' = documentEntity
    BY DEF XmlTokenRole
  <2>2. ~documentEntity =>
            Place' \notin {"start", "prolog", "doctype", "closing", "misc"}
    BY <1>1, <2>1 DEF RoleInv, Place, DocumentHandlers
  <2>3. documentEntity => Place' \notin {"begin", "section"} /\ includeLevel' = 0
    BY <1>1, <2>1 DEF RoleInv, Place, ExternalHandlers
  <2> QED  BY <2>2, <2>3, RoleOfDocument DEF Aside
<1> QED  BY <1>1, <1>2

\* A new machine satisfies the invariant, and begins as Declarations does.
LEMMA RoleInit == Init => RoleInv /\ D!Init
<1> SUFFICES ASSUME Init PROVE RoleInv /\ D!Init
  OBVIOUS
<1>1. handler \in {"prolog0", "externalSubset0"} /\ level \in Nat /\ documentEntity \in BOOLEAN
  <2>1. level \in Nat
    BY BoundsAssumption DEF Init
  <2> QED  BY <2>1 DEF Init
<1>2. D!Init
  BY <1>1 DEF D!Init, Init, Place, Depth
<1>3. EntityTold /\ NotationTold /\ AttlistTold /\ ElementTold /\ DeclCloseTold
  BY <1>1 DEF EntityTold, NotationTold, AttlistTold, ElementTold, DeclCloseTold
<1>4. RoleInv
  BY <1>1, <1>3 DEF RoleInv, Init, Handlers, DocumentHandlers, ExternalHandlers
<1> QED  BY <1>2, <1>4

(***************************************************************************)
(* Every handler of lib/xmlrole.c has been told what its place in the      *)
(* declaration says and no more, its counters are numbers, and declClose   *)
(* is waited in by a complete declaration only: for any tokens, any depth  *)
(* of groups and of INCLUDE sections.                                      *)
(***************************************************************************)
THEOREM RoleInvariant == RoleSpec => []RoleInv
<1>1. RoleInv /\ [\E t \in Tokens : XmlTokenRole(t)]_vars => RoleInv'
  <2> SUFFICES ASSUME RoleInv, [\E t \in Tokens : XmlTokenRole(t)]_vars
               PROVE  RoleInv'
    OBVIOUS
  <2>1. CASE \E t \in Tokens : XmlTokenRole(t)
    BY <2>1, RoleStep
  <2>2. CASE UNCHANGED vars
    BY <2>2
       DEF vars, RoleInv, EntityTold, NotationTold, AttlistTold, ElementTold,
           DeclCloseTold
  <2> QED  BY <2>1, <2>2
<1> QED  BY <1>1, RoleInit, PTL DEF RoleSpec

(***************************************************************************)
(* The roles xmlTokenRole returns come in the order the switch of doProlog *)
(* relies on (the machine refines Declarations), and neither kind of       *)
(* subset gets into the other's part of the prolog.                        *)
(***************************************************************************)
THEOREM RolesInOrder == RoleSpec => TellsDeclarations
<1>1. RoleInv /\ [\E t \in Tokens : XmlTokenRole(t)]_vars =>
          [D!Next]_D!vars /\ [Aside]_vars
  <2> SUFFICES ASSUME RoleInv, [\E t \in Tokens : XmlTokenRole(t)]_vars
               PROVE  [D!Next]_D!vars /\ [Aside]_vars
    OBVIOUS
  <2>1. CASE \E t \in Tokens : XmlTokenRole(t)
    BY <2>1, RoleStep
  <2>2. CASE UNCHANGED vars
    BY <2>2 DEF vars, D!vars, Place, Depth
  <2> QED  BY <2>1, <2>2
<1> QED  BY <1>1, RoleInit, RoleInvariant, PTL
       DEF RoleSpec, TellsDeclarations, D!Spec, Aside

-----------------------------------------------------------------------------
(* What Declarations says of the step that tells a role *)

\* The part of a declaration a role tells belongs to that declaration.
LEMMA Disjoint ==
  /\ D!EntityParts \cap (D!NotationParts \cup D!AttlistParts \cup D!ElementParts) = {}
  /\ D!ElementParts \cap (D!NotationParts \cup D!AttlistParts) = {}
  /\ Silent \cap (D!EntityParts \cup D!ElementParts) = {}
BY DEF D!EntityParts, D!NotationParts, D!AttlistParts, D!ElementParts, D!Names,
       D!Types, D!Values, D!Defaults, D!Children, D!Closes, Silent

\* A step of Declarations tells a part of the declaration it is in, or none.
LEMMA Parting ==
  ASSUME D!Next
  PROVE  \/ role' \in Silent
         \/ \E kind \in D!Kinds : \E r \in D!Parts(kind) : D!Tell(kind, r)
<1>1. D!Between \/ D!FirstDeclaration \/ D!Doctype \/ D!Sections => role' \in Silent
  BY DEF D!Between, D!FirstDeclaration, D!Doctype, D!Sections, D!Moves, Silent
<1>2. ASSUME NEW kind \in D!Kinds, D!Begin(kind) \/ D!End(kind) PROVE role' \in Silent
  BY <1>2 DEF D!Begin, D!End, D!Moves, D!None, D!Kinds, Silent
<1>3. D!Wait => role' \in Silent
  BY DEF D!Wait, D!None, D!Kinds, Silent
<1>4. D!Over => role' \in Silent
  BY DEF D!Over, D!Moves, Silent
<1> QED  BY <1>1, <1>2, <1>3, <1>4 DEF D!Next

\* A part of an entity declaration is told in one.
LEMMA EntityPart ==
  ASSUME D!Next, role' \in D!EntityParts
  PROVE  /\ Place = "entity" /\ Place' = "entity" /\ D!MayTell(role')
         /\ told' = told \cup {role'}
<1>1. PICK kind \in D!Kinds : \E r \in D!Parts(kind) : D!Tell(kind, r)
  BY Parting, Disjoint
<1>2. kind = "entity" /\ D!Tell(kind, role')
  BY <1>1, Disjoint DEF D!Tell, D!Kinds, D!Parts
<1> QED  BY <1>2, Told DEF D!Tell, Noted

\* A part of an element declaration is told in one.
LEMMA ElementPart ==
  ASSUME D!Next, role' \in D!ElementParts
  PROVE  D!Tell("element", role')
<1>1. PICK kind \in D!Kinds : \E r \in D!Parts(kind) : D!Tell(kind, r)
  BY Parting, Disjoint
<1>2. kind = "element" /\ D!Tell(kind, role')
  BY <1>1, Disjoint DEF D!Tell, D!Kinds, D!Parts
<1> QED  BY <1>2

\* No step leads back to the places before the subset.
LEMMA NeverBack ==
  ASSUME D!Next, Place' \in Early
  PROVE  /\ Place \in Early
         /\ role' \notin {"ENTITY_VALUE", "PARAM_ENTITY_REF", "DOCTYPE_CLOSE"}
<1> USE DEF Early
<1>1. CASE D!Between \/ D!FirstDeclaration \/ D!Doctype \/ D!Sections
  BY <1>1 DEF D!Between, D!FirstDeclaration, D!Doctype, D!Sections, D!Moves
<1>2. CASE \E kind \in D!Kinds : D!Begin(kind) \/ D!End(kind)
  BY <1>2 DEF D!Begin, D!End, D!Moves, D!Kinds
<1>3. CASE \E kind \in D!Kinds : \E r \in D!Parts(kind) : D!Tell(kind, r)
  BY <1>3 DEF D!Tell, D!Kinds
<1>4. CASE D!Wait
  BY <1>4 DEF D!Wait, D!Kinds
<1>5. CASE D!Over
  BY <1>5 DEF D!Over, D!Moves
<1> QED  BY <1>1, <1>2, <1>3, <1>4, <1>5 DEF D!Next

\* When the parts of an entity are told.
LEMMA EntityTime ==
  ASSUME D!Next, role' \in D!EntityParts
  PROVE  /\ role' \in D!Names => told = {}
         /\ role' \in {"ENTITY_VALUE", "ENTITY_PUBLIC_ID"} =>
               told \cap D!Names # {} /\ told \subseteq D!Names
         /\ role' = "ENTITY_SYSTEM_ID" =>
               /\ told \cap D!Names # {}
               /\ told \subseteq D!Names \cup {"ENTITY_PUBLIC_ID"}
         /\ role' = "ENTITY_NOTATION_NAME" =>
               /\ {"GENERAL_ENTITY_NAME", "ENTITY_SYSTEM_ID"} \subseteq told
               /\ "ENTITY_NOTATION_NAME" \notin told
<1>1. D!MayTell(role')
  BY EntityPart
<1>2. ASSUME NEW r \in D!EntityParts, D!MayTell(r)
      PROVE  /\ r \in D!Names => told = {}
             /\ r \in {"ENTITY_VALUE", "ENTITY_PUBLIC_ID"} =>
                   told \cap D!Names # {} /\ told \subseteq D!Names
             /\ r = "ENTITY_SYSTEM_ID" =>
                   /\ told \cap D!Names # {}
                   /\ told \subseteq D!Names \cup {"ENTITY_PUBLIC_ID"}
             /\ r = "ENTITY_NOTATION_NAME" =>
                   /\ {"GENERAL_ENTITY_NAME", "ENTITY_SYSTEM_ID"} \subseteq told
               /\ "ENTITY_NOTATION_NAME" \notin told
  BY <1>2
       DEF D!MayTell, D!Has, D!Names, D!Types, D!Values, D!Defaults, D!Children,
           D!Closes
<1> QED  BY <1>1, <1>2

\* What a step does to a named entity declaration: it tells a part, or waits.
LEMMA EntityGoesOn ==
  ASSUME D!Next, Place' = "entity", told' \cap D!Names # {}
  PROVE  \/ role' \in D!EntityParts
         \/ Place = "entity" /\ told' = told
<1>1. CASE D!Between \/ D!FirstDeclaration \/ D!Doctype \/ D!Sections
  BY <1>1 DEF D!Between, D!FirstDeclaration, D!Doctype, D!Sections, D!Moves
<1>2. CASE \E kind \in D!Kinds : D!Begin(kind) \/ D!End(kind)
  BY <1>2 DEF D!Begin, D!End, D!Moves, D!Kinds
<1>3. ASSUME NEW kind \in D!Kinds, NEW r \in D!Parts(kind), D!Tell(kind, r)
      PROVE  role' \in D!EntityParts
  BY <1>3 DEF D!Tell, D!Parts
<1>4. CASE D!Wait
  BY <1>4 DEF D!Wait
<1>5. CASE D!Over
  BY <1>5 DEF D!Over, D!Moves
<1> QED  BY <1>1, <1>2, <1>3, <1>4, <1>5 DEF D!Next

\* A recorded element declaration goes on, ends, or meets an error.
LEMMA ElementGoesOn ==
  ASSUME D!Next, Place = "element", "ELEMENT_NAME" \in told, Depth \in Nat,
         Depth = 0 => told = {"ELEMENT_NAME"}
  PROVE  \/ role' = "ERROR"
         \/ role' \in D!ElementParts
         \/ /\ role' \in {"ELEMENT_NONE", "INNER_PARAM_ENTITY_REF"}
            /\ UNCHANGED <<Place, Depth, told>>
<1>1. CASE D!Between \/ D!FirstDeclaration \/ D!Doctype \/ D!Sections
  BY <1>1 DEF D!Between, D!FirstDeclaration, D!Doctype, D!Sections, D!Moves
<1>2. ASSUME NEW kind \in D!Kinds, D!Begin(kind) PROVE FALSE
  BY <1>2 DEF D!Begin, D!Moves
<1>3. ASSUME NEW kind \in D!Kinds, D!End(kind) PROVE FALSE
  <2>1. D!Complete => FALSE
    BY DEF D!Complete, D!Has
  <2>2. kind = "element"
    BY <1>3 DEF D!End, D!Moves
  <2> QED  BY <1>3, <2>1, <2>2 DEF D!End
<1>4. ASSUME NEW kind \in D!Kinds, NEW r \in D!Parts(kind), D!Tell(kind, r)
      PROVE  role' \in D!ElementParts
  BY <1>4 DEF D!Tell, D!Parts
<1>5. D!Wait => /\ role' \in {"ELEMENT_NONE", "INNER_PARAM_ENTITY_REF"}
                /\ UNCHANGED <<Place, Depth, told>>
  BY DEF D!Wait, D!None
<1>6. D!Over => role' = "ERROR"
  BY DEF D!Over, D!Moves
<1> QED  BY <1>1, <1>2, <1>3, <1>4, <1>5, <1>6 DEF D!Next

\* What the parts of an element declaration do to it.
LEMMA ElementTime ==
  ASSUME D!Next, role' \in D!ElementParts
  PROVE  /\ Place = "element" /\ Place' = "element"
         /\ role' = "ELEMENT_NAME" =>
               told = {} /\ told' = {"ELEMENT_NAME"} /\ Depth' = Depth
         /\ role' = "GROUP_OPEN" =>
               told' = told \cup {"GROUP_OPEN"} /\ Depth' = Depth + 1
         /\ role' \in D!Closes => told' = told /\ Depth' = Depth - 1 /\ Depth > 0
         /\ role' \in D!Children \cup {"GROUP_CHOICE", "GROUP_SEQUENCE"} =>
               told' = told /\ Depth' = Depth /\ Depth > 0
         /\ role' = "CONTENT_PCDATA" =>
               /\ told = {"ELEMENT_NAME", "GROUP_OPEN"}
               /\ told' = told \cup {"CONTENT_PCDATA"} /\ Depth' = Depth
<1> DEFINE r == role'
<1>1. /\ Place = "element" /\ Place' = "element" /\ D!MayTell(r)
      /\ told' = D!Recalled(told, r)
      /\ Depth' = IF r = "GROUP_OPEN" THEN Depth + 1
                  ELSE IF r \in D!Closes THEN Depth - 1 ELSE Depth
  BY ElementPart DEF D!Tell
<1> HIDE DEF r
<1>2. r = "ELEMENT_NAME" => told = {} /\ told' = {"ELEMENT_NAME"} /\ Depth' = Depth
  BY <1>1, Told
       DEF D!MayTell, Noted, D!Names, D!Types, D!Values, D!Defaults, D!Children,
           D!Closes
<1>3. r = "GROUP_OPEN" => told' = told \cup {"GROUP_OPEN"} /\ Depth' = Depth + 1
  BY <1>1, Told DEF Noted
<1>4. r \in D!Closes => told' = told /\ Depth' = Depth - 1 /\ Depth > 0
  <2>1. ASSUME r \in D!Closes PROVE D!Recalled(told, r) = told
    BY <2>1, Kept DEF D!Repeated
  <2>2. r \in D!Closes => Depth > 0
    BY <1>1
         DEF D!MayTell, D!Names, D!Types, D!Values, D!Defaults, D!Children, D!Closes
  <2> QED  BY <1>1, <2>1, <2>2 DEF D!Closes
<1>5. r \in D!Children \cup {"GROUP_CHOICE", "GROUP_SEQUENCE"} =>
               told' = told /\ Depth' = Depth /\ Depth > 0
  <2>1. ASSUME r \in D!Children \cup {"GROUP_CHOICE", "GROUP_SEQUENCE"}
        PROVE  D!Recalled(told, r) = told
    BY <2>1, Kept DEF D!Repeated
  <2>2. r \in D!Children \cup {"GROUP_CHOICE", "GROUP_SEQUENCE"} => Depth > 0
    BY <1>1
         DEF D!MayTell, D!Names, D!Types, D!Values, D!Defaults, D!Children, D!Closes
  <2> QED  BY <1>1, <2>1, <2>2 DEF D!Closes, D!Children
<1>6. r = "CONTENT_PCDATA" =>
         /\ told = {"ELEMENT_NAME", "GROUP_OPEN"}
         /\ told' = told \cup {"CONTENT_PCDATA"} /\ Depth' = Depth
  <2>1. r = "CONTENT_PCDATA" => told = {"ELEMENT_NAME", "GROUP_OPEN"}
    BY <1>1
         DEF D!MayTell, D!Names, D!Types, D!Values, D!Defaults, D!Children, D!Closes
  <2> QED  BY <1>1, <2>1, Told DEF Noted, D!Closes
<1> QED  BY <1>1, <1>2, <1>3, <1>4, <1>5, <1>6 DEF r

-----------------------------------------------------------------------------
(* The cases of doProlog that do not declare an entity *)

\* The roles whose cases write to the tables of entities or to declEntity.
Writing == {"DOCTYPE_PUBLIC_ID", "DOCTYPE_SYSTEM_ID", "GENERAL_ENTITY_NAME",
            "PARAM_ENTITY_NAME", "ENTITY_VALUE", "ENTITY_PUBLIC_ID",
            "ENTITY_SYSTEM_ID", "ENTITY_NOTATION_NAME"}

References == {"PARAM_ENTITY_REF", "INNER_PARAM_ENTITY_REF"}

\* The roles whose cases may have another parser read an entity.
Asking == References \cup {"DOCTYPE_CLOSE"}

\* White space in a declaration, by its kind.
Nones == {"ENTITY_NONE", "NOTATION_NONE", "ATTLIST_NONE", "ELEMENT_NONE"}

\* The roles that have no case in the switch of doProlog.
Caseless ==
    Nones \cup {"NONE", "DOCTYPE_NONE", "XML_DECL", "TEXT_DECL", "IGNORE_SECT",
                "INSTANCE_START", "ATTLIST_ELEMENT_NAME"}
      \cup D!ElementParts

\* The cases of doProlog that write no entity, by the role.
LEMMA Cases ==
  ASSUME Handle
  PROVE  /\ role' = "DOCTYPE_NAME" => DoctypeName
         /\ role' = "DOCTYPE_INTERNAL_SUBSET" => InternalSubset
         /\ role' = "DOCTYPE_CLOSE" => DoctypeClose
         /\ role' = "ENTITY_COMPLETE" => EntityComplete
         /\ role' = "ATTRIBUTE_NAME" => AttributeName
         /\ role' \in D!Types => AttributeType
         /\ role' \in D!Values => AttributeValue
         /\ role' \in D!Defaults => AttributeDefault \/ BadDefault
         /\ role' = "NOTATION_NAME" => NotationName
         /\ role' = "NOTATION_PUBLIC_ID" => NotationPublicId
         /\ role' = "NOTATION_SYSTEM_ID" => NotationSystem
         /\ role' = "NOTATION_NO_SYSTEM_ID" => NotationNoSystem
         /\ role' \in {"COMMENT", "PI"} => Comment
         /\ role' = "ERROR" => RoleError
         /\ role' \in References => \E n \in Entities : ParamEntityRef(n)
         /\ role' \in Caseless => Others
<1>1. role' = "DOCTYPE_NAME" => DoctypeName
  BY DEF Handle, D!Types, D!Values, D!Defaults
<1>2. role' = "DOCTYPE_INTERNAL_SUBSET" => InternalSubset
  BY DEF Handle, D!Types, D!Values, D!Defaults
<1>3. role' = "DOCTYPE_CLOSE" => DoctypeClose
  BY DEF Handle, D!Types, D!Values, D!Defaults
<1>4. role' = "ENTITY_COMPLETE" => EntityComplete
  BY DEF Handle, D!Types, D!Values, D!Defaults
<1>5. role' = "ATTRIBUTE_NAME" => AttributeName
  BY DEF Handle, D!Types, D!Values, D!Defaults
<1>6. role' \in D!Types => AttributeType
  BY DEF Handle, D!Types, D!Values, D!Defaults
<1>7. role' \in D!Values => AttributeValue
  BY DEF Handle, D!Types, D!Values, D!Defaults
<1>8. role' \in D!Defaults => AttributeDefault \/ BadDefault
  BY DEF Handle, D!Types, D!Values, D!Defaults
<1>9. role' = "NOTATION_NAME" => NotationName
  BY DEF Handle, D!Types, D!Values, D!Defaults
<1>10. role' = "NOTATION_PUBLIC_ID" => NotationPublicId
  BY DEF Handle, D!Types, D!Values, D!Defaults
<1>11. role' = "NOTATION_SYSTEM_ID" => NotationSystem
  BY DEF Handle, D!Types, D!Values, D!Defaults
<1>12. role' = "NOTATION_NO_SYSTEM_ID" => NotationNoSystem
  BY DEF Handle, D!Types, D!Values, D!Defaults
<1>13. role' \in {"COMMENT", "PI"} => Comment
  BY DEF Handle, D!Types, D!Values, D!Defaults
<1>14. role' = "ERROR" => RoleError
  BY DEF Handle, D!Types, D!Values, D!Defaults
<1>15. role' \in References => \E n \in Entities : ParamEntityRef(n)
  BY DEF Handle, D!Types, D!Values, D!Defaults, References
<1>16. role' \in Caseless => Others
  BY DEF Handle, Caseless, Nones, D!ElementParts, D!Children, D!Closes,
         D!Types, D!Values, D!Defaults
<1> QED  BY <1>1, <1>2, <1>3, <1>4, <1>5, <1>6, <1>7, <1>8, <1>9, <1>10, <1>11,
         <1>12, <1>13, <1>14, <1>15, <1>16

\* The cases that neither write there nor end the processing.
Quietly ==
    \/ DoctypeName \/ InternalSubset \/ EntityComplete
    \/ AttributeName \/ AttributeType \/ AttributeValue
    \/ AttributeDefault \/ BadDefault
    \/ NotationName \/ NotationPublicId \/ NotationSystem \/ NotationNoSystem
    \/ Comment \/ RoleError \/ Others

\* The other roles lead to one of these, or another parser may work.
LEMMA QuietRoles ==
  ASSUME Handle, role' \notin Writing \cup Asking
  PROVE  Quietly
<1>1. CASE \/ role' \in {"DOCTYPE_NAME", "DOCTYPE_INTERNAL_SUBSET",
                         "ENTITY_COMPLETE",
                         "ATTRIBUTE_NAME", "NOTATION_NAME", "NOTATION_PUBLIC_ID",
                         "NOTATION_SYSTEM_ID",
                         "NOTATION_NO_SYSTEM_ID", "COMMENT", "PI", "ERROR"}
           \/ role' \in D!Types \cup D!Values \cup D!Defaults
  BY <1>1, Cases DEF Quietly
<1>2. CASE /\ role' \notin {"DOCTYPE_NAME", "DOCTYPE_INTERNAL_SUBSET",
                        "ENTITY_COMPLETE", "ATTRIBUTE_NAME",
                        "NOTATION_NAME", "NOTATION_PUBLIC_ID", "NOTATION_SYSTEM_ID",
                        "NOTATION_NO_SYSTEM_ID", "COMMENT", "PI", "ERROR"}
            /\ role' \notin D!Types \cup D!Values \cup D!Defaults
  <2>1. Others
    BY <1>2 DEF Handle, Writing, Asking, References
  <2> QED  BY <2>1 DEF Quietly
<1> QED  BY <1>1, <1>2

\* Such a case changes no table, tells nothing of an entity, and an attribute
\* only while declarations count.
LEMMA QuietCases ==
  ASSUME Quietly
  PROVE  /\ UNCHANGED <<general, param, declEntity, keepProcessing>>
         /\ ~keepProcessing => event'.type \notin {"entity", "unparsed", "attlist"}
<1> USE DEF KeepDtd, KeepTables, Goes, Stops, Silence
<1>1. CASE DoctypeName
  BY <1>1 DEF DoctypeName
<1>2. CASE InternalSubset
  BY <1>2 DEF InternalSubset, StartDoctype
<1>4. CASE EntityComplete
  BY <1>4 DEF EntityComplete, Recording
<1>5. CASE AttributeName
  BY <1>5 DEF AttributeName
<1>6. CASE AttributeType
  BY <1>6 DEF AttributeType
<1>7. CASE AttributeValue
  BY <1>7 DEF AttributeValue
<1>8. CASE AttributeDefault
  BY <1>8 DEF AttributeDefault
<1>9. CASE BadDefault
  BY <1>9 DEF BadDefault
<1>10. CASE NotationName
  BY <1>10 DEF NotationName
<1>11. CASE NotationPublicId
  BY <1>11 DEF NotationPublicId
<1>12. CASE NotationSystem
  BY <1>12 DEF NotationSystem, NotationEvent
<1>13. CASE NotationNoSystem
  BY <1>13 DEF NotationNoSystem, NotationEvent
<1>14. CASE Comment
  BY <1>14 DEF Comment
<1>15. CASE RoleError
  BY <1>15 DEF RoleError
<1>16. CASE Others
  BY <1>16 DEF Others
<1> QED  BY <1>1, <1>2, <1>4, <1>5, <1>6, <1>7, <1>8, <1>9, <1>10, <1>11,
         <1>12, <1>13, <1>14, <1>15, <1>16 DEF Quietly

\* A case that may have another parser read an entity changes no table itself,
\* and ends the processing at most in a document that is not standalone.
MayRead == \/ KeepTables /\ keepProcessing' \in {keepProcessing, standalone}
           \/ ReadElsewhere

LEMMA AskingCases ==
  ASSUME Handle, role' \in Asking
  PROVE  MayRead /\ event'.type \notin {"entity", "unparsed", "attlist"}
<1> USE DEF Goes, Stops, Silence
<1>1. CASE role' = "DOCTYPE_CLOSE"
  <2>1. DoctypeClose
    BY <1>1, Cases
  <2>2. MayRead
    BY <2>1 DEF DoctypeClose, MayRead
  <2>3. event'.type \notin {"entity", "unparsed", "attlist"}
    BY <2>1 DEF DoctypeClose, StartDoctype
  <2> QED  BY <2>2, <2>3
<1>2. CASE role' \in References
  <2>1. PICK n \in Entities : ParamEntityRef(n)
    BY <1>2, Cases
  <2>2. MayRead
    BY <2>1 DEF ParamEntityRef, ExternalRef, Skips, MayRead
  <2>3. event'.type \notin {"entity", "unparsed", "attlist"}
    BY <2>1 DEF ParamEntityRef, ExternalRef
  <2> QED  BY <2>2, <2>3
<1> QED  BY <1>1, <1>2 DEF Asking

-----------------------------------------------------------------------------
(* The cases that declare an entity *)

\* Which case a role that writes leads to.
LEMMA WritingRoles ==
  ASSUME Handle
  PROVE  /\ role' = "DOCTYPE_PUBLIC_ID" => DoctypePublicId
         /\ role' = "DOCTYPE_SYSTEM_ID" => DoctypeSystemId
         /\ role' = "GENERAL_ENTITY_NAME" =>
               \E n \in Entities : EntityName("general", n)
         /\ role' = "PARAM_ENTITY_NAME" => \E n \in Entities : EntityName("param", n)
         /\ role' = "ENTITY_VALUE" => EntityValue
         /\ role' = "ENTITY_PUBLIC_ID" => EntityPublicId
         /\ role' = "ENTITY_SYSTEM_ID" => EntitySystemId
         /\ role' = "ENTITY_NOTATION_NAME" => EntityNotationName
<1>1. role' = "DOCTYPE_PUBLIC_ID" => DoctypePublicId
  BY DEF Handle, D!Types, D!Values, D!Defaults
<1>2. role' = "DOCTYPE_SYSTEM_ID" => DoctypeSystemId
  BY DEF Handle, D!Types, D!Values, D!Defaults
<1>3. role' = "GENERAL_ENTITY_NAME" => \E n \in Entities : EntityName("general", n)
  BY DEF Handle, D!Types, D!Values, D!Defaults
<1>4. role' = "PARAM_ENTITY_NAME" => \E n \in Entities : EntityName("param", n)
  BY DEF Handle, D!Types, D!Values, D!Defaults
<1>5. role' = "ENTITY_VALUE" => EntityValue
  BY DEF Handle, D!Types, D!Values, D!Defaults
<1>6. role' = "ENTITY_PUBLIC_ID" => EntityPublicId
  BY DEF Handle, D!Types, D!Values, D!Defaults
<1>7. role' = "ENTITY_SYSTEM_ID" => EntitySystemId
  BY DEF Handle, D!Types, D!Values, D!Defaults
<1>8. role' = "ENTITY_NOTATION_NAME" => EntityNotationName
  BY DEF Handle, D!Types, D!Values, D!Defaults
<1> QED  BY <1>1, <1>2, <1>3, <1>4, <1>5, <1>6, <1>7, <1>8

\* A new entity, and the text of a token, are what the tables may hold.
LEMMA Pieces ==
  ASSUME number \in Nat, number' = number + 1
  PROVE  This \in Seq(Nat) /\ NULL \in Seq(Nat) /\ Fresh \in Whole
<1>1. This \in Seq(Nat) /\ NULL \in Seq(Nat)
  BY DEF This, NULL
<1> QED  BY <1>1 DEF Fresh, Whole

\* Nothing changes, nothing is lost.
LEMMA Same == ASSUME NEW e PROVE Binds(e, e)
BY Zenon DEF Binds

\* An assignment to declEntity keeps the tables whole, and what is bound if the
\* entity it is made to is.
LEMMA Assigning ==
  ASSUME TablesInv, declEntity # NoEntity, NEW e \in Whole, Assign(e), number' \in Nat
  PROVE  /\ TablesInv' /\ declEntity' = declEntity /\ Declared' = e
         /\ Binds(Declared, e) =>
               \A n \in Entities : /\ Binds(general[n], general'[n])
                                   /\ Binds(param[n], param'[n])
<1>1. declEntity' = declEntity
  BY DEF Assign
<1>2. CASE \E n \in Entities : declEntity = [table |-> "general", name |-> n]
  <2>1. PICK n \in Entities : declEntity = [table |-> "general", name |-> n]
    BY <1>2
  <2>2. general' = [general EXCEPT ![n] = e] /\ param' = param
    BY <2>1 DEF Assign
  <2>3. Declared = general[n] /\ Declared' = e
    BY <1>1, <2>1, <2>2 DEF Declared, TablesInv
  <2>4. TablesInv'
    BY <1>1, <2>1, <2>2, <2>3 DEF TablesInv
  <2>5. ASSUME Binds(Declared, e), NEW m \in Entities
        PROVE  Binds(general[m], general'[m]) /\ Binds(param[m], param'[m])
    BY <2>2, <2>3, <2>5, Same DEF TablesInv
  <2> QED  BY <1>1, <2>3, <2>4, <2>5
<1>3. CASE \E n \in Entities \cup {"#"} : declEntity = [table |-> "param", name |-> n]
  <2>1. PICK n \in Entities \cup {"#"} : declEntity = [table |-> "param", name |-> n]
    BY <1>3
  <2>2. param' = [param EXCEPT ![n] = e] /\ general' = general
    BY <2>1 DEF Assign
  <2>3. Declared = param[n] /\ Declared' = e
    BY <1>1, <2>1, <2>2 DEF Declared, TablesInv
  <2>4. TablesInv'
    BY <1>1, <2>1, <2>2, <2>3 DEF TablesInv
  <2>5. ASSUME Binds(Declared, e), NEW m \in Entities
        PROVE  Binds(general[m], general'[m]) /\ Binds(param[m], param'[m])
    BY <2>2, <2>3, <2>5, Same DEF TablesInv
  <2> QED  BY <1>1, <2>3, <2>4, <2>5
<1> QED  BY <1>2, <1>3 DEF TablesInv

\* The name of an entity: a new entry, or none at all.
LEMMA Naming ==
  ASSUME TablesInv, number' = number + 1, NEW n \in Entities,
         NEW table \in {"general", "param"}, EntityName(table, n)
  PROVE  /\ TablesInv'
         /\ declEntity' # NoEntity =>
               (Declared.text = NULL /\ Declared.systemId = NULL)'
         /\ \A m \in Entities : /\ Binds(general[m], general'[m])
                                /\ Binds(param[m], param'[m])
         /\ UNCHANGED keepProcessing /\ event'.type = "none"
         /\ ~keepProcessing => UNCHANGED <<general, param>>
<1>1. UNCHANGED keepProcessing /\ event'.type = "none"
  BY DEF EntityName, KeepDtd, Goes, Silence
<1>2. number' \in Nat /\ Fresh \in Whole
  BY Pieces DEF TablesInv
<1>3. Fresh.text = NULL /\ Fresh.systemId = NULL
  BY DEF Fresh
<1>4. CASE declEntity' = NoEntity /\ UNCHANGED <<general, param>>
  <2>1. TablesInv'
    BY <1>2, <1>4 DEF TablesInv
  <2> QED  BY <1>1, <1>4, <2>1, Same
<1>5. CASE /\ keepProcessing /\ table = "general" /\ ~general[n].declared
           /\ declEntity' = [table |-> "general", name |-> n]
           /\ general' = [general EXCEPT ![n] = Fresh] /\ param' = param
  <2>1. Declared' = Fresh
    BY <1>5 DEF Declared, TablesInv
  <2>2. TablesInv'
    BY <1>2, <1>5, <2>1 DEF TablesInv
  <2>3. ASSUME NEW m \in Entities PROVE Binds(general[m], general'[m])
    <3>1. CASE m = n
      BY <1>5, <3>1 DEF Binds
    <3>2. CASE m # n
      BY <1>5, <3>2, Same DEF TablesInv
    <3> QED  BY <3>1, <3>2
  <2> QED  BY <1>1, <1>3, <1>5, <2>1, <2>2, <2>3, Same
<1>6. CASE /\ keepProcessing /\ table = "param" /\ ~param[n].declared
           /\ declEntity' = [table |-> "param", name |-> n]
           /\ param' = [param EXCEPT ![n] = Fresh] /\ general' = general
  <2>1. Declared' = Fresh
    BY <1>6 DEF Declared, TablesInv
  <2>2. TablesInv'
    BY <1>2, <1>6, <2>1 DEF TablesInv
  <2>3. ASSUME NEW m \in Entities PROVE Binds(param[m], param'[m])
    <3>1. CASE m = n
      BY <1>6, <3>1 DEF Binds
    <3>2. CASE m # n
      BY <1>6, <3>2, Same DEF TablesInv
    <3> QED  BY <3>1, <3>2
  <2> QED  BY <1>1, <1>3, <1>6, <2>1, <2>2, <2>3, Same
<1> QED  BY <1>4, <1>5, <1>6 DEF EntityName

\* The identifiers of the DOCTYPE come in it.
LEMMA DoctypeTime ==
  ASSUME D!Next, role' \in {"DOCTYPE_PUBLIC_ID", "DOCTYPE_SYSTEM_ID"}
  PROVE  Place = "doctype" /\ Place' = "doctype"
<1>1. CASE D!Between \/ D!FirstDeclaration \/ D!Doctype \/ D!Sections
  BY <1>1 DEF D!Between, D!FirstDeclaration, D!Doctype, D!Sections, D!Moves
<1>2. CASE \E kind \in D!Kinds : D!Begin(kind) \/ D!End(kind)
  BY <1>2 DEF D!Begin, D!End, D!Moves, D!Kinds, D!None
<1>3. ASSUME NEW kind \in D!Kinds, NEW r \in D!Parts(kind), D!Tell(kind, r)
      PROVE  FALSE
  <2>1. role' \in D!AllParts
    BY <1>3 DEF D!Tell, D!AllParts
  <2> QED  BY <2>1, PartsAre DEF D!EntityParts, D!NotationParts, D!AttlistParts,
              D!ElementParts, D!Names, D!Types, D!Values, D!Defaults, D!Children,
              D!Closes
<1>4. CASE D!Wait
  BY <1>4 DEF D!Wait, D!Kinds, D!None
<1>5. CASE D!Over
  BY <1>5 DEF D!Over, D!Moves
<1> QED  BY <1>1, <1>2, <1>3, <1>4, <1>5 DEF D!Next

\* What a case of doProlog keeps of the entities: the tables are whole, what is
\* bound stays so, processing is given up only in a document that is not
\* standalone, and without it nothing is recorded or told.
EntitiesKept ==
    /\ TablesInv'
    /\ \A n \in Entities : /\ Binds(general[n], general'[n])
                           /\ Binds(param[n], param'[n])
    /\ keepProcessing' \in {keepProcessing, standalone}
    /\ ~keepProcessing => /\ UNCHANGED <<general, param>>
                          /\ event'.type \notin {"entity", "unparsed", "attlist"}

\* An entry of the tables for the external subset.
LEMMA SubsetWhole ==
  ASSUME TablesInv, number' = number + 1
  PROVE  Subset0 \in Whole
<1>1. Fresh \in Whole
  BY Pieces DEF TablesInv
<1>2. param["#"] \in {Absent} \cup Whole
  BY DEF TablesInv
<1>3. Absent.declared = FALSE
  BY DEF Absent
<1> QED  BY <1>1, <1>2, <1>3 DEF Subset0

\* The external subset becomes the entity e of the table.
LEMMA SubsetAssigned ==
  ASSUME TablesInv, number' \in Nat, NEW e \in Whole, declEntity' = External0,
         param' = [param EXCEPT !["#"] = e], general' = general
  PROVE  /\ TablesInv'
         /\ \A n \in Entities : /\ Binds(general[n], general'[n])
                                /\ Binds(param[n], param'[n])
<1>1. Declared' = e
  BY DEF Declared, External0, TablesInv
<1>2. TablesInv'
  BY <1>1 DEF TablesInv, External0
<1>3. \A n \in Entities : param'[n] = param[n]
  BY EntitiesAssumption DEF TablesInv
<1> QED  BY <1>2, <1>3, Same

\* The tables are left alone.
LEMMA TablesKept ==
  ASSUME TablesInv, number' \in Nat, UNCHANGED <<general, param, declEntity>>
  PROVE  /\ TablesInv' /\ Declared' = Declared
         /\ \A n \in Entities : /\ Binds(general[n], general'[n])
                                /\ Binds(param[n], param'[n])
<1>1. Declared' = Declared
  BY DEF Declared
<1>2. TablesInv'
  BY <1>1 DEF TablesInv
<1> QED  BY <1>1, <1>2, Same

\* What other parsers have declared is whole.
LEMMA ForeignWhole == ASSUME NEW half \in BOOLEAN PROVE Foreign(half) \subseteq Whole
<1>1. NULL \in Seq(Nat) /\ <<0>> \in Seq(Nat)
  BY DEF NULL
<1>2. Fresh \in Whole
  BY <1>1 DEF Whole, Fresh
<1>3. [Fresh EXCEPT !.text = <<0>>] \in Whole
  BY <1>1, <1>2 DEF Whole
<1>4. [Fresh EXCEPT !.systemId = <<0>>] \in Whole
  BY <1>1, <1>2 DEF Whole
<1> QED  BY <1>2, <1>3, <1>4 DEF Foreign

\* They add to a table what was not in it.
Added(table, names, known, half, new) ==
    /\ new \in [names -> {Absent} \cup Whole]
    /\ \A n \in names :
          /\ Binds(table[n], new[n])
          /\ \/ new[n] = table[n]
             \/ /\ ~table[n].declared /\ n \in known
                /\ new[n] \in {Absent} \cup Foreign(half)

LEMMA Adding ==
  ASSUME NEW names, NEW known, known \subseteq Shared, NEW half \in BOOLEAN,
         NEW table \in [names -> {Absent} \cup Whole],
         NEW found \in [Shared -> {Absent} \cup Foreign(half)]
  PROVE  Added(table, names, known, half, AddedTo(table, known, found))
<1> DEFINE new == AddedTo(table, known, found)
<1>1. new = [n \in names |-> IF n \in known /\ ~table[n].declared THEN found[n]
                                                                 ELSE table[n]]
  BY DEF AddedTo
<1> HIDE DEF new
<1>2. ASSUME NEW n \in names
      PROVE  /\ new[n] \in {Absent} \cup Whole
             /\ Binds(table[n], new[n])
             /\ \/ new[n] = table[n]
                \/ /\ ~table[n].declared /\ n \in known
                   /\ new[n] \in {Absent} \cup Foreign(half)
  <2>1. CASE n \in known /\ ~table[n].declared
    <3>1. new[n] = found[n] /\ found[n] \in {Absent} \cup Foreign(half)
      BY <1>1, <2>1
    <3>2. Binds(table[n], new[n])
      BY <2>1 DEF Binds
    <3> QED  BY <2>1, <3>1, <3>2, ForeignWhole
  <2>2. CASE ~(n \in known /\ ~table[n].declared)
    <3>1. new[n] = table[n]
      BY <1>1, <2>2
    <3> QED  BY <3>1, Same
  <2> QED  BY <2>1, <2>2
<1>3. new \in [names -> {Absent} \cup Whole]
  BY <1>1, <1>2
<1> QED  BY <1>2, <1>3 DEF new, Added

\* What a parser finds in its table of parameter entities when another one may
\* have worked: its own entities, and of those not yet declared what that one
\* has made of them.
FoundWhole ==
    \A n \in Entities \cup {"#"} :
        \/ param'[n] = param[n]
        \/ /\ ~param[n].declared /\ n \in Entities /\ keepProcessing
           /\ param'[n] \in {Absent} \cup Foreign(~keepProcessing')

LEMMA MayReadKeeps ==
  ASSUME TablesInv, number' \in Nat, keepProcessing \in BOOLEAN,
         standalone \in BOOLEAN, MayRead
  PROVE  /\ TablesInv' /\ UNCHANGED declEntity
         /\ declEntity # NoEntity => Declared' = Declared
         /\ \A n \in Entities : /\ Binds(general[n], general'[n])
                                /\ Binds(param[n], param'[n])
         /\ ~keepProcessing => UNCHANGED <<general, param>>
         /\ keepProcessing' \in {keepProcessing, standalone}
         /\ FoundWhole
<1>1. CASE UNCHANGED <<general, param, declEntity>>
  BY <1>1, TablesKept DEF MayRead, ReadElsewhere, KeepTables, FoundWhole
<1>2. CASE /\ keepProcessing /\ keepProcessing' \in {keepProcessing, standalone}
           /\ UNCHANGED declEntity /\ Finds(~keepProcessing')
  <2> DEFINE half == ~keepProcessing'
  <2>1. half \in BOOLEAN
    OBVIOUS
  <2>2. Finds(half)
    BY <1>2
  <2> HIDE DEF half
  <2>9. PICK g, p \in [Shared -> {Absent} \cup Foreign(half)] :
               /\ general' = AddedTo(general, Shared \ Predefined, g)
               /\ param' = AddedTo(param, Shared, p)
    BY <2>2 DEF Finds
  <2>10. Added(general, Entities, Shared \ Predefined, half, general')
    <3>1. Shared \ Predefined \subseteq Shared
      OBVIOUS
    <3>2. general \in [Entities -> {Absent} \cup Whole]
      BY DEF TablesInv
    <3>3. Added(general, Entities, Shared \ Predefined, half,
                AddedTo(general, Shared \ Predefined, g))
      BY <2>1, <3>1, <3>2, Adding
    <3> QED  BY <2>9, <3>3
  <2>11. Added(param, Entities \cup {"#"}, Shared, half, param')
    <3>1. param \in [Entities \cup {"#"} -> {Absent} \cup Whole]
      BY DEF TablesInv
    <3>2. Shared \subseteq Shared
      OBVIOUS
    <3>3. Added(param, Entities \cup {"#"}, Shared, half, AddedTo(param, Shared, p))
      BY <2>1, <3>1, <3>2, Adding
    <3> QED  BY <2>9, <3>3
  <2>3. /\ general' \in [Entities -> {Absent} \cup Whole]
        /\ \A n \in Entities : /\ Binds(general[n], general'[n])
                               /\ general'[n] = general[n] \/ ~general[n].declared
    BY <2>10 DEF Added
  <2>4. /\ param' \in [Entities \cup {"#"} -> {Absent} \cup Whole]
        /\ \A n \in Entities \cup {"#"} :
               /\ Binds(param[n], param'[n])
               /\ \/ param'[n] = param[n]
                  \/ /\ ~param[n].declared /\ n \in Shared
                     /\ param'[n] \in {Absent} \cup Foreign(half)
    BY <2>11 DEF Added
  <2>5. declEntity # NoEntity => Declared' = Declared
    <3> HAVE declEntity # NoEntity
    <3>1. Declared.declared
      BY DEF TablesInv, Whole
    <3>2. CASE \E n \in Entities : declEntity = [table |-> "general", name |-> n]
      BY <1>2, <2>3, <3>1, <3>2 DEF Declared
    <3>3. CASE \E n \in Entities \cup {"#"} : declEntity = [table |-> "param", name |-> n]
      BY <1>2, <2>4, <3>1, <3>3 DEF Declared
    <3> QED  BY <3>2, <3>3 DEF TablesInv
  <2>6. TablesInv'
    BY <1>2, <2>3, <2>4, <2>5 DEF TablesInv
  <2>7. FoundWhole
    BY <1>2, <2>4, EntitiesAssumption DEF FoundWhole, half
  <2> QED  BY <1>2, <2>3, <2>4, <2>5, <2>6, <2>7
<1> QED  BY <1>1, <1>2 DEF MayRead, KeepTables, ReadElsewhere

\* The identifiers of the DOCTYPE are those of the external subset.
LEMMA DoctypePublicIdKeeps ==
  ASSUME TablesInv, number' = number + 1, keepProcessing = TRUE, DoctypePublicId
  PROVE  EntitiesKept /\ declEntity' = External0
<1>1. This \in Seq(Nat) /\ number' \in Nat /\ Subset0 \in Whole
  BY Pieces, SubsetWhole DEF TablesInv
<1>2. [Subset0 EXCEPT !.publicId = This] \in Whole
  BY <1>1 DEF Whole
<1>3. PICK e \in Whole : param' = [param EXCEPT !["#"] = e]
  BY <1>1, <1>2 DEF DoctypePublicId
<1>4. /\ general' = general /\ declEntity' = External0
      /\ keepProcessing' = keepProcessing
  BY DEF DoctypePublicId
<1> QED  BY <1>1, <1>3, <1>4, SubsetAssigned DEF EntitiesKept

\* The system identifier may find the entry its public one has made.
LEMMA DoctypeSystemIdKeeps ==
  ASSUME TablesInv, number' = number + 1, keepProcessing = TRUE, DoctypeSystemId,
         declEntity \in {NoEntity, External0}
  PROVE  EntitiesKept /\ declEntity' \in {NoEntity, External0}
<1>1. This \in Seq(Nat) /\ NULL \in Seq(Nat) /\ number' \in Nat /\ Subset0 \in Whole
  BY Pieces, SubsetWhole DEF TablesInv
<1>2. general' = general /\ keepProcessing' = keepProcessing
  BY DEF DoctypeSystemId
<1>3. CASE UNCHANGED <<declEntity, param>>
  BY <1>1, <1>2, <1>3, TablesKept DEF EntitiesKept
<1>4. CASE declEntity' = External0 /\ ~UNCHANGED <<declEntity, param>>
  <2> DEFINE made == IF declEntity = NoEntity
                     THEN [Subset0 EXCEPT !.publicId = NULL] ELSE param["#"]
  <2>1. made \in Whole
    <3>1. CASE declEntity = NoEntity
      BY <1>1, <3>1 DEF Whole
    <3>2. CASE declEntity # NoEntity
      BY <3>2 DEF TablesInv, Declared, External0
    <3> QED  BY <3>1, <3>2
  <2>2. param' = [param EXCEPT !["#"] = [made EXCEPT !.systemId = This]]
    BY <1>4 DEF DoctypeSystemId
  <2> HIDE DEF made
  <2>3. [made EXCEPT !.systemId = This] \in Whole
    BY <1>1, <2>1 DEF Whole
  <2> QED  BY <1>1, <1>2, <1>4, <2>2, <2>3, SubsetAssigned DEF EntitiesKept
<1> QED  BY <1>3, <1>4 DEF DoctypeSystemId

\* A value comes to an entity without text and without system identifier.
LEMMA EntityValueKeeps ==
  ASSUME TablesInv, number' = number + 1, keepProcessing \in BOOLEAN, EntityValue,
         declEntity # NoEntity => Declared.text = NULL /\ Declared.systemId = NULL
  PROVE  /\ EntitiesKept /\ declEntity' = declEntity
         /\ declEntity # NoEntity => Declared'.systemId = NULL
<1>1. This \in Seq(Nat) /\ number' \in Nat
  BY Pieces DEF TablesInv
<1>2. CASE ~keepProcessing
  <2>1. /\ UNCHANGED <<general, param, declEntity, keepProcessing>>
        /\ event'.type = "none"
    BY <1>2 DEF EntityValue, KeepTables, Goes, Silence
  <2> QED  BY <1>1, <2>1, TablesKept DEF EntitiesKept
<1>3. CASE keepProcessing /\ declEntity = NoEntity
  <2>1. /\ UNCHANGED <<general, param, declEntity>>
        /\ keepProcessing' \in {keepProcessing, standalone}
    BY <1>3 DEF EntityValue, KeepTables
  <2> QED  BY <1>1, <1>3, <2>1, TablesKept DEF EntitiesKept
<1>4. CASE keepProcessing /\ declEntity # NoEntity
  <2> DEFINE e == [Declared EXCEPT !.text = This]
  <2>1. Assign(e) /\ keepProcessing' \in {keepProcessing, standalone}
    BY <1>4 DEF EntityValue
  <2>2. Declared \in Whole
    BY <1>4 DEF TablesInv
  <2>3. e \in Whole /\ e.systemId = NULL /\ Binds(Declared, e)
    BY <1>1, <1>4, <2>2 DEF Whole, Binds
  <2> HIDE DEF e
  <2> QED  BY <1>1, <1>4, <2>1, <2>3, Assigning DEF EntitiesKept
<1> QED  BY <1>2, <1>3, <1>4

\* A public identifier is followed by a system one.
LEMMA EntityPublicIdKeeps ==
  ASSUME TablesInv, number' = number + 1, keepProcessing \in BOOLEAN, EntityPublicId,
         declEntity # NoEntity => Declared.text = NULL /\ Declared.systemId = NULL
  PROVE  /\ EntitiesKept /\ declEntity' = declEntity
         /\ declEntity # NoEntity =>
               Declared'.text = NULL /\ Declared'.systemId = NULL
<1>1. This \in Seq(Nat) /\ number' \in Nat
  BY Pieces DEF TablesInv
<1>2. keepProcessing' = keepProcessing /\ event'.type = "none"
  BY DEF EntityPublicId, KeepDtd, Goes, Stops, Silence
<1>3. CASE UNCHANGED <<general, param, declEntity>>
  BY <1>1, <1>2, <1>3, TablesKept DEF EntitiesKept
<1>4. CASE Recording /\ Assign([Declared EXCEPT !.publicId = This])
  <2> DEFINE e == [Declared EXCEPT !.publicId = This]
  <2>1. Declared \in Whole /\ declEntity # NoEntity /\ keepProcessing
    BY <1>4 DEF TablesInv, Recording
  <2>2. e \in Whole /\ e.text = NULL /\ e.systemId = NULL /\ Binds(Declared, e)
    BY <1>1, <2>1 DEF Whole, Binds
  <2>3. Assign(e)
    BY <1>4
  <2> HIDE DEF e
  <2> QED  BY <1>1, <1>2, <2>1, <2>2, <2>3, Assigning DEF EntitiesKept
<1> QED  BY <1>3, <1>4 DEF EntityPublicId, KeepTables

\* A system identifier leaves the entity without text.
LEMMA EntitySystemIdKeeps ==
  ASSUME TablesInv, number' = number + 1, keepProcessing \in BOOLEAN, EntitySystemId,
         declEntity # NoEntity => Declared.text = NULL /\ Declared.systemId = NULL
  PROVE  /\ EntitiesKept /\ declEntity' = declEntity
         /\ declEntity # NoEntity => Declared'.text = NULL
<1>1. This \in Seq(Nat) /\ number' \in Nat
  BY Pieces DEF TablesInv
<1>2. keepProcessing' = keepProcessing /\ event'.type = "none"
  BY DEF EntitySystemId, KeepDtd, Goes, Silence
<1>3. CASE UNCHANGED <<general, param, declEntity>>
  BY <1>1, <1>2, <1>3, TablesKept DEF EntitiesKept
<1>4. CASE Recording /\ Assign([Declared EXCEPT !.systemId = This])
  <2> DEFINE e == [Declared EXCEPT !.systemId = This]
  <2>1. Declared \in Whole /\ declEntity # NoEntity /\ keepProcessing
    BY <1>4 DEF TablesInv, Recording
  <2>2. e \in Whole /\ e.text = NULL /\ Binds(Declared, e)
    BY <1>1, <2>1 DEF Whole, Binds
  <2>3. Assign(e)
    BY <1>4
  <2> HIDE DEF e
  <2> QED  BY <1>1, <1>2, <2>1, <2>2, <2>3, Assigning DEF EntitiesKept
<1> QED  BY <1>3, <1>4 DEF EntitySystemId, KeepTables

\* A notation comes last, and changes neither text nor identifiers.
LEMMA EntityNotationNameKeeps ==
  ASSUME TablesInv, number' = number + 1, keepProcessing \in BOOLEAN,
         EntityNotationName, declEntity # NoEntity => Declared.text = NULL
  PROVE  /\ EntitiesKept /\ declEntity' = declEntity
         /\ declEntity # NoEntity => Declared'.text = NULL
<1>1. This \in Seq(Nat) /\ number' \in Nat
  BY Pieces DEF TablesInv
<1>2. keepProcessing' = keepProcessing
  BY DEF EntityNotationName, KeepDtd
<1>3. CASE ~Recording
  <2>1. UNCHANGED <<general, param, declEntity>> /\ event'.type = "none"
    BY <1>3 DEF EntityNotationName, KeepTables, Goes, Silence
  <2> QED  BY <1>1, <1>2, <2>1, TablesKept DEF EntitiesKept
<1>4. CASE Recording
  <2> DEFINE e == [Declared EXCEPT !.notation = This]
  <2>1. Declared \in Whole /\ declEntity # NoEntity /\ keepProcessing
    BY <1>4 DEF TablesInv, Recording
  <2>2. e \in Whole /\ e.text = NULL /\ Binds(Declared, e)
    BY <1>1, <2>1 DEF Whole, Binds
  <2>3. Assign(e)
    BY <1>4 DEF EntityNotationName
  <2> HIDE DEF e
  <2> QED  BY <1>1, <1>2, <2>1, <2>2, <2>3, Assigning DEF EntitiesKept
<1> QED  BY <1>3, <1>4

-----------------------------------------------------------------------------
(* Every round of doProlog *)

\* What is known of the entity being declared before each of its parts.
LEMMA PartsUntold ==
  ASSUME DeclEntityInv, D!Next, role' \in D!EntityParts \ D!Names
  PROVE  /\ declEntity # NoEntity => Declared.text = NULL
         /\ role' # "ENTITY_NOTATION_NAME" =>
               (declEntity # NoEntity => Declared.systemId = NULL)
         /\ "ENTITY_VALUE" \notin told
         /\ role' # "ENTITY_NOTATION_NAME" => "ENTITY_SYSTEM_ID" \notin told
<1>1. Place = "entity" /\ told \cap D!Names # {}
  BY EntityPart, EntityTime DEF D!EntityParts, D!Names
<1>2. "ENTITY_VALUE" \notin told
  <2>1. CASE role' = "ENTITY_NOTATION_NAME"
    BY <1>1, <2>1, EntityTime DEF DeclEntityInv
  <2>2. CASE role' # "ENTITY_NOTATION_NAME"
    BY <2>2, EntityTime DEF D!EntityParts, D!Names
  <2> QED  BY <2>1, <2>2
<1>3. role' # "ENTITY_NOTATION_NAME" => "ENTITY_SYSTEM_ID" \notin told
  BY EntityTime DEF D!EntityParts, D!Names
<1> QED  BY <1>1, <1>2, <1>3 DEF DeclEntityInv

\* A case of doProlog keeps the tables, and what is known of declEntity; only
\* an entity value and a reference can end the processing.
LEMMA HandleStep ==
  ASSUME TablesInv, ProcessingInv, DeclEntityInv, number' = number + 1,
         D!Next, Handle, setup.followed, setup' = setup
  PROVE  /\ EntitiesKept /\ DeclEntityInv'
         /\ role' \notin Asking \cup {"ENTITY_VALUE"} =>
               keepProcessing' = keepProcessing
<1> USE DEF Asking, References
<1>1. /\ number' \in Nat /\ keepProcessing \in BOOLEAN
      /\ standalone \in BOOLEAN
  BY DEF TablesInv, ProcessingInv
<1>2. CASE role' \notin Writing
  <2>1. /\ EntitiesKept /\ UNCHANGED declEntity
        /\ declEntity # NoEntity => Declared' = Declared
        /\ role' \notin Asking => keepProcessing' = keepProcessing
    <3>1. CASE role' \notin Asking
      <4>1. /\ UNCHANGED <<general, param, declEntity, keepProcessing>>
            /\ ~keepProcessing =>
                  event'.type \notin {"entity", "unparsed", "attlist"}
        BY <1>2, <3>1, QuietRoles, QuietCases
      <4> QED  BY <1>1, <3>1, <4>1, TablesKept DEF EntitiesKept
    <3>2. CASE role' \in Asking
      BY <1>1, <3>2, AskingCases, MayReadKeeps DEF EntitiesKept
    <3> QED  BY <3>1, <3>2
  <2>2. role' \notin D!EntityParts
    BY <1>2 DEF Writing, D!EntityParts, D!Names
  <2>3. DeclEntityInv'
    BY <2>1, <2>2, NeverBack, EntityGoesOn DEF DeclEntityInv
  <2> QED  BY <2>1, <2>3
<1>3. CASE role' \in {"DOCTYPE_PUBLIC_ID", "DOCTYPE_SYSTEM_ID"}
  <2>1. Place = "doctype" /\ Place' = "doctype"
    BY <1>3, DoctypeTime
  <2>2. keepProcessing = TRUE /\ declEntity \in {NoEntity, External0}
    BY <2>1 DEF ProcessingInv, DeclEntityInv, Early
  <2>3. EntitiesKept /\ declEntity' \in {NoEntity, External0}
    BY <1>3, <2>2, WritingRoles, DoctypePublicIdKeeps, DoctypeSystemIdKeeps
  <2>4. keepProcessing' = keepProcessing
    BY <1>3, WritingRoles DEF DoctypePublicId, DoctypeSystemId
  <2> QED  BY <2>1, <2>3, <2>4 DEF DeclEntityInv
<1>4. CASE role' \in D!Names
  <2>1. /\ Place' = "entity" /\ told' = {role'}
    BY <1>4, EntityPart, EntityTime DEF D!EntityParts
  <2>2. PICK n \in Entities, table \in {"general", "param"} : EntityName(table, n)
    BY <1>4, WritingRoles DEF D!Names
  <2>3. /\ TablesInv'
        /\ declEntity' # NoEntity =>
              (Declared.text = NULL /\ Declared.systemId = NULL)'
        /\ \A m \in Entities : /\ Binds(general[m], general'[m])
                               /\ Binds(param[m], param'[m])
        /\ UNCHANGED keepProcessing /\ event'.type = "none"
        /\ ~keepProcessing => UNCHANGED <<general, param>>
    BY <2>2, Naming
  <2>4. EntitiesKept
    BY <2>3 DEF EntitiesKept
  <2>5. DeclEntityInv'
    BY <1>4, <2>1, <2>3 DEF DeclEntityInv, D!Names, Early, NULL
  <2> QED  BY <2>3, <2>4, <2>5
<1>5. CASE role' \in D!EntityParts \ D!Names
  <2>1. Place' = "entity" /\ told' = told \cup {role'}
    BY <1>5, EntityPart
  <2>2. /\ declEntity # NoEntity => Declared.text = NULL
        /\ role' # "ENTITY_NOTATION_NAME" =>
              (declEntity # NoEntity => Declared.systemId = NULL)
        /\ "ENTITY_VALUE" \notin told
        /\ role' # "ENTITY_NOTATION_NAME" => "ENTITY_SYSTEM_ID" \notin told
    BY <1>5, PartsUntold
  <2>3. CASE role' = "ENTITY_VALUE"
    <3>1. /\ EntitiesKept /\ declEntity' = declEntity
          /\ declEntity # NoEntity => Declared'.systemId = NULL
      BY <1>1, <2>2, <2>3, WritingRoles, EntityValueKeeps
    <3>2. DeclEntityInv'
      BY <2>1, <2>2, <2>3, <3>1 DEF DeclEntityInv, Early
    <3> QED  BY <2>3, <3>1, <3>2
  <2>4. CASE role' = "ENTITY_PUBLIC_ID"
    <3>1. /\ EntitiesKept /\ declEntity' = declEntity
          /\ declEntity # NoEntity =>
                Declared'.text = NULL /\ Declared'.systemId = NULL
      BY <1>1, <2>2, <2>4, WritingRoles, EntityPublicIdKeeps
    <3>2. DeclEntityInv'
      BY <2>1, <2>2, <2>4, <3>1 DEF DeclEntityInv, Early
    <3>3. keepProcessing' = keepProcessing
      BY <2>4, WritingRoles DEF EntityPublicId, KeepDtd
    <3> QED  BY <3>1, <3>2, <3>3
  <2>5. CASE role' = "ENTITY_SYSTEM_ID"
    <3>1. /\ EntitiesKept /\ declEntity' = declEntity
          /\ declEntity # NoEntity => Declared'.text = NULL
      BY <1>1, <2>2, <2>5, WritingRoles, EntitySystemIdKeeps
    <3>2. DeclEntityInv'
      BY <2>1, <2>2, <2>5, <3>1 DEF DeclEntityInv, Early
    <3>3. keepProcessing' = keepProcessing
      BY <2>5, WritingRoles DEF EntitySystemId, KeepDtd
    <3> QED  BY <3>1, <3>2, <3>3
  <2>6. CASE role' = "ENTITY_NOTATION_NAME"
    <3>1. /\ EntitiesKept /\ declEntity' = declEntity
          /\ declEntity # NoEntity => Declared'.text = NULL
      BY <1>1, <2>2, <2>6, WritingRoles, EntityNotationNameKeeps
    <3>2. "ENTITY_SYSTEM_ID" \in told
      BY <1>5, <2>6, EntityTime
    <3>3. DeclEntityInv'
      BY <2>1, <2>2, <2>6, <3>1, <3>2 DEF DeclEntityInv, Early
    <3>4. keepProcessing' = keepProcessing
      BY <2>6, WritingRoles DEF EntityNotationName, KeepDtd
    <3> QED  BY <3>1, <3>3, <3>4
  <2> QED  BY <1>5, <2>3, <2>4, <2>5, <2>6 DEF D!EntityParts
<1> QED  BY <1>2, <1>3, <1>4, <1>5 DEF Writing, D!EntityParts, D!Names

\* Nothing but a skipped reference ends the processing, and there is none
\* before the subset.
LEMMA ProcessingStep ==
  ASSUME ProcessingInv, D!Next, Aside, setup' = setup, standalone' = standalone,
         setup.followed, documentEntity \in BOOLEAN,
         keepProcessing' \in {keepProcessing, standalone},
         role' \notin Asking \cup {"ENTITY_VALUE"} =>
               keepProcessing' = keepProcessing
  PROVE  ProcessingInv'
<1>1. Place' \in Early =>
         Place \in Early /\ role' \notin Asking \cup {"ENTITY_VALUE"}
  <2> HAVE Place' \in Early
  <2>1. documentEntity
    BY DEF Aside, Early
  <2>2. role' # "INNER_PARAM_ENTITY_REF"
    BY <2>1 DEF Aside
  <2> QED  BY <2>2, NeverBack DEF Asking, References
<1> QED  BY <1>1 DEF ProcessingInv

-----------------------------------------------------------------------------
(* Element declarations *)

\* Which case of the content models a role leads to.
LEMMA RecordCases ==
  ASSUME NEW t, Records(t)
  PROVE  /\ role' = "ELEMENT_NAME" => ElementName
         /\ role' \in {"CONTENT_ANY", "CONTENT_EMPTY"} => WholeContent
         /\ role' = "CONTENT_PCDATA" => Pcdata
         /\ role' = "GROUP_OPEN" => GroupOpen
         /\ role' = "GROUP_SEQUENCE" => GroupSequence
         /\ role' = "GROUP_CHOICE" => GroupChoice
         /\ role' \in D!Children => ElementContent(ChildQuant[role'])
         /\ role' \in D!Closes => CloseGroups(CloseQuant[role'])
         /\ role' = "ERROR" => BadRole
         /\ role' \notin D!ElementParts \cup {"ERROR"} => OtherRoles
<1>1. DOMAIN ChildQuant = D!Children /\ DOMAIN CloseQuant = D!Closes
  BY DEF ChildQuant, CloseQuant, D!Children, D!Closes
<1> HIDE DEF ChildQuant, CloseQuant
<1>2. role' = "ELEMENT_NAME" => ElementName
  BY <1>1 DEF Records, D!Children, D!Closes
<1>3. role' \in {"CONTENT_ANY", "CONTENT_EMPTY"} => WholeContent
  BY <1>1 DEF Records, D!Children, D!Closes
<1>4. role' = "CONTENT_PCDATA" => Pcdata
  BY <1>1 DEF Records, D!Children, D!Closes
<1>5. role' = "GROUP_OPEN" => GroupOpen
  BY <1>1 DEF Records, D!Children, D!Closes
<1>6. role' = "GROUP_SEQUENCE" => GroupSequence
  BY <1>1 DEF Records, D!Children, D!Closes
<1>7. role' = "GROUP_CHOICE" => GroupChoice
  BY <1>1 DEF Records, D!Children, D!Closes
<1>8. role' \in D!Children => ElementContent(ChildQuant[role'])
  BY <1>1 DEF Records, D!Children, D!Closes
<1>9. role' \in D!Closes => CloseGroups(CloseQuant[role'])
  BY <1>1 DEF Records, D!Children, D!Closes
<1>10. role' = "ERROR" => BadRole
  BY <1>1 DEF Records, D!Children, D!Closes
<1>11. role' \notin D!ElementParts \cup {"ERROR"} => OtherRoles
  BY <1>1 DEF Records, D!ElementParts
<1> QED  BY <1>2, <1>3, <1>4, <1>5, <1>6, <1>7, <1>8, <1>9, <1>10, <1>11

\* The groups open are a number, and there is none before the name.
LEMMA Depths ==
  ASSUME RoleInv
  PROVE  Depth \in Nat /\ (told = {} => Depth = 0)
BY DEF RoleInv, Depth, ElementTold

\* A round keeps what is recorded of an element declaration in step with the
\* machine, or ends the recording.
LEMMA ElementStep ==
  ASSUME RoleInv, ElementInv, D!Next, NEW t, Records(t) \/ RecordedElsewhere(t),
         ~failed, setup.followed, setup' = setup
  PROVE  ElementInv'
<1>0. CASE RecordedElsewhere(t)
  BY <1>0 DEF RecordedElsewhere, ElementInv
<1> SUFFICES ASSUME Records(t) PROVE ElementInv'
  BY <1>0
<1>1. Depth \in Nat /\ (told = {} => Depth = 0) /\ in_eldecl \in BOOLEAN
  BY Depths DEF ElementInv
<1>2. CASE role' = "ELEMENT_NAME"
  <2>1. /\ Place' = "element" /\ told = {} /\ told' = {"ELEMENT_NAME"} /\ Depth' = 0
    BY <1>1, <1>2, ElementTime DEF D!ElementParts
  <2>2. ~in_eldecl
    BY <2>1 DEF ElementInv
  <2>3. /\ failed' = FALSE /\ in_eldecl' \in BOOLEAN
        /\ in_eldecl' => scaffLevel' = 0
    BY <1>2, <2>2, RecordCases DEF ElementName, ElementInv
  <2> QED  BY <2>1, <2>3 DEF ElementInv, RecordingFits
<1>3. CASE role' \in {"CONTENT_ANY", "CONTENT_EMPTY"}
  BY <1>3, RecordCases DEF WholeContent, ElementInv
<1>4. CASE role' = "ERROR"
  BY <1>4, RecordCases DEF BadRole, ElementInv
<1>5. CASE role' \in D!ElementParts \ {"ELEMENT_NAME", "CONTENT_ANY", "CONTENT_EMPTY"}
  <2>1. CASE role' = "CONTENT_PCDATA"
    <3>1. UNCHANGED <<in_eldecl, failed, scaffLevel>>
      BY <2>1, RecordCases DEF Pcdata, Quiet
    <3>2. /\ Place' = "element" /\ told = {"ELEMENT_NAME", "GROUP_OPEN"}
          /\ told' = told \cup {"CONTENT_PCDATA"} /\ Depth' = Depth
      BY <1>5, <2>1, ElementTime
    <3> QED  BY <3>1, <3>2 DEF ElementInv, RecordingFits
  <2>2. CASE role' = "GROUP_OPEN"
    <3>1. /\ UNCHANGED <<in_eldecl, failed>>
          /\ in_eldecl => scaffLevel' = scaffLevel + 1
      BY <2>2, RecordCases DEF GroupOpen, Quiet
    <3>2. /\ Place' = "element" /\ told' = told \cup {"GROUP_OPEN"}
          /\ Depth' = Depth + 1
      BY <1>5, <2>2, ElementTime
    <3> QED  BY <1>1, <3>1, <3>2 DEF ElementInv, RecordingFits
  <2>3. CASE role' \in D!Children \cup {"GROUP_CHOICE", "GROUP_SEQUENCE"}
    <3>1. /\ UNCHANGED <<in_eldecl, scaffLevel>> /\ failed' \in BOOLEAN
      <4>1. role' \in D!Children => UNCHANGED <<in_eldecl, scaffLevel, failed>>
        BY RecordCases DEF ElementContent, Quiet
      <4>2. role' = "GROUP_SEQUENCE" =>
                UNCHANGED <<in_eldecl, scaffLevel>> /\ failed' \in {TRUE, failed}
        BY RecordCases DEF GroupSequence, NoScaffold
      <4>3. role' = "GROUP_CHOICE" =>
                UNCHANGED <<in_eldecl, scaffLevel>> /\ failed' \in {TRUE, failed}
        BY RecordCases DEF GroupChoice
      <4> QED  BY <2>3, <4>1, <4>2, <4>3 DEF ElementInv
    <3>2. Place' = "element" /\ told' = told /\ Depth' = Depth
      BY <1>5, <2>3, ElementTime
    <3> QED  BY <3>1, <3>2 DEF ElementInv, RecordingFits
  <2>4. CASE role' \in D!Closes
    <3>1. /\ failed' = failed
          /\ in_eldecl' \in BOOLEAN
          /\ in_eldecl' => /\ in_eldecl /\ scaffLevel' = scaffLevel - 1
                           /\ scaffLevel # 1
      BY <1>1, <2>4, RecordCases DEF CloseGroups
    <3>2. Place' = "element" /\ told' = told /\ Depth' = Depth - 1 /\ Depth > 0
      BY <1>5, <2>4, ElementTime
    <3> QED  BY <1>1, <3>1, <3>2 DEF ElementInv, RecordingFits
  <2> QED  BY <1>5, <2>1, <2>2, <2>3, <2>4 DEF D!ElementParts
<1>6. CASE role' \notin D!ElementParts \cup {"ERROR"}
  <2>1. UNCHANGED <<in_eldecl, failed, scaffLevel>>
    BY <1>6, RecordCases DEF OtherRoles, Quiet, NoScaffold
  <2>2. in_eldecl => UNCHANGED <<Place, Depth, told>>
    BY <1>1, <1>6, ElementGoesOn DEF ElementInv, RecordingFits
  <2> QED  BY <2>1, <2>2 DEF ElementInv, RecordingFits
<1> QED  BY <1>2, <1>3, <1>4, <1>5, <1>6

-----------------------------------------------------------------------------
(* What a step of the machine is *)

\* A declaration begins.
Opening ==
    Place \in {"begin", "subset"} /\ Place' \in D!Kinds /\ told' = {} /\ role' \in Nones

\* A part of it is told.
PartTold ==
    /\ \/ Place = "entity" /\ role' \in D!EntityParts
       \/ Place = "notation" /\ role' \in D!NotationParts
       \/ Place = "attlist" /\ role' \in D!AttlistParts
       \/ Place = "element" /\ role' \in D!ElementParts
    /\ Place' = Place /\ D!MayTell(role') /\ told' = D!Recalled(told, role')

\* White space, or a reference in a declaration.
Waited ==
    /\ Place \in D!Kinds /\ Place' = Place /\ told' = told
    /\ role' \in Nones \cup {"INNER_PARAM_ENTITY_REF"}

\* A declaration ends.
Ended ==
    /\ Place' = "subset" /\ told' = {}
    /\ \/ Place \in D!Kinds /\ role' \in Nones /\ D!Complete
       \/ /\ Place = "entity" /\ role' = "ENTITY_COMPLETE"
          /\ "ENTITY_SYSTEM_ID" \in told /\ "ENTITY_NOTATION_NAME" \notin told
       \/ /\ Place = "notation" /\ role' = "NOTATION_NO_SYSTEM_ID"
          /\ told = {"NOTATION_NAME", "NOTATION_PUBLIC_ID"}

\* None is open.
Elsewhere ==
    /\ Place \notin D!Kinds /\ Place' \notin D!Kinds /\ told' = {}
    /\ role' \in {"NONE", "PI", "COMMENT", "DOCTYPE_NONE", "DOCTYPE_NAME",
                  "DOCTYPE_PUBLIC_ID", "DOCTYPE_SYSTEM_ID",
                  "DOCTYPE_INTERNAL_SUBSET", "DOCTYPE_CLOSE", "XML_DECL",
                  "TEXT_DECL", "IGNORE_SECT", "PARAM_ENTITY_REF",
                  "INNER_PARAM_ENTITY_REF", "INSTANCE_START"}

Moving == Opening \/ PartTold \/ Waited \/ Ended \/ Elsewhere

\* A token that is no error does one of these.
LEMMA Movement ==
  ASSUME D!Next, RoleInv, role' # "ERROR"
  PROVE  Moving
<1>1. Place \notin D!Kinds => told = {}
  BY DEF RoleInv, Handlers, Place, D!Kinds, DocumentHandlers, ExternalHandlers,
         EntityHandlers, NotationHandlers, AttlistHandlers, ElementHandlers,
         DeclCloseTold, NoneRoles
<1>2. CASE D!Between \/ D!FirstDeclaration \/ D!Doctype
  <2>1. Elsewhere
    BY <1>2
       DEF D!Between, D!FirstDeclaration, D!Doctype, D!Moves, Elsewhere, D!Kinds
  <2> QED  BY <2>1 DEF Moving
<1>3. CASE D!Sections
  BY <1>3 DEF D!Sections, D!Moves, Moving, Elsewhere, D!Kinds
<1>4. ASSUME NEW kind \in D!Kinds, D!Begin(kind)
      PROVE  Moving
  BY <1>4 DEF D!Begin, D!Moves, D!None, D!Kinds, Moving, Opening, Nones
<1>5. ASSUME NEW kind \in D!Kinds, NEW r \in D!Parts(kind), D!Tell(kind, r)
      PROVE  Moving
  <2>1. role' = r /\ Place = kind /\ D!MayTell(role') /\ told' = D!Recalled(told, role')
        /\ Place' = Place
    BY <1>5 DEF D!Tell
  <2>2. \/ Place = "entity" /\ role' \in D!EntityParts
        \/ Place = "notation" /\ role' \in D!NotationParts
        \/ Place = "attlist" /\ role' \in D!AttlistParts
        \/ Place = "element" /\ role' \in D!ElementParts
    BY <1>5, <2>1 DEF D!Kinds, D!Parts
  <2> QED  BY <2>1, <2>2 DEF Moving, PartTold
<1>6. ASSUME NEW kind \in D!Kinds, D!End(kind)
      PROVE  Moving
  <2>1. CASE Place = kind /\ D!Complete /\ D!Moves({kind}, "subset", D!None(kind))
    BY <2>1 DEF D!Moves, D!None, D!Kinds, Moving, Ended, Nones
  <2>2. CASE /\ kind = "entity" /\ D!Has({"ENTITY_SYSTEM_ID"})
             /\ ~D!Has({"ENTITY_NOTATION_NAME"})
             /\ D!Moves({"entity"}, "subset", "ENTITY_COMPLETE")
    BY <2>2 DEF D!Moves, D!Has, Moving, Ended
  <2>3. CASE /\ kind = "notation" /\ told = {"NOTATION_NAME", "NOTATION_PUBLIC_ID"}
             /\ D!Moves({"notation"}, "subset", "NOTATION_NO_SYSTEM_ID")
    BY <2>3 DEF D!Moves, Moving, Ended
  <2> QED  BY <1>6, <2>1, <2>2, <2>3 DEF D!End
<1>7. CASE D!Wait
  <2>1. CASE Place \in D!Kinds
    <3>1. Waited
      BY <1>7, <2>1 DEF D!Wait, D!None, D!Kinds, Waited, Nones
    <3> QED  BY <3>1 DEF Moving
  <2>2. CASE Place \notin D!Kinds
    <3>1. Elsewhere
      BY <1>1, <1>7, <2>2 DEF D!Wait, Elsewhere
    <3> QED  BY <3>1 DEF Moving
  <2> QED  BY <2>1, <2>2
<1>8. CASE D!Over
  <2>1. Elsewhere
    BY <1>8 DEF D!Over, D!Moves, Elsewhere, D!Kinds
  <2> QED  BY <2>1 DEF Moving
<1> QED  BY <1>2, <1>3, <1>4, <1>5, <1>6, <1>7, <1>8 DEF D!Next

\* Where the roles are told.
LEMMA Placed ==
  ASSUME Moving
  PROVE  /\ role' \in {"COMMENT", "PI", "PARAM_ENTITY_REF"} => Elsewhere
         /\ role' \in D!NotationParts => PartTold /\ Place = "notation"
         /\ role' \in D!AttlistParts => PartTold /\ Place = "attlist"
         /\ role' = "NOTATION_NO_SYSTEM_ID" =>
               Place = "notation" /\ told = {"NOTATION_NAME", "NOTATION_PUBLIC_ID"}
         /\ role' = "ENTITY_COMPLETE" =>
               /\ Place = "entity" /\ "ENTITY_SYSTEM_ID" \in told
               /\ "ENTITY_NOTATION_NAME" \notin told
<1> USE DEF Moving, Opening, PartTold, Waited, Ended, Elsewhere, Nones,
            D!EntityParts, D!NotationParts, D!AttlistParts, D!ElementParts, D!Names,
            D!Types, D!Values, D!Defaults, D!Children, D!Closes
<1>1. role' \in {"COMMENT", "PI", "PARAM_ENTITY_REF"} => Elsewhere
  OBVIOUS
<1>2. role' \in D!NotationParts => PartTold /\ Place = "notation"
  OBVIOUS
<1>3. role' \in D!AttlistParts => PartTold /\ Place = "attlist"
  OBVIOUS
<1>4. role' = "NOTATION_NO_SYSTEM_ID" =>
         Place = "notation" /\ told = {"NOTATION_NAME", "NOTATION_PUBLIC_ID"}
  OBVIOUS
<1>5. role' = "ENTITY_COMPLETE" =>
         /\ Place = "entity" /\ "ENTITY_SYSTEM_ID" \in told
         /\ "ENTITY_NOTATION_NAME" \notin told
  OBVIOUS
<1> QED  BY <1>1, <1>2, <1>3, <1>4, <1>5

\* The handlers of the prolog and of the DOCTYPE come one after the other.
DoctypeRoles ==
    {"DOCTYPE_NAME", "DOCTYPE_PUBLIC_ID", "DOCTYPE_SYSTEM_ID",
     "DOCTYPE_INTERNAL_SUBSET", "DOCTYPE_CLOSE"}

InTurn ==
    /\ role' = "DOCTYPE_NAME" => handler = "doctype0" /\ handler' = "doctype1"
    /\ role' = "DOCTYPE_PUBLIC_ID" => handler = "doctype2" /\ handler' = "doctype3"
    /\ role' = "DOCTYPE_SYSTEM_ID" => handler = "doctype3" /\ handler' = "doctype4"
    /\ role' = "DOCTYPE_INTERNAL_SUBSET" =>
          handler \in {"doctype1", "doctype4"} /\ handler' = "internalSubset"
    /\ role' = "DOCTYPE_CLOSE" =>
          handler \in {"doctype1", "doctype4", "doctype5"} /\ handler' = "prolog2"
    /\ role' = "ENTITY_COMPLETE" => handler \in {"entity5", "entity10"}
    /\ handler' = "doctype0" => handler \in {"prolog0", "prolog1", "doctype0"}
    /\ handler' = "doctype1" => handler \in {"doctype0", "doctype1"}
    /\ handler' = "doctype2" => handler \in {"doctype1", "doctype2"}
    /\ handler' = "doctype3" => handler \in {"doctype1", "doctype2", "doctype3"}
    /\ handler' = "doctype4" => handler \in {"doctype3", "doctype4"}
    /\ handler' = "doctype1" /\ handler = "doctype0" => role' = "DOCTYPE_NAME"
    /\ handler' = "doctype4" /\ handler = "doctype3" => role' = "DOCTYPE_SYSTEM_ID"
    /\ handler' \in {"prolog0", "prolog1"} => handler \in {"prolog0", "prolog1"}
    /\ handler' \in {"internalSubset", "doctype5"} =>
          /\ handler \notin {"prolog0", "prolog1", "prolog2", "doctype0", "doctype2",
                            "doctype3", "error"}
          /\ handler \in {"doctype1", "doctype4"} => role' = "DOCTYPE_INTERNAL_SUBSET"

\* So says the table of each handler.
LEMMA Turns ==
  ASSUME RoleInv, NEW t \in Tokens, XmlTokenRole(t), role' # "ERROR"
  PROVE  InTurn
<1> USE DEF InTurn
<1>0. CASE Step(common(t))
  BY <1>0, CommonRow DEF To, RoleInv, DocumentHandlers
<1> SUFFICES ASSUME ~Step(common(t)) PROVE InTurn
  BY <1>0
<1>1. PICK r \in Rows : Step(r)
  BY Answer
<1>2. handler \in Handlers
  BY DEF RoleInv
<1>14. CASE handler \in {"externalSubset0", "externalSubset1"}
  BY <1>1, <1>14, ExternalRows DEF ExternalHandlers, To
<1>15. CASE handler \in {"condSect0", "condSect1", "condSect2"}
  BY <1>1, <1>15, ExternalRows DEF ExternalHandlers, To
<1>3. CASE handler \in {"prolog0", "prolog1", "prolog2"}
  BY <1>1, <1>3, DocumentRows DEF DocumentHandlers, To
<1>4. CASE handler \in {"doctype0", "doctype1", "doctype2"}
  BY <1>1, <1>4, DocumentRows DEF DocumentHandlers, To
<1>5. CASE handler \in {"doctype3", "doctype4", "doctype5"}
  BY <1>1, <1>5, DocumentRows DEF DocumentHandlers, To
<1>6. CASE handler = "internalSubset"
  BY <1>1, <1>6, DocumentRows DEF DocumentHandlers, To
<1>7. CASE handler \in EntityHandlers
  BY <1>1, <1>7, EntityRows DEF EntityHandlers, To, setTopLevel
<1>8. CASE handler \in NotationHandlers
  BY <1>1, <1>8, NotationRows DEF NotationHandlers, To, setTopLevel
<1>9. CASE handler \in AttlistHandlers
  BY <1>1, <1>9, AttlistRows DEF AttlistHandlers, To, D!Types, setTopLevel
<1>10. CASE handler \in ElementHandlers
  BY <1>1, <1>10, ElementRows DEF ElementHandlers, To, setTopLevel
<1>11. CASE handler = "declClose"
  BY <1>1, <1>11, CloseRows DEF RoleInv, DeclCloseTold, NoneRoles, To, setTopLevel
<1>12. CASE handler = "error"
  BY <1>1, <1>12, ErrorRows DEF To
<1> QED  BY <1>2, <1>3, <1>4, <1>5, <1>6, <1>7, <1>8, <1>9, <1>10, <1>11, <1>12,
            <1>14, <1>15
       DEF Handlers, DocumentHandlers, ExternalHandlers

-----------------------------------------------------------------------------
(* What is said of a declaration *)

\* The places with no declaration open.
LEMMA Apart ==
  ASSUME RoleInv
  PROVE  Anew <=> Place \in {"start", "begin", "prolog", "misc", "subset", "over"}
<1>1. Anew => Place \in {"start", "begin", "prolog", "misc", "subset", "over"}
  BY DEF Anew, Between, Place
<1>2. Place \in {"start", "begin", "prolog", "misc", "subset", "over"} => Anew
  BY DEF Anew, Between, Place, RoleInv, Handlers, DocumentHandlers, ExternalHandlers,
         EntityHandlers, NotationHandlers, AttlistHandlers, ElementHandlers
<1> QED  BY <1>1, <1>2

\* Texts that are put together.
LEMMA Joined ==
  ASSUME NEW s \in Seq(Nat), NEW t \in Seq(Nat)
  PROVE  /\ s \o t \in Seq(Nat) /\ s \o <<>> = s /\ <<>> \o s = s
         /\ t # <<>> => s \o t # <<>>
<1>1. s \o t \in Seq(Nat) /\ s \o <<>> = s /\ <<>> \o s = s
  OBVIOUS
<1>2. ASSUME t # <<>> PROVE s \o t # <<>>
  <2>1. Len(s \o t) = Len(s) + Len(t) /\ Len(s) \in Nat /\ Len(t) \in Nat
    OBVIOUS
  <2>2. Len(t) # 0
    BY <1>2
  <2>3. Len(s \o t) # 0
    BY <2>1, <2>2
  <2> QED  BY <2>3
<1> QED  BY <1>1, <1>2

\* The text of a part, but for the type of an attribute.
LEMMA SaidOnce ==
  ASSUME said \in [Texts -> Seq(Nat)], number \in Nat, Declares,
         NEW p \in Texts, p # "ATTRIBUTE_TYPE"
  PROVE  /\ role' # p => said'[p] = IF Anew THEN NULL ELSE said[p]
         /\ role' = p /\ (Anew \/ said[p] = NULL) => said'[p] = This
<1>1. said'[p] = (IF Forgets(p) THEN <<>> ELSE said[p])
                   \o (IF Tells(p) THEN This ELSE <<>>)
  BY DEF Declares
<1>2. (Forgets(p) <=> Anew) /\ (Tells(p) <=> role' = p)
  BY DEF Forgets, Tells
<1>3. said[p] \in Seq(Nat) /\ This \in Seq(Nat) /\ NULL = <<>>
  BY DEF Declares, This, NULL
<1>4. said'[p] = (IF Anew THEN <<>> ELSE said[p])
                   \o (IF role' = p THEN This ELSE <<>>)
  BY <1>1, <1>2
<1>5. /\ <<>> \o This = This /\ <<>> \o <<>> = <<>>
      /\ said[p] \o <<>> = said[p]
  BY <1>3, Joined DEF NULL
<1> QED  BY <1>3, <1>4, <1>5

\* The text of the type of an attribute.
LEMMA SaidOften ==
  ASSUME said \in [Texts -> Seq(Nat)], number \in Nat, Declares
  PROVE  /\ role' = "ATTRIBUTE_NAME" => said'.ATTRIBUTE_TYPE = NULL
         /\ role' \notin D!Types \cup D!Values \cup {"ATTRIBUTE_NAME"} =>
               said'.ATTRIBUTE_TYPE = IF Anew THEN NULL ELSE said.ATTRIBUTE_TYPE
         /\ role' \in D!Types \cup D!Values /\ ~Anew =>
               /\ said'.ATTRIBUTE_TYPE = said.ATTRIBUTE_TYPE \o This
               /\ said'.ATTRIBUTE_TYPE # NULL
<1> DEFINE p == "ATTRIBUTE_TYPE"
<1>1. p \in Texts
  BY DEF Texts
<1>2. said'[p] = (IF Forgets(p) THEN <<>> ELSE said[p])
                   \o (IF Tells(p) THEN This ELSE <<>>)
  BY <1>1 DEF Declares
<1>3. /\ Forgets(p) <=> Anew \/ role' = "ATTRIBUTE_NAME"
      /\ Tells(p) <=> role' \in D!Types \cup D!Values
  BY DEF Forgets, Tells
<1>4. said[p] \in Seq(Nat) /\ This \in Seq(Nat) /\ NULL = <<>>
  BY <1>1 DEF Declares, This, NULL
<1>5. said'[p] = (IF Anew \/ role' = "ATTRIBUTE_NAME" THEN <<>> ELSE said[p])
                   \o (IF role' \in D!Types \cup D!Values THEN This ELSE <<>>)
  BY <1>2, <1>3
<1>6. "ATTRIBUTE_NAME" \notin D!Types \cup D!Values
  BY DEF D!Types, D!Values
<1>7. /\ said[p] \o This # <<>> /\ said[p] \o <<>> = said[p]
      /\ <<>> \o <<>> = <<>>
  <2>1. This # <<>>
    BY DEF This
  <2> QED  BY <1>4, <2>1, Joined
<1> HIDE DEF p
<1>8. said'[p] = NULL \/ role' # "ATTRIBUTE_NAME"
  BY <1>4, <1>5, <1>6, <1>7
<1>9. role' \notin D!Types \cup D!Values \cup {"ATTRIBUTE_NAME"} =>
         said'[p] = IF Anew THEN NULL ELSE said[p]
  BY <1>4, <1>5, <1>7
<1>10. role' \in D!Types \cup D!Values /\ ~Anew =>
         said'[p] = said[p] \o This /\ said'[p] # NULL
  BY <1>4, <1>5, <1>6, <1>7
<1> QED  BY <1>8, <1>9, <1>10 DEF p

\* A text is a sequence of tokens.
LEMMA SaidType ==
  ASSUME said \in [Texts -> Seq(Nat)], number \in Nat, Declares
  PROVE  said' \in [Texts -> Seq(Nat)]
<1>1. \A p \in Texts : (IF Forgets(p) THEN <<>> ELSE said[p])
                   \o (IF Tells(p) THEN This ELSE <<>>) \in Seq(Nat)
  <2> TAKE p \in Texts
  <2>1. said[p] \in Seq(Nat) /\ This \in Seq(Nat) /\ <<>> \in Seq(Nat)
    BY DEF Declares, This
  <2>2. \A a, b \in Seq(Nat) : a \o b \in Seq(Nat)
    OBVIOUS
  <2>3. (IF Forgets(p) THEN <<>> ELSE said[p]) \in Seq(Nat)
    BY <2>1
  <2>4. (IF Tells(p) THEN This ELSE <<>>) \in Seq(Nat)
    BY <2>1
  <2> QED  BY <2>2, <2>3, <2>4
<1> QED  BY <1>1 DEF Declares

\* The parts of a declaration come once: told is what has a text.
LEMMA PartOnce ==
  ASSUME PartTold
  PROVE  /\ Place \in {"entity", "notation"} => told' = told \cup {role'}
         /\ role' \in {"ATTRIBUTE_NAME"} \cup D!Types \cup D!Values =>
               Place = "attlist" /\ told' = told \cup {role'}
         /\ role' \in D!Defaults => told' = {"ATTLIST_ELEMENT_NAME"}
<1>1. told' = D!Recalled(told, role')
  BY DEF PartTold
<1>2. Place \in {"entity", "notation"} => role' \in Noted
  BY DEF PartTold, Noted
<1>3. role' \in {"ATTRIBUTE_NAME"} \cup D!Types \cup D!Values => role' \in Noted
  BY DEF Noted
<1>4. role' \in {"ATTRIBUTE_NAME"} \cup D!Types \cup D!Values => Place = "attlist"
  BY DEF PartTold, D!EntityParts, D!NotationParts, D!ElementParts, D!Names,
         D!Types, D!Values, D!Children, D!Closes
<1> QED  BY <1>1, <1>2, <1>3, <1>4, Told, Recall

\* When the parts of an attribute are told.
LEMMA AttlistTime ==
  ASSUME PartTold, role' \in D!AttlistParts
  PROVE  /\ role' = "ATTLIST_ELEMENT_NAME" => told = {}
         /\ role' = "ATTRIBUTE_NAME" => told = {"ATTLIST_ELEMENT_NAME"}
         /\ role' \in D!Types => told = {"ATTLIST_ELEMENT_NAME", "ATTRIBUTE_NAME"}
         /\ role' \in D!Values => /\ "ATTRIBUTE_NAME" \in told
                                  /\ told \cap D!Types = {}
         /\ role' \in D!Defaults => told \cap (D!Types \cup D!Values) # {}
<1> USE DEF D!MayTell, D!Has, D!Names, D!Types, D!Values, D!Defaults, D!Children,
            D!Closes
<1>1. D!MayTell("ATTLIST_ELEMENT_NAME") => told = {}
  OBVIOUS
<1>2. D!MayTell("ATTRIBUTE_NAME") => told = {"ATTLIST_ELEMENT_NAME"}
  OBVIOUS
<1>3. ASSUME NEW r \in D!Types, D!MayTell(r)
      PROVE  told = {"ATTLIST_ELEMENT_NAME", "ATTRIBUTE_NAME"}
  BY <1>3
<1>4. ASSUME NEW r \in D!Values, D!MayTell(r)
      PROVE  "ATTRIBUTE_NAME" \in told /\ told \cap D!Types = {}
  BY <1>4
<1>5. ASSUME NEW r \in D!Defaults, D!MayTell(r)
      PROVE  told \cap (D!Types \cup D!Values) # {}
  BY <1>5
<1>6. D!MayTell(role')
  BY DEF PartTold
<1> HIDE DEF D!MayTell, D!Has, D!Names, D!Types, D!Values, D!Defaults
<1> QED  BY <1>1, <1>2, <1>3, <1>4, <1>5, <1>6

\* What is said goes with what is told.
LEMMA SaidStep ==
  ASSUME RoleInv, SaidInv, number \in Nat, Declares, Moving, InTurn
  PROVE  SaidInv'
<1>1. said \in [Texts -> Seq(Nat)]
  BY DEF SaidInv
<1>2. said' \in [Texts -> Seq(Nat)]
  BY <1>1, SaidType
<1>3. Opening \/ Elsewhere \/ Waited \/ Ended =>
         role' \notin D!Types \cup D!Values \cup {"ATTRIBUTE_NAME"}
  BY DEF Opening, Elsewhere, Waited, Ended, Nones, D!Types, D!Values
<1>4. Place \in D!Kinds => ~Anew
  BY Apart DEF D!Kinds
<1>5. ASSUME Place' \in {"entity", "notation"}, NEW p \in Texts, p \notin told',
             p # "ATTRIBUTE_TYPE"
      PROVE  said'[p] = NULL
  <2>1. CASE Opening
    <3>1. Anew
      BY <2>1, Apart DEF Opening
    <3>2. role' # p
      BY <2>1, <1>5 DEF Opening, Nones, Texts
    <3> QED  BY <1>1, <1>5, <3>1, <3>2, SaidOnce
  <2>2. CASE PartTold
    <3>1. Place \in {"entity", "notation"} /\ told' = told \cup {role'}
      BY <1>5, <2>2, PartOnce DEF PartTold
    <3>2. said[p] = NULL /\ role' # p
      BY <1>5, <3>1 DEF SaidInv
    <3> QED  BY <1>1, <1>5, <3>2, SaidOnce
  <2>3. CASE Waited
    <3>1. said[p] = NULL
      BY <1>5, <2>3 DEF Waited, SaidInv
    <3>2. role' # p
      BY <2>3, <1>5 DEF Waited, Nones, Texts
    <3> QED  BY <1>1, <1>5, <3>1, <3>2, SaidOnce
  <2>4. ~Ended /\ ~Elsewhere
    BY <1>5 DEF Ended, Elsewhere, D!Kinds
  <2> QED  BY <2>1, <2>2, <2>3, <2>4 DEF Moving
<1>6. ASSUME Place' = "attlist", "ATTRIBUTE_NAME" \in told'
      PROVE  said'.ATTRIBUTE_TYPE = NULL
                <=> told' \cap (D!Types \cup D!Values) = {}
  <2>1. CASE PartTold
    <3>1. Place = "attlist" /\ role' \in D!AttlistParts /\ ~Anew
      BY <1>4, <1>6, <2>1 DEF PartTold, D!Kinds
    <3>2. CASE role' = "ATTRIBUTE_NAME"
      <4>1. told' = {"ATTLIST_ELEMENT_NAME", "ATTRIBUTE_NAME"}
        BY <2>1, <3>1, <3>2, PartOnce, AttlistTime
      <4>2. said'.ATTRIBUTE_TYPE = NULL
        BY <1>1, <3>2, SaidOften
      <4> QED  BY <4>1, <4>2 DEF D!Types, D!Values
    <3>3. CASE role' \in D!Types \cup D!Values
      <4>1. role' \in told'
        BY <2>1, <3>3, PartOnce
      <4>2. said'.ATTRIBUTE_TYPE # NULL
        BY <1>1, <3>1, <3>3, SaidOften
      <4> QED  BY <3>3, <4>1, <4>2
    <3>4. CASE role' \in D!Defaults
      BY <1>6, <2>1, <3>4, PartOnce
    <3>5. CASE role' = "ATTLIST_ELEMENT_NAME"
      <4>1. told = {} /\ told' = told \cup {role'}
        BY <2>1, <3>1, <3>5, AttlistTime, Told DEF PartTold, Noted
      <4> QED  BY <1>6, <3>5, <4>1
    <3> QED  BY <3>1, <3>2, <3>3, <3>4, <3>5 DEF D!AttlistParts
  <2>2. CASE Waited
    <3>1. Place = "attlist" /\ told' = told /\ ~Anew
      BY <1>4, <1>6, <2>2 DEF Waited
    <3>2. said'.ATTRIBUTE_TYPE = said.ATTRIBUTE_TYPE
      BY <1>1, <1>3, <2>2, <3>1, SaidOften
    <3> QED  BY <1>6, <3>1, <3>2 DEF SaidInv
  <2>3. ~Opening /\ ~Ended /\ ~Elsewhere
    BY <1>6 DEF Opening, Ended, Elsewhere, D!Kinds
  <2> QED  BY <2>1, <2>2, <2>3 DEF Moving
<1>12. ASSUME Place' = "attlist", "ATTRIBUTE_NAME" \notin told'
       PROVE  told' \cap (D!Types \cup D!Values) = {}
  <2>1. CASE PartTold
    <3>1. Place = "attlist" /\ role' \in D!AttlistParts
      BY <1>12, <2>1 DEF PartTold
    <3>2. CASE role' \in {"ATTRIBUTE_NAME"} \cup D!Types \cup D!Values
      <4>1. told' = told \cup {role'}
        BY <2>1, <3>2, PartOnce
      <4>2. role' = "ATTRIBUTE_NAME" \/ "ATTRIBUTE_NAME" \in told
        BY <2>1, <3>1, <3>2, AttlistTime
      <4> QED  BY <1>12, <4>1, <4>2
    <3>3. CASE role' \in D!Defaults
      BY <2>1, <3>3, PartOnce DEF D!Types, D!Values
    <3>4. CASE role' = "ATTLIST_ELEMENT_NAME"
      <4>1. told = {} /\ told' = told \cup {role'}
        BY <2>1, <3>1, <3>4, AttlistTime, Told DEF PartTold, Noted
      <4> QED  BY <3>4, <4>1 DEF D!Types, D!Values
    <3> QED  BY <3>1, <3>2, <3>3, <3>4 DEF D!AttlistParts
  <2>2. CASE Waited
    BY <1>12, <2>2 DEF Waited, SaidInv
  <2>3. CASE Opening
    BY <2>3 DEF Opening
  <2>4. ~Ended /\ ~Elsewhere
    BY <1>12 DEF Ended, Elsewhere, D!Kinds
  <2> QED  BY <2>1, <2>2, <2>3, <2>4 DEF Moving
<1>7. {"DOCTYPE_NAME", "DOCTYPE_PUBLIC_ID", "DOCTYPE_SYSTEM_ID"} \subseteq Texts
  BY DEF Texts
<1>8. handler \in {"prolog0", "prolog1"} => Anew
  BY DEF Anew, Between
<1>9. handler' = "doctype0" => said'.DOCTYPE_NAME = NULL
  <2> HAVE handler' = "doctype0"
  <2>1. /\ role' # "DOCTYPE_NAME"
        /\ handler \in {"prolog0", "prolog1"} \/ said.DOCTYPE_NAME = NULL
    BY DEF InTurn, SaidInv
  <2> QED  BY <1>1, <1>7, <1>8, <2>1, SaidOnce
<1>10. handler' \in {"doctype0", "doctype1", "doctype2"} =>
           said'.DOCTYPE_PUBLIC_ID = NULL
  <2> HAVE handler' \in {"doctype0", "doctype1", "doctype2"}
  <2>1. /\ role' # "DOCTYPE_PUBLIC_ID"
        /\ handler \in {"prolog0", "prolog1"} \/ said.DOCTYPE_PUBLIC_ID = NULL
    BY DEF InTurn, SaidInv
  <2> QED  BY <1>1, <1>7, <1>8, <2>1, SaidOnce
<1>11. handler' \in {"doctype0", "doctype1", "doctype2", "doctype3"} =>
           said'.DOCTYPE_SYSTEM_ID = NULL
  <2> HAVE handler' \in {"doctype0", "doctype1", "doctype2", "doctype3"}
  <2>1. /\ role' # "DOCTYPE_SYSTEM_ID"
        /\ handler \in {"prolog0", "prolog1"} \/ said.DOCTYPE_SYSTEM_ID = NULL
    BY DEF InTurn, SaidInv
  <2> QED  BY <1>1, <1>7, <1>8, <2>1, SaidOnce
<1> QED  BY <1>2, <1>5, <1>6, <1>9, <1>10, <1>11, <1>12 DEF SaidInv

-----------------------------------------------------------------------------
(* The string pool, and the variables that wait for the end of a declaration *)

\* The roles there are but for an error.
LEMMA RolesAre ==
  ASSUME Moving
  PROVE  role' \in Caseless \cup D!EntityParts \cup D!NotationParts
                     \cup {"ATTRIBUTE_NAME"} \cup D!Types \cup D!Values \cup D!Defaults
                     \cup DoctypeRoles \cup References
                     \cup {"PI", "COMMENT", "ENTITY_COMPLETE",
                           "NOTATION_NO_SYSTEM_ID"}
BY DEF Moving, References, Opening, PartTold, Waited, Ended, Elsewhere, Caseless, D!AttlistParts,
       DoctypeRoles

\* Outside the list of an enumeration the pool is used up at once.
LEMMA PoolCases ==
  ASSUME Handle, Moving, role' \notin D!Values \cup D!Defaults
  PROVE  tempPool' \in {tempPool, NULL}
<1> USE DEF NULL
<1>1. CASE role' \in Caseless
  BY <1>1, Cases DEF Others
<1>2. CASE role' = "DOCTYPE_NAME"
  BY <1>2, Cases DEF DoctypeName
<1>3. CASE role' = "DOCTYPE_PUBLIC_ID"
  BY <1>3, WritingRoles DEF DoctypePublicId
<1>4. CASE role' = "DOCTYPE_SYSTEM_ID"
  BY <1>4, WritingRoles DEF DoctypeSystemId
<1>5. CASE role' = "DOCTYPE_INTERNAL_SUBSET"
  BY <1>5, Cases DEF InternalSubset
<1>6. CASE role' = "DOCTYPE_CLOSE"
  BY <1>6, Cases DEF DoctypeClose
<1>7. CASE role' \in {"PI", "COMMENT"}
  BY <1>7, Cases DEF Comment
<1>8. CASE role' \in References
  BY <1>8, Cases DEF ParamEntityRef
<1>9. CASE role' = "ENTITY_COMPLETE"
  BY <1>9, Cases DEF EntityComplete
<1>10. CASE role' = "NOTATION_NO_SYSTEM_ID"
  BY <1>10, Cases DEF NotationNoSystem
<1>11. CASE role' = "ATTRIBUTE_NAME" \/ role' \in D!Types
  BY <1>11, Cases DEF AttributeName, AttributeType
<1>12. CASE role' \in D!NotationParts
  BY <1>12, Cases
     DEF NotationName, NotationPublicId, NotationSystem, D!NotationParts
<1>13. CASE role' \in D!EntityParts
  BY <1>13, WritingRoles
     DEF EntityName, EntityValue, EntityPublicId, EntitySystemId, EntityNotationName,
         D!EntityParts, D!Names
<1> QED  BY <1>1, <1>2, <1>3, <1>4, <1>5, <1>6, <1>7, <1>8, <1>9, <1>10, <1>11, <1>12,
            <1>13, RolesAre DEF DoctypeRoles

\* The pool is kept between the parts of an attribute.
LEMMA PoolAttlist ==
  ASSUME Handle, role' \in Nones \cup References \cup D!Types
                                  \cup {"ATTLIST_ELEMENT_NAME", "ATTRIBUTE_NAME"}
  PROVE  UNCHANGED tempPool
<1>1. CASE role' \in Caseless
  BY <1>1, Cases DEF Others
<1>2. CASE role' = "ATTRIBUTE_NAME" \/ role' \in D!Types
  BY <1>2, Cases DEF AttributeName, AttributeType
<1>3. CASE role' \in References
  BY <1>3, Cases DEF ParamEntityRef
<1> QED  BY <1>1, <1>2, <1>3 DEF Caseless

\* Only an enumeration may be in the pool, for its attribute is not told yet.
LEMMA PoolStep ==
  ASSUME RoleInv, SaidInv, PoolInv, AttlistInv, number \in Nat, Declares, Moving,
         keepProcessing \in BOOLEAN, code' = "NONE", code = "NONE",
         role' \notin Asking \cup {"ENTITY_VALUE"} =>
               keepProcessing' = keepProcessing,
         keepProcessing' => keepProcessing, documentEntity' = documentEntity, Aside
  PROVE  PoolInv'
<1> SUFFICES ASSUME documentEntity \/ keepProcessing'
             PROVE  PoolHolds'
  BY DEF PoolInv
<1>0. PoolHolds
  BY DEF PoolInv
<1>1. Handle /\ listened' = listened
  BY DEF Declares
<1>2. said \in [Texts -> Seq(Nat)]
  BY DEF SaidInv
<1> DEFINE Heard == keepProcessing /\ Hears("attlist")
<1>3. CASE Place = "attlist" /\ Place' = "attlist"
  <2>1. (PartTold /\ role' \in D!AttlistParts) \/ Waited
    <3>1. PartTold => role' \in D!AttlistParts
      BY <1>3 DEF PartTold
    <3>3. ~Opening /\ ~Ended /\ ~Elsewhere
      BY <1>3 DEF Opening, Ended, Elsewhere, D!Kinds
    <3> QED  BY <3>1, <3>3 DEF Moving
  <2>2. \/ role' \notin Asking \cup {"ENTITY_VALUE"}
        \/ role' = "INNER_PARAM_ENTITY_REF"
    BY <2>1 DEF D!AttlistParts, D!Types, D!Values, D!Defaults, Nones, Asking, References,
               Waited
  <2>3. keepProcessing' = keepProcessing /\ (Hears("attlist"))' = Hears("attlist")
    BY <1>1, <2>2 DEF Hears, Aside
  <2>4. ~Anew
    BY <1>3, Apart
  <2>5. CASE Waited
    <3>1. UNCHANGED tempPool
      BY <1>1, <2>5, PoolAttlist DEF Waited, References
    <3>2. UNCHANGED told /\ Listing' = Listing
      BY <1>3, <2>3, <2>5 DEF Waited, Listing
    <3>3. role' \notin D!Types \cup D!Values \cup {"ATTRIBUTE_NAME"}
      BY <2>5 DEF Waited, Nones, D!Types, D!Values
    <3>4. said'.ATTRIBUTE_TYPE = said.ATTRIBUTE_TYPE
      BY <1>2, <2>4, <3>3, SaidOften
    <3> QED  BY <1>0, <3>1, <3>2, <3>4 DEF PoolHolds
  <2>6. CASE role' \in {"ATTLIST_ELEMENT_NAME", "ATTRIBUTE_NAME"} \cup D!Types /\ PartTold
    <3>1. UNCHANGED tempPool
      BY <1>1, <2>6, PoolAttlist
    <3>2. told \cap D!Values = {}
      BY <2>6, AttlistTime DEF D!AttlistParts, D!Types, D!Values
    <3>3. told' = told \cup {role'}
      BY <2>6, Told DEF PartTold, Noted
    <3>4. told' \cap D!Values = {}
      BY <2>6, <3>2, <3>3 DEF D!Values, D!Types
    <3> QED  BY <1>0, <3>1, <3>2, <3>4 DEF PoolHolds, Listing
  <2>7. CASE role' \in D!Values /\ PartTold
    <3>1. "ATTRIBUTE_NAME" \in told /\ told \cap D!Types = {} /\ role' \in D!AttlistParts
      BY <2>7, AttlistTime DEF D!AttlistParts
    <3>2. told' = told \cup {role'}
      BY <2>7, PartOnce
    <3>3. said'.ATTRIBUTE_TYPE = said.ATTRIBUTE_TYPE \o This
      BY <1>2, <2>4, <2>7, SaidOften
    <3>4. CASE Heard
      <4>1. tempPool' = tempPool \o This
        BY <1>1, <2>7, <3>4, Cases DEF AttributeValue
      <4>2. tempPool = said.ATTRIBUTE_TYPE
        <5>1. CASE told \cap D!Values # {}
          BY <1>0, <1>3, <3>4, <5>1 DEF PoolHolds, Listing
        <5>2. CASE told \cap D!Values = {}
          <6>1. said.ATTRIBUTE_TYPE = NULL
            BY <1>3, <3>1, <5>2 DEF SaidInv
          <6> QED  BY <1>0, <5>2, <6>1 DEF PoolHolds, Listing
        <5> QED  BY <5>1, <5>2
      <4>3. Listing'
        BY <1>3, <2>3, <2>7, <3>2, <3>4 DEF Listing
      <4> QED  BY <1>0, <3>3, <4>1, <4>2, <4>3 DEF PoolHolds
    <3>5. CASE ~Heard
      <4>1. UNCHANGED tempPool
        BY <1>1, <2>7, <3>5, Cases DEF AttributeValue
      <4>2. ~Listing /\ ~Listing'
        BY <2>3, <3>5 DEF Listing
      <4> QED  BY <1>0, <4>1, <4>2 DEF PoolHolds
    <3> QED  BY <3>4, <3>5
  <2>8. CASE role' \in D!Defaults /\ PartTold
    <3>1. AttributeDefault
      BY <1>1, <2>8, Cases DEF BadDefault, Stops
    <3>2. told \cap (D!Types \cup D!Values) # {} /\ told' = {"ATTLIST_ELEMENT_NAME"}
      BY <2>8, AttlistTime, PartOnce DEF D!AttlistParts
    <3>3. ~Listing'
      BY <3>2 DEF Listing, D!Values
    <3>4. CASE Listing
      <4>1. "ATTRIBUTE_NAME" \in told
        BY <1>3, <3>2 DEF SaidInv
      <4>2. declAttributeType = said.ATTRIBUTE_TYPE /\ said.ATTRIBUTE_TYPE # NULL
        BY <1>3, <3>2, <3>4, <4>1 DEF AttlistInv, SaidInv, Listing
      <4>3. tempPool' = <<>>
        BY <3>1, <3>4, <4>2 DEF AttributeDefault, Listing
      <4> QED  BY <1>0, <3>3, <4>3 DEF PoolHolds, NULL
    <3>5. CASE ~Listing
      <4>1. tempPool = NULL
        BY <1>0, <3>5 DEF PoolHolds
      <4>2. tempPool' \in {tempPool, <<>>}
        BY <3>1 DEF AttributeDefault
      <4> QED  BY <1>0, <3>3, <4>1, <4>2 DEF PoolHolds, NULL
    <3> QED  BY <3>4, <3>5
  <2> QED  BY <2>1, <2>5, <2>6, <2>7, <2>8 DEF D!AttlistParts
<1>4. CASE Place # "attlist" \/ Place' # "attlist"
  <2>1. role' \notin D!AttlistParts
    BY <1>4, Disjoint
       DEF Moving, Opening, PartTold, Waited, Ended, Elsewhere, Nones, D!AttlistParts,
           D!Types, D!Values, D!Defaults, D!EntityParts, D!NotationParts, D!ElementParts,
           D!Names, D!Children, D!Closes
  <2>2. tempPool' \in {tempPool, NULL}
    BY <1>1, <2>1, PoolCases DEF D!AttlistParts
  <2>3. CASE Place # "attlist"
    <3>1. ~Listing
      BY <2>3 DEF Listing
    <3>2. ~Listing'
      BY <2>3 DEF Listing, Moving, Opening, PartTold, Waited, Ended, Elsewhere, D!Kinds
    <3> QED  BY <1>0, <2>2, <3>1, <3>2 DEF PoolHolds
  <2>4. CASE Place = "attlist"
    <3>1. Ended /\ D!Complete
      BY <1>4, <2>4
         DEF Moving, Opening, PartTold, Waited, Ended, Elsewhere, D!Kinds
    <3>2. told = {"ATTLIST_ELEMENT_NAME"}
      BY <2>4, <3>1 DEF D!Complete
    <3>3. ~Listing /\ ~Listing'
      BY <1>4, <2>4, <3>2 DEF Listing, D!Values
    <3> QED  BY <1>0, <2>2, <3>3 DEF PoolHolds
  <2> QED  BY <2>3, <2>4
<1> QED  BY <1>3, <1>4

\* No declaration is being ended, begun or told where none is open.
LEMMA OpenDeclaration ==
  ASSUME Moving, Place' \in D!Kinds
  PROVE  Opening \/ PartTold \/ Waited
BY DEF Moving, Ended, Elsewhere, D!Kinds

-----------------------------------------------------------------------------
(* The DOCTYPE *)

\* The external subset keeps its identifier.
Subsetted == param["#"].declared /\ param["#"].systemId # NULL

\* So does an assignment that does not take it away.
LEMMA Assigned ==
  ASSUME TablesInv, Subsetted, declEntity # NoEntity, NEW e \in Whole, Assign(e),
         e.systemId = NULL => Declared.systemId = NULL
  PROVE  Subsetted'
<1>1. e.declared
  BY DEF Whole
<1>2. CASE declEntity = [table |-> "param", name |-> "#"]
  BY <1>1, <1>2 DEF Assign, Subsetted, TablesInv, Declared
<1>3. CASE \E n \in Entities : declEntity = [table |-> "param", name |-> n]
  BY <1>3, EntitiesAssumption DEF Assign, Subsetted, TablesInv
<1>4. CASE \E n \in Entities : declEntity = [table |-> "general", name |-> n]
  BY <1>4 DEF Assign, Subsetted
<1> QED  BY <1>2, <1>3, <1>4 DEF TablesInv

\* The cases that declare an entity keep it.
LEMMA SubsetStays ==
  ASSUME TablesInv, Subsetted, Handle, number' = number + 1,
         role' \in D!EntityParts
  PROVE  Subsetted'
<1>1. This \in Seq(Nat) /\ This # NULL
  BY DEF This, NULL, TablesInv
<1>2. CASE role' \in D!Names
  <2>1. PICK n \in Entities, table \in {"general", "param"} : EntityName(table, n)
    BY <1>2, WritingRoles DEF D!Names
  <2>2. \/ param' = param
        \/ param' = [param EXCEPT ![n] = Fresh]
    BY <2>1 DEF EntityName
  <2>3. n # "#"
    BY EntitiesAssumption
  <2> QED  BY <2>2, <2>3 DEF Subsetted, TablesInv
<1>3. CASE UNCHANGED param
  BY <1>3 DEF Subsetted
<1>4. CASE role' = "ENTITY_VALUE" /\ ~UNCHANGED param
  <2>1. declEntity # NoEntity /\ Assign([Declared EXCEPT !.text = This])
    BY <1>4, WritingRoles DEF EntityValue, KeepTables
  <2>2. Declared \in Whole
    BY <2>1 DEF TablesInv
  <2>3. /\ [Declared EXCEPT !.text = This] \in Whole
        /\ [Declared EXCEPT !.text = This].systemId = Declared.systemId
    BY <1>1, <2>2 DEF Whole
  <2> QED  BY <2>1, <2>3, Assigned
<1>5. CASE role' = "ENTITY_PUBLIC_ID" /\ ~UNCHANGED param
  <2>1. declEntity # NoEntity /\ Assign([Declared EXCEPT !.publicId = This])
    BY <1>5, WritingRoles DEF EntityPublicId, KeepTables, Recording
  <2>2. Declared \in Whole
    BY <2>1 DEF TablesInv
  <2>3. /\ [Declared EXCEPT !.publicId = This] \in Whole
        /\ [Declared EXCEPT !.publicId = This].systemId = Declared.systemId
    BY <1>1, <2>2 DEF Whole
  <2> QED  BY <2>1, <2>3, Assigned
<1>6. CASE role' = "ENTITY_SYSTEM_ID" /\ ~UNCHANGED param
  <2>1. declEntity # NoEntity /\ Assign([Declared EXCEPT !.systemId = This])
    BY <1>6, WritingRoles DEF EntitySystemId, KeepTables, Recording
  <2>2. Declared \in Whole
    BY <2>1 DEF TablesInv
  <2>3. /\ [Declared EXCEPT !.systemId = This] \in Whole
        /\ [Declared EXCEPT !.systemId = This].systemId = This
    BY <1>1, <2>2 DEF Whole
  <2> QED  BY <1>1, <2>1, <2>3, Assigned
<1>7. CASE role' = "ENTITY_NOTATION_NAME" /\ ~UNCHANGED param
  <2>1. declEntity # NoEntity /\ Assign([Declared EXCEPT !.notation = This])
    BY <1>7, WritingRoles DEF EntityNotationName, KeepTables, Recording
  <2>2. Declared \in Whole
    BY <2>1 DEF TablesInv
  <2>3. /\ [Declared EXCEPT !.notation = This] \in Whole
        /\ [Declared EXCEPT !.notation = This].systemId = Declared.systemId
    BY <1>1, <2>2 DEF Whole
  <2> QED  BY <2>1, <2>3, Assigned
<1> QED  BY <1>2, <1>3, <1>4, <1>5, <1>6, <1>7 DEF D!EntityParts

\* The other cases do not touch the variables of the DOCTYPE.
LEMMA DoctypeAlone ==
  ASSUME Handle, Moving, role' \notin DoctypeRoles
  PROVE  UNCHANGED <<doctypeName, doctypeSysid, doctypePubid>>
<1> USE DEF KeepDoctype
<1>1. CASE role' \in Caseless
  BY <1>1, Cases DEF Others
<1>2. CASE role' \in {"PI", "COMMENT"}
  BY <1>2, Cases DEF Comment
<1>3. CASE role' \in References
  BY <1>3, Cases DEF ParamEntityRef
<1>4. CASE role' = "ENTITY_COMPLETE"
  BY <1>4, Cases DEF EntityComplete
<1>5. CASE role' = "NOTATION_NO_SYSTEM_ID"
  BY <1>5, Cases DEF NotationNoSystem
<1>6. CASE role' = "ATTRIBUTE_NAME" \/ role' \in D!Types
  BY <1>6, Cases DEF AttributeName, AttributeType
<1>7. CASE role' \in D!Values
  BY <1>7, Cases DEF AttributeValue
<1>8. CASE role' \in D!Defaults
  BY <1>8, Cases DEF AttributeDefault, BadDefault
<1>9. CASE role' \in D!NotationParts
  BY <1>9, Cases
     DEF NotationName, NotationPublicId, NotationSystem, D!NotationParts
<1>10. CASE role' \in D!EntityParts
  BY <1>10, WritingRoles
     DEF EntityName, EntityValue, EntityPublicId, EntitySystemId, EntityNotationName,
         D!EntityParts, D!Names
<1> QED  BY <1>1, <1>2, <1>3, <1>4, <1>5, <1>6, <1>7, <1>8, <1>9, <1>10, RolesAre

\* The places around the handlers of the DOCTYPE.
LEMMA DoctypePlaces ==
  ASSUME RoleInv
  PROVE  /\ Place = "doctype" <=> handler \in {"doctype0", "doctype1", "doctype2",
                                              "doctype3", "doctype4"}
         /\ Place \in {"start", "prolog"} <=> handler \in {"prolog0", "prolog1"}
         /\ handler = "doctype5" => Place = "closing"
         /\ handler \in {"prolog2", "internalSubset"} => Place \in {"misc", "subset"}
BY DEF Place, RoleInv, Handlers, DocumentHandlers, ExternalHandlers, EntityHandlers,
       NotationHandlers, AttlistHandlers, ElementHandlers

\* And after a step.
LEMMA DoctypePlacesNext ==
  ASSUME RoleInv'
  PROVE  /\ Place' = "doctype" <=> handler' \in {"doctype0", "doctype1", "doctype2",
                                               "doctype3", "doctype4"}
         /\ Place' \in {"start", "prolog"} <=> handler' \in {"prolog0", "prolog1"}
BY DEF Place, RoleInv, Handlers, DocumentHandlers, ExternalHandlers, EntityHandlers,
       NotationHandlers, AttlistHandlers, ElementHandlers

\* In the DOCTYPE the pool is empty.
LEMMA PoolUnused ==
  ASSUME RoleInv, PoolInv, Place = "doctype"
  PROVE  tempPool = NULL
<1>1. documentEntity
  BY DoctypePlaces DEF RoleInv, DocumentHandlers
<1> QED  BY <1>1 DEF PoolInv, PoolHolds, Listing

\* The name of the DOCTYPE.
LEMMA DoctypeNameStep ==
  ASSUME RoleInv, RoleInv', SaidInv, PoolInv, DoctypeInv, number \in Nat, Declares,
         InTurn, role' = "DOCTYPE_NAME"
  PROVE  DoctypeInv'
<1>1. DoctypeName /\ listened' = listened
  BY Cases DEF Declares
<1>2. handler = "doctype0" /\ handler' = "doctype1"
  BY DEF InTurn
<1>3. Place = "doctype" /\ Place' = "doctype" /\ ~Anew /\ ~Listing
  BY <1>2, DoctypePlaces, DoctypePlacesNext DEF Listing, Anew, Between
<1>4. said'.DOCTYPE_NAME = This /\ This # NULL
  <2>1. said.DOCTYPE_NAME = NULL /\ "DOCTYPE_NAME" \in Texts
    BY <1>2 DEF SaidInv, Texts
  <2> QED  BY <2>1, SaidOnce DEF SaidInv, This, NULL
<1>5. said'.DOCTYPE_PUBLIC_ID = NULL /\ said'.DOCTYPE_SYSTEM_ID = NULL
  <2>1. /\ said.DOCTYPE_PUBLIC_ID = NULL /\ said.DOCTYPE_SYSTEM_ID = NULL
        /\ {"DOCTYPE_PUBLIC_ID", "DOCTYPE_SYSTEM_ID"} \subseteq Texts
    BY <1>2 DEF SaidInv, Texts
  <2> QED  BY <1>3, <2>1, SaidOnce DEF SaidInv
<1>6. tempPool \o This = This
  BY <1>3, PoolUnused, Joined DEF This, NULL, Declares
<1>7. Hears("doctype") =>
         doctypeName' = This /\ doctypePubid' = NULL
  BY <1>1, <1>6 DEF DoctypeName
<1>8. doctypeSysid' = NULL /\ (~Hears("doctype") => doctypeName' = doctypeName)
  BY <1>1 DEF DoctypeName
<1>9. (Hears("doctype"))' = Hears("doctype")
  BY <1>1 DEF Hears
<1>10. documentEntity'
  BY <1>2 DEF RoleInv, DocumentHandlers
<1> QED  BY <1>3, <1>4, <1>5, <1>7, <1>8, <1>9, <1>10 DEF DoctypeInv, D!Kinds

\* Its public identifier.
LEMMA DoctypePublicIdStep ==
  ASSUME RoleInv, RoleInv', TablesInv, SaidInv, PoolInv, DoctypeInv,
         number \in Nat, Declares,
         InTurn, role' = "DOCTYPE_PUBLIC_ID", code' = "NONE"
  PROVE  DoctypeInv'
<1>1. DoctypePublicId /\ listened' = listened
  BY WritingRoles DEF Declares
<1>2. handler = "doctype2" /\ handler' = "doctype3"
  BY DEF InTurn
<1>3. Place = "doctype" /\ Place' = "doctype" /\ ~Anew /\ ~Listing
  BY <1>2, DoctypePlaces, DoctypePlacesNext DEF Listing, Anew, Between
<1>4. said'.DOCTYPE_PUBLIC_ID = This
  <2>1. said.DOCTYPE_PUBLIC_ID = NULL /\ "DOCTYPE_PUBLIC_ID" \in Texts
    BY <1>2 DEF SaidInv, Texts
  <2> QED  BY <2>1, SaidOnce DEF SaidInv
<1>5. /\ said'.DOCTYPE_NAME = said.DOCTYPE_NAME
      /\ said'.DOCTYPE_SYSTEM_ID = NULL /\ said.DOCTYPE_SYSTEM_ID = NULL
  <2>1. /\ said.DOCTYPE_SYSTEM_ID = NULL
        /\ {"DOCTYPE_NAME", "DOCTYPE_SYSTEM_ID"} \subseteq Texts
    BY <1>2 DEF SaidInv, Texts
  <2> QED  BY <1>3, <2>1, SaidOnce DEF SaidInv
<1>6. tempPool \o This = This
  BY <1>3, PoolUnused, Joined DEF This, NULL, Declares
<1>7. UNCHANGED <<doctypeName, doctypeSysid>>
  BY <1>1 DEF DoctypePublicId
<1>8. Hears("doctype") => doctypePubid' = This
  BY <1>1, <1>6 DEF DoctypePublicId, Stops
<1>9. (Hears("doctype"))' = Hears("doctype")
  BY <1>1 DEF Hears
<1>10. doctypeSysid # NULL => Subsetted'
  <2>1. ASSUME doctypeSysid # NULL PROVE Subsetted'
    <3>1. param["#"].declared /\ param["#"].systemId # NULL
      BY <2>1 DEF DoctypeInv
    <3>2. Subset0 = param["#"] /\ param["#"] \in Whole
      BY <3>1 DEF Subset0, TablesInv, Absent
    <3> DEFINE named == [Subset0 EXCEPT !.publicId = This]
    <3>3. \/ param' = [param EXCEPT !["#"] = Subset0]
          \/ param' = [param EXCEPT !["#"] = named]
      BY <1>1 DEF DoctypePublicId
    <3>4. named.declared /\ named.systemId # NULL
      BY <3>1, <3>2 DEF Whole
    <3>5. "#" \in DOMAIN param
      BY DEF TablesInv
    <3> HIDE DEF named
    <3> QED  BY <3>1, <3>2, <3>3, <3>4, <3>5 DEF Subsetted
  <2> QED  BY <2>1
<1>11. doctypeSysid' # NULL => param'["#"].declared /\ param'["#"].systemId # NULL
  BY <1>7, <1>10 DEF Subsetted
<1>12. documentEntity'
  BY <1>2 DEF RoleInv, DocumentHandlers
<1> QED  BY <1>3, <1>4, <1>5, <1>7, <1>8, <1>9, <1>11, <1>12 DEF DoctypeInv, D!Kinds

\* Its system identifier makes the external subset.
LEMMA DoctypeSystemIdStep ==
  ASSUME RoleInv, RoleInv', TablesInv, DeclEntityInv, ProcessingInv, SaidInv, PoolInv,
         DoctypeInv, number \in Nat, Declares,
         InTurn, role' = "DOCTYPE_SYSTEM_ID", code' = "NONE"
  PROVE  DoctypeInv'
<1>1. DoctypeSystemId /\ listened' = listened
  BY WritingRoles DEF Declares
<1>2. handler = "doctype3" /\ handler' = "doctype4"
  BY DEF InTurn
<1>3. Place = "doctype" /\ Place' = "doctype" /\ ~Anew /\ ~Listing
  BY <1>2, DoctypePlaces, DoctypePlacesNext DEF Listing, Anew, Between
<1>4. said'.DOCTYPE_SYSTEM_ID = This
  <2>1. said.DOCTYPE_SYSTEM_ID = NULL /\ "DOCTYPE_SYSTEM_ID" \in Texts
    BY <1>2 DEF SaidInv, Texts
  <2> QED  BY <2>1, SaidOnce DEF SaidInv
<1>5. /\ said'.DOCTYPE_NAME = said.DOCTYPE_NAME
      /\ said'.DOCTYPE_PUBLIC_ID = said.DOCTYPE_PUBLIC_ID
  <2>1. {"DOCTYPE_NAME", "DOCTYPE_PUBLIC_ID"} \subseteq Texts
    BY DEF Texts
  <2> QED  BY <1>3, <2>1, SaidOnce DEF SaidInv
<1>6. tempPool \o This = This /\ This \in Seq(Nat) /\ This # NULL
  BY <1>3, PoolUnused, Joined DEF This, NULL, Declares
<1>7. UNCHANGED <<doctypeName, doctypePubid>>
  BY <1>1 DEF DoctypeSystemId
<1>8. Hears("doctype") => doctypeSysid' = This
  BY <1>1, <1>6 DEF DoctypeSystemId
<1>9. (Hears("doctype"))' = Hears("doctype")
  BY <1>1 DEF Hears
<1>10. Subsetted'
  <2>1. keepProcessing /\ declEntity \in {NoEntity, External0}
    BY <1>3 DEF ProcessingInv, DeclEntityInv, Early
  <2> DEFINE made == IF declEntity = NoEntity
                     THEN [Subset0 EXCEPT !.publicId = NULL] ELSE param["#"]
  <2>2. made \in Whole
    <3>1. Subset0 \in Whole /\ NULL \in Seq(Nat)
      BY SubsetWhole, Pieces DEF Declares
    <3>2. CASE declEntity = NoEntity
      BY <3>1, <3>2 DEF Whole
    <3>3. CASE declEntity # NoEntity
      BY <2>1, <3>3 DEF TablesInv, Declared, External0
    <3> QED  BY <3>2, <3>3
  <2>3. param' = [param EXCEPT !["#"] = [made EXCEPT !.systemId = This]]
    BY <1>1, <2>1 DEF DoctypeSystemId, Stops
  <2> HIDE DEF made
  <2>4. /\ [made EXCEPT !.systemId = This].declared
        /\ [made EXCEPT !.systemId = This].systemId = This
    BY <2>2 DEF Whole
  <2> QED  BY <1>6, <2>3, <2>4 DEF Subsetted, TablesInv
<1>11. doctypeSysid' # NULL => param'["#"].declared /\ param'["#"].systemId # NULL
  BY <1>7, <1>10 DEF Subsetted
<1>12. documentEntity'
  BY <1>2 DEF RoleInv, DocumentHandlers
<1> QED  BY <1>3, <1>4, <1>5, <1>7, <1>8, <1>9, <1>11, <1>12 DEF DoctypeInv, D!Kinds

\* The way into the subset.
LEMMA InSubset ==
  ASSUME RoleInv, RoleInv', documentEntity, documentEntity' = documentEntity,
         Moving, InTurn, role' # "DOCTYPE_INTERNAL_SUBSET",
         Place' \in D!Kinds \cup {"subset", "closing"}
  PROVE  Place \in D!Kinds \cup {"subset", "closing"}
<1>1. Place' \in D!Kinds => Place \in D!Kinds \cup {"subset"}
  <2>1. Place # "begin"
    BY DEF RoleInv, Handlers, DocumentHandlers, ExternalHandlers, EntityHandlers,
           NotationHandlers, AttlistHandlers, ElementHandlers, Place
  <2> QED  BY <2>1 DEF Moving, Opening, PartTold, Waited, Ended, Elsewhere, D!Kinds
<1>2. Place' = "subset" => handler' = "internalSubset"
  BY DEF Place, RoleInv, Handlers, DocumentHandlers, ExternalHandlers, EntityHandlers,
         NotationHandlers, AttlistHandlers, ElementHandlers
<1>3. Place' = "closing" => handler' = "doctype5"
  BY DEF Place, RoleInv, Handlers, DocumentHandlers, ExternalHandlers, EntityHandlers,
         NotationHandlers, AttlistHandlers, ElementHandlers
<1>4. ASSUME handler' \in {"internalSubset", "doctype5"}
      PROVE  Place \in D!Kinds \cup {"subset", "closing"}
  <2>1. handler \notin {"prolog0", "prolog1", "prolog2", "doctype0", "doctype1",
                       "doctype2", "doctype3", "doctype4", "error"}
    BY <1>4 DEF InTurn
  <2> QED  BY <2>1 DEF Place, RoleInv, Handlers, DocumentHandlers, ExternalHandlers,
         EntityHandlers, NotationHandlers, AttlistHandlers, ElementHandlers, D!Kinds
<1> QED  BY <1>1, <1>2, <1>3, <1>4

\* The name is given up with the internal subset.
LEMMA DoctypeOthersStep ==
  ASSUME RoleInv, RoleInv', TablesInv, ProcessingInv, DoctypeInv, SaidInv,
         documentEntity' = documentEntity, Declares, Moving, InTurn,
         role' \notin {"DOCTYPE_NAME", "DOCTYPE_PUBLIC_ID", "DOCTYPE_SYSTEM_ID"}
  PROVE  DoctypeInv'
<1>8. CASE ~documentEntity
  <2>1. role' \notin DoctypeRoles
    BY <1>8 DEF InTurn, RoleInv, DocumentHandlers, DoctypeRoles
  <2>2. UNCHANGED <<doctypeName, doctypeSysid, doctypePubid>>
    BY <2>1, DoctypeAlone DEF Declares
  <2>3. Place' \notin {"start", "prolog", "doctype"}
    BY <1>8, DoctypePlacesNext DEF RoleInv, DocumentHandlers
  <2> QED  BY <1>8, <2>2, <2>3 DEF DoctypeInv
<1> SUFFICES ASSUME documentEntity PROVE DoctypeInv'
  BY <1>8
<1>1. Handle /\ listened' = listened /\ number' = number + 1
  BY DEF Declares
<1>2. (Hears("doctype"))' = Hears("doctype")
  BY <1>1 DEF Hears
<1>3. /\ UNCHANGED <<doctypeSysid, doctypePubid>>
      /\ doctypeName' \in {doctypeName, NULL}
      /\ role' # "DOCTYPE_INTERNAL_SUBSET" => doctypeName' = doctypeName
      /\ role' = "DOCTYPE_INTERNAL_SUBSET" /\ Hears("doctype") => doctypeName' = NULL
  <2>1. CASE role' \notin DoctypeRoles
    BY <1>1, <2>1, DoctypeAlone DEF DoctypeRoles
  <2>2. CASE role' = "DOCTYPE_INTERNAL_SUBSET"
    BY <1>1, <2>2, Cases DEF InternalSubset
  <2>3. CASE role' = "DOCTYPE_CLOSE"
    BY <1>1, <2>3, Cases DEF DoctypeClose, KeepDoctype
  <2> QED  BY <2>1, <2>2, <2>3 DEF DoctypeRoles
<1>4. Place' \in {"start", "prolog"} => Place \in {"start", "prolog"}
  BY DoctypePlaces, DoctypePlacesNext DEF InTurn
<1>5. Place' = "doctype" /\ Hears("doctype") =>
          /\ doctypeName' = said'.DOCTYPE_NAME
          /\ doctypeSysid' = said'.DOCTYPE_SYSTEM_ID
          /\ doctypePubid' = said'.DOCTYPE_PUBLIC_ID
  <2> HAVE Place' = "doctype" /\ Hears("doctype")
  <2>1. role' # "DOCTYPE_INTERNAL_SUBSET"
    BY DoctypePlaces, DoctypePlacesNext DEF InTurn
  <2>2. {"DOCTYPE_NAME", "DOCTYPE_PUBLIC_ID", "DOCTYPE_SYSTEM_ID"} \subseteq Texts
    BY DEF Texts
  <2>3. handler \in {"prolog0", "prolog1", "doctype0", "doctype1", "doctype2",
                     "doctype3", "doctype4"}
    BY DoctypePlaces, DoctypePlacesNext DEF InTurn
  <2>4. number \in Nat /\ said \in [Texts -> Seq(Nat)]
    BY DEF TablesInv, SaidInv
  <2>5. CASE Place = "doctype"
    <3>1. ~Anew
      BY <2>5, Apart
    <3>2. /\ said'.DOCTYPE_NAME = said.DOCTYPE_NAME
          /\ said'.DOCTYPE_SYSTEM_ID = said.DOCTYPE_SYSTEM_ID
          /\ said'.DOCTYPE_PUBLIC_ID = said.DOCTYPE_PUBLIC_ID
      BY <2>2, <2>4, <3>1, SaidOnce
    <3> QED  BY <1>3, <2>1, <2>5, <3>2 DEF DoctypeInv
  <2>6. CASE Place \in {"start", "prolog"}
    <3>1. Anew
      BY <2>6, Apart
    <3>2. /\ said'.DOCTYPE_NAME = NULL /\ said'.DOCTYPE_SYSTEM_ID = NULL
          /\ said'.DOCTYPE_PUBLIC_ID = NULL
      BY <2>2, <2>4, <3>1, SaidOnce
    <3> QED  BY <1>3, <2>1, <2>6, <3>2 DEF DoctypeInv
  <2> QED  BY <2>3, <2>5, <2>6, DoctypePlaces
<1>6. Place' \in D!Kinds \cup {"subset", "closing"} \/ ~Hears("doctype") =>
          doctypeName' = NULL
  <2>1. CASE ~Hears("doctype")
    BY <1>3, <2>1 DEF DoctypeInv
  <2>2. CASE role' = "DOCTYPE_INTERNAL_SUBSET"
    BY <1>3, <2>1, <2>2
  <2>3. CASE /\ role' # "DOCTYPE_INTERNAL_SUBSET"
             /\ Place' \in D!Kinds \cup {"subset", "closing"}
    <3>1. Place \in D!Kinds \cup {"subset", "closing"}
      BY <2>3, InSubset
    <3> QED  BY <1>3, <2>3, <3>1 DEF DoctypeInv
  <2> QED  BY <2>1, <2>2, <2>3
<1>7. Subsetted => Subsetted'
  <2>1. CASE role' \in D!EntityParts
    BY <1>1, <2>1, SubsetStays
  <2>2. CASE role' \notin D!EntityParts
    <3>1. role' \notin Writing
      BY <2>2 DEF Writing, D!EntityParts, D!Names
    <3>2. CASE role' \notin Asking
      BY <1>1, <3>1, <3>2, QuietRoles, QuietCases DEF Subsetted
    <3>3. CASE role' \in Asking
      <4>1. number' \in Nat /\ keepProcessing \in BOOLEAN /\ standalone \in BOOLEAN
        BY <1>1 DEF TablesInv, ProcessingInv
      <4>2. FoundWhole
        BY <1>1, <3>3, <4>1, AskingCases, MayReadKeeps
      <4>3. param'["#"] = param["#"]
        BY <4>2, EntitiesAssumption DEF FoundWhole
      <4> QED  BY <4>3 DEF Subsetted
    <3> QED  BY <3>2, <3>3
  <2> QED  BY <2>1, <2>2
<1> QED  BY <1>2, <1>3, <1>4, <1>5, <1>6, <1>7 DEF DoctypeInv, Subsetted

-----------------------------------------------------------------------------
(* Notations and attributes *)

\* When the parts of a notation are told.
LEMMA NotationTime ==
  ASSUME PartTold, Place = "notation"
  PROVE  /\ role' \in D!NotationParts /\ told' = told \cup {role'}
         /\ role' = "NOTATION_NAME" => told = {}
         /\ role' = "NOTATION_PUBLIC_ID" => told = {"NOTATION_NAME"}
         /\ role' = "NOTATION_SYSTEM_ID" =>
               "NOTATION_NAME" \in told /\ "NOTATION_SYSTEM_ID" \notin told
<1> USE DEF D!MayTell, D!Has, D!Names, D!Types, D!Values, D!Defaults, D!Children,
            D!Closes
<1>1. D!MayTell("NOTATION_NAME") => told = {}
  OBVIOUS
<1>2. D!MayTell("NOTATION_PUBLIC_ID") => told = {"NOTATION_NAME"}
  OBVIOUS
<1>3. D!MayTell("NOTATION_SYSTEM_ID") =>
         "NOTATION_NAME" \in told /\ "NOTATION_SYSTEM_ID" \notin told
  OBVIOUS
<1>4. D!MayTell(role')
  BY DEF PartTold
<1> HIDE DEF D!MayTell, D!Has, D!Names, D!Types, D!Values, D!Defaults
<1>5. role' \in D!NotationParts
  BY DEF PartTold
<1>6. told' = told \cup {role'}
  BY PartOnce
<1> QED  BY <1>1, <1>2, <1>3, <1>4, <1>5, <1>6

\* What waits for the end of a notation.
LEMMA NotationStep ==
  ASSUME RoleInv, SaidInv, PoolInv, NotationInv, number \in Nat, Declares, Moving,
         code = "NONE", code' = "NONE", documentEntity' = documentEntity,
         keepProcessing' => keepProcessing
  PROVE  NotationInv'
<1> SUFFICES ASSUME Place' = "notation", "NOTATION_NAME" \in told', (Hears("notation"))',
                    documentEntity \/ keepProcessing
             PROVE  /\ declNotationName' = said'.NOTATION_NAME /\ declNotationName' # NULL
                    /\ declNotationPublicId' = said'.NOTATION_PUBLIC_ID
  BY DEF NotationInv
<1>1. Handle /\ Hears("notation")
  BY DEF Declares, Hears
<1>2. /\ said \in [Texts -> Seq(Nat)]
      /\ {"NOTATION_NAME", "NOTATION_PUBLIC_ID", "NOTATION_SYSTEM_ID"} \subseteq Texts
  BY DEF SaidInv, Texts
<1>3. (PartTold \/ Waited) /\ Place = "notation"
  <2>1. Opening \/ PartTold \/ Waited
    BY OpenDeclaration DEF D!Kinds
  <2>2. ~Opening
    BY DEF Opening
  <2>3. PartTold \/ Waited => Place = Place'
    BY DEF PartTold, Waited
  <2> QED  BY <2>1, <2>2, <2>3
<1>4. ~Anew /\ tempPool = NULL
  BY <1>3, Apart DEF PoolInv, PoolHolds, Listing
<1>5. CASE Waited
  <2>1. role' \in Nones \cup {"INNER_PARAM_ENTITY_REF"} /\ told' = told
    BY <1>5 DEF Waited
  <2>2. UNCHANGED <<declNotationName, declNotationPublicId>>
    <3>1. CASE role' \in Nones
      BY <1>1, <3>1, Cases DEF Caseless, Others, KeepNota
    <3>2. CASE role' = "INNER_PARAM_ENTITY_REF"
      BY <1>1, <3>2, Cases DEF References, ParamEntityRef, KeepNota
    <3> QED  BY <2>1, <3>1, <3>2
  <2>3. said'.NOTATION_NAME = said.NOTATION_NAME
        /\ said'.NOTATION_PUBLIC_ID = said.NOTATION_PUBLIC_ID
    BY <1>2, <1>4, <2>1, SaidOnce DEF Nones
  <2> QED  BY <1>1, <1>3, <2>1, <2>2, <2>3 DEF NotationInv
<1>6. CASE PartTold /\ role' = "NOTATION_NAME"
  <2>1. told = {}
    BY <1>3, <1>6, NotationTime
  <2>2. said.NOTATION_NAME = NULL /\ said.NOTATION_PUBLIC_ID = NULL
    BY <1>2, <1>3, <2>1 DEF SaidInv
  <2>3. said'.NOTATION_NAME = This /\ said'.NOTATION_PUBLIC_ID = NULL
    BY <1>2, <1>4, <1>6, <2>2, SaidOnce
  <2>4. declNotationName' = tempPool \o This /\ declNotationPublicId' = NULL
    BY <1>1, <1>6, Cases DEF NotationName
  <2>5. tempPool \o This = This /\ This # NULL
    BY <1>4, Joined DEF This, NULL, Declares
  <2> QED  BY <2>3, <2>4, <2>5
<1>7. CASE PartTold /\ role' = "NOTATION_PUBLIC_ID"
  <2>1. told = {"NOTATION_NAME"}
    BY <1>3, <1>7, NotationTime
  <2>2. said.NOTATION_PUBLIC_ID = NULL
    BY <1>2, <1>3, <2>1 DEF SaidInv
  <2>3. said'.NOTATION_NAME = said.NOTATION_NAME /\ said'.NOTATION_PUBLIC_ID = This
    BY <1>2, <1>4, <1>7, <2>2, SaidOnce
  <2>4. declNotationName = said.NOTATION_NAME /\ declNotationName # NULL
    BY <1>1, <1>3, <2>1 DEF NotationInv
  <2>5. declNotationName' = declNotationName /\ declNotationPublicId' = tempPool \o This
    BY <1>1, <1>7, <2>4, Cases DEF NotationPublicId, Stops
  <2>6. tempPool \o This = This
    BY <1>4, Joined DEF This, NULL, Declares
  <2> QED  BY <2>3, <2>4, <2>5, <2>6
<1>8. CASE PartTold /\ role' = "NOTATION_SYSTEM_ID"
  <2>1. "NOTATION_NAME" \in told
    BY <1>3, <1>8, NotationTime
  <2>2. said'.NOTATION_NAME = said.NOTATION_NAME
        /\ said'.NOTATION_PUBLIC_ID = said.NOTATION_PUBLIC_ID
    BY <1>2, <1>4, <1>8, SaidOnce
  <2>3. UNCHANGED <<declNotationName, declNotationPublicId>>
    BY <1>1, <1>8, Cases DEF NotationSystem, KeepNota
  <2> QED  BY <1>1, <1>3, <2>1, <2>2, <2>3 DEF NotationInv
<1>9. PartTold => role' \in D!NotationParts
  BY <1>3, NotationTime
<1> QED  BY <1>3, <1>5, <1>6, <1>7, <1>8, <1>9 DEF D!NotationParts

\* What waits for the default of an attribute.
LEMMA AttlistStep ==
  ASSUME RoleInv, SaidInv, PoolInv, AttlistInv, number \in Nat, Declares, Moving,
         keepProcessing' => keepProcessing
  PROVE  AttlistInv'
<1> SUFFICES ASSUME Place' = "attlist", "ATTRIBUTE_NAME" \in told', keepProcessing',
                    (Hears("attlist"))'
             PROVE  declAttributeType' = said'.ATTRIBUTE_TYPE
  BY DEF AttlistInv
<1>1. Handle /\ Hears("attlist") /\ keepProcessing
  BY DEF Declares, Hears
<1>2. said \in [Texts -> Seq(Nat)]
  BY DEF SaidInv
<1>3. (PartTold \/ Waited) /\ Place = "attlist"
  <2>1. Opening \/ PartTold \/ Waited
    BY OpenDeclaration DEF D!Kinds
  <2>2. ~Opening
    BY DEF Opening
  <2>3. PartTold \/ Waited => Place = Place'
    BY DEF PartTold, Waited
  <2> QED  BY <2>1, <2>2, <2>3
<1>4. PartTold => role' \in D!AttlistParts
  BY <1>3 DEF PartTold
<1>5. ~Anew
  BY <1>3, Apart
<1>6. CASE Waited
  <2>1. role' \in Nones \cup {"INNER_PARAM_ENTITY_REF"} /\ told' = told
    BY <1>6 DEF Waited
  <2>2. declAttributeType' = declAttributeType
    <3>1. CASE role' \in Nones
      BY <1>1, <3>1, Cases DEF Caseless, Others, KeepAtt
    <3>2. CASE role' = "INNER_PARAM_ENTITY_REF"
      BY <1>1, <3>2, Cases DEF References, ParamEntityRef, KeepAtt
    <3> QED  BY <2>1, <3>1, <3>2
  <2>3. said'.ATTRIBUTE_TYPE = said.ATTRIBUTE_TYPE
    BY <1>2, <1>5, <2>1, SaidOften DEF Nones, D!Types, D!Values
  <2> QED  BY <1>1, <1>3, <2>1, <2>2, <2>3 DEF AttlistInv
<1>7. CASE PartTold /\ role' = "ATTRIBUTE_NAME"
  <2>1. declAttributeType' = NULL
    BY <1>1, <1>7, Cases DEF AttributeName
  <2> QED  BY <1>2, <1>7, <2>1, SaidOften
<1>8. CASE PartTold /\ role' \in D!Types
  <2>1. told = {"ATTLIST_ELEMENT_NAME", "ATTRIBUTE_NAME"}
    BY <1>4, <1>8, AttlistTime
  <2>2. said.ATTRIBUTE_TYPE = NULL
    BY <1>3, <2>1 DEF SaidInv, D!Types, D!Values
  <2>3. said'.ATTRIBUTE_TYPE = said.ATTRIBUTE_TYPE \o This
    BY <1>2, <1>5, <1>8, SaidOften
  <2>4. declAttributeType' = This
    BY <1>1, <1>8, Cases DEF AttributeType
  <2>5. NULL \o This = This
    BY Joined DEF This, NULL, Declares
  <2> QED  BY <2>2, <2>3, <2>4, <2>5
<1>9. CASE PartTold /\ role' \in D!Values
  <2>1. "ATTRIBUTE_NAME" \in told /\ told \cap D!Types = {}
    BY <1>4, <1>9, AttlistTime
  <2>3. tempPool = said.ATTRIBUTE_TYPE
    <3>1. CASE told \cap D!Values # {}
      BY <1>1, <1>3, <3>1 DEF PoolInv, PoolHolds, Listing
    <3>2. CASE told \cap D!Values = {}
      <4>1. said.ATTRIBUTE_TYPE = NULL
        BY <1>3, <2>1, <3>2 DEF SaidInv
      <4> QED  BY <1>1, <3>2, <4>1 DEF PoolInv, PoolHolds, Listing
    <3> QED  BY <3>1, <3>2
  <2>4. said'.ATTRIBUTE_TYPE = said.ATTRIBUTE_TYPE \o This
    BY <1>2, <1>5, <1>9, SaidOften
  <2>5. declAttributeType' = tempPool \o This
    BY <1>1, <1>9, Cases DEF AttributeValue
  <2> QED  BY <2>3, <2>4, <2>5
<1>10. CASE PartTold /\ role' \in D!Defaults
  BY <1>10, PartOnce
<1>11. CASE PartTold /\ role' = "ATTLIST_ELEMENT_NAME"
  <2>1. told = {} /\ told' = told \cup {role'}
    BY <1>4, <1>11, AttlistTime, Told DEF PartTold, Noted
  <2> QED  BY <1>11, <2>1
<1> QED  BY <1>3, <1>4, <1>6, <1>7, <1>8, <1>9, <1>10, <1>11 DEF D!AttlistParts

-----------------------------------------------------------------------------
(* Entities *)

\* What a part of an entity is assigned to, if the entity is recorded.
With(r) ==
    CASE r = "ENTITY_VALUE"         -> [Declared EXCEPT !.text = This]
      [] r = "ENTITY_PUBLIC_ID"     -> [Declared EXCEPT !.publicId = This]
      [] r = "ENTITY_SYSTEM_ID"     -> [Declared EXCEPT !.systemId = This]
      [] r = "ENTITY_NOTATION_NAME" -> [Declared EXCEPT !.notation = This]

\* While declarations count every part of the entity is stored.
LEMMA EntityStored ==
  ASSUME TablesInv, Handle, number' = number + 1, keepProcessing,
         code = "NONE", code' = "NONE",
         role' \in D!EntityParts \ D!Names, declEntity # NoEntity
  PROVE  /\ Declared \in Whole /\ With(role') \in Whole
         /\ Assign(With(role'))
<1>2. Recording
  BY DEF Recording
<1>3. This \in Seq(Nat)
  BY Pieces DEF TablesInv
<1>4. Declared \in Whole
  BY DEF TablesInv
<1>5. CASE role' = "ENTITY_VALUE"
  BY <1>2, <1>3, <1>4, <1>5, WritingRoles DEF EntityValue, With, Whole
<1>6. CASE role' = "ENTITY_PUBLIC_ID"
  BY <1>2, <1>3, <1>4, <1>6, WritingRoles DEF EntityPublicId, With, Whole, Stops
<1>7. CASE role' = "ENTITY_SYSTEM_ID"
  BY <1>2, <1>3, <1>4, <1>7, WritingRoles DEF EntitySystemId, With, Whole
<1>8. CASE role' = "ENTITY_NOTATION_NAME"
  BY <1>2, <1>3, <1>4, <1>8, WritingRoles DEF EntityNotationName, With, Whole
<1> QED  BY <1>5, <1>6, <1>7, <1>8 DEF D!EntityParts

\* If it is not, none is.
LEMMA EntityIgnored ==
  ASSUME Handle, role' \in D!EntityParts \ D!Names, declEntity = NoEntity
  PROVE  UNCHANGED <<general, param, declEntity>>
BY WritingRoles
   DEF EntityValue, EntityPublicId, EntitySystemId, EntityNotationName, KeepTables,
       Recording, D!EntityParts

\* A name begins an entity that nothing is said of, or none.
LEMMA EntityBegun ==
  ASSUME TablesInv, Handle, role' \in D!Names, keepProcessing \in BOOLEAN
  PROVE  /\ keepProcessing' = keepProcessing
         /\ declEntity' # NoEntity => keepProcessing /\ Declared' = Fresh
         /\ \A n \in Entities :
               \/ param'[n] = param[n]
               \/ declEntity' = [table |-> "param", name |-> n]
<1>1. PICK n \in Entities, table \in {"general", "param"} : EntityName(table, n)
  BY WritingRoles DEF D!Names
<1>2. CASE declEntity' = NoEntity /\ UNCHANGED <<general, param>>
  BY <1>1, <1>2 DEF EntityName, KeepDtd
<1>3. CASE /\ declEntity' = [table |-> "general", name |-> n]
           /\ general' = [general EXCEPT ![n] = Fresh] /\ param' = param
           /\ keepProcessing
  BY <1>1, <1>3 DEF EntityName, KeepDtd, Declared, TablesInv
<1>4. CASE /\ declEntity' = [table |-> "param", name |-> n]
           /\ param' = [param EXCEPT ![n] = Fresh]
           /\ keepProcessing
  BY <1>1, <1>4 DEF EntityName, KeepDtd, Declared, TablesInv
<1> QED  BY <1>1, <1>2, <1>3, <1>4 DEF EntityName

\* What is said of an entity is what the step told of it.
LEMMA EntitySaid ==
  ASSUME SaidInv, RoleInv, number \in Nat, Declares, Place = "entity",
         role' \notin told, role' \notin D!AttlistParts
  PROVE  \A p \in {"ENTITY_VALUE", "ENTITY_PUBLIC_ID", "ENTITY_SYSTEM_ID",
                   "ENTITY_NOTATION_NAME"} :
            said'[p] = IF role' = p THEN This ELSE said[p]
<1> TAKE p \in {"ENTITY_VALUE", "ENTITY_PUBLIC_ID", "ENTITY_SYSTEM_ID",
                "ENTITY_NOTATION_NAME"}
<1>1. p \in Texts /\ p # "ATTRIBUTE_TYPE" /\ said \in [Texts -> Seq(Nat)]
  BY DEF SaidInv, Texts
<1>2. ~Anew
  BY Apart
<1>3. role' = p => said[p] = NULL
  BY <1>1 DEF SaidInv
<1> QED  BY <1>1, <1>2, <1>3, SaidOnce

\* What is recorded of an entity is what is said of it.
LEMMA EntityStep ==
  ASSUME RoleInv, TablesInv, DeclEntityInv, SaidInv, EntityInv, Declares, Moving,
         D!Next, keepProcessing \in BOOLEAN, standalone \in BOOLEAN,
         code = "NONE", code' = "NONE", keepProcessing' => keepProcessing
  PROVE  EntityInv'
<1> SUFFICES ASSUME Place' = "entity", told' \cap D!Names # {}, declEntity' # NoEntity,
                    keepProcessing
             PROVE  /\ Declared'.text = said'.ENTITY_VALUE
                    /\ Declared'.publicId = said'.ENTITY_PUBLIC_ID
                    /\ Declared'.systemId = said'.ENTITY_SYSTEM_ID
                    /\ Declared'.notation = said'.ENTITY_NOTATION_NAME
  BY DEF EntityInv
<1>1. Handle /\ number' = number + 1 /\ number \in Nat
  BY DEF Declares, TablesInv
<1>2. (PartTold \/ Waited) /\ Place = "entity"
  <2>1. Opening \/ PartTold \/ Waited
    BY OpenDeclaration DEF D!Kinds
  <2>2. ~Opening
    BY DEF Opening
  <2>3. PartTold \/ Waited => Place = Place'
    BY DEF PartTold, Waited
  <2> QED  BY <2>1, <2>2, <2>3
<1>3. CASE Waited
  <2>1. role' \in Nones \cup {"INNER_PARAM_ENTITY_REF"} /\ told' = told
    BY <1>3 DEF Waited
  <2>2. declEntity' = declEntity /\ Declared' = Declared
    <3>1. CASE role' \in Nones
      <4>1. UNCHANGED <<declEntity, general, param>>
        BY <1>1, <3>1, Cases DEF Caseless, Others, KeepTables
      <4> QED  BY <4>1 DEF Declared
    <3>2. CASE role' = "INNER_PARAM_ENTITY_REF"
      <4>1. MayRead /\ number' \in Nat
        BY <1>1, <3>2, AskingCases DEF Asking, References
      <4> QED  BY <4>1, MayReadKeeps
    <3> QED  BY <2>1, <3>1, <3>2
  <2>4. \A p \in {"ENTITY_VALUE", "ENTITY_PUBLIC_ID", "ENTITY_SYSTEM_ID",
                  "ENTITY_NOTATION_NAME"} : said'[p] = said[p]
    <3>1. ~Anew
      BY <1>2, Apart
    <3> QED  BY <1>1, <2>1, <3>1, SaidOnce DEF Nones, Texts, SaidInv
  <2> QED  BY <1>2, <2>1, <2>2, <2>4 DEF EntityInv
<1>4. CASE PartTold
  <2>1. role' \in D!EntityParts /\ told' = told \cup {role'}
    BY <1>2, <1>4, PartOnce DEF PartTold
  <2>2. role' \notin told /\ role' \notin D!AttlistParts
    <3>1. role' \notin told
      <4>1. CASE role' \in D!Names
        BY <4>1, <2>1, EntityTime
      <4>2. CASE role' \notin D!Names
        <5>1. role' \in D!EntityParts \ D!Names
          BY <2>1, <4>2
        <5>2. "ENTITY_VALUE" \notin told
          BY <5>1, PartsUntold
        <5>3. role' # "ENTITY_NOTATION_NAME" => "ENTITY_SYSTEM_ID" \notin told
          BY <5>1, PartsUntold
        <5>4. role' = "ENTITY_PUBLIC_ID" => "ENTITY_PUBLIC_ID" \notin told
          BY <2>1, EntityTime DEF D!Names
        <5>5. role' = "ENTITY_NOTATION_NAME" => "ENTITY_NOTATION_NAME" \notin told
          BY <2>1, EntityTime
        <5> QED  BY <5>1, <5>2, <5>3, <5>4, <5>5 DEF D!EntityParts
      <4> QED  BY <4>1, <4>2
    <3> QED  BY <2>1, <3>1, Disjoint
  <2>3. \A p \in {"ENTITY_VALUE", "ENTITY_PUBLIC_ID", "ENTITY_SYSTEM_ID",
                  "ENTITY_NOTATION_NAME"} :
           said'[p] = IF role' = p THEN This ELSE said[p]
    BY <1>1, <1>2, <2>2, EntitySaid
  <2>4. CASE role' \in D!Names
    <3>1. told = {}
      BY <2>1, <2>4, EntityTime
    <3>2. \A p \in {"ENTITY_VALUE", "ENTITY_PUBLIC_ID", "ENTITY_SYSTEM_ID",
                    "ENTITY_NOTATION_NAME"} : said'[p] = NULL
      BY <1>2, <2>3, <2>4, <3>1 DEF SaidInv, Texts, D!Names
    <3>3. Declared' = Fresh
      BY <1>1, <2>4, EntityBegun
    <3> QED  BY <3>2, <3>3 DEF Fresh
  <2>5. CASE role' \in D!EntityParts \ D!Names
    <3>1. UNCHANGED declEntity /\ declEntity # NoEntity
      <4>1. CASE declEntity = NoEntity
        BY <1>1, <2>5, <4>1, EntityIgnored
      <4>2. CASE declEntity # NoEntity
        BY <1>1, <2>5, <4>2, EntityStored DEF Assign
      <4> QED  BY <4>1, <4>2
    <3>2. Declared \in Whole /\ With(role') \in Whole /\ Assign(With(role'))
      BY <1>1, <2>5, <3>1, EntityStored
    <3>3. Declared' = With(role')
      <4> DEFINE e == With(role')
      <4>1. e \in Whole /\ Assign(e) /\ number' \in Nat
        BY <1>1, <3>2
      <4> HIDE DEF e
      <4>2. Declared' = e
        BY <3>1, <4>1, Assigning
      <4> QED  BY <4>2 DEF e
    <3>4. /\ Declared.text = said.ENTITY_VALUE
          /\ Declared.publicId = said.ENTITY_PUBLIC_ID
          /\ Declared.systemId = said.ENTITY_SYSTEM_ID
          /\ Declared.notation = said.ENTITY_NOTATION_NAME
      <4>1. told \cap D!Names # {}
        BY <2>5, EntityTime DEF D!EntityParts, D!Names
      <4> QED  BY <1>2, <3>1, <4>1 DEF EntityInv
    <3>6. CASE role' = "ENTITY_VALUE"
      BY <2>3, <3>2, <3>3, <3>4, <3>6 DEF With, Whole
    <3>7. CASE role' = "ENTITY_PUBLIC_ID"
      BY <2>3, <3>2, <3>3, <3>4, <3>7 DEF With, Whole
    <3>8. CASE role' = "ENTITY_SYSTEM_ID"
      BY <2>3, <3>2, <3>3, <3>4, <3>8 DEF With, Whole
    <3>9. CASE role' = "ENTITY_NOTATION_NAME"
      BY <2>3, <3>2, <3>3, <3>4, <3>9 DEF With, Whole
    <3> QED  BY <2>5, <3>6, <3>7, <3>8, <3>9 DEF D!EntityParts
  <2> QED  BY <2>1, <2>4, <2>5
<1> QED  BY <1>2, <1>3, <1>4

\* No entity but the one being declared is without text and identifier.
LEMMA EntitiesStep ==
  ASSUME RoleInv, TablesInv, DeclEntityInv, EntityInv, EntitiesInv, Declares, Moving,
         D!Next, Aside, documentEntity' = documentEntity,
         keepProcessing \in BOOLEAN, standalone \in BOOLEAN,
         keepProcessing' => keepProcessing, code = "NONE", code' = "NONE"
  PROVE  EntitiesInv'
<1> SUFFICES ASSUME documentEntity, keepProcessing', NEW n \in Entities,
                    param'[n].declared,
                    param'[n].text = NULL, param'[n].systemId = NULL
             PROVE  /\ Place' = "entity" /\ told' \cap D!Names # {}
                    /\ told' \cap {"ENTITY_VALUE", "ENTITY_SYSTEM_ID",
                                   "ENTITY_NOTATION_NAME"} = {}
                    /\ declEntity' = [table |-> "param", name |-> n]
  BY DEF EntitiesInv, Blank0
<1>1. Handle /\ number' = number + 1 /\ This \in Seq(Nat) /\ This # NULL
  BY Pieces DEF Declares, TablesInv, This, NULL
<1>2. param[n].declared /\ param[n].text = NULL /\ param[n].systemId = NULL =>
          /\ Place = "entity" /\ told \cap D!Names # {}
          /\ told \cap {"ENTITY_VALUE", "ENTITY_SYSTEM_ID", "ENTITY_NOTATION_NAME"} = {}
          /\ declEntity = [table |-> "param", name |-> n]
  BY DEF EntitiesInv, Blank0
<1>3. CASE role' \in D!Names
  <2>1. Place' = "entity" /\ told = {} /\ told' = {role'}
    BY <1>3, EntityPart, EntityTime DEF D!EntityParts
  <2>2. declEntity' = [table |-> "param", name |-> n]
    <3>1. param'[n] # param[n]
      BY <1>2, <2>1
    <3> QED  BY <1>1, <1>3, <3>1, EntityBegun
  <2> QED  BY <1>3, <2>1, <2>2 DEF D!Names
<1>4. CASE role' \in D!EntityParts \ D!Names
  <2>1. Place' = "entity" /\ told' = told \cup {role'}
    BY <1>4, EntityPart
  <2>2. declEntity = [table |-> "param", name |-> n]
    <3>1. ASSUME declEntity # [table |-> "param", name |-> n]
          PROVE  param'[n] = param[n]
      <4>1. CASE declEntity = NoEntity
        BY <1>1, <1>4, <4>1, EntityIgnored
      <4>2. CASE declEntity # NoEntity
        <5> DEFINE e == With(role')
        <5>1. Assign(e)
          BY <1>1, <1>4, <4>2, EntityStored
        <5> HIDE DEF e
        <5> QED  BY <3>1, <4>2, <5>1 DEF Assign, TablesInv
      <4> QED  BY <4>1, <4>2
    <3> QED  BY <1>2, <3>1
  <2>3. declEntity # NoEntity
    BY <2>2 DEF NoEntity
  <2>4. Declared \in Whole /\ Assign(With(role'))
    BY <1>1, <1>4, <2>3, EntityStored
  <2>5. Declared = param[n]
    BY <2>2 DEF Declared
  <2>6. declEntity' = declEntity /\ param'[n] = With(role')
    <3> DEFINE e == With(role')
    <3>1. Assign(e)
      BY <2>4
    <3> HIDE DEF e
    <3>2. declEntity' = declEntity /\ param'[n] = e
      BY <2>2, <3>1 DEF Assign, TablesInv
    <3> QED  BY <3>2 DEF e
  <2>7. role' # "ENTITY_VALUE"
    BY <1>1, <2>4, <2>6 DEF With, Whole
  <2>8. role' # "ENTITY_SYSTEM_ID"
    BY <1>1, <2>4, <2>6 DEF With, Whole
  <2>9. role' # "ENTITY_NOTATION_NAME"
    <3> SUFFICES ASSUME role' = "ENTITY_NOTATION_NAME" PROVE FALSE
      OBVIOUS
    <3>1. param[n].declared /\ param[n].text = NULL /\ param[n].systemId = NULL
      BY <2>4, <2>5, <2>6 DEF With, Whole
    <3>2. "ENTITY_SYSTEM_ID" \in told
      BY <1>4, EntityTime
    <3> QED  BY <1>2, <3>1, <3>2
  <2>10. role' = "ENTITY_PUBLIC_ID"
    BY <1>4, <2>7, <2>8, <2>9 DEF D!EntityParts
  <2>11. told \cap D!Names # {} /\ told \subseteq D!Names
    BY <1>4, <2>10, EntityTime
  <2> QED  BY <2>1, <2>2, <2>6, <2>10, <2>11 DEF D!Names
<1>5. CASE role' \notin D!EntityParts
  <2>1. param'[n] = param[n]
    <3>1. CASE role' \notin Writing \cup Asking
      BY <1>1, <3>1, QuietRoles, QuietCases
    <3>4. CASE role' \in Asking
      <4>1. MayRead /\ number' \in Nat
        BY <1>1, <3>4, AskingCases DEF TablesInv
      <4>2. FoundWhole
        BY <4>1, MayReadKeeps
      <4>3. param'[n] \notin {Absent} \cup Foreign(FALSE)
        <5>1. ~Absent.declared
          BY DEF Absent
        <5>2. \A e \in Foreign(FALSE) : e.text # NULL \/ e.systemId # NULL
          <6>1. [Fresh EXCEPT !.text = <<0>>].text # NULL
            BY DEF Fresh, NULL
          <6>2. [Fresh EXCEPT !.systemId = <<0>>].systemId # NULL
            BY DEF Fresh, NULL
          <6> QED  BY <6>1, <6>2 DEF Foreign
        <5> QED  BY <5>1, <5>2
      <4>4. (~keepProcessing') = FALSE
        OBVIOUS
      <4> QED  BY <4>2, <4>3, <4>4 DEF FoundWhole
    <3>2. CASE role' = "DOCTYPE_PUBLIC_ID"
      BY <1>1, <3>2, WritingRoles, EntitiesAssumption DEF DoctypePublicId, TablesInv
    <3>3. CASE role' = "DOCTYPE_SYSTEM_ID"
      <4>1. \/ param' = param
            \/ \E e : param' = [param EXCEPT !["#"] = e]
        BY <1>1, <3>3, WritingRoles DEF DoctypeSystemId
      <4> QED  BY <4>1, EntitiesAssumption DEF TablesInv
    <3> QED  BY <1>5, <3>1, <3>2, <3>3, <3>4 DEF Writing, D!EntityParts, D!Names
  <2>2. /\ Place = "entity" /\ told \cap D!Names # {}
        /\ told \cap {"ENTITY_VALUE", "ENTITY_SYSTEM_ID", "ENTITY_NOTATION_NAME"} = {}
        /\ declEntity = [table |-> "param", name |-> n]
    BY <1>2, <2>1
  <2>3. Waited
    <3>1. ~Opening
      BY <2>2 DEF Opening
    <3>2. ~PartTold
      BY <1>5, <2>2 DEF PartTold
    <3>3. ~Elsewhere
      BY <2>2 DEF Elsewhere, D!Kinds
    <3>4. ~D!Complete
      BY <2>2 DEF D!Complete, D!Has
    <3>5. ~Ended
      BY <2>2, <3>4 DEF Ended
    <3> QED  BY <3>1, <3>2, <3>3, <3>5 DEF Moving
  <2>4. role' \notin Writing \cup Asking /\ Place' = Place /\ told' = told
    BY <2>3 DEF Waited, Nones, Writing, Asking, References, Aside
  <2>5. declEntity' = declEntity
    BY <1>1, <2>4, QuietRoles, QuietCases
  <2> QED  BY <2>2, <2>4, <2>5
<1> QED  BY <1>3, <1>4, <1>5

-----------------------------------------------------------------------------
(* The events *)

\* Silence spells nothing.
LEMMA SilenceSpelled ==
  ASSUME event' = Silence
  PROVE  EventsAsSpelled'
BY DEF EventsAsSpelled, StartsAsSpelled, Silence

\* Comments and processing instructions.
LEMMA CommentSpelled ==
  ASSUME Declares, Moving, PoolInv, TablesInv, role' \in {"COMMENT", "PI"},
         documentEntity' = documentEntity, keepProcessing' => keepProcessing
  PROVE  EventsAsSpelled'
<1>1. Comment
  BY Cases DEF Declares
<1>2. CASE ~Hears("comment")
  BY <1>1, <1>2, SilenceSpelled DEF Comment, Goes
<1>3. CASE Hears("comment")
  <2>1. Elsewhere
    BY Placed
  <2>2. documentEntity \/ keepProcessing => tempPool = NULL
    BY <2>1 DEF PoolInv, PoolHolds, Listing, Elsewhere, D!Kinds
  <2>3. documentEntity \/ keepProcessing => tempPool \o This = <<number'>>
    BY <2>2, Joined, Pieces DEF Declares, TablesInv, This, NULL
  <2>4. event' = [type |-> "comment", data |-> tempPool \o This]
    BY <1>1, <1>3 DEF Comment, Goes
  <2>5. event'.type = "comment" /\ event'.data = tempPool \o This
    BY <2>4
  <2> QED  BY <2>3, <2>5 DEF EventsAsSpelled, StartsAsSpelled
<1> QED  BY <1>2, <1>3

\* A notation with a system identifier, and one without.
LEMMA NotationSpelled ==
  ASSUME RoleInv, Declares, Moving, SaidInv, PoolInv, NotationInv, number \in Nat,
         role' \in {"NOTATION_SYSTEM_ID", "NOTATION_NO_SYSTEM_ID"},
         documentEntity' = documentEntity, keepProcessing' => keepProcessing
  PROVE  EventsAsSpelled'
<1>1. Handle
  BY DEF Declares
<1>10. CASE ~documentEntity /\ ~keepProcessing'
  <2>1. NotationSystem \/ NotationNoSystem
    BY <1>1, Cases
  <2>2. event'.type \in {"none", "notation"}
    BY <2>1 DEF NotationSystem, NotationNoSystem, NotationEvent, Goes, Silence
  <2> QED  BY <1>10, <2>2 DEF EventsAsSpelled, StartsAsSpelled
<1> SUFFICES ASSUME documentEntity \/ keepProcessing
             PROVE  EventsAsSpelled'
  BY <1>10
<1>2. /\ said \in [Texts -> Seq(Nat)]
      /\ {"NOTATION_NAME", "NOTATION_PUBLIC_ID", "NOTATION_SYSTEM_ID"} \subseteq Texts
  BY DEF SaidInv, Texts
<1>3. Place = "notation" /\ "NOTATION_NAME" \in told /\ "NOTATION_SYSTEM_ID" \notin told
  <2>1. CASE role' = "NOTATION_SYSTEM_ID"
    <3>1. PartTold /\ Place = "notation"
      BY <2>1, Placed DEF D!NotationParts
    <3> QED  BY <2>1, <3>1, NotationTime
  <2>2. CASE role' = "NOTATION_NO_SYSTEM_ID"
    <3>1. Place = "notation" /\ told = {"NOTATION_NAME", "NOTATION_PUBLIC_ID"}
      BY <2>2, Placed
    <3> QED  BY <3>1
  <2> QED  BY <2>1, <2>2
<1>4. ~Anew /\ tempPool = NULL
  BY <1>3, Apart DEF PoolInv, PoolHolds, Listing
<1>5. /\ said'.NOTATION_NAME = said.NOTATION_NAME
      /\ said'.NOTATION_PUBLIC_ID = said.NOTATION_PUBLIC_ID
  BY <1>2, <1>4, SaidOnce
<1>6. said.NOTATION_SYSTEM_ID = NULL
  BY <1>2, <1>3 DEF SaidInv
<1>7. Hears("notation") =>
         /\ declNotationName = said.NOTATION_NAME
         /\ declNotationPublicId = said.NOTATION_PUBLIC_ID
  BY <1>3 DEF NotationInv
<1>8. CASE role' = "NOTATION_SYSTEM_ID"
  <2>1. NotationSystem
    BY <1>1, <1>8, Cases
  <2>2. said'.NOTATION_SYSTEM_ID = This
    BY <1>2, <1>6, <1>8, SaidOnce
  <2>3. tempPool \o This = This
    BY <1>4, Joined DEF Declares, This, NULL
  <2>4. \/ event' = Silence
        \/ /\ Hears("notation")
           /\ event' = [type |-> "notation", name |-> declNotationName,
                        systemId |-> This, publicId |-> declNotationPublicId]
    BY <2>1, <2>3 DEF NotationSystem, NotationEvent, Goes
  <2> QED  BY <1>5, <1>7, <2>2, <2>4, SilenceSpelled
           DEF EventsAsSpelled, StartsAsSpelled
<1>9. CASE role' = "NOTATION_NO_SYSTEM_ID"
  <2>1. NotationNoSystem
    BY <1>1, <1>9, Cases
  <2>2. said'.NOTATION_SYSTEM_ID = NULL
    BY <1>2, <1>4, <1>6, <1>9, SaidOnce
  <2>3. \/ event' = Silence
        \/ /\ Hears("notation")
           /\ event' = [type |-> "notation", name |-> declNotationName,
                        systemId |-> NULL, publicId |-> declNotationPublicId]
    BY <2>1 DEF NotationNoSystem, NotationEvent, Goes
  <2> QED  BY <1>5, <1>7, <2>2, <2>3, SilenceSpelled
           DEF EventsAsSpelled, StartsAsSpelled
<1> QED  BY <1>8, <1>9

\* An entity: its value, its end, or its notation.
LEMMA EntitySpelled ==
  ASSUME RoleInv, TablesInv, DeclEntityInv, SaidInv, EntityInv, Declares, D!Next,
         Moving, InTurn, role' \in {"ENTITY_VALUE", "ENTITY_COMPLETE",
                                    "ENTITY_NOTATION_NAME"}
  PROVE  EventsAsSpelled'
<1> DEFINE Parts0 == {"ENTITY_VALUE", "ENTITY_PUBLIC_ID", "ENTITY_SYSTEM_ID",
                      "ENTITY_NOTATION_NAME"}
<1>1. Handle /\ number \in Nat
  BY DEF Declares, TablesInv
<1>2. Place = "entity" /\ told \cap D!Names # {} /\ role' \notin told
  <2>1. CASE role' = "ENTITY_COMPLETE"
    <3>1. Place = "entity"
      BY <2>1, Placed
    <3>2. handler \in {"entity5", "entity10"}
      BY <2>1 DEF InTurn
    <3>3. told \cap D!Names # {} /\ role' \notin told
      BY <2>1, <3>2 DEF RoleInv, EntityTold, D!Names
    <3> QED  BY <3>1, <3>3
  <2>2. CASE role' # "ENTITY_COMPLETE"
    BY <2>2, EntityPart, EntityTime DEF D!EntityParts, D!Names
  <2> QED  BY <2>1, <2>2
<1>3. \A p \in Parts0 : said'[p] = IF role' = p THEN This ELSE said[p]
  BY <1>1, <1>2, EntitySaid DEF D!AttlistParts, D!Types, D!Values, D!Defaults
<1>4. \A p \in Parts0 : p \notin told => said[p] = NULL
  BY <1>2 DEF SaidInv, Texts
<1>5. declEntity # NoEntity /\ keepProcessing =>
         /\ Declared.publicId = said.ENTITY_PUBLIC_ID
         /\ Declared.systemId = said.ENTITY_SYSTEM_ID
  BY <1>2 DEF EntityInv
<1> HIDE DEF Parts0
<1>6. CASE role' = "ENTITY_VALUE"
  <2>1. told \subseteq D!Names
    BY <1>6, EntityTime DEF D!EntityParts
  <2>2. /\ said'.ENTITY_VALUE = This /\ said'.ENTITY_PUBLIC_ID = NULL
        /\ said'.ENTITY_SYSTEM_ID = NULL /\ said'.ENTITY_NOTATION_NAME = NULL
    BY <1>3, <1>4, <1>6, <2>1 DEF Parts0, D!Names
  <2>3. \/ event' = Silence
        \/ event' = EntityEvent("entity", [Fresh EXCEPT !.text = This])
    BY <1>1, <1>6, WritingRoles DEF EntityValue, Goes
  <2>4. CASE event' = EntityEvent("entity", [Fresh EXCEPT !.text = This])
    <3>1. /\ event'.type = "entity" /\ event'.text = This /\ event'.systemId = NULL
          /\ event'.publicId = NULL /\ event'.notation = NULL
      BY <2>4 DEF EntityEvent, Fresh
    <3> QED  BY <2>2, <3>1 DEF EventsAsSpelled, StartsAsSpelled
  <2> QED  BY <2>3, <2>4, SilenceSpelled
<1>7. CASE role' = "ENTITY_COMPLETE"
  <2>1. "ENTITY_SYSTEM_ID" \in told /\ "ENTITY_NOTATION_NAME" \notin told
    BY <1>7, Placed
  <2>2. "ENTITY_VALUE" \notin told
    BY <1>2, <2>1 DEF DeclEntityInv
  <2>3. /\ said'.ENTITY_VALUE = NULL /\ said'.ENTITY_NOTATION_NAME = NULL
        /\ said'.ENTITY_PUBLIC_ID = said.ENTITY_PUBLIC_ID
        /\ said'.ENTITY_SYSTEM_ID = said.ENTITY_SYSTEM_ID
    BY <1>3, <1>4, <1>7, <2>1, <2>2 DEF Parts0
  <2>4. \/ event' = Silence
        \/ /\ declEntity # NoEntity /\ keepProcessing
           /\ event' = EntityEvent("entity", [Declared EXCEPT !.notation = NULL,
                                                              !.text = NULL])
    BY <1>1, <1>7, Cases DEF EntityComplete, Goes, Recording
  <2>5. CASE /\ declEntity # NoEntity /\ keepProcessing
             /\ event' = EntityEvent("entity", [Declared EXCEPT !.notation = NULL,
                                                                !.text = NULL])
    <3>1. Declared \in Whole
      BY <2>5 DEF TablesInv
    <3>2. /\ event'.type = "entity" /\ event'.text = NULL /\ event'.notation = NULL
          /\ event'.systemId = Declared.systemId /\ event'.publicId = Declared.publicId
      BY <2>5, <3>1 DEF EntityEvent, Whole
    <3> QED  BY <1>5, <2>3, <2>5, <3>2 DEF EventsAsSpelled, StartsAsSpelled
  <2> QED  BY <2>4, <2>5, SilenceSpelled
<1>8. CASE role' = "ENTITY_NOTATION_NAME"
  <2>1. "ENTITY_SYSTEM_ID" \in told /\ "ENTITY_VALUE" \notin told
    BY <1>8, EntityTime, PartsUntold DEF D!EntityParts, D!Names
  <2>2. /\ said'.ENTITY_VALUE = NULL /\ said'.ENTITY_NOTATION_NAME = This
        /\ said'.ENTITY_PUBLIC_ID = said.ENTITY_PUBLIC_ID
        /\ said'.ENTITY_SYSTEM_ID = said.ENTITY_SYSTEM_ID
    BY <1>3, <1>4, <1>8, <2>1 DEF Parts0
  <2> DEFINE parts == [Declared EXCEPT !.notation = This, !.text = NULL]
  <2>3. \/ event' = Silence
        \/ /\ declEntity # NoEntity /\ keepProcessing
           /\ \E type \in {"entity", "unparsed"} : event' = EntityEvent(type, parts)
    BY <1>1, <1>8, WritingRoles DEF EntityNotationName, Goes, Recording
  <2>4. ASSUME declEntity # NoEntity, keepProcessing, NEW type \in {"entity", "unparsed"},
               event' = EntityEvent(type, parts)
        PROVE  EventsAsSpelled'
    <3>1. Declared \in Whole
      BY <2>4 DEF TablesInv
    <3>2. /\ event'.type \in {"entity", "unparsed"}
          /\ event'.text = NULL /\ event'.notation = This
          /\ event'.systemId = Declared.systemId /\ event'.publicId = Declared.publicId
      BY <2>4, <3>1 DEF EntityEvent, Whole
    <3> QED  BY <1>5, <2>2, <2>4, <3>2 DEF EventsAsSpelled, StartsAsSpelled
  <2> QED  BY <2>3, <2>4, SilenceSpelled
<1> QED  BY <1>6, <1>7, <1>8

\* An attribute.
LEMMA AttlistSpelled ==
  ASSUME RoleInv, SaidInv, AttlistInv, Declares, Moving, number \in Nat,
         role' \in D!Defaults
  PROVE  EventsAsSpelled'
<1>1. AttributeDefault \/ BadDefault
  BY Cases DEF Declares
<1>2. PartTold /\ Place = "attlist" /\ role' \in D!AttlistParts
  BY Placed DEF D!AttlistParts
<1>3. told \cap (D!Types \cup D!Values) # {}
  BY <1>2, AttlistTime
<1>4. "ATTRIBUTE_NAME" \in told
  BY <1>2, <1>3 DEF SaidInv
<1>5. said'.ATTRIBUTE_TYPE = said.ATTRIBUTE_TYPE
  <2>1. ~Anew /\ said \in [Texts -> Seq(Nat)]
    BY <1>2, Apart DEF SaidInv
  <2>2. role' \notin D!Types \cup D!Values \cup {"ATTRIBUTE_NAME"}
    BY DEF D!Types, D!Values, D!Defaults
  <2> QED  BY <2>1, <2>2, SaidOften
<1>6. \/ event' = Silence
      \/ /\ keepProcessing /\ Hears("attlist")
         /\ event' = [type |-> "attlist", atype |-> declAttributeType]
  BY <1>1 DEF AttributeDefault, BadDefault, Goes, Stops
<1>7. CASE /\ keepProcessing /\ Hears("attlist")
           /\ event' = [type |-> "attlist", atype |-> declAttributeType]
  <2>1. declAttributeType = said.ATTRIBUTE_TYPE
    BY <1>2, <1>4, <1>7 DEF AttlistInv
  <2> QED  BY <1>5, <1>7, <2>1 DEF EventsAsSpelled, StartsAsSpelled
<1> QED  BY <1>6, <1>7, SilenceSpelled

\* The DOCTYPE, at its internal subset or at its end.
LEMMA DoctypeSpelled ==
  ASSUME RoleInv, SaidInv, DoctypeInv, Declares, InTurn, number \in Nat,
         role' \in {"DOCTYPE_INTERNAL_SUBSET", "DOCTYPE_CLOSE"}
  PROVE  EventsAsSpelled'
<1> DEFINE start(b) == [type |-> "startDoctype", name |-> doctypeName,
                        sysid |-> doctypeSysid, pubid |-> doctypePubid, internal |-> b]
<1>1. Handle /\ said \in [Texts -> Seq(Nat)]
      /\ {"DOCTYPE_NAME", "DOCTYPE_PUBLIC_ID", "DOCTYPE_SYSTEM_ID"} \subseteq Texts
  BY DEF Declares, SaidInv, Texts
<1>2. handler \in {"doctype1", "doctype4", "doctype5"}
      /\ (role' = "DOCTYPE_INTERNAL_SUBSET" => handler # "doctype5")
  BY DEF InTurn
<1>3. ASSUME handler # "doctype5", Hears("doctype")
      PROVE  /\ doctypeName = said'.DOCTYPE_NAME
             /\ doctypeSysid = said'.DOCTYPE_SYSTEM_ID
             /\ doctypePubid = said'.DOCTYPE_PUBLIC_ID
  <2>1. Place = "doctype"
    BY <1>2, <1>3, DoctypePlaces
  <2>2. ~Anew
    BY <2>1, Apart
  <2>3. /\ said'.DOCTYPE_NAME = said.DOCTYPE_NAME
        /\ said'.DOCTYPE_SYSTEM_ID = said.DOCTYPE_SYSTEM_ID
        /\ said'.DOCTYPE_PUBLIC_ID = said.DOCTYPE_PUBLIC_ID
    BY <1>1, <2>2, SaidOnce
  <2> QED  BY <1>3, <2>1, <2>3 DEF DoctypeInv
<1>4. CASE role' = "DOCTYPE_INTERNAL_SUBSET"
  <2>1. event' = Silence \/ (Hears("doctype") /\ event' = StartDoctype(TRUE))
    BY <1>1, <1>4, Cases DEF InternalSubset, Goes
  <2>2. CASE Hears("doctype") /\ event' = StartDoctype(TRUE)
    <3>1. /\ event'.type = "startDoctype" /\ event'.name = doctypeName
          /\ event'.sysid = doctypeSysid /\ event'.pubid = doctypePubid
      BY <2>2 DEF StartDoctype
    <3> QED  BY <1>2, <1>3, <1>4, <2>2, <3>1 DEF EventsAsSpelled, StartsAsSpelled
  <2> QED  BY <2>1, <2>2, SilenceSpelled
<1>5. CASE role' = "DOCTYPE_CLOSE"
  <2> DEFINE told0 == IF doctypeName # NULL THEN StartDoctype(FALSE) ELSE Silence
             asks  == doctypeSysid # NULL /\ paramEntityParsing /\ Hears("externalRef")
  <2>1. \/ event' = Silence
        \/ event' = [type |-> "endDoctype", start |-> told0, asked |-> asks,
                     subset |-> param["#"]]
    BY <1>1, <1>5, Cases DEF DoctypeClose, Goes, Stops
  <2>2. told0.type = "startDoctype" =>
           /\ told0.name = said'.DOCTYPE_NAME
           /\ told0.sysid = said'.DOCTYPE_SYSTEM_ID
           /\ told0.pubid = said'.DOCTYPE_PUBLIC_ID
    <3>1. CASE doctypeName = NULL
      BY <3>1 DEF Silence
    <3>2. CASE doctypeName # NULL
      <4>1. Hears("doctype") /\ Place # "closing"
        BY <3>2 DEF DoctypeInv
      <4>2. handler # "doctype5"
        BY <4>1, DoctypePlaces
      <4> QED  BY <1>3, <3>2, <4>1, <4>2 DEF StartDoctype
    <3> QED  BY <3>1, <3>2
  <2>3. asks => param["#"].systemId # NULL
    BY DEF DoctypeInv
  <2> HIDE DEF told0, asks
  <2>4. CASE event' = [type |-> "endDoctype", start |-> told0, asked |-> asks,
                       subset |-> param["#"]]
    BY <2>2, <2>3, <2>4 DEF EventsAsSpelled, StartsAsSpelled
  <2> QED  BY <2>1, <2>4, SilenceSpelled
<1> QED  BY <1>4, <1>5

\* A reference that is told has a system identifier, where it counts.
LEMMA ReferenceSpelled ==
  ASSUME EntitiesInv, Declares, Moving, Aside, documentEntity' = documentEntity,
         role' \in References
  PROVE  EventsAsSpelled'
<1>1. PICK n \in Entities : ParamEntityRef(n)
  BY Cases DEF Declares
<1>2. documentEntity => Place # "entity"
  BY Placed DEF Elsewhere, D!Kinds, Aside, References
<1>3. documentEntity /\ keepProcessing => ~Blank0(n)
  BY <1>2 DEF EntitiesInv
<1>4. \/ event' = Silence
      \/ event' = [type |-> "skipped", name |-> n]
      \/ /\ param[n].declared /\ param[n].text = NULL
         /\ event' = [type |-> "reference", systemId |-> param[n].systemId,
                      counted |-> keepProcessing]
  BY <1>1 DEF ParamEntityRef, ExternalRef, Goes, Stops
<1>5. CASE event' = [type |-> "skipped", name |-> n]
  BY <1>5 DEF EventsAsSpelled, StartsAsSpelled
<1>6. CASE /\ param[n].declared /\ param[n].text = NULL
           /\ event' = [type |-> "reference", systemId |-> param[n].systemId,
                        counted |-> keepProcessing]
  <2>1. documentEntity /\ keepProcessing => param[n].systemId # NULL
    BY <1>3, <1>6 DEF Blank0
  <2>2. /\ event'.type = "reference" /\ event'.systemId = param[n].systemId
        /\ event'.counted = keepProcessing
    BY <1>6
  <2> QED  BY <2>1, <2>2 DEF EventsAsSpelled, StartsAsSpelled
<1> QED  BY <1>4, <1>5, <1>6, SilenceSpelled

\* The other roles tell the application nothing here.
LEMMA OthersSilent ==
  ASSUME Declares, Moving,
         role' \notin {"COMMENT", "PI", "NOTATION_SYSTEM_ID", "NOTATION_NO_SYSTEM_ID",
                       "ENTITY_VALUE", "ENTITY_COMPLETE", "ENTITY_NOTATION_NAME",
                       "DOCTYPE_INTERNAL_SUBSET", "DOCTYPE_CLOSE"}
                       \cup References \cup D!Defaults
  PROVE  EventsAsSpelled'
<1> USE DEF Goes, Stops
<1>1. Handle
  BY DEF Declares
<1>2. CASE role' \in Caseless
  BY <1>1, <1>2, Cases, SilenceSpelled DEF Others
<1>3. CASE role' \in {"DOCTYPE_NAME", "DOCTYPE_PUBLIC_ID", "DOCTYPE_SYSTEM_ID"}
  BY <1>1, <1>3, Cases, WritingRoles, SilenceSpelled
     DEF DoctypeName, DoctypePublicId, DoctypeSystemId
<1>4. CASE role' \in D!Names
  BY <1>1, <1>4, WritingRoles, SilenceSpelled DEF EntityName, D!Names
<1>5. CASE role' \in {"ENTITY_PUBLIC_ID", "ENTITY_SYSTEM_ID"}
  BY <1>1, <1>5, WritingRoles, SilenceSpelled DEF EntityPublicId, EntitySystemId
<1>6. CASE role' = "ATTRIBUTE_NAME" \/ role' \in D!Types \/ role' \in D!Values
  BY <1>1, <1>6, Cases, SilenceSpelled
     DEF AttributeName, AttributeType, AttributeValue
<1>7. CASE role' \in {"NOTATION_NAME", "NOTATION_PUBLIC_ID"}
  BY <1>1, <1>7, Cases, SilenceSpelled DEF NotationName, NotationPublicId
<1> QED  BY <1>2, <1>3, <1>4, <1>5, <1>6, <1>7, RolesAre
         DEF D!EntityParts, D!NotationParts, DoctypeRoles

-----------------------------------------------------------------------------
(* The document type declaration as a whole *)

\* A new parser satisfies the invariant.
LEMMA DoctypeInit == DInit => DInv /\ D!Init
<1> SUFFICES ASSUME DInit PROVE DInv /\ D!Init
  OBVIOUS
<1>1. /\ setup.external \subseteq BOOLEAN /\ setup.standalone \subseteq BOOLEAN
      /\ setup.followed \in BOOLEAN
  BY SetupsAssumption DEF DInit
<1>2. /\ documentEntity \in BOOLEAN /\ standalone \in BOOLEAN
      /\ handler = IF documentEntity THEN "prolog0" ELSE "externalSubset0"
      /\ level \in Nat /\ includeLevel = 0 /\ role = "NONE" /\ told = {}
  <2>1. level \in Nat
    BY BoundsAssumption DEF DInit, Init
  <2> QED  BY <1>1, <2>1 DEF DInit
<1>3. D!Init
  BY <1>2 DEF D!Init, Place, Depth
<1>4. EntityTold /\ NotationTold /\ AttlistTold /\ ElementTold /\ DeclCloseTold
  BY <1>2 DEF EntityTold, NotationTold, AttlistTold, ElementTold, DeclCloseTold
<1>5. RoleInv
  BY <1>2, <1>4 DEF RoleInv, Handlers, DocumentHandlers, ExternalHandlers
<1>6. TablesInv
  <2> DEFINE news  == {Absent} \cup Foreign(TRUE)
             none0 == [n \in Entities |-> Absent]
             none1 == [n \in Entities \cup {"#"} |-> Absent]
  <2>1. PICK g, p \in [Shared -> news] :
               /\ general = AddedTo(none0, Shared \ Predefined, g)
               /\ param = AddedTo(none1, Shared, p)
    BY DEF DInit, PrologInit
  <2>2. /\ none0 \in [Entities -> {Absent} \cup Whole]
        /\ none1 \in [Entities \cup {"#"} -> {Absent} \cup Whole]
    OBVIOUS
  <2>3. /\ general \in [Entities -> {Absent} \cup Whole]
        /\ param \in [Entities \cup {"#"} -> {Absent} \cup Whole]
    <3> HIDE DEF none0, none1
    <3>1. Shared \ Predefined \subseteq Shared /\ Shared \subseteq Shared
      OBVIOUS
    <3>2. Added(none0, Entities, Shared \ Predefined, TRUE, general)
      BY <2>1, <2>2, <3>1, Adding
    <3>3. Added(none1, Entities \cup {"#"}, Shared, TRUE, param)
      BY <2>1, <2>2, <3>1, Adding
    <3> QED  BY <3>2, <3>3 DEF Added
  <2>4. declEntity = NoEntity /\ number \in Nat
    BY DEF DInit, PrologInit
  <2> QED  BY <2>3, <2>4 DEF TablesInv
<1>7. ProcessingInv /\ DeclEntityInv
  <2>1. /\ keepProcessing \in BOOLEAN /\ declEntity = NoEntity /\ event = Silence
        /\ documentEntity => keepProcessing
        /\ ~keepProcessing => ~standalone
    BY <1>2 DEF DInit, PrologInit
  <2>2. ~documentEntity => Place = "begin"
    BY <1>2 DEF Place
  <2>3. told \cap D!Names = {}
    BY <1>2
  <2> QED  BY <1>2, <2>1, <2>2, <2>3 DEF ProcessingInv, DeclEntityInv, Early
<1>8. ElementInv
  BY DEF DInit, ModelInit, ElementInv
<1> QED  BY <1>3, <1>5, <1>6, <1>7, <1>8 DEF DInit, DInv

\* A round of the loop keeps it, and treats the entities as EntitiesKept says.
LEMMA RoundStep ==
  ASSUME DInv, NEW t \in setup.offered, Round(t)
  PROVE  DInv' /\ EntitiesKept /\ D!Next /\ Aside
<1>1. t \in Tokens
  BY SetupsAssumption DEF DInv
<1>2. RoleInv' /\ D!Next /\ Aside
  BY <1>1, RoleStep DEF DInv, Round
<1>3. /\ number' = number + 1 /\ standalone' = standalone /\ setup' = setup
      /\ setup.followed /\ Handle /\ (Records(t) \/ RecordedElsewhere(t)) /\ ~failed
  BY DEF Round, Declares, Going
<1>4. /\ EntitiesKept /\ DeclEntityInv'
      /\ role' \notin Asking \cup {"ENTITY_VALUE"} =>
            keepProcessing' = keepProcessing
  BY <1>2, <1>3, HandleStep DEF DInv
<1>5. ProcessingInv'
  BY <1>2, <1>3, <1>4, ProcessingStep DEF DInv, EntitiesKept, RoleInv
<1>6. ElementInv'
  BY <1>2, <1>3, ElementStep DEF DInv
<1> QED  BY <1>2, <1>3, <1>4, <1>5, <1>6 DEF DInv, EntitiesKept

\* So does the machine alone: nothing is recorded then.
LEMMA MachineStep ==
  ASSUME DInv, NEW t \in setup.offered, MachineAlone(t)
  PROVE  DInv' /\ EntitiesKept /\ D!Next /\ Aside
<1>1. t \in Tokens
  BY SetupsAssumption DEF DInv
<1>2. RoleInv' /\ D!Next /\ Aside
  BY <1>1, RoleStep DEF DInv, MachineAlone
<1>3. ~setup.followed /\ UNCHANGED <<prologVars, modelVars, setup>>
  BY DEF MachineAlone
<1>4. UNCHANGED <<general, param, declEntity, keepProcessing, standalone, number>>
  BY <1>3 DEF prologVars
<1>5. declEntity = NoEntity /\ ~in_eldecl /\ event' = Silence
      /\ (documentEntity => keepProcessing)
  BY <1>3 DEF DInv, ProcessingInv, DeclEntityInv, ElementInv, prologVars
<1>6. TablesInv' /\ EntitiesKept
  <2>1. TablesInv /\ number' \in Nat
    BY <1>4 DEF DInv, TablesInv
  <2> QED  BY <1>4, <1>5, <2>1, TablesKept DEF EntitiesKept, Silence
<1>7. ProcessingInv'
  <2>1. documentEntity' = documentEntity
    BY DEF MachineAlone, XmlTokenRole
  <2> QED  BY <1>2, <1>3, <1>4, <1>5, <2>1 DEF DInv, ProcessingInv, Aside, Early
<1>8. DeclEntityInv'
  <2>1. Place' = "entity" /\ told' \cap D!Names # {} =>
           "ENTITY_VALUE" \notin told' \/ "ENTITY_SYSTEM_ID" \notin told'
    <3> HAVE Place' = "entity" /\ told' \cap D!Names # {}
    <3>1. CASE role' \notin D!EntityParts
      BY <1>2, <3>1, EntityGoesOn DEF DInv, DeclEntityInv
    <3>2. CASE role' \in D!Names
      BY <3>2, <1>2, EntityPart, EntityTime DEF D!EntityParts, D!Names
    <3>3. CASE role' \in D!EntityParts \ D!Names
      <4>1. told' = told \cup {role'}
        BY <1>2, <3>3, EntityPart
      <4>2. /\ "ENTITY_VALUE" \notin told
            /\ role' # "ENTITY_NOTATION_NAME" => "ENTITY_SYSTEM_ID" \notin told
        BY <1>2, <3>3, PartsUntold DEF DInv
      <4> QED  BY <4>1, <4>2
    <3> QED  BY <3>1, <3>2, <3>3
  <2> QED  BY <1>4, <1>5, <2>1 DEF DeclEntityInv
<1>9. ElementInv'
  BY <1>3, <1>5 DEF DInv, ElementInv, modelVars
<1> QED  BY <1>2, <1>3, <1>6, <1>7, <1>8, <1>9 DEF DInv

\* The application's call, and a stuttering step, leave alone what it is about.
LEMMA QuietStep ==
  ASSUME DInv, UNCHANGED <<vars, prologVars, setup, in_eldecl, scaffLevel, failed>>
  PROVE  DInv'
<1>1. RoleInv' /\ Place' = Place /\ Depth' = Depth
  BY DEF vars, DInv, RoleInv, EntityTold, NotationTold, AttlistTold, ElementTold,
         DeclCloseTold, Place, Depth
<1>2. TablesInv' /\ Declared' = Declared
  <2>1. number' \in Nat /\ UNCHANGED <<general, param, declEntity>> /\ TablesInv
    BY DEF DInv, TablesInv, prologVars
  <2> QED  BY <2>1, TablesKept
<1>3. ProcessingInv'
  BY <1>1 DEF DInv, ProcessingInv, prologVars, vars
<1>4. DeclEntityInv'
  BY <1>1, <1>2 DEF DInv, DeclEntityInv, prologVars, vars
<1>5. ElementInv'
  BY <1>1 DEF DInv, ElementInv, RecordingFits, vars
<1> QED  BY <1>1, <1>2, <1>3, <1>4, <1>5 DEF DInv

\* What any step does.
LEMMA DoctypeStep ==
  ASSUME DInv, [DNext]_dvars
  PROVE  /\ DInv'
         /\ \/ EntitiesKept /\ D!Next /\ Aside
            \/ UNCHANGED pvars
<1>1. CASE \E t \in setup.offered : Round(t) \/ MachineAlone(t)
  BY <1>1, RoundStep, MachineStep
<1>2. CASE SetHandler
  <2>1. UNCHANGED <<vars, prologVars, setup, in_eldecl, scaffLevel, failed>>
    BY <1>2 DEF SetHandler, XML_SetElementDeclHandler
  <2> QED  BY <2>1, QuietStep DEF pvars
<1>3. CASE UNCHANGED dvars
  <2>1. UNCHANGED <<vars, prologVars, setup, in_eldecl, scaffLevel, failed>>
    BY <1>3 DEF dvars, modelVars
  <2> QED  BY <2>1, QuietStep DEF pvars
<1> QED  BY <1>1, <1>2, <1>3 DEF DNext

-----------------------------------------------------------------------------
(* What is told is what is said *)

\* A new parser has been told nothing, and tells nothing.
LEMMA SpellInit == DInit => SpellInv /\ EventsAsSpelled
<1> SUFFICES ASSUME DInit PROVE SpellInv /\ EventsAsSpelled
  OBVIOUS
<1>1. EventsAsSpelled
  BY DEF DInit, PrologInit, EventsAsSpelled, StartsAsSpelled, Silence
<1>2. handler \in {"prolog0", "externalSubset0"} /\ Place \in {"start", "begin"}
  BY DEF DInit, Place
<1>3. SaidInv
  <2>1. said = [p \in Texts |-> <<>>]
    BY DEF DInit, PrologInit
  <2>2. \A p \in Texts : said[p] = NULL
    BY <2>1 DEF NULL
  <2>3. said \in [Texts -> Seq(Nat)]
    BY <2>1
  <2>4. {"DOCTYPE_NAME", "DOCTYPE_PUBLIC_ID", "DOCTYPE_SYSTEM_ID"} \subseteq Texts
    BY DEF Texts
  <2> QED  BY <1>2, <2>2, <2>3, <2>4 DEF SaidInv
<1>4. PoolInv
  BY <1>2 DEF PoolInv, PoolHolds, Listing, DInit, PrologInit, NULL
<1>5. DoctypeInv
  BY <1>2 DEF DoctypeInv, DInit, PrologInit, NULL, D!Kinds
<1>6. NotationInv /\ AttlistInv /\ EntityInv
  BY <1>2 DEF NotationInv, AttlistInv, EntityInv
<1>7. EntitiesInv
  <2> SUFFICES ASSUME documentEntity, NEW n \in Entities PROVE ~param[n].declared
    BY DEF EntitiesInv, Blank0
  <2>1. PICK p \in [Shared -> {Absent}] :
           param = AddedTo([m \in Entities \cup {"#"} |-> Absent], Shared, p)
    BY DEF DInit, PrologInit
  <2>2. param[n] = Absent
    BY <2>1 DEF AddedTo
  <2> QED  BY <2>2 DEF Absent
<1> QED  BY <1>1, <1>3, <1>4, <1>5, <1>6, <1>7 DEF SpellInv

\* What the round of a token tells the application.
LEMMA RoundSpelled ==
  ASSUME DInv, Declares, D!Next, Moving, InTurn, Aside,
         documentEntity' = documentEntity, keepProcessing' => keepProcessing,
         SaidInv, PoolInv, DoctypeInv, NotationInv, AttlistInv, EntityInv, EntitiesInv
  PROVE  EventsAsSpelled'
<1>1. RoleInv /\ TablesInv /\ DeclEntityInv /\ number \in Nat
  BY DEF DInv, TablesInv
<1>2. CASE role' \in {"COMMENT", "PI"}
  BY <1>1, <1>2, CommentSpelled
<1>3. CASE role' \in {"NOTATION_SYSTEM_ID", "NOTATION_NO_SYSTEM_ID"}
  BY <1>1, <1>3, NotationSpelled
<1>4. CASE role' \in {"ENTITY_VALUE", "ENTITY_COMPLETE", "ENTITY_NOTATION_NAME"}
  BY <1>1, <1>4, EntitySpelled
<1>5. CASE role' \in D!Defaults
  BY <1>1, <1>5, AttlistSpelled
<1>6. CASE role' \in {"DOCTYPE_INTERNAL_SUBSET", "DOCTYPE_CLOSE"}
  BY <1>1, <1>6, DoctypeSpelled
<1>7. CASE role' \in References
  BY <1>7, ReferenceSpelled
<1>8. CASE role' \notin {"COMMENT", "PI", "NOTATION_SYSTEM_ID",
                         "NOTATION_NO_SYSTEM_ID", "ENTITY_VALUE", "ENTITY_COMPLETE",
                         "ENTITY_NOTATION_NAME", "DOCTYPE_INTERNAL_SUBSET",
                         "DOCTYPE_CLOSE"} \cup References \cup D!Defaults
  BY <1>8, OthersSilent
<1> QED  BY <1>2, <1>3, <1>4, <1>5, <1>6, <1>7, <1>8

\* A round keeps the invariant, unless doProlog returns, and tells the
\* application what was said.
LEMMA SpellRound ==
  ASSUME DInv, SpellInv, NEW t \in setup.offered, Round(t)
  PROVE  SpellInv' /\ EventsAsSpelled'
<1>1. DInv' /\ D!Next /\ Aside /\ EntitiesKept
  BY RoundStep
<1>2. /\ t \in Tokens /\ XmlTokenRole(t) /\ documentEntity' = documentEntity
      /\ setup' = setup /\ setup.followed /\ code = "NONE" /\ Declares /\ Handle
  <2>1. t \in Tokens
    BY SetupsAssumption DEF DInv
  <2> QED  BY <2>1 DEF Round, Going, XmlTokenRole, Declares
<1>4. CASE role' = "ERROR"
  <2>1. RoleError
    BY <1>2, <1>4, Cases
  <2>2. code' # "NONE" /\ event' = Silence
    BY <2>1 DEF RoleError, Stops
  <2> QED  BY <2>2, SilenceSpelled DEF SpellInv
<1>5. CASE role' # "ERROR"
  <2>1. /\ SaidInv /\ PoolInv /\ DoctypeInv /\ NotationInv /\ AttlistInv
        /\ EntityInv /\ EntitiesInv
    BY <1>2 DEF SpellInv
  <2>2. /\ RoleInv /\ RoleInv' /\ TablesInv /\ ProcessingInv /\ DeclEntityInv
        /\ keepProcessing \in BOOLEAN /\ standalone \in BOOLEAN /\ number \in Nat
        /\ keepProcessing' => keepProcessing
    BY <1>1 DEF DInv, TablesInv, ProcessingInv, EntitiesKept
  <2>3. Moving
    BY <1>1, <1>5, <2>2, Movement
  <2>4. InTurn
    BY <1>2, <1>5, <2>2, Turns
  <2>5. EventsAsSpelled'
    BY <1>1, <1>2, <2>1, <2>2, <2>3, <2>4, RoundSpelled
  <2>6. CASE code' = "NONE"
    <3>1. role' \notin Asking \cup {"ENTITY_VALUE"} =>
             keepProcessing' = keepProcessing
      BY <1>1, <1>2, <2>2, HandleStep DEF Declares
    <3>2. SaidInv'
      BY <1>2, <2>1, <2>2, <2>3, <2>4, SaidStep
    <3>3. PoolInv'
      BY <1>1, <1>2, <2>1, <2>2, <2>3, <2>6, <3>1, PoolStep
    <3>4. NotationInv'
      BY <1>2, <2>1, <2>2, <2>3, <2>6, NotationStep
    <3>5. AttlistInv'
      BY <1>2, <2>1, <2>2, <2>3, AttlistStep
    <3>6. EntityInv'
      BY <1>1, <1>2, <2>1, <2>2, <2>3, <2>6, EntityStep
    <3>7. EntitiesInv'
      BY <1>1, <1>2, <2>1, <2>2, <2>3, <2>6, EntitiesStep
    <3>8. DoctypeInv'
      <4>1. CASE role' = "DOCTYPE_NAME"
        BY <1>2, <2>1, <2>2, <2>4, <4>1, DoctypeNameStep
      <4>2. CASE role' = "DOCTYPE_PUBLIC_ID"
        BY <1>2, <2>1, <2>2, <2>4, <2>6, <4>2, DoctypePublicIdStep
      <4>3. CASE role' = "DOCTYPE_SYSTEM_ID"
        BY <1>2, <2>1, <2>2, <2>4, <2>6, <4>3, DoctypeSystemIdStep
      <4>4. CASE role' \notin {"DOCTYPE_NAME", "DOCTYPE_PUBLIC_ID",
                               "DOCTYPE_SYSTEM_ID"}
        BY <1>2, <2>1, <2>2, <2>3, <2>4, <4>4, DoctypeOthersStep
      <4> QED  BY <4>1, <4>2, <4>3, <4>4
    <3> QED  BY <2>5, <3>2, <3>3, <3>4, <3>5, <3>6, <3>7, <3>8 DEF SpellInv
  <2>7. CASE code' # "NONE"
    BY <2>5, <2>7 DEF SpellInv
  <2> QED  BY <2>6, <2>7
<1> QED  BY <1>4, <1>5

\* A step that leaves the parser alone keeps it.
LEMMA SpellQuiet ==
  ASSUME SpellInv, EventsAsSpelled, UNCHANGED <<vars, prologVars, setup>>
  PROVE  SpellInv' /\ EventsAsSpelled'
<1>1. UNCHANGED <<handler, told, documentEntity, setup>> /\ Place' = Place
  BY DEF vars, Place
<1>2. UNCHANGED <<listened, keepProcessing, general, param, declEntity, tempPool,
                  declAttributeType, declNotationName, declNotationPublicId,
                  doctypeName, doctypeSysid, doctypePubid, number, said, event, code>>
  BY DEF prologVars
<1>3. EventsAsSpelled'
  BY <1>1, <1>2 DEF EventsAsSpelled, StartsAsSpelled
<1>4. SaidInv => SaidInv'
  BY <1>1, <1>2 DEF SaidInv
<1>5. PoolInv => PoolInv'
  BY <1>1, <1>2 DEF PoolInv, PoolHolds, Listing, Hears
<1>6. DoctypeInv => DoctypeInv'
  BY <1>1, <1>2 DEF DoctypeInv, Hears
<1>7. NotationInv => NotationInv'
  BY <1>1, <1>2 DEF NotationInv, Hears
<1>8. AttlistInv => AttlistInv'
  BY <1>1, <1>2 DEF AttlistInv, Hears
<1>9. EntityInv => EntityInv'
  BY <1>1, <1>2 DEF EntityInv, Declared
<1>10. EntitiesInv => EntitiesInv'
  BY <1>1, <1>2 DEF EntitiesInv, Blank0
<1> QED  BY <1>1, <1>2, <1>3, <1>4, <1>5, <1>6, <1>7, <1>8, <1>9, <1>10 DEF SpellInv

\* What any step does.
LEMMA SpellStep ==
  ASSUME DInv, SpellInv, EventsAsSpelled, [DNext]_dvars
  PROVE  SpellInv' /\ EventsAsSpelled'
<1>1. CASE \E t \in setup.offered : Round(t)
  BY <1>1, SpellRound
<1>2. CASE \E t \in setup.offered : MachineAlone(t)
  <2>1. ~setup.followed /\ setup' = setup /\ UNCHANGED prologVars
        /\ documentEntity' = documentEntity
    BY <1>2 DEF MachineAlone, XmlTokenRole
  <2>2. UNCHANGED <<said, number, event, keepProcessing>>
    BY <2>1 DEF prologVars
  <2>3. EventsAsSpelled'
    BY <2>1, <2>2 DEF EventsAsSpelled, StartsAsSpelled
  <2> QED  BY <2>1, <2>3 DEF SpellInv
<1>3. CASE SetHandler \/ UNCHANGED dvars
  <2>1. UNCHANGED <<vars, prologVars, setup>>
    BY <1>3 DEF SetHandler, XML_SetElementDeclHandler, dvars
  <2> QED  BY <2>1, SpellQuiet
<1> QED  BY <1>1, <1>2, <1>3 DEF DNext

-----------------------------------------------------------------------------
(* The theorems *)

(***************************************************************************)
(* What doProlog keeps between two tokens goes with the place of the role  *)
(* machine in the declaration: the tables of entities, declEntity,         *)
(* keepProcessing and the recording of a content model, for any tokens,    *)
(* names, handlers and settings.                                           *)
(***************************************************************************)
THEOREM DoctypeInvariant == DSpec => []DInv
<1>1. DInit => DInv
  BY DoctypeInit
<1>2. DInv /\ [DNext]_dvars => DInv'
  BY DoctypeStep
<1> QED  BY <1>1, <1>2, PTL DEF DSpec

(***************************************************************************)
(* Within doProlog as well the roles come in the order its switch relies   *)
(* on, whatever the application does meanwhile.                            *)
(***************************************************************************)
THEOREM DoctypeRolesInOrder == DSpec => TellsDeclarations
<1>1. DInit => D!Init
  BY DoctypeInit
<1>2. DInv /\ [DNext]_dvars => [D!Next]_D!vars /\ [Aside]_vars
  <2> SUFFICES ASSUME DInv, [DNext]_dvars PROVE [D!Next]_D!vars /\ [Aside]_vars
    OBVIOUS
  <2>1. CASE EntitiesKept /\ D!Next /\ Aside
    BY <2>1
  <2>2. CASE UNCHANGED pvars
    BY <2>2 DEF pvars, vars, D!vars, Place, Depth
  <2> QED  BY <2>1, <2>2, DoctypeStep
<1> QED  BY <1>1, <1>2, DoctypeInvariant, PTL
       DEF DSpec, TellsDeclarations, D!Spec, Aside

(***************************************************************************)
(* The first declaration of an entity is the binding one.                  *)
(***************************************************************************)
THEOREM FirstDeclarationHolds == DSpec => FirstDeclarationBinds
<1>1. DInv /\ [DNext]_dvars =>
         [\A n \in Entities : /\ Binds(general[n], general'[n])
                              /\ Binds(param[n], param'[n])]_pvars
  BY DoctypeStep DEF EntitiesKept
<1> QED  BY <1>1, DoctypeInvariant, PTL DEF DSpec, FirstDeclarationBinds

(***************************************************************************)
(* No entity is recorded, and no entity or attribute is told, after a      *)
(* reference that was skipped.                                             *)
(***************************************************************************)
THEOREM NothingAfterSkippedHolds == DSpec => NothingAfterSkipped
<1>1. DInv /\ [DNext]_dvars =>
         [~keepProcessing => /\ ~keepProcessing'
                             /\ UNCHANGED <<general, param>>
                             /\ event'.type \notin
                                  {"entity", "unparsed", "attlist"}]_pvars
  BY DoctypeStep DEF EntitiesKept, DInv, ProcessingInv
<1> QED  BY <1>1, DoctypeInvariant, PTL DEF DSpec, NothingAfterSkipped

(***************************************************************************)
(* What the application is told of a declaration is what that declaration  *)
(* says, nothing of it left out and nothing of another one, in the         *)
(* document entity and in an external subset: what doProlog keeps in       *)
(* declEntity, in its variables for the DOCTYPE, a notation and an         *)
(* attribute and in tempPool is at every token the text told so far, for   *)
(* any tokens, names, handlers and settings.  And though other parsers     *)
(* declare entities in the tables of this one meanwhile, a reference of    *)
(* the document entity that counts is told with a system identifier.       *)
(***************************************************************************)
THEOREM EventsAsSpelledHolds == DSpec => []EventsAsSpelled
<1>1. DInit => SpellInv /\ EventsAsSpelled
  BY SpellInit
<1>2. DInv /\ SpellInv /\ EventsAsSpelled /\ [DNext]_dvars =>
         (SpellInv /\ EventsAsSpelled)'
  BY SpellStep
<1> QED  BY <1>1, <1>2, DoctypeInvariant, PTL DEF DSpec

(***************************************************************************)
(* While an element declaration is recorded the parser and the role        *)
(* machine count the same open groups.                                     *)
(***************************************************************************)
THEOREM RecordingFitsHolds == DSpec => []RecordingFits
<1>1. DInv => RecordingFits
  BY DEF DInv, ElementInv, RecordingFits
<1> QED  BY <1>1, DoctypeInvariant, PTL

=============================================================================
