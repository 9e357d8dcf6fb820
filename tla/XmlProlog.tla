------------------------------ MODULE XmlProlog ------------------------------
(***************************************************************************)
(* The declarations of a document type in the parser of expat             *)
(* (lib/xmlparse.c): what doProlog does with the roles of entities,       *)
(* attributes, notations and of the DOCTYPE itself.  The roles come from  *)
(* the machine of XmlRole, in the same step; element declarations are in  *)
(* ContentModel.                                                          *)
(*                                                                         *)
(* A text is the sequence of the tokens it was copied from, by their      *)
(* numbers; <<>> is NULL.  A string pool is the text at its end that is   *)
(* not finished yet: poolAppend adds to it, poolFinish takes it away as a *)
(* string, poolClear drops it.                                            *)
(***************************************************************************)
EXTENDS XmlRole, Sequences, TLC

CONSTANTS
    Entities,   \* names of entities, general and parameter ones apart
    Predefined, \* amp, lt, gt, quot, apos
    Shared      \* those that the parsers of other entities declare too

\* "#" is no name: the parser keeps the external subset under it.
ASSUME EntitiesAssumption ==
    /\ Predefined \subseteq Entities /\ Shared \subseteq Entities
    /\ "#" \notin Entities

VARIABLES
    listened,         \* the handlers that are set
    standalone,       \* dtd->standalone
    paramEntityParsing,
    keepProcessing,   \* dtd->keepProcessing
    hasParamEntityRefs, \* dtd->hasParamEntityRefs
    general, param,   \* the tables of entities
    declEntity,       \* the entity being declared: its table and name
    tempPool,         \* the unfinished text of tempPool
    declAttributeType,\* NULL, a keyword, or the text of an enumeration
    declNotationName, declNotationPublicId,
    doctypeName, doctypeSysid, doctypePubid,
    number,           \* tokens so far
    said,             \* history: the text of each part of this declaration
    event,            \* what the application was told for the last token
    code              \* what doProlog has returned

prologVars == <<listened, standalone, paramEntityParsing, keepProcessing,
                hasParamEntityRefs, general, param, declEntity, tempPool,
                declAttributeType, declNotationName, declNotationPublicId,
                doctypeName, doctypeSysid, doctypePubid, number, said, event, code>>
pvars == <<vars, prologVars>>

NULL   == <<>>
Absent == [declared |-> FALSE]
Fresh  == [declared |-> TRUE, text |-> NULL, systemId |-> NULL,
           publicId |-> NULL, notation |-> NULL]
NoEntity == [table |-> "none", name |-> "none"]
Silence  == [type |-> "none"]

\* The text of this token.
This == <<number'>>

Hears(h) == h \in listened

-----------------------------------------------------------------------------
(* What one case changes is written out, the rest is kept by one of these. *)

KeepDtd     == UNCHANGED <<keepProcessing, hasParamEntityRefs>>
KeepTables  == UNCHANGED <<general, param, declEntity>>
KeepAtt     == UNCHANGED declAttributeType
KeepNota    == UNCHANGED <<declNotationName, declNotationPublicId>>
KeepDoctype == UNCHANGED <<doctypeName, doctypeSysid, doctypePubid>>
Goes(e)     == event' = e /\ UNCHANGED code
Stops(c)    == code' = c /\ event' = Silence

Declared == IF declEntity.table = "general" THEN general[declEntity.name]
                                            ELSE param[declEntity.name]

\* An assignment to a field of declEntity, which makes it this entity.
Assign(entity) ==
    /\ UNCHANGED declEntity
    /\ IF declEntity.table = "general"
       THEN /\ general' = [general EXCEPT ![declEntity.name] = entity]
            /\ UNCHANGED param
       ELSE /\ param' = [param EXCEPT ![declEntity.name] = entity]
            /\ UNCHANGED general

Recording == keepProcessing /\ declEntity # NoEntity

(***************************************************************************)
(* The parser of an external parameter entity works on the DTD of the one *)
(* that made it, and so do the parsers it makes (newDtd = oldDtd in        *)
(* XML_ExternalEntityParserCreate).  While a handler of references runs    *)
(* they may declare what was not declared and lose keepProcessing; of what *)
(* is declared only the parser that declares it writes more.  <<0>> is a   *)
(* text of another entity; other parts than these two are left out.        *)
(***************************************************************************)

\* half: also an entity that is not recorded further than its name.
Foreign(half) ==
    {[Fresh EXCEPT !.text = <<0>>], [Fresh EXCEPT !.systemId = <<0>>]}
        \cup (IF half THEN {Fresh} ELSE {})

AddedTo(table, names, found) ==
    [n \in DOMAIN table |-> IF n \in names /\ ~table[n].declared THEN found[n]
                                                             ELSE table[n]]

Finds(half) ==
    \E g, p \in [Shared -> {Absent} \cup Foreign(half)] :
        /\ general' = AddedTo(general, Shared \ Predefined, g)
        /\ param' = AddedTo(param, Shared, p)

\* Another parser has read an entity to its end: it leaves half a declaration
\* only when a reference in that was skipped.
ReadElsewhere ==
    /\ UNCHANGED declEntity
    /\ keepProcessing' \in {keepProcessing, standalone}
    /\ IF keepProcessing THEN Finds(~keepProcessing') ELSE UNCHANGED <<general, param>>

(* <!DOCTYPE ...>: the external subset is the parameter entity "#" *)

DoctypeName ==
    /\ KeepDtd /\ KeepTables /\ KeepAtt /\ KeepNota /\ Goes(Silence)
    /\ doctypeSysid' = NULL
    /\ IF Hears("doctype")
       THEN doctypeName' = tempPool \o This /\ tempPool' = <<>> /\ doctypePubid' = NULL
       ELSE UNCHANGED <<doctypeName, doctypePubid, tempPool>>

StartDoctype(internal) ==
    [type |-> "startDoctype", name |-> doctypeName, sysid |-> doctypeSysid,
     pubid |-> doctypePubid, internal |-> internal]

InternalSubset ==
    /\ KeepDtd /\ KeepTables /\ KeepAtt /\ KeepNota
    /\ UNCHANGED <<doctypeSysid, doctypePubid>>
    /\ IF Hears("doctype")
       THEN doctypeName' = NULL /\ tempPool' = <<>> /\ Goes(StartDoctype(TRUE))
       ELSE UNCHANGED <<doctypeName, tempPool>> /\ Goes(Silence)

External0 == [table |-> "param", name |-> "#"]

\* lookup of "#", which creates it.
Subset0 == IF param["#"].declared THEN param["#"] ELSE Fresh

DoctypePublicId ==
    /\ hasParamEntityRefs' = TRUE /\ UNCHANGED keepProcessing
    /\ KeepAtt /\ KeepNota
    /\ declEntity' = External0
    /\ UNCHANGED <<general, doctypeName, doctypeSysid>>
    /\ \/ /\ Goes(Silence)
          /\ doctypePubid' = IF Hears("doctype") THEN tempPool \o This ELSE doctypePubid
          /\ tempPool' = IF Hears("doctype") THEN <<>> ELSE tempPool
          /\ param' = [param EXCEPT !["#"] = IF keepProcessing
                                             THEN [Subset0 EXCEPT !.publicId = This]
                                             ELSE Subset0]
       \/ /\ Stops("PUBLICID") /\ UNCHANGED <<doctypePubid, tempPool>>
          /\ param' = [param EXCEPT !["#"] = Subset0]

\* The literal is kept for the application, or only known to be there.
DoctypeSystemId ==
    /\ hasParamEntityRefs' = TRUE /\ UNCHANGED keepProcessing
    /\ KeepAtt /\ KeepNota
    /\ UNCHANGED <<general, doctypeName, doctypePubid>>
    /\ doctypeSysid' = IF Hears("doctype") THEN tempPool \o This ELSE <<0>>
    /\ tempPool' = IF Hears("doctype") THEN <<>> ELSE tempPool
    /\ \/ /\ Goes(Silence)
          /\ declEntity' = External0
          /\ LET made == IF declEntity = NoEntity
                         THEN [Subset0 EXCEPT !.publicId = NULL] ELSE param["#"]
             IN param' = [param EXCEPT !["#"] = IF keepProcessing
                                                THEN [made EXCEPT !.systemId = This]
                                                ELSE made]
       \/ /\ ~standalone /\ ~paramEntityParsing /\ Hears("notStandalone")
          /\ Stops("NOT_STANDALONE") /\ UNCHANGED <<declEntity, param>>

\* The external subset is asked for once the internal one is read.
DoctypeClose ==
    /\ KeepAtt /\ KeepNota /\ KeepDoctype
    /\ tempPool' = IF doctypeName # NULL THEN <<>> ELSE tempPool
    /\ hasParamEntityRefs' = (hasParamEntityRefs \/ doctypeSysid # NULL)
    /\ LET told0  == IF doctypeName # NULL THEN StartDoctype(FALSE) ELSE Silence
           asks   == doctypeSysid # NULL /\ paramEntityParsing /\ Hears("externalRef")
           closed == [type |-> "endDoctype", start |-> told0, asked |-> asks,
                      subset |-> param["#"]]
       IN \/ ~asks /\ KeepTables /\ UNCHANGED keepProcessing /\ Goes(closed)
          \/ asks /\ ReadElsewhere /\ Goes(closed)
          \/ /\ asks /\ ReadElsewhere /\ ~standalone /\ Hears("notStandalone")
             /\ Stops("NOT_STANDALONE")
          \/ /\ asks /\ KeepTables /\ UNCHANGED keepProcessing
             /\ Stops("EXTERNAL_ENTITY_HANDLING")

(* <!ENTITY ...> *)

EntityNameAgain(table, n) ==
    /\ KeepDtd /\ KeepAtt /\ KeepNota /\ KeepDoctype /\ UNCHANGED tempPool
    /\ Goes(Silence)
    /\ LET known == IF table = "general" THEN general[n].declared ELSE param[n].declared
       IN IF ~keepProcessing \/ known
          THEN UNCHANGED <<declEntity, general, param>>
          ELSE /\ declEntity' = [table |-> table, name |-> n]
               /\ general' = IF table = "general" THEN [general EXCEPT ![n] = Fresh]
                                                  ELSE general
               /\ param' = IF table = "param" THEN [param EXCEPT ![n] = Fresh]
                                              ELSE param

EntityNameAlways(table, n) ==
    /\ KeepDtd /\ KeepAtt /\ KeepNota /\ KeepDoctype /\ UNCHANGED tempPool
    /\ Goes(Silence)
    /\ LET known == IF table = "general" THEN general[n].declared ELSE param[n].declared
       IN IF known THEN declEntity' = NoEntity /\ UNCHANGED <<general, param>>
          ELSE /\ declEntity' = [table |-> table, name |-> n]
               /\ general' = IF table = "general" THEN [general EXCEPT ![n] = Fresh]
                                                  ELSE general
               /\ param' = IF table = "param" THEN [param EXCEPT ![n] = Fresh]
                                              ELSE param

\* GENERAL_ENTITY_NAME and PARAM_ENTITY_NAME: only the first declaration of a
\* name is recorded.  A predefined general entity is not declared at all.
EntityName(table, n) ==
    /\ KeepDtd /\ KeepAtt /\ KeepNota /\ KeepDoctype /\ UNCHANGED tempPool
    /\ Goes(Silence)
    /\ LET known == IF table = "general" THEN general[n].declared ELSE param[n].declared
           skip  == ~keepProcessing \/ known \/ (table = "general" /\ n \in Predefined)
       IN IF skip
          THEN declEntity' = NoEntity /\ UNCHANGED <<general, param>>
          ELSE /\ declEntity' = [table |-> table, name |-> n]
               /\ general' = IF table = "general" THEN [general EXCEPT ![n] = Fresh]
                                                  ELSE general
               /\ param' = IF table = "param" THEN [param EXCEPT ![n] = Fresh]
                                              ELSE param

EntityEvent(type, parts) ==
    [type |-> type, name |-> declEntity.name, table |-> declEntity.table,
     text |-> parts.text, systemId |-> parts.systemId,
     publicId |-> parts.publicId, notation |-> parts.notation]

\* storeEntityValue copies the literal; a reference in it to a parameter entity
\* that is not declared or not read ends the copy and the recording, an error
\* in it is returned after the handler was called.
EntityValue ==
    /\ KeepAtt /\ KeepNota /\ KeepDoctype /\ UNCHANGED <<tempPool, hasParamEntityRefs>>
    /\ IF ~keepProcessing
       THEN KeepTables /\ UNCHANGED keepProcessing /\ Goes(Silence)
       ELSE /\ keepProcessing' \in {keepProcessing, standalone}
            /\ IF declEntity = NoEntity THEN KeepTables
                                        ELSE Assign([Declared EXCEPT !.text = This])
            /\ event' = IF declEntity # NoEntity /\ Hears("entity")
                        THEN EntityEvent("entity", [Fresh EXCEPT !.text = This])
                        ELSE Silence
            /\ \/ UNCHANGED code
               \/ code' = "INVALID_TOKEN"

EntityPublicId ==
    /\ KeepDtd /\ KeepAtt /\ KeepNota /\ KeepDoctype /\ UNCHANGED tempPool
    /\ \/ /\ IF Recording THEN Assign([Declared EXCEPT !.publicId = This]) ELSE KeepTables
          /\ Goes(Silence)
       \/ KeepTables /\ Stops("PUBLICID")

EntitySystemId ==
    /\ KeepDtd /\ KeepAtt /\ KeepNota /\ KeepDoctype /\ UNCHANGED tempPool
    /\ IF Recording THEN Assign([Declared EXCEPT !.systemId = This]) ELSE KeepTables
    /\ Goes(Silence)

EntityComplete ==
    /\ KeepDtd /\ KeepTables /\ KeepAtt /\ KeepNota /\ KeepDoctype
    /\ UNCHANGED tempPool
    /\ Goes(IF Recording /\ Hears("entity")
            THEN EntityEvent("entity", [Declared EXCEPT !.notation = NULL, !.text = NULL])
            ELSE Silence)

EntityNotationName ==
    /\ KeepDtd /\ KeepAtt /\ KeepNota /\ KeepDoctype /\ UNCHANGED tempPool
    /\ IF Recording
       THEN /\ Assign([Declared EXCEPT !.notation = This])
            /\ LET parts == [Declared EXCEPT !.notation = This, !.text = NULL]
               IN Goes(IF Hears("unparsed") THEN EntityEvent("unparsed", parts)
                       ELSE IF Hears("entity") THEN EntityEvent("entity", parts)
                       ELSE Silence)
       ELSE KeepTables /\ Goes(Silence)

(* <!ATTLIST ...>: what becomes of the attribute itself is in XmlAttributes *)

AttributeName ==
    /\ KeepDtd /\ KeepTables /\ KeepNota /\ KeepDoctype /\ UNCHANGED tempPool
    /\ Goes(Silence) /\ declAttributeType' = NULL

AttributeType ==
    /\ KeepDtd /\ KeepTables /\ KeepNota /\ KeepDoctype /\ UNCHANGED tempPool
    /\ Goes(Silence) /\ declAttributeType' = This

\* ENUM_VALUE and NOTATION_VALUE: the values pile up in tempPool.
AttributeValue ==
    /\ KeepDtd /\ KeepTables /\ KeepNota /\ KeepDoctype /\ Goes(Silence)
    /\ IF keepProcessing /\ Hears("attlist")
       THEN tempPool' = tempPool \o This /\ declAttributeType' = tempPool'
       ELSE UNCHANGED <<tempPool, declAttributeType>>

\* IMPLIED, REQUIRED, DEFAULT and FIXED end an attribute; a default may be
\* refused by storeAttributeValue.
AttributeDefault ==
    /\ KeepDtd /\ KeepTables /\ KeepNota /\ KeepDoctype
    /\ IF keepProcessing /\ Hears("attlist") /\ declAttributeType # NULL
       THEN /\ Goes([type |-> "attlist", atype |-> declAttributeType])
            /\ tempPool' = <<>> /\ UNCHANGED declAttributeType
       ELSE UNCHANGED <<tempPool, declAttributeType>> /\ Goes(Silence)

BadDefault ==
    /\ role' \in {"DEFAULT_ATTRIBUTE_VALUE", "FIXED_ATTRIBUTE_VALUE"}
    /\ keepProcessing
    /\ KeepDtd /\ KeepTables /\ KeepAtt /\ KeepNota /\ KeepDoctype
    /\ UNCHANGED tempPool /\ Stops("INVALID_TOKEN")

(* <!NOTATION ...> *)
NotationNameOnly ==
    /\ KeepDtd /\ KeepTables /\ KeepAtt /\ KeepDoctype /\ Goes(Silence)
    /\ UNCHANGED declNotationPublicId
    /\ IF Hears("notation")
       THEN declNotationName' = tempPool \o This /\ tempPool' = <<>>
       ELSE declNotationName' = NULL /\ UNCHANGED tempPool

NotationName ==
    /\ KeepDtd /\ KeepTables /\ KeepAtt /\ KeepDoctype /\ Goes(Silence)
    /\ declNotationPublicId' = NULL
    /\ IF Hears("notation")
       THEN declNotationName' = tempPool \o This /\ tempPool' = <<>>
       ELSE declNotationName' = NULL /\ UNCHANGED tempPool

NotationPublicId ==
    /\ KeepDtd /\ KeepTables /\ KeepAtt /\ KeepDoctype
    /\ UNCHANGED declNotationName
    /\ \/ /\ Goes(Silence)
          /\ IF declNotationName # NULL
             THEN declNotationPublicId' = tempPool \o This /\ tempPool' = <<>>
             ELSE UNCHANGED <<declNotationPublicId, tempPool>>
       \/ UNCHANGED <<declNotationPublicId, tempPool>> /\ Stops("PUBLICID")

NotationEvent(systemId) ==
    [type |-> "notation", name |-> declNotationName, systemId |-> systemId,
     publicId |-> declNotationPublicId]

NotationSystem ==
    /\ KeepDtd /\ KeepTables /\ KeepAtt /\ KeepNota /\ KeepDoctype
    /\ tempPool' = <<>>
    /\ Goes(IF declNotationName # NULL /\ Hears("notation")
            THEN NotationEvent(tempPool \o This) ELSE Silence)

NotationNoSystem ==
    /\ KeepDtd /\ KeepTables /\ KeepAtt /\ KeepNota /\ KeepDoctype
    /\ tempPool' = <<>>
    /\ Goes(IF declNotationPublicId # NULL /\ Hears("notation")
            THEN NotationEvent(NULL) ELSE Silence)

(* Comments and processing instructions: reportComment, and                *)
(* reportProcessingInstruction with the target and the data as one text    *)

Comment ==
    /\ KeepDtd /\ KeepTables /\ KeepAtt /\ KeepNota /\ KeepDoctype
    /\ IF Hears("comment")
       THEN Goes([type |-> "comment", data |-> tempPool \o This]) /\ tempPool' = <<>>
       ELSE Goes(Silence) /\ UNCHANGED tempPool

(* %name;  The text of an internal entity comes as the next tokens.  Which *)
(* entities are open is not kept: a reference may at any time be recursive,*)
(* or stand in the text of another entity.                                 *)

Skips == keepProcessing' = standalone

\* The last lines of the case: the document turns out not to be standalone.
MayStop == \/ UNCHANGED code
           \/ ~standalone /\ Hears("notStandalone") /\ code' = "NOT_STANDALONE"

\* The handler of external references is called; without paramEntityRead
\* after it nobody has read the entity.  When it fails all is over, and what
\* the other parser has done is left out.
ExternalRef(entity) ==
    /\ event' = [type |-> "reference", systemId |-> entity.systemId,
                 counted |-> keepProcessing]
    /\ \/ KeepTables /\ Skips /\ UNCHANGED code
       \/ ReadElsewhere /\ MayStop
       \/ /\ KeepTables /\ UNCHANGED keepProcessing
          /\ code' = "EXTERNAL_ENTITY_HANDLING"

ParamEntityRef(n) ==
    LET entity     == param[n]
        ends(c)    == KeepTables /\ UNCHANGED keepProcessing /\ Stops(c)
        undeclared == Goes(IF role' = "PARAM_ENTITY_REF" /\ Hears("skipped")
                           THEN [type |-> "skipped", name |-> n] ELSE Silence)
    IN
    /\ KeepAtt /\ KeepNota /\ KeepDoctype /\ UNCHANGED tempPool
    /\ hasParamEntityRefs' = TRUE
    /\ IF ~paramEntityParsing
       THEN KeepTables /\ Skips /\ event' = Silence /\ MayStop
       ELSE \/ ~entity.declared /\ KeepTables /\ Skips /\ undeclared
            \/ /\ ~entity.declared /\ documentEntity /\ standalone
               /\ ends("UNDEFINED_ENTITY")
            \/ entity.declared /\ ends("RECURSIVE_ENTITY_REF")
            \/ /\ entity.declared /\ documentEntity /\ standalone
               /\ ends("ENTITY_DECLARED_IN_PE")
            \/ /\ entity.declared /\ entity.text # NULL
               /\ KeepTables /\ UNCHANGED keepProcessing /\ Goes(Silence)
            \/ /\ entity.declared /\ entity.text = NULL
               /\ IF Hears("externalRef") THEN ExternalRef(entity)
                  ELSE KeepTables /\ Skips /\ Goes(Silence)

\* The codes of the syntax errors are one here.
RoleError ==
    /\ KeepDtd /\ KeepTables /\ KeepAtt /\ KeepNota /\ KeepDoctype
    /\ UNCHANGED tempPool /\ Stops("SYNTAX")

Others ==
    /\ KeepDtd /\ KeepTables /\ KeepAtt /\ KeepNota /\ KeepDoctype
    /\ UNCHANGED tempPool /\ Goes(Silence)

-----------------------------------------------------------------------------
(* The loop of doProlog *)

Handle ==
    CASE role' = "DOCTYPE_NAME"            -> DoctypeName
      [] role' = "DOCTYPE_INTERNAL_SUBSET" -> InternalSubset
      [] role' = "DOCTYPE_PUBLIC_ID"       -> DoctypePublicId
      [] role' = "DOCTYPE_SYSTEM_ID"       -> DoctypeSystemId
      [] role' = "DOCTYPE_CLOSE"           -> DoctypeClose
      [] role' = "GENERAL_ENTITY_NAME"     -> \E n \in Entities : EntityName("general", n)
      [] role' = "PARAM_ENTITY_NAME"       -> \E n \in Entities : EntityName("param", n)
      [] role' = "ENTITY_VALUE"            -> EntityValue
      [] role' = "ENTITY_PUBLIC_ID"        -> EntityPublicId
      [] role' = "ENTITY_SYSTEM_ID"        -> EntitySystemId
      [] role' = "ENTITY_COMPLETE"         -> EntityComplete
      [] role' = "ENTITY_NOTATION_NAME"    -> EntityNotationName
      [] role' = "ATTRIBUTE_NAME"          -> AttributeName
      [] role' \in D!Types                 -> AttributeType
      [] role' \in D!Values                -> AttributeValue
      [] role' \in D!Defaults              -> AttributeDefault \/ BadDefault
      [] role' = "NOTATION_NAME"           -> NotationName
      [] role' = "NOTATION_PUBLIC_ID"      -> NotationPublicId
      [] role' = "NOTATION_SYSTEM_ID"      -> NotationSystem
      [] role' = "NOTATION_NO_SYSTEM_ID"   -> NotationNoSystem
      [] role' \in {"COMMENT", "PI"}       -> Comment
      [] role' \in {"PARAM_ENTITY_REF", "INNER_PARAM_ENTITY_REF"} ->
            \E n \in Entities : ParamEntityRef(n)
      [] role' = "ERROR"                   -> RoleError
      [] OTHER                             -> Others

\* The parts of a declaration whose text the application is told: what the role
\* is called by, but one for the type of an attribute, a keyword or a list.
Texts == {"DOCTYPE_NAME", "DOCTYPE_PUBLIC_ID", "DOCTYPE_SYSTEM_ID", "ENTITY_VALUE",
          "ENTITY_PUBLIC_ID", "ENTITY_SYSTEM_ID", "ENTITY_NOTATION_NAME",
          "NOTATION_NAME", "NOTATION_PUBLIC_ID", "NOTATION_SYSTEM_ID",
          "ATTRIBUTE_TYPE"}

Tells(p) == IF p = "ATTRIBUTE_TYPE" THEN role' \in D!Types \cup D!Values
                                    ELSE role' = p

\* No declaration is open: what was said belongs to another one.
Anew == handler \in Between \cup {"prolog0", "externalSubset0"}

\* What was said of part p belongs to another declaration or attribute.
Forgets(p) == Anew \/ (p = "ATTRIBUTE_TYPE" /\ role' = "ATTRIBUTE_NAME")

\* What one round of the loop does with the role of its token.
Declares ==
    /\ number' = number + 1
    /\ said' = [p \in Texts |-> (IF Forgets(p) THEN <<>> ELSE said[p])
                                \o (IF Tells(p) THEN This ELSE <<>>)]
    /\ UNCHANGED <<listened, standalone, paramEntityParsing>>
    /\ Handle

\* A new DTD, or the one another parser has and has declared something in.
PrologInit(new) ==
    /\ keepProcessing \in {TRUE, new \/ standalone}
    /\ hasParamEntityRefs = ~documentEntity
    /\ \E g, p \in [Shared -> {Absent} \cup (IF new THEN {} ELSE Foreign(TRUE))] :
          /\ general = AddedTo([n \in Entities |-> Absent], Shared \ Predefined, g)
          /\ param = AddedTo([n \in Entities \cup {"#"} |-> Absent], Shared, p)
    /\ declEntity = NoEntity /\ tempPool = <<>> /\ declAttributeType = NULL
    /\ declNotationName = NULL /\ declNotationPublicId = NULL
    /\ doctypeName = NULL /\ doctypeSysid = NULL /\ doctypePubid = NULL
    /\ number = 0 /\ said = [p \in Texts |-> <<>>] /\ event = Silence /\ code = "NONE"

-----------------------------------------------------------------------------
(* Properties *)

\* The DOCTYPE the application is told of is this one.
StartsAsSpelled(e) ==
    e.type = "startDoctype" =>
        /\ e.name = said.DOCTYPE_NAME
        /\ e.sysid = said.DOCTYPE_SYSTEM_ID
        /\ e.pubid = said.DOCTYPE_PUBLIC_ID

(***************************************************************************)
(* What the application is told of a declaration is what that declaration *)
(* says, and nothing of another one: identifiers, values and the whole    *)
(* list of an enumeration, and a comment is its text, though all wait in  *)
(* variables and in one string pool between the tokens, and references    *)
(* may stand between these.  Only once the processing has ended in a       *)
(* declaration of an external subset a comment or a notation may begin     *)
(* with what that declaration left in the pool.                            *)
(*   An entity without text is taken for an external one.  In the document *)
(* entity every reference, as long as declarations count, still gives the  *)
(* handler a system identifier, though other parsers declare entities in   *)
(* the same tables; and so does every request for the external subset.     *)
(***************************************************************************)
EventsAsSpelled ==
    /\ documentEntity \/ keepProcessing =>
          /\ event.type = "comment" => event.data = <<number>>
          /\ event.type = "notation" =>
                /\ event.name = said.NOTATION_NAME
                /\ event.publicId = said.NOTATION_PUBLIC_ID
                /\ event.systemId = said.NOTATION_SYSTEM_ID
    /\ event.type \in {"entity", "unparsed"} =>
          /\ event.text = said.ENTITY_VALUE
          /\ event.publicId = said.ENTITY_PUBLIC_ID
          /\ event.systemId = said.ENTITY_SYSTEM_ID
          /\ event.notation = said.ENTITY_NOTATION_NAME
    /\ event.type = "attlist" => event.atype = said.ATTRIBUTE_TYPE
    /\ StartsAsSpelled(event)
    /\ event.type = "endDoctype" => StartsAsSpelled(event.start)
    /\ event.type = "reference" /\ documentEntity /\ event.counted =>
          event.systemId # NULL
    /\ event.type = "endDoctype" /\ event.asked => event.subset.systemId # NULL

(***************************************************************************)
(* expat.h promises it of the handler of external references: "The        *)
(* systemId argument is the system identifier as specified in the entity  *)
(* declaration; it will not be NULL."                                      *)
(***************************************************************************)
SystemIdGiven == event.type = "reference" => event.systemId # NULL

(***************************************************************************)
(* The first declaration of an entity is the binding one: once its text is *)
(* read nothing of it changes, and once its system identifier is, neither  *)
(* of its identifiers does and it gets no text, whatever is declared after *)
(* and wherever declEntity points: only a notation may follow.             *)
(***************************************************************************)
Binds(e, f) ==
    e.declared => /\ f.declared
                  /\ e.text # NULL => f = e
                  /\ e.systemId # NULL => /\ f.systemId = e.systemId
                                          /\ f.publicId = e.publicId
                                          /\ f.text = e.text

FirstDeclarationBinds ==
    [][\A n \in Entities : /\ Binds(general[n], general'[n])
                           /\ Binds(param[n], param'[n])]_pvars

(***************************************************************************)
(* From a parameter entity that was not read on, the declarations of a    *)
(* document that is not standalone count no more: no entity is recorded,   *)
(* and no entity and no attribute is told, whatever part of a declaration  *)
(* the reference stood in.  Notations and element declarations are told    *)
(* all the same.                                                           *)
(***************************************************************************)
NothingAfterSkipped ==
    [][~keepProcessing => /\ ~keepProcessing'
                          /\ UNCHANGED <<general, param>>
                          /\ event'.type \notin {"entity", "unparsed", "attlist"}]_pvars

=============================================================================
