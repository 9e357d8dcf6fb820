---------------------------- MODULE XmlDoctypeInv ----------------------------
(***************************************************************************)
(* The inductive invariant of XmlDoctype: what the variables doProlog      *)
(* keeps from one token to the next have to do with each other, and with   *)
(* the place of the role machine in the declaration (XmlRoleInv).          *)
(***************************************************************************)
EXTENDS XmlDoctype, XmlRoleInv

\* An entity that is declared.
Whole ==
    [declared : {TRUE}, text : Seq(Nat), systemId : Seq(Nat),
     publicId : Seq(Nat), notation : Seq(Nat)]

\* The two tables hold whole entities, and declEntity is one of them or none.
TablesInv ==
    /\ general \in [Entities -> {Absent} \cup Whole]
    /\ param \in [Entities \cup {"#"} -> {Absent} \cup Whole]
    /\ number \in Nat
    /\ \/ declEntity = NoEntity
       \/ \E n \in Entities : declEntity = [table |-> "general", name |-> n]
       \/ \E n \in Entities \cup {"#"} : declEntity = [table |-> "param", name |-> n]
    /\ declEntity # NoEntity => Declared \in Whole

\* The places in which no parameter entity can have been referred to yet.
Early == {"start", "prolog", "doctype"}

\* dtd->keepProcessing is only lost by a reference, in a document that is not
\* standalone; an external subset may find it lost.
ProcessingInv ==
    /\ keepProcessing \in BOOLEAN /\ standalone \in BOOLEAN
    /\ ~keepProcessing => ~standalone /\ Place \notin Early
    /\ ~setup.followed => event = Silence /\ (documentEntity => keepProcessing)

\* Before the subset declEntity is the external subset or none.  In a
\* declaration whose name is told it is the entity being declared, or none, and
\* what is not told of that one is not recorded: an entity has a value or a
\* system identifier.
DeclEntityInv ==
    /\ ~setup.followed => declEntity = NoEntity
    /\ Place \in Early => declEntity \in {NoEntity, External0}
    /\ Place = "entity" /\ told \cap D!Names # {} =>
          /\ "ENTITY_VALUE" \notin told \/ "ENTITY_SYSTEM_ID" \notin told
          /\ declEntity # NoEntity =>
                /\ "ENTITY_VALUE" \notin told => Declared.text = NULL
                /\ "ENTITY_SYSTEM_ID" \notin told => Declared.systemId = NULL

\* A recorded element declaration has a name, no EMPTY and no ANY, and when no
\* group is open there has been none; the parser's count of them is the one of
\* the machine.
ElementInv ==
    /\ in_eldecl /\ ~failed =>
          /\ RecordingFits
          /\ "ELEMENT_NAME" \in told
          /\ told \cap {"CONTENT_EMPTY", "CONTENT_ANY"} = {}
          /\ Depth = 0 => told = {"ELEMENT_NAME"}
    /\ in_eldecl \in BOOLEAN /\ failed \in BOOLEAN
    /\ ~setup.followed => ~in_eldecl

\* What is said of a part is nothing before a role has told it.  The roles of
\* the DOCTYPE are not in told, but its handlers come one after the other.
SaidInv ==
    /\ said \in [Texts -> Seq(Nat)]
    /\ Place \in {"entity", "notation"} =>
          \A p \in Texts \ told : p # "ATTRIBUTE_TYPE" => said[p] = NULL
    /\ Place = "attlist" /\ "ATTRIBUTE_NAME" \in told =>
          (said.ATTRIBUTE_TYPE = NULL <=> told \cap (D!Types \cup D!Values) = {})
    /\ Place = "attlist" /\ "ATTRIBUTE_NAME" \notin told =>
          told \cap (D!Types \cup D!Values) = {}
    /\ handler = "doctype0" => said.DOCTYPE_NAME = NULL
    /\ handler \in {"doctype0", "doctype1", "doctype2"} =>
          said.DOCTYPE_PUBLIC_ID = NULL
    /\ handler \in {"doctype0", "doctype1", "doctype2", "doctype3"} =>
          said.DOCTYPE_SYSTEM_ID = NULL

\* The string pool is only in use for the list of an enumeration, unless a
\* reference in a declaration has ended the processing.
Listing == /\ Place = "attlist" /\ told \cap D!Values # {}
           /\ keepProcessing /\ Hears("attlist")

PoolHolds == tempPool = IF Listing THEN said.ATTRIBUTE_TYPE ELSE NULL

PoolInv == documentEntity \/ keepProcessing => PoolHolds

\* The variables of the DOCTYPE are what it has said so far, and the name is
\* given up with the internal subset; an identifier makes the external subset.
\* An external subset has no DOCTYPE.
DoctypeInv ==
    /\ ~documentEntity => doctypeName = NULL /\ doctypeSysid = NULL
    /\ Place \in {"start", "prolog"} =>
          doctypeName = NULL /\ doctypeSysid = NULL /\ doctypePubid = NULL
    /\ Place = "doctype" /\ Hears("doctype") =>
          /\ doctypeName = said.DOCTYPE_NAME
          /\ doctypeSysid = said.DOCTYPE_SYSTEM_ID
          /\ doctypePubid = said.DOCTYPE_PUBLIC_ID
    /\ Place \in D!Kinds \cup {"subset", "closing"} \/ ~Hears("doctype") =>
          doctypeName = NULL
    /\ doctypeSysid # NULL => param["#"].declared /\ param["#"].systemId # NULL

NotationInv ==
    Place = "notation" /\ "NOTATION_NAME" \in told /\ Hears("notation")
        /\ (documentEntity \/ keepProcessing) =>
        /\ declNotationName = said.NOTATION_NAME /\ declNotationName # NULL
        /\ declNotationPublicId = said.NOTATION_PUBLIC_ID

AttlistInv ==
    Place = "attlist" /\ "ATTRIBUTE_NAME" \in told /\ keepProcessing /\ Hears("attlist")
        => declAttributeType = said.ATTRIBUTE_TYPE

\* The entity being declared, if it is recorded, is what was said of it as long
\* as declarations count.
EntityInv ==
    Place = "entity" /\ told \cap D!Names # {} /\ declEntity # NoEntity
        /\ keepProcessing =>
        /\ Declared.text = said.ENTITY_VALUE
        /\ Declared.publicId = said.ENTITY_PUBLIC_ID
        /\ Declared.systemId = said.ENTITY_SYSTEM_ID
        /\ Declared.notation = said.ENTITY_NOTATION_NAME

\* As long as declarations of the document entity count, only the entity being
\* declared may be without text and system identifier.
Blank0(n) == /\ param[n].declared
             /\ param[n].text = NULL /\ param[n].systemId = NULL
EntitiesInv ==
    \A n \in Entities :
        documentEntity /\ keepProcessing /\ Blank0(n) =>
                    /\ Place = "entity" /\ told \cap D!Names # {}
                    /\ told \cap {"ENTITY_VALUE", "ENTITY_SYSTEM_ID",
                              "ENTITY_NOTATION_NAME"} = {}
                    /\ declEntity = [table |-> "param", name |-> n]

SpellInv ==
    setup.followed /\ code = "NONE" =>
        /\ SaidInv /\ PoolInv /\ DoctypeInv /\ NotationInv /\ AttlistInv
        /\ EntityInv /\ EntitiesInv

(***************************************************************************)
(* The invariant: the role machine is where it has told the parser it is,  *)
(* the tables of entities are whole, processing goes on unless a reference *)
(* was skipped, and what is being declared is what the machine says.       *)
(***************************************************************************)
DInv ==
    /\ setup \in Setups /\ RoleInv
    /\ TablesInv /\ ProcessingInv /\ DeclEntityInv /\ ElementInv

=============================================================================
