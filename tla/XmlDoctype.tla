----------------------------- MODULE XmlDoctype -----------------------------
(***************************************************************************)
(* The document type declaration in the parser of expat (lib/xmlparse.c): *)
(* the loop of doProlog, in which every token gets its role from the      *)
(* machine of XmlRole, and the case of that role changes the variables of *)
(* XmlProlog and of ContentModel.                                          *)
(***************************************************************************)
EXTENDS XmlProlog, ContentModel

CONSTANT Setups   \* what may happen in a behaviour, and its bounds

ASSUME SetupsAssumption ==
    \A s \in Setups :
        /\ s.offered \subseteq Tokens          \* the tokens there may be
        /\ s.tokens \in Nat                    \* bound: how many
        /\ s.external \subseteq BOOLEAN        \* the parser is of an external subset
        /\ s.standalone \subseteq BOOLEAN
        /\ s.parsing \subseteq BOOLEAN         \* parameter entities are read
        /\ IsFiniteSet(s.listened)            \* the sets of handlers set
        /\ s.elements \subseteq BOOLEAN        \* and the one of ContentModel
        /\ s.shares \in BOOLEAN               \* an external subset finds entities
        /\ s.followed \in BOOLEAN              \* FALSE: the machine alone

VARIABLE setup   \* the one of this behaviour

dvars == <<vars, prologVars, modelVars, setup>>

DInit ==
    /\ setup \in Setups
    /\ documentEntity \in {~e : e \in setup.external}
    /\ handler = IF documentEntity THEN "prolog0" ELSE "externalSubset0"
    /\ includeLevel = 0 /\ role = "NONE" /\ told = {}
    /\ IF setup.followed THEN level = 0 /\ role_none = "ERROR" ELSE Init
    /\ listened \in setup.listened /\ standalone \in setup.standalone
    /\ paramEntityParsing \in (IF documentEntity THEN setup.parsing ELSE {TRUE})
    /\ PrologInit(documentEntity \/ ~setup.shares)
    /\ elementDeclHandler \in setup.elements /\ ModelInit

Going == code = "NONE" /\ ~failed /\ number < setup.tokens

\* One round of the loop of doProlog.
Round(t) ==
    /\ setup.followed /\ Going
    /\ XmlTokenRole(t) /\ Declares
    /\ \/ Records(t)
       \/ event'.type = "reference" /\ RecordedElsewhere(t)
    /\ UNCHANGED setup

\* The application sets and takes away its handler of element declarations.
SetHandler ==
    /\ setup.followed /\ Going /\ setup.elements = BOOLEAN
    /\ XML_SetElementDeclHandler
    /\ UNCHANGED <<prologVars, setup>>

\* The machine on any tokens, whatever the parser does with the roles.
MachineAlone(t) ==
    /\ ~setup.followed
    /\ XmlTokenRole(t)
    /\ UNCHANGED <<prologVars, modelVars, setup>>

DNext ==
    \/ \E t \in setup.offered : Round(t) \/ MachineAlone(t)
    \/ SetHandler

DSpec == DInit /\ [][DNext]_dvars

=============================================================================
