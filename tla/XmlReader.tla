------------------------------ MODULE XmlReader ------------------------------
(***************************************************************************)
(* What the content parser of expat promises (lib/expat.h, XML_Parse,     *)
(* XML_StopParser and XML_ResumeParser): the application is told every    *)
(* token of the entity once and in order, an internal entity is read in   *)
(* place of its reference, and elements nest.  Pieces, processors,        *)
(* suspensions and the stack of open entities are not seen here: what is  *)
(* left to read is one sequence.  The parser may give up at any token.    *)
(***************************************************************************)
EXTENDS Naturals, Sequences

CONSTANTS
    Table,    \* the entities: [text, declared, inside, notation]
    Expand    \* defaultExpandInternalEntities

VARIABLES
    document, \* TRUE the document entity, FALSE an external general entity
    left,     \* the tokens to be read
    elements, \* the names of the open elements, the innermost first
    place,    \* "begin", "content", "cdata" or "epilog"
    told      \* the tokens the application is told by this step

rvars == <<document, left, elements, place, told>>

NULL == <<[kind |-> "NULL", name |-> "NULL"]>>

\* A reference to e is replaced by a text.
Expands(e) == Table[e].text # NULL /\ Expand

Outermost(open) == IF document /\ open = <<>> THEN "epilog" ELSE "content"

RInit ==
    /\ left = <<>> /\ elements = <<>> /\ told = <<>>
    /\ place = IF document THEN "content" ELSE "begin"

\* A token the application is told; p is where the next one is read.
Tells(p, open) ==
    /\ told' = <<Head(left)>> /\ left' = Tail(left)
    /\ place' = p /\ elements' = open

Kind == Head(left).kind
Name == Head(left).name

InContent == place \in {"begin", "content"}

Reads ==
    \/ InContent /\ Kind = "start" /\ Tells("content", <<Name>> \o elements)
    \/ InContent /\ Kind = "empty" /\ Tells(Outermost(elements), elements)
    \/ /\ InContent /\ Kind = "end" /\ elements # <<>> /\ Head(elements) = Name
       /\ Tells(Outermost(Tail(elements)), Tail(elements))
    \/ InContent /\ Kind = "data" /\ Tells("content", elements)
    \/ InContent /\ Kind = "open" /\ Tells("cdata", elements)
    \/ place = "cdata" /\ Tells(IF Kind = "close" THEN "content" ELSE "cdata", elements)
    \/ /\ place = "begin" /\ Kind = "bom"
       /\ left' = Tail(left) /\ told' = <<>> /\ UNCHANGED <<elements, place>>
    \/ place = "begin" /\ Kind = "decl" /\ Tells("content", elements)
    \/ Kind = "comment" /\ Tells(IF place = "epilog" THEN "epilog" ELSE "content", elements)
       /\ place # "cdata"
    \/ InContent /\ Kind = "ref" /\ ~Expands(Name) /\ Tells("content", elements)
    \/ /\ InContent /\ Kind = "ref" /\ Expands(Name)
       /\ left' = Table[Name].text \o Tail(left) /\ place' = "content"
       /\ told' = <<>> /\ UNCHANGED elements

Read == left # <<>> /\ Reads

\* The application hands over more of the entity.
Grows ==
    /\ Len(left') >= Len(left) /\ SubSeq(left', 1, Len(left)) = left
    /\ told' = <<>> /\ UNCHANGED <<elements, place>>

\* The parser does something of its own; after that no text declaration.
Works ==
    /\ told' = <<>> /\ UNCHANGED <<left, elements>>
    /\ place' = place \/ (place = "begin" /\ place' = "content")

GivesUp == told' = <<>> /\ left' = <<>> /\ elements' = <<>> /\ place' = "stopped"

RNext == UNCHANGED document /\ (Read \/ Grows \/ Works \/ GivesUp)

RSpec == RInit /\ [][RNext]_rvars

\* The next token, if there is one, is one the reader could read.
Readable ==
    \/ left = <<>>
    \/ Kind = "ref" /\ InContent
    \/ Kind = "end" /\ InContent /\ elements # <<>> /\ Head(elements) = Name
    \/ Kind \in {"start", "empty", "data", "open"} /\ InContent
    \/ Kind = "comment" \/ place = "cdata"
    \/ Kind \in {"bom", "decl"} /\ place = "begin"

\* An entity may end here.
Complete == left = <<>> /\ elements = <<>>
            /\ place = (IF document THEN "epilog" ELSE "content")
=============================================================================
