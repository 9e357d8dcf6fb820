---------------------------- MODULE ContentModel ----------------------------
(***************************************************************************)
(* Element declarations in the parser of expat (lib/xmlparse.c): the part *)
(* of doProlog that hears the roles of <!ELEMENT ...> from the machine of *)
(* XmlRole, the scaffold it builds of the groups and the children, and    *)
(* the XML_Content array that build_model makes of the scaffold for the   *)
(* application's element declaration handler.                             *)
(*                                                                         *)
(* Names are the places of their tokens in the declaration, so that every *)
(* child has a name of its own.  The arrays grow when they are full and   *)
(* are functions without a size here.                                     *)
(***************************************************************************)
EXTENDS XmlRole, Integers, SequencesExt

VARIABLES
    elementDeclHandler, \* the application has set the handler
    in_eldecl,          \* the declaration being read is recorded
    groupConnector,     \* the connector of each open group, by its level
    scaffold,           \* the groups and children recorded, numbered from 0
    scaffIndex,         \* the nodes of the open groups
    scaffLevel,         \* how many are open
    contentStringLen,   \* room the names need, one name counting for one
    spelled,            \* history: the tokens since the name of the element
    reported,           \* what the handler was given for the last token
    failed              \* doProlog has returned an error

modelVars == <<elementDeclHandler, in_eldecl, groupConnector, scaffold, scaffIndex,
               scaffLevel, contentStringLen, spelled, reported, failed>>
cvars == <<vars, modelVars>>

Nothing == [type |-> "nothing"]

-----------------------------------------------------------------------------
(* The scaffold *)

\* nextScaffoldPart, then the fields its caller sets.  What it leaves in type,
\* quant and name is whatever an earlier declaration left there.
NextScaffoldPart(fields) ==
    LET next   == Cardinality(DOMAIN scaffold)
        parent == scaffIndex[scaffLevel - 1]
        me     == fields @@ [type |-> "stale", quant |-> "stale", name |-> 0,
                             firstchild |-> 0, lastchild |-> 0, childcnt |-> 0,
                             nextsib |-> 0]
        linked ==
            IF scaffLevel = 0 THEN scaffold
            ELSE LET last == scaffold[parent].lastchild
                     chained == IF last = 0 THEN scaffold
                                ELSE [scaffold EXCEPT ![last].nextsib = next]
                 IN [chained EXCEPT
                        ![parent].firstchild =
                            IF scaffold[parent].childcnt = 0 THEN next ELSE @,
                        ![parent].lastchild = next,
                        ![parent].childcnt = @ + 1]
    IN linked @@ (next :> me)

\* The element recorded last, for the parts of the declaration that follow.
Open == scaffIndex[scaffLevel - 1]

\* build_node: fills cell dest with the node src, and gives the cells from
\* free on to its children, which are built next: a loop under way has the
\* child to build, the cell for it and how many are left.
BuildNode(nodes, src, dest, built) ==
    LET node == nodes[src]
        cell == [type |-> node.type, quant |-> node.quant, name |-> 0,
                 children |-> built.free, numchildren |-> node.childcnt]
        leaf == [cell EXCEPT !.name = node.name, !.children = -1, !.numchildren = 0]
        loop == [child |-> node.firstchild, cell |-> built.free,
                 left |-> node.childcnt]
    IN IF node.type = "NAME"
       THEN [built EXCEPT !.cells = @ @@ (dest :> leaf), !.names = @ + 1]
       ELSE [built EXCEPT !.cells = @ @@ (dest :> cell),
                          !.free = @ + node.childcnt, !.loops = <<loop>> \o @]

\* One round of the innermost loop, or its end.
BuildChild(nodes, built) ==
    LET loop == Head(built.loops)
        next == [child |-> nodes[loop.child].nextsib, cell |-> loop.cell + 1,
                 left |-> loop.left - 1]
    IN IF built.loops = <<>> THEN built
       ELSE IF loop.left = 0 THEN [built EXCEPT !.loops = Tail(@)]
       ELSE BuildNode(nodes, loop.child, loop.cell,
                      [built EXCEPT !.loops = <<next>> \o Tail(@)])

\* Every node is built in one round, and every loop ended in one.
build_model(nodes) ==
    LET after[rounds \in Nat] ==
            IF rounds = 0
            THEN BuildNode(nodes, 0, 0, [cells |-> <<>>, free |-> 1, names |-> 0,
                                         loops |-> <<>>])
            ELSE BuildChild(nodes, after[rounds - 1])
    IN after[2 * Cardinality(DOMAIN nodes)]

-----------------------------------------------------------------------------
(* The cases of doProlog *)

Unchanged == UNCHANGED <<elementDeclHandler, groupConnector>>
NoScaffold == UNCHANGED <<scaffold, scaffIndex, scaffLevel, contentStringLen>>
Quiet == UNCHANGED <<in_eldecl, failed>> /\ reported' = Nothing

ElementName ==
    /\ Unchanged /\ UNCHANGED <<failed, scaffIndex, contentStringLen>>
    /\ reported' = Nothing
    /\ IF elementDeclHandler
       THEN /\ scaffLevel' = 0 /\ scaffold' = <<>> /\ in_eldecl' = TRUE
       ELSE UNCHANGED <<scaffLevel, scaffold, in_eldecl>>

\* CONTENT_ANY and CONTENT_EMPTY
WholeContent ==
    /\ Unchanged /\ NoScaffold /\ UNCHANGED failed
    /\ in_eldecl' = FALSE
    /\ reported' = IF in_eldecl /\ elementDeclHandler
                   THEN [type |-> IF role' = "CONTENT_ANY" THEN "ANY" ELSE "EMPTY"]
                   ELSE Nothing

Pcdata ==
    /\ Unchanged /\ Quiet /\ UNCHANGED <<scaffIndex, scaffLevel, contentStringLen>>
    /\ scaffold' = IF in_eldecl THEN [scaffold EXCEPT ![Open].type = "MIXED"]
                   ELSE scaffold

\* level is the one XmlTokenRole has just set.
GroupOpen ==
    /\ Quiet /\ UNCHANGED <<elementDeclHandler, contentStringLen>>
    /\ groupConnector' = (level' :> "none") @@ groupConnector
    /\ IF in_eldecl
       THEN /\ scaffold' = NextScaffoldPart([type |-> "SEQ"])
            /\ scaffIndex' = (scaffLevel :> Cardinality(DOMAIN scaffold)) @@ scaffIndex
            /\ scaffLevel' = scaffLevel + 1
       ELSE UNCHANGED <<scaffold, scaffIndex, scaffLevel>>

GroupSequenceUnchecked ==
    /\ UNCHANGED <<elementDeclHandler, in_eldecl, failed>> /\ NoScaffold
    /\ reported' = Nothing
    /\ groupConnector' = [groupConnector EXCEPT ![level'] = "COMMA"]

GroupSequence ==
    /\ UNCHANGED <<elementDeclHandler, in_eldecl>> /\ NoScaffold
    /\ reported' = Nothing
    /\ IF groupConnector[level'] = "OR"
       THEN failed' = TRUE /\ UNCHANGED groupConnector
       ELSE /\ groupConnector' = [groupConnector EXCEPT ![level'] = "COMMA"]
            /\ UNCHANGED failed

GroupChoiceOutermost ==
    /\ UNCHANGED <<elementDeclHandler, in_eldecl>> /\ reported' = Nothing
    /\ UNCHANGED <<scaffIndex, scaffLevel, contentStringLen>>
    /\ IF groupConnector[level'] = "COMMA"
       THEN failed' = TRUE /\ UNCHANGED <<groupConnector, scaffold>>
       ELSE /\ UNCHANGED failed
            /\ groupConnector' = [groupConnector EXCEPT ![level'] = "OR"]
            /\ scaffold' =
                 IF in_eldecl /\ groupConnector[level'] = "none"
                 THEN [scaffold EXCEPT ![scaffIndex[0]].type = "CHOICE"] ELSE scaffold

GroupChoice ==
    /\ UNCHANGED <<elementDeclHandler, in_eldecl>> /\ reported' = Nothing
    /\ UNCHANGED <<scaffIndex, scaffLevel, contentStringLen>>
    /\ IF groupConnector[level'] = "COMMA"
       THEN failed' = TRUE /\ UNCHANGED <<groupConnector, scaffold>>
       ELSE /\ UNCHANGED failed
            /\ groupConnector' = [groupConnector EXCEPT ![level'] = "OR"]
            /\ scaffold' =
                 IF /\ in_eldecl /\ groupConnector[level'] = "none"
                    /\ scaffold[Open].type # "MIXED"
                 THEN [scaffold EXCEPT ![Open].type = "CHOICE"]
                 ELSE scaffold

ChildQuant == [CONTENT_ELEMENT |-> "NONE", CONTENT_ELEMENT_OPT |-> "OPT",
               CONTENT_ELEMENT_REP |-> "REP", CONTENT_ELEMENT_PLUS |-> "PLUS"]
CloseQuant == [GROUP_CLOSE |-> "NONE", GROUP_CLOSE_OPT |-> "OPT",
               GROUP_CLOSE_REP |-> "REP", GROUP_CLOSE_PLUS |-> "PLUS"]

ElementContentUncounted(quant) ==
    /\ Unchanged /\ Quiet /\ UNCHANGED <<scaffIndex, scaffLevel>>
    /\ IF in_eldecl
       THEN /\ scaffold' = NextScaffoldPart([type |-> "NAME", quant |-> quant,
                                             name |-> Len(spelled')])
            /\ contentStringLen' = IF quant = "NONE" THEN contentStringLen + 1
                                   ELSE contentStringLen
       ELSE UNCHANGED <<scaffold, contentStringLen>>

\* elementContent: a child, with the quantifier of its token.
ElementContent(quant) ==
    /\ Unchanged /\ Quiet /\ UNCHANGED <<scaffIndex, scaffLevel>>
    /\ IF in_eldecl
       THEN /\ scaffold' = NextScaffoldPart([type |-> "NAME", quant |-> quant,
                                             name |-> Len(spelled')])
            /\ contentStringLen' = contentStringLen + 1
       ELSE UNCHANGED <<scaffold, contentStringLen>>

\* closeGroup: the last one reports the model and ends the recording.
CloseGroups(quant) ==
    /\ Unchanged /\ UNCHANGED <<scaffIndex, failed>>
    /\ IF ~in_eldecl
       THEN /\ UNCHANGED <<in_eldecl, scaffold, scaffLevel, contentStringLen>>
            /\ reported' = Nothing
       ELSE /\ scaffLevel' = scaffLevel - 1
            /\ scaffold' = [scaffold EXCEPT ![Open].quant = quant]
            /\ IF scaffLevel = 1
               THEN /\ in_eldecl' = FALSE /\ contentStringLen' = 0
                    /\ reported' =
                         IF elementDeclHandler
                         THEN [type |-> "model", model |-> build_model(scaffold'),
                               room |-> Cardinality(DOMAIN scaffold),
                               nameRoom |-> contentStringLen]
                         ELSE Nothing
               ELSE /\ UNCHANGED <<in_eldecl, contentStringLen>>
                    /\ reported' = Nothing

OtherRoles == Unchanged /\ NoScaffold /\ Quiet

BadRole ==
    Unchanged /\ NoScaffold /\ UNCHANGED in_eldecl
        /\ reported' = Nothing /\ failed' = TRUE

Spells(t) == spelled' = IF Place' # "element" \/ role' = "ELEMENT_NAME" THEN <<>>
                        ELSE IF role' = "INNER_PARAM_ENTITY_REF" THEN spelled
                        ELSE Append(spelled, t)

\* What one round of the loop of doProlog does with the role of token t.
Records(t) ==
    /\ Spells(t)
    /\ CASE role' = "ELEMENT_NAME"                        -> ElementName
         [] role' \in {"CONTENT_ANY", "CONTENT_EMPTY"}    -> WholeContent
         [] role' = "CONTENT_PCDATA"                      -> Pcdata
         [] role' = "GROUP_OPEN"                          -> GroupOpen
         [] role' = "GROUP_SEQUENCE"                      -> GroupSequence
         [] role' = "GROUP_CHOICE"                        -> GroupChoice
         [] role' \in DOMAIN ChildQuant                   -> ElementContent(ChildQuant[role'])
         [] role' \in DOMAIN CloseQuant                   -> CloseGroups(CloseQuant[role'])
         [] role' = "ERROR"                               -> BadRole
         [] OTHER                                         -> OtherRoles

\* A reference to an external entity, whose parser has the same scaffold and has
\* declared an element in it.  What it leaves in the arrays is not read.
RecordedElsewhere(t) ==
    /\ Spells(t) /\ Unchanged /\ UNCHANGED <<scaffold, scaffIndex, scaffLevel, failed>>
    /\ in_eldecl' = FALSE /\ contentStringLen' \in {0, contentStringLen}
    /\ reported' = Nothing

\* XML_SetElementDeclHandler, between any two tokens: the default handler and
\* the handlers of references run there, and so does the application between
\* two buffers.
XML_SetElementDeclHandler ==
    /\ ~failed
    /\ elementDeclHandler' = ~elementDeclHandler
    /\ UNCHANGED <<vars, in_eldecl, groupConnector, scaffold, scaffIndex,
                   scaffLevel, contentStringLen, spelled, failed>>
    /\ reported' = Nothing

ModelInit ==
    /\ in_eldecl = FALSE /\ groupConnector = <<>>
    /\ scaffold = <<>> /\ scaffIndex = <<>> /\ scaffLevel = 0
    /\ contentStringLen = 0
    /\ spelled = <<>> /\ reported = Nothing /\ failed = FALSE

-----------------------------------------------------------------------------
(* What a declaration means, read off its tokens *)

Kind(i) == spelled[i][1]
Opens(i) == Kind(i) = "OPEN_PAREN"
Shuts(i) == Kind(i) \in {"CLOSE_PAREN", "CLOSE_PAREN_QUESTION",
                         "CLOSE_PAREN_ASTERISK", "CLOSE_PAREN_PLUS"}
IsChild(i) == Kind(i) \in {"NAME", "PREFIXED_NAME", "NAME_QUESTION",
                           "NAME_ASTERISK", "NAME_PLUS"}

\* How many groups are open before token j, counted from token i.
Nesting(i, j) ==
    Cardinality({k \in i .. (j - 1) : Opens(k)})
        - Cardinality({k \in i .. (j - 1) : Shuts(k)})

\* The ")" of the group that token i opens.
Shut(i) ==
    CHOOSE j \in (i + 1) .. Len(spelled) :
        /\ Shuts(j) /\ Nesting(i, j) = 1
        /\ \A k \in (i + 1) .. (j - 1) : Nesting(i, k) >= 1

\* The tokens directly in the group that token i opens.
Within(i) == {k \in (i + 1) .. (Shut(i) - 1) : Nesting(i, k) = 1}

Quantifier(i) ==
    CASE Kind(i) \in {"NAME_QUESTION", "CLOSE_PAREN_QUESTION"} -> "OPT"
      [] Kind(i) \in {"NAME_ASTERISK", "CLOSE_PAREN_ASTERISK"} -> "REP"
      [] Kind(i) \in {"NAME_PLUS", "CLOSE_PAREN_PLUS"}         -> "PLUS"
      [] OTHER                                                 -> "NONE"

\* The tree that a group or a child stands for.
Meaning ==
    LET tree[i \in 1 .. Len(spelled)] ==
          IF IsChild(i)
          THEN [type |-> "NAME", quant |-> Quantifier(i), name |-> i, children |-> <<>>]
          ELSE LET parts == {k \in Within(i) : IsChild(k) \/ Opens(k)}
               IN [type |-> IF \E k \in Within(i) : Kind(k) = "POUND_NAME" THEN "MIXED"
                            ELSE IF \E k \in Within(i) : Kind(k) = "OR" THEN "CHOICE"
                            ELSE "SEQ",
                   quant |-> Quantifier(Shut(i)), name |-> 0,
                   children |-> [n \in 1 .. Cardinality(parts) |->
                                   tree[SetToSortSeq(parts, <)[n]]]]
    IN tree

\* The tree an array of cells stands for.
Read(cells) ==
    LET tree[c \in DOMAIN cells] ==
          [type |-> cells[c].type, quant |-> cells[c].quant, name |-> cells[c].name,
           children |-> [n \in 1 .. cells[c].numchildren |->
                           tree[cells[c].children + n - 1]]]
    IN tree[0]

(***************************************************************************)
(* The model given to the application's handler is the one the tokens of  *)
(* the declaration spell: its groups, their order, connectors and         *)
(* quantifiers (GROUP_OPEN to closeGroup in doProlog, nextScaffoldPart,   *)
(* build_node), whenever the handler is set or taken away.                *)
(***************************************************************************)
ReportsTheDeclaration ==
    [][ reported'.type = "model" =>
            Read(reported'.model.cells) = (Meaning[1])' ]_cvars

(***************************************************************************)
(* No group of an accepted declaration mixes "," and "|": the machine of  *)
(* xmlrole.c says it does not check that, groupConnector does it.         *)
(***************************************************************************)
ConnectorsNotMixed ==
    [][ handler' = "declClose" /\ ~failed' /\ spelled' # <<>> /\ (Opens(1))' =>
          \A i \in 1 .. Len(spelled') :
             (Opens(i))' => ~ \E j, k \in (Within(i))' :
                              (Kind(j))' = "COMMA" /\ (Kind(k))' = "OR" ]_cvars

(***************************************************************************)
(* A content model and the memory it is built in agree.  While a           *)
(* declaration is recorded, the groups the parser has open are the ones    *)
(* the role machine counts, and no recording outlives its content model,   *)
(* however the handler is set and unset meanwhile; and build_node fills    *)
(* the block that build_model has allocated exactly, every cell once, none *)
(* beyond it, and no more names than contentStringLen made room for.       *)
(***************************************************************************)
RecordingFits ==
    in_eldecl /\ ~failed => Place = "element" /\ scaffLevel = Depth

ModelsFit ==
    /\ RecordingFits
    /\ in_eldecl /\ ~failed =>
          \A l \in 0 .. (scaffLevel - 1) :
             scaffold[scaffIndex[l]].type \in {"SEQ", "CHOICE", "MIXED"}
    /\ reported.type = "model" =>
          /\ DOMAIN reported.model.cells = 0 .. (reported.room - 1)
          /\ reported.model.free = reported.room
          /\ reported.model.names <= reported.nameRoom

=============================================================================
