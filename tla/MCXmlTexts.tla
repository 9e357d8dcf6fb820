----------------------------- MODULE MCXmlTexts ------------------------------
(***************************************************************************)
(* The texts that XmlTok cuts: documents in pieces, over a few bytes each *)
(* and with short keywords; and, where there is no document, the literals *)
(* of XmlValues, with two names of one letter and one number for each     *)
(* character that matters.                                                 *)
(***************************************************************************)
EXTENDS XmlChunks, XmlValues

MC_LSQB     == <<"a", "[">>
MCTarget    == <<"x">>
MCMisspelt  == {<<"X">>}

From(loop, first, bytes, len) ==
    [loop |-> loop, text |-> first, bytes |-> bytes, len |-> len]

\* Content: data, markup by its first bytes, a start tag after its name.
MCContent ==
    {From("content", <<>>, {"<", "&", ">", "]", "a", "CR", "LF", "lead"}, 5),
     From("cdata", <<>>, {"]", ">", "a", "CR", "LF", "lead", "bad"}, 5),
     From("content", <<"<", "!", "[">>, {"a", "[", "]", ">", "CR", "LF"}, 8),
     From("content", <<"<", "!", "-">>, {"-", "a", ">", "CR", "bad"}, 9),
     From("content", <<"<", "?">>, {"x", "X", "a", "?", ">", " ", "bad"}, 7),
     From("content", <<"<", "/">>, {"a", "1", ":", " ", "CR", ">", "lead"}, 7),
     From("content", <<"&">>, {"a", "#", "x", "1", ";", "lead"}, 6),
     From("content", <<"<">>, {"a", "1", ":", "=", " ", ">", "/", "lead", "bad"}, 6),
     From("content", <<"<", "a", " ", "a", "=">>,
           {"a", "=", "'", "\"", " ", "/", ">", "&"}, 10)}

\* Start tags from within an attribute value on: blanks inside it and at its
\* edges, other white space, references, one of them the first thing in it;
\* and a second attribute after one that collapsing changes, or not.
MCTags ==
    {From("content", <<"<", "a", " ", "a", "=", "'">>, {"a", " ", "'", ">"}, 13),
     From("content", <<"<", "a", " ", "a", "=", "'">>,
           {"TAB", "CR", "LF", " ", "'", ">"}, 11),
     From("content", <<"<", "a", " ", "a", "=", "'", "&">>,
           {"a", "#", "1", ";", " ", "'", ">"}, 12),
     From("content", <<"<", "a", " ", "a", "=", "'", "a", "&", "#", "1", ";">>,
           {"a", " ", "&", ";", "'", ">"}, 15),
     From("content", <<"<", "a", " ", "a", "=", "'", "a", "'", " ", "x", "=">>,
           {"a", " ", "'", "\"", "/", ">"}, 16),
     From("content", <<"<", "a", " ", "a", "=", "'", " ", "a", "'", " ", "x", "=">>,
           {"a", " ", "'", "/", ">"}, 16)}

\* The prolog: any tokens, then the longer ones by their first bytes.
MCProlog ==
    {From("prolog", <<>>,
           {"<", "a", ":", "%", "'", "]", "[", ">", " ", "CR", "(", ")",
            "*", "#", "?", "lead"}, 4),
     From("prolog", <<"<", "!">>, {"a", "-", "[", "%", " ", ">", "'"}, 7),
     From("prolog", <<"'">>, {"a", "'", "\"", " ", ">", "%", "bad", "lead"}, 6),
     From("prolog", <<"%">>, {"a", "1", ";", " ", "%", "lead"}, 6),
     From("prolog", <<"a">>, {"a", ":", "+", "*", "?", "|", " ", "LF", ",", ")"}, 5),
     From("ignore", <<>>, {"<", "!", "[", "]", ">", "a", "bad"}, 5),
     From("ignore", <<"<", "!", "[">>, {"<", "]", ">", "bad"}, 9)}

Literals == From("content", <<>>, {}, 0)

MCBeginnings == MCContent \cup MCTags \cup MCProlog \cup {Literals}

A == <<"a">>
B == <<"x">>

MCNames == {A, B}

MCPredefined == <<"X">> :> "<"
MCCharRefs == (<<"#", "1">> :> " ") @@ (<<"#", "1", "1">> :> "&")
                @@ (<<"#", "x", "a">> :> "CR")

MCPieces == {<<"&", "a", ";">>, <<"&", "x", ";">>, <<"%", "a", ";">>,
             <<"&", "#", "1", ";">>, <<"&", "#", "1", "1", ";">>, <<"a", ";">>, <<" ">>,
             <<"&", "X", ";", "&", "#", "x", "a", ";", "CR", "LF">>}

MCEntityPlaces ==
    {[isParamEntity |-> FALSE, external |-> "read"]} \cup
    [isParamEntity : {TRUE}, external : {"read", "unread", "refused"}]

Content(standalone, refs) ==
    [prolog |-> FALSE, documentEntity |-> TRUE, inEntity |-> FALSE,
     standalone |-> standalone, hasParamEntityRefs |-> refs]
Prolog(standalone, refs) == [Content(standalone, refs) EXCEPT !.prolog = TRUE]

MCAttributePlaces ==
    {Content(FALSE, FALSE), Content(FALSE, TRUE), Prolog(FALSE, FALSE),
     [Prolog(TRUE, TRUE) EXCEPT !.inEntity = TRUE]}

None == Entity("undeclared", <<>>, FALSE)

Outside == Entity("external", <<"a", "%", "x", ";", "CR">>, FALSE)

MCTables ==
    {[general |-> (A :> None) @@ (B :> x), param |-> (A :> p) @@ (B :> None)] :
       <<x, p>> \in {<<Entity("external", <<>>, TRUE), Outside>>,
                     <<Entity("unparsed", <<>>, FALSE), None>>}}

\* The values that are not looked at with a document.
ValuesAbsent ==
    /\ general = <<>> /\ param = <<>>
    /\ literal = <<>> /\ pieces = 0 /\ stored = Nothing

MCInit == ChunksInit /\ IF start = Literals THEN ValuesInit ELSE ValuesAbsent

MCNext ==
    \/ start # Literals /\ ChunksNext /\ UNCHANGED valvars
    \/ start = Literals /\ ValuesNext /\ UNCHANGED xvars

MCSpec == MCInit /\ [][MCNext]_<<xvars, valvars>>

=============================================================================
