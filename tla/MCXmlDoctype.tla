---------------------------- MODULE MCXmlDoctype ----------------------------
(* XmlDoctype on the declarations that share the parser's variables. *)
EXTENDS XmlDoctype

Setup(offered, tokens, external, handlers) ==
    [offered |-> offered, tokens |-> tokens, external |-> external,
     standalone |-> BOOLEAN, parsing |-> BOOLEAN,
     listened |-> handlers, elements |-> {FALSE},
     shares |-> TRUE, followed |-> TRUE]

\* Element declarations made of the tokens that matter to a content model.
Elements ==
    [Setup(Decl({"DOCTYPE", "ELEMENT"}) \cup Name({"other", "EMPTY"})
             \cup Pound({"PCDATA"})
             \cup Plain({"OPEN_BRACKET", "OPEN_PAREN", "CLOSE_PAREN",
                         "CLOSE_PAREN_ASTERISK", "NAME_PLUS", "COMMA", "OR",
                         "DECL_CLOSE"}),
           15, {FALSE}, {{}})
       EXCEPT !.standalone = {FALSE}, !.parsing = {FALSE}, !.elements = BOOLEAN]

Common == Plain({"LITERAL", "DECL_CLOSE", "COMMENT"})

All  == {{"doctype", "entity", "attlist", "notation", "comment", "externalRef"},
         {"unparsed", "notStandalone", "skipped"}}
Most == {{"entity", "attlist", "notation", "comment", "externalRef"}}

\* Everything a declaration tells, in the document entity.
Document ==
    Setup(Common \cup Decl({"DOCTYPE", "ENTITY", "NOTATION", "ATTLIST"})
            \cup Name({"other", "SYSTEM", "PUBLIC", "NDATA", "CDATA"})
            \cup Pound({"IMPLIED"})
            \cup Plain({"OPEN_BRACKET", "CLOSE_BRACKET", "PERCENT", "OPEN_PAREN",
                        "OR", "CLOSE_PAREN", "PARAM_ENTITY_REF"}),
          12, {FALSE}, All)

\* Several declarations, in an external subset.
External ==
    [Setup(Common \cup Decl({"ENTITY", "NOTATION", "ATTLIST"})
            \cup Name({"other", "SYSTEM"}) \cup Pound({"IMPLIED"})
            \cup Plain({"PERCENT", "OPEN_PAREN", "OR", "CLOSE_PAREN",
                        "PARAM_ENTITY_REF"}),
           10, {TRUE}, Most)
       EXCEPT !.standalone = {FALSE}]

\* Element declarations of an external subset, in which references stand.
Inner ==
    [Setup(Decl({"ELEMENT"}) \cup Name({"other"})
             \cup Plain({"OPEN_PAREN", "CLOSE_PAREN", "COMMA", "OR", "DECL_CLOSE",
                         "PARAM_ENTITY_REF"}),
           9, {TRUE}, {{"externalRef"}})
       EXCEPT !.standalone = {FALSE}, !.elements = {TRUE}]

\* Every token, at every depth of the bounds.
AnyToken ==
    [Setup(Tokens, 0, BOOLEAN, {{}})
        EXCEPT !.standalone = {FALSE}, !.parsing = {FALSE}, !.shares = FALSE,
               !.followed = FALSE]

MCSetups == {Elements, Document, External, Inner, AnyToken}

\* The document entity alone.
DocumentSetups == {Document}

=============================================================================
