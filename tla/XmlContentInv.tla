---------------------------- MODULE XmlContentInv ----------------------------
(***************************************************************************)
(* An inductive invariant of XmlContent: how the calls of doContent, the   *)
(* list of open entities, the stack of open tags and the processor go with *)
(* each other, for as long as the parser is not suspended where it is      *)
(* known to lose its place.  Module XmlContentProofs proves it.            *)
(***************************************************************************)
EXTENDS XmlContent

\* The parser by itself.
ContentSpec ==
    ContentInit /\ [][ContentNext /\ UNCHANGED setup]_<<setup, cvars>>

\* A document is suspended at most one entity deep, an external entity in its
\* own text, and neither in a CDATA section of an internal entity: deeper,
\* internalEntityProcessor loses the rest of the outer entity, an external
\* entity goes on as if it were a document, and the section is forgotten.
Shallow ==
    status = "SUSPENDED" =>
       /\ Len(open) <= (IF Document THEN 1 ELSE 0)
       /\ open # <<>> => Mode # "cdata"

\* Never in an internal entity.
Flat == status = "SUSPENDED" => open = <<>>

Processors == {"content", "external", "init2", "init3", "cdata", "epilog",
               "internal", "error"}
Calls ==
    [via : Processors \cup {"resumed", "ref"}, src : {"buffer"} \cup DOMAIN Table,
     rest : Seq(Tokens), base : Nat,
     mode : {"content", "init2", "init3", "cdata", "epilog"}]
OpenEntities == [entity : DOMAIN Table, rest : Seq(Tokens), base : Nat]
Tags == [name : STRING, raw : {"buffer", "kept", "stored", "moved"}, depth : Nat]
Errors ==
    {"ASYNC_ENTITY", "TAG_MISMATCH", "MISPLACED_XML_PI", "INVALID_TOKEN", "NO_ELEMENTS",
     "UNDEFINED_ENTITY", "ENTITY_DECLARED_IN_PE", "RECURSIVE_ENTITY_REF",
     "BINARY_ENTITY_REF", "EXTERNAL_ENTITY_HANDLING", "JUNK_AFTER_DOC_ELEMENT",
     "UNCLOSED_CDATA_SECTION", "ABORTED"}
Results == {"running", "NONE"} \cup Errors

TypeOK ==
    /\ setup \in Setups
    /\ handed \in Nat /\ pending \in Seq(Tokens) /\ final \in BOOLEAN
    /\ status \in {"PARSING", "SUSPENDED", "FINISHED"}
    /\ processor \in Processors
    /\ calls \in Seq(Calls) /\ ret \in Results
    /\ open \in Seq(OpenEntities) /\ isOpen \subseteq DOMAIN Table
    /\ tags \in Seq(Tags)

-----------------------------------------------------------------------------
(* The C stack and the open entities *)

\* The first call is of a processor, the others are for references in the text
\* of the one below, which waits in its content.
StackInv ==
    \A i \in 1..Len(calls) :
       /\ calls[i].via = "ref" <=> i > 1
       /\ calls[i].src = "buffer" <=> calls[i].via \notin {"ref", "internal"}
       /\ i < Len(calls) => calls[i].mode = "content"

\* Where in the stack the outermost open entity is read.
First == IF calls[1].via = "internal" THEN 1 ELSE 2

\* The open entities are those that are read.
Aligned ==
    /\ Len(open) = Len(calls) + 1 - First
    /\ \A i \in 1..Len(open) :
          /\ open[i].entity = calls[i + First - 1].src
          /\ open[i].base = calls[i + First - 1].base

\* The entity in which the parser was suspended has left its place in the list.
Unwinding ==
    /\ status = "SUSPENDED" /\ ret = "NONE" /\ processor = "internal"
    /\ Len(calls) = 1 /\ calls[1].src = "buffer" /\ calls[1].mode = "content"
    /\ Document /\ Len(open) = 1 /\ open[1].base \in 1..TagLevel

\* Between two calls of the application an entity is open only where it goes on.
Idle ==
    \/ processor = "error" \/ status = "FINISHED"
    \/ open = <<>> /\ processor # "internal"
    \/ /\ processor = "internal" /\ status = "SUSPENDED" /\ Document
       /\ Len(open) = 1 /\ open[1].base \in 1..TagLevel

OpenInv ==
    /\ IF calls = <<>> THEN Idle ELSE Aligned \/ Unwinding
    /\ \A i \in 1..Len(open) : open[i].entity \in isOpen
    /\ \A i, j \in 1..Len(open) : i # j => open[i].entity # open[j].entity

\* Who is in charge of which call.
ProcessorInv ==
    calls # <<>> /\ ~Unwinding =>
      /\ processor # "error"
      /\ processor = "internal" <=> calls[1].via = "internal"
      /\ processor = "epilog" <=> This.mode = "epilog"
      /\ This.mode \in {"init2", "init3"} =>
            Len(calls) = 1 /\ calls[1].via = "external" /\ processor = This.mode
      /\ /\ ~Document /\ ret \in {"running", "NONE"}
         /\ This.mode \in {"content", "cdata"} /\ This.via # "cdata"
         => processor = "external"

\* The handlers of a document and of an external entity.
KindInv ==
    IF Document
    THEN /\ processor \notin {"external", "init2", "init3"}
         /\ calls # <<>> => calls[1].via # "external"
    ELSE /\ processor \notin {"content", "epilog", "internal"}
         /\ calls # <<>> => calls[1].via \in {"external", "cdata"}

-----------------------------------------------------------------------------
(* The levels of tags *)

\* No call is left below the level it began at.
LevelInv ==
    /\ \A i, j \in 1..Len(calls) : i <= j => calls[i].base <= calls[j].base
    /\ calls # <<>> => This.base <= TagLevel
    /\ \A i \in 1..Len(calls) :
          /\ calls[i].src # "buffer" => calls[i].base >= 1
          /\ calls[i].src = "buffer" =>
                calls[i].base = IF Document \/ calls[i].via = "cdata" THEN 0 ELSE 1
          /\ calls[i].via = "cdata" /\ ~Document =>
                calls[i].mode = "cdata" \/ ret = "ABORTED"

\* Nothing is read after the root element but the epilog, and nothing before.
RootInv ==
    /\ calls = <<>> /\ processor = "epilog" => tags = <<>>
    /\ calls # <<>> /\ This.mode = "epilog" =>
          Document /\ tags = <<>> /\ This.src = "buffer"
    /\ Document /\ tags = <<>> /\ processor # "error" =>
          IF calls = <<>>
          THEN \/ processor = "epilog"
               \/ /\ processor = "content" /\ status # "SUSPENDED"
                  /\ handed = 0 /\ pending = <<>>
          ELSE \/ This.mode = "epilog"
               \/ /\ This.mode = "content" /\ This.src = "buffer" /\ ret = "running"
                  /\ This.rest # <<>> /\ Token.kind \in {"start", "empty"}

\* When a call returns without having been stopped, its text is at an end.
DoneInv ==
    calls # <<>> /\ ret = "NONE" /\ status # "SUSPENDED" =>
      \/ ~final /\ This.src = "buffer"
      \/ This.rest = <<>> /\ This.mode = "epilog"
      \/ This.rest = <<>> /\ This.mode = "content" /\ This.base # 0 /\ TagLevel = This.base

IInv ==
    /\ TypeOK /\ StackInv /\ OpenInv /\ ProcessorInv /\ KindInv
    /\ LevelInv /\ RootInv /\ DoneInv

-----------------------------------------------------------------------------
(* Elements within entities *)

\* A tag was opened within the first k of the open entities where its level says.
TagsWithin ==
    \A i \in DOMAIN tags :
       /\ tags[i].depth <= Len(open)
       /\ \A k \in 1..Len(open) :
             tags[i].depth >= k <=> TagLevel - i + 1 > open[k].base

\* ... until the parser is stopped for good.
DepthInv == calls # <<>> \/ ~(processor = "error" \/ status = "FINISHED") => TagsWithin

\* The invariant of a parser that is never suspended in an internal entity.
FlatInv == IInv /\ processor # "internal" /\ DepthInv

=============================================================================
