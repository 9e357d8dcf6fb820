------------------------------ MODULE XmlContent ------------------------------
(***************************************************************************)
(* The content of a document or of an external general entity in expat    *)
(* (lib/xmlparse.c): doContent with the calls it makes of itself for      *)
(* internal entities, the processors that take it up again when more of   *)
(* the entity comes or the application resumes, and what XML_Parse,       *)
(* XML_StopParser and XML_ResumeParser make of it.  Tokens come whole;    *)
(* XmlChunks is about the pieces.  A handler may stop the parser.         *)
(*                                                                         *)
(* The C stack is the sequence of the calls of doContent that are active: *)
(*   via   who called: a processor, or "ref" for processInternalEntity    *)
(*   src   "buffer" or the entity whose text is read                      *)
(*   rest  the tokens from s to end                                       *)
(*   base  startTagLevel                                                  *)
(*   mode  "content", or the function doContent has gone on to            *)
(***************************************************************************)
EXTENDS Naturals, Sequences, FiniteSets, SequencesExt

CONSTANTS
    Table,      \* the entities: [text, declared, inside, notation]
    Expand,     \* defaultExpandInternalEntities
    MaxChunk,   \* bound: tokens of a piece
    Setups      \* what may happen in a behaviour, and its bounds

\* The tokens of content: a reference is to an entity of the table.
Tokens == {t \in [kind : STRING, name : STRING] : t.kind = "ref" => t.name \in DOMAIN Table}

ASSUME ContentAssumption ==
    /\ Expand \in BOOLEAN /\ MaxChunk \in Nat
    /\ \A e \in DOMAIN Table : e \in STRING \ {"buffer"} /\ Table[e].text \in Seq(Tokens)
    /\ \A s \in Setups : /\ {s.document, s.mustDeclare} \subseteq BOOLEAN
                          /\ {s.stopDepth, s.tokens} \subseteq Nat
                          /\ s.alphabet \subseteq Tokens

VARIABLE setup   \* the one of this behaviour

Alphabet    == setup.alphabet    \* the tokens the entity may be made of
Document    == setup.document    \* no parentParser
MustDeclare == setup.mustDeclare \* !dtd->hasParamEntityRefs || dtd->standalone
StopAt      == setup.stopAt      \* the kinds of tokens at which a handler may suspend
StopDepth   == setup.stopDepth   \* bound: it does so with at most that many entities open
MaxTokens   == setup.tokens      \* bound: tokens of the entity

VARIABLES
    handed,    \* tokens the application has handed over
    pending,   \* the tokens from bufferPtr to bufferEnd
    final,     \* ps_finalBuffer
    status,    \* ps_parsing
    processor,
    errorCode,
    calls,     \* the C stack
    ret,       \* "running", or what the innermost call is returning
    open,      \* openInternalEntities, outermost first: [entity, rest, base]
    isOpen,    \* the entities with open = XML_TRUE
    tags,      \* tagStack, innermost first: [name, raw, depth]
    told       \* the tokens the application is told by this step

cvars == <<handed, pending, final, status, processor, errorCode, calls, ret,
           open, isOpen, tags, told>>

NULL == <<[kind |-> "NULL", name |-> "NULL"]>>

\* tagLevel: externalEntityInitProcessor3 starts it at 1.
TagLevel == Len(tags) + (IF Document THEN 0 ELSE 1)

ContentInit ==
    /\ setup \in Setups
    /\ handed = 0 /\ pending = <<>> /\ final = FALSE /\ status = "PARSING"
    /\ processor = (IF Document THEN "content" ELSE "init2")
    /\ errorCode = "NONE" /\ calls = <<>> /\ ret = "running"
    /\ open = <<>> /\ isOpen = {} /\ tags = <<>> /\ told = <<>>

-----------------------------------------------------------------------------
(* Calling a processor: XML_Parse, XML_ResumeParser, XML_StopParser *)

Call(via, src, rest, base, mode) ==
    [via |-> via, src |-> src, rest |-> rest, base |-> base, mode |-> mode]

Buffer(via, rest, base, mode) == Call(via, "buffer", rest, base, mode)

\* The call a processor makes with the text of the buffer.
Enters(text) ==
    CASE processor = "content"  -> Buffer("content", text, 0, "content")
      [] processor = "external" -> Buffer("external", text, 1, "content")
      [] processor \in {"init2", "init3"} -> Buffer("external", text, 1, processor)
      [] processor = "cdata"    -> Buffer("cdata", text, 0, "cdata")
      [] processor = "epilog"   -> Buffer("epilog", text, 0, "epilog")
      [] processor = "internal" ->
           LET o == open[Len(open)] IN Call("internal", o.entity, o.rest, o.base, "content")

\* XML_Parse with a piece of the entity, the last one if isFinal.
XML_Parse(chunk, isFinal) ==
    /\ calls = <<>> /\ status = "PARSING" /\ processor # "error"
    /\ handed + Len(chunk) <= MaxTokens
    /\ handed' = handed + Len(chunk)
    /\ pending' = pending \o chunk
    /\ final' = isFinal
    /\ calls' = <<Enters(pending')>>
    /\ ret' = "running" /\ told' = <<>>
    /\ UNCHANGED <<status, processor, errorCode, open, isOpen, tags>>

Resume ==
    /\ calls = <<>> /\ status = "SUSPENDED" /\ processor # "error"
    /\ status' = "PARSING" /\ told' = <<>>
    /\ IF processor = "internal" /\ open = <<>>
       THEN /\ processor' = "error" /\ errorCode' = "UNEXPECTED_STATE"
            /\ UNCHANGED <<calls, ret>>
       ELSE /\ calls' = <<Enters(pending)>> /\ ret' = "running"
            /\ UNCHANGED <<processor, errorCode>>
    /\ UNCHANGED <<handed, pending, final, open, isOpen, tags>>

\* XML_StopParser(FALSE) on a suspended parser.
Abort ==
    /\ calls = <<>> /\ status = "SUSPENDED"
    /\ status' = "FINISHED" /\ told' = <<>>
    /\ UNCHANGED <<handed, pending, final, processor, errorCode, calls, ret,
                   open, isOpen, tags>>

-----------------------------------------------------------------------------
(* One token of the innermost call *)

This  == calls[Len(calls)]
Token == Head(This.rest)
Is(mode, kinds) == This.mode = mode /\ This.rest # <<>> /\ Token.kind \in kinds

Running == calls # <<>> /\ ret = "running"

\* The innermost call goes on, as call.
Becomes(call) == calls' = [calls EXCEPT ![Len(calls)] = call]
Past == [This EXCEPT !.rest = Tail(@)]

Fails(code) ==
    /\ ret' = code /\ told' = <<>>
    /\ UNCHANGED <<calls, status, processor, open, isOpen, tags>>

Returns ==
    /\ ret' = "NONE" /\ told' = <<>>
    /\ UNCHANGED <<calls, status, processor, open, isOpen, tags>>

\* What the handlers of this token may do with XML_StopParser.
Stops ==
    CASE status = "PARSING" ->
           {"PARSING", "FINISHED"} \cup
           (IF Token.kind \in StopAt /\ Len(open) <= StopDepth THEN {"SUSPENDED"} ELSE {})
      [] status = "SUSPENDED" -> {"SUSPENDED", "FINISHED"}
      [] status = "FINISHED"  -> {"FINISHED"}

Tell(st) ==
    told' = <<Token>> /\ status' = st

\* The end of the loop.
LoopEnd(st) ==
    \/ st = "PARSING"   /\ ret' = "running"
    \/ st = "SUSPENDED" /\ ret' = "NONE"
    \/ st = "FINISHED"  /\ ret' = "ABORTED"

\* A token that is told and changes nothing else.
Reports ==
    \E st \in Stops : Tell(st) /\ LoopEnd(st) /\ Becomes(Past)
      /\ UNCHANGED <<processor, open, isOpen, tags>>

\* doContent returns what epilogProcessor does with the rest, without the
\* end of the loop.
GoesToEpilog ==
    /\ Becomes([Past EXCEPT !.mode = "epilog"])
    /\ processor' = "epilog" /\ ret' = "running"

StartTag ==
    /\ Is("content", {"start"})
    /\ tags' = <<[name |-> Token.name, depth |-> Len(open),
                  raw |-> IF This.src = "buffer" THEN "buffer" ELSE "kept"]>> \o tags
    /\ \E st \in Stops : Tell(st) /\ LoopEnd(st)
    /\ Becomes(Past)
    /\ UNCHANGED <<processor, open, isOpen>>

EmptyElement ==
    /\ Is("content", {"empty"})
    /\ \E st \in Stops :
          /\ Tell(st)
          /\ IF TagLevel = 0
             THEN GoesToEpilog
             ELSE LoopEnd(st) /\ Becomes(Past) /\ UNCHANGED processor
    /\ UNCHANGED <<open, isOpen, tags>>

EndTagAnywhere ==
    /\ Is("content", {"end"})
    /\ \/ TagLevel = calls[1].base /\ Fails("ASYNC_ENTITY")
       \/ /\ TagLevel # calls[1].base
          /\ Head(tags).name # Token.name \/ Head(tags).raw = "moved"
          /\ Fails("TAG_MISMATCH")
       \/ /\ TagLevel # calls[1].base
          /\ Head(tags).name = Token.name \/ Head(tags).raw = "moved"
          /\ tags' = Tail(tags)
          /\ \E st \in Stops :
                /\ Tell(st)
                /\ IF TagLevel = 1
                   THEN GoesToEpilog
                   ELSE LoopEnd(st) /\ Becomes(Past) /\ UNCHANGED processor
          /\ UNCHANGED <<open, isOpen>>

\* A raw name the buffer has moved away from may compare either way.
EndTag ==
    /\ Is("content", {"end"})
    /\ \/ TagLevel = This.base /\ Fails("ASYNC_ENTITY")
       \/ /\ TagLevel # This.base
          /\ Head(tags).name # Token.name \/ Head(tags).raw = "moved"
          /\ Fails("TAG_MISMATCH")
       \/ /\ TagLevel # This.base
          /\ Head(tags).name = Token.name \/ Head(tags).raw = "moved"
          /\ tags' = Tail(tags)
          /\ \E st \in Stops :
                /\ Tell(st)
                /\ IF TagLevel = 1
                   THEN GoesToEpilog
                   ELSE LoopEnd(st) /\ Becomes(Past) /\ UNCHANGED processor
          /\ UNCHANGED <<open, isOpen>>

\* Character data, references to characters, comments.
Content == Is("content", {"data", "comment"}) /\ Reports

Misplaced ==
    \/ Is("content", {"decl"})  /\ Fails("MISPLACED_XML_PI")
    \/ Is("content", {"close"}) /\ Fails("INVALID_TOKEN")

CdataOpen ==
    /\ Is("content", {"open"})
    /\ \E st \in Stops : Tell(st)
    /\ Becomes([Past EXCEPT !.mode = "cdata"])
    /\ ret' = "running"
    /\ UNCHANGED <<processor, open, isOpen, tags>>

\* doCdataSection looks at the status only after a token of its own.
CdataData ==
    /\ This.mode = "cdata" /\ This.rest # <<>> /\ Token.kind # "close"
    /\ Reports

\* Back in the loop of doContent, or in cdataSectionProcessor, which calls
\* the processor of the content.
CdataClose ==
    /\ Is("cdata", {"close"})
    /\ \E st \in Stops :
          /\ Tell(st)
          /\ IF This.via = "cdata" /\ st # "FINISHED"
             THEN /\ processor' = IF Document THEN "content" ELSE "external"
                  /\ Becomes(Buffer(processor', Tail(This.rest),
                                    IF Document THEN 0 ELSE 1, "content"))
                  /\ ret' = "running"
             ELSE /\ LoopEnd(st) /\ Becomes([Past EXCEPT !.mode = "content"])
                  /\ UNCHANGED processor
    /\ UNCHANGED <<open, isOpen, tags>>

(* References to general entities *)

Entity == Table[Token.name]

\* What doContent does with the entity of a reference, in this order.
Verdict ==
    IF MustDeclare /\ ~Entity.declared     THEN "UNDEFINED_ENTITY"
    ELSE IF MustDeclare /\ ~Entity.inside  THEN "ENTITY_DECLARED_IN_PE"
    ELSE IF ~Entity.declared               THEN "reported"
    ELSE IF Token.name \in isOpen          THEN "RECURSIVE_ENTITY_REF"
    ELSE IF Entity.notation                THEN "BINARY_ENTITY_REF"
    ELSE IF Entity.text # NULL /\ Expand   THEN "entered"
    ELSE "reported"

Reference ==
    /\ Is("content", {"ref"})
    /\ CASE Verdict = "reported" -> Reports
         [] Verdict = "entered"  ->
              /\ isOpen' = isOpen \cup {Token.name}
              /\ open' = Append(open, [entity |-> Token.name, rest |-> <<>>, base |-> TagLevel])
              /\ calls' = Append([calls EXCEPT ![Len(calls)] = Past],
                                 Call("ref", Token.name, Entity.text, TagLevel, "content"))
              /\ told' = <<>>
              /\ UNCHANGED <<ret, status, processor, tags>>
         [] OTHER -> Fails(Verdict)

\* externalEntityRefHandler answers 0.
ExternalFails ==
    /\ Is("content", {"ref"}) /\ Verdict = "reported"
    /\ Entity.declared /\ Entity.text = NULL
    /\ Fails("EXTERNAL_ENTITY_HANDLING")

Epilog ==
    \/ Is("epilog", {"comment"}) /\ Reports
    \/ /\ This.mode = "epilog" /\ This.rest # <<>> /\ Token.kind # "comment"
       /\ Fails("JUNK_AFTER_DOC_ELEMENT")

(* The beginning of an external entity *)

\* XML_TOK_BOM in externalEntityInitProcessor2; alone it waits for more.
Bom ==
    /\ Is("init2", {"bom"})
    /\ LET alone == Tail(This.rest) = <<>> /\ ~final IN
       /\ Becomes(IF alone THEN Past ELSE [Past EXCEPT !.mode = "init3"])
       /\ processor' = IF alone THEN "init2" ELSE "init3"
       /\ ret' = IF alone THEN "NONE" ELSE "running"
    /\ told' = <<>> /\ UNCHANGED <<status, open, isOpen, tags>>

\* A suspension in the handler of the text declaration leaves the processor.
TextDecl ==
    /\ Is("init3", {"decl"})
    /\ \E st \in Stops :
          /\ Tell(st) /\ LoopEnd(st)
          /\ Becomes([Past EXCEPT !.mode = IF st = "SUSPENDED" THEN @ ELSE "content"])
          /\ processor' = IF st = "SUSPENDED" THEN processor ELSE "external"
    /\ UNCHANGED <<open, isOpen, tags>>

\* No byte order mark, no text declaration: to the next of the processors.
Settles ==
    /\ \/ /\ This.mode = "init2" /\ ~Is("init2", {"bom"})
          /\ Becomes([This EXCEPT !.mode = "init3"]) /\ processor' = "init3"
       \/ /\ This.mode = "init3" /\ ~Is("init3", {"decl"})
          /\ Becomes([This EXCEPT !.mode = "content"]) /\ processor' = "external"
    /\ told' = <<>> /\ UNCHANGED <<ret, status, open, isOpen, tags>>

(* The end of the text of a call: XML_TOK_NONE *)

HaveMoreEver == This.src = "buffer"

HaveMore == This.src = "buffer" /\ ~final

TextEnds ==
    /\ This.rest = <<>>
    /\ \/ (HaveMore \/ This.mode = "epilog") /\ This.mode \notin {"init2", "init3"} /\ Returns
       \/ ~HaveMore /\ This.mode = "cdata" /\ Fails("UNCLOSED_CDATA_SECTION")
       \/ /\ ~HaveMore /\ This.mode = "content"
          /\ \/ This.base = 0 /\ Fails("NO_ELEMENTS")
             \/ This.base \notin {0, TagLevel} /\ Fails("ASYNC_ENTITY")
             \/ This.base # 0 /\ This.base = TagLevel /\ Returns

Step ==
    /\ Running
    /\ \/ StartTag \/ EmptyElement \/ EndTag \/ Content \/ Misplaced
       \/ CdataOpen \/ CdataData \/ CdataClose \/ Reference \/ ExternalFails
       \/ Epilog \/ Bom \/ TextDecl \/ Settles \/ TextEnds
    /\ UNCHANGED <<handed, pending, final, errorCode>>

-----------------------------------------------------------------------------
(* The innermost call returns XML_ERROR_NONE *)

Innermost == calls # <<>> /\ ret = "NONE"

\* The entry of openInternalEntities of the call, and the list before it.
Depth == CHOOSE d \in 1..Len(open) : open[d].entity = This.src
Before == SubSeq(open, 1, Depth - 1)

Unfinished == This.rest # <<>> /\ status = "SUSPENDED"

EntityReturnsOpen ==
    /\ Innermost /\ This.via = "ref"
    /\ IF Unfinished
       THEN /\ open' = [open EXCEPT ![Depth].rest = This.rest]
            /\ processor' = "internal"
       ELSE /\ open' = Before
            /\ processor' = IF This.mode = "cdata" THEN "cdata" ELSE processor
    /\ calls' = SubSeq(calls, 1, Len(calls) - 1)
    /\ LoopEnd(status)
    /\ told' = <<>>
    /\ UNCHANGED <<handed, pending, final, status, errorCode, isOpen, tags>>

\* The rest of processInternalEntity, and of the loop of its caller.
EntityReturns ==
    /\ Innermost /\ This.via = "ref"
    /\ IF Unfinished
       THEN /\ open' = [open EXCEPT ![Depth].rest = This.rest]
            /\ processor' = "internal" /\ UNCHANGED isOpen
       ELSE /\ open' = Before /\ isOpen' = isOpen \ {This.src}
            /\ processor' = IF This.mode = "cdata" THEN "cdata" ELSE processor
    /\ calls' = SubSeq(calls, 1, Len(calls) - 1)
    /\ LoopEnd(status)
    /\ told' = <<>>
    /\ UNCHANGED <<handed, pending, final, status, errorCode, tags>>

EntityResumedForgets ==
    /\ Innermost /\ This.via = "internal"
    /\ IF Unfinished
       THEN /\ processor' = IF This.mode = "cdata" THEN "cdata" ELSE processor
            /\ calls' = <<>> /\ UNCHANGED <<open, isOpen>> /\ ret' = ret
       ELSE /\ open' = Before /\ isOpen' = isOpen \ {This.src}
            /\ processor' = "content" /\ ret' = "running"
            /\ calls' = <<Buffer("resumed", pending, IF Document THEN 0 ELSE 1, "content")>>
    /\ told' = <<>>
    /\ UNCHANGED <<handed, pending, final, status, errorCode, tags>>

\* internalEntityProcessor, which goes on with the buffer when the text of
\* the entity is done.
EntityResumed ==
    /\ Innermost /\ This.via = "internal"
    /\ IF Unfinished
       THEN /\ open' = [open EXCEPT ![Depth].rest = This.rest]
            /\ processor' = IF This.mode = "cdata" THEN "cdata" ELSE processor
            /\ calls' = <<>> /\ UNCHANGED isOpen /\ ret' = ret
       ELSE /\ open' = Before /\ isOpen' = isOpen \ {This.src}
            /\ processor' = "content" /\ ret' = "running"
            /\ calls' = <<Buffer("resumed", pending, IF Document THEN 0 ELSE 1, "content")>>
    /\ told' = <<>>
    /\ UNCHANGED <<handed, pending, final, status, errorCode, tags>>

\* storeRawNames stops at the first name that is stored already.
StoreRawNames(ts) ==
    LET n == CHOOSE k \in 0..Len(ts) :
                /\ \A i \in 1..k : ts[i].raw # "stored"
                /\ k = Len(ts) \/ ts[k + 1].raw = "stored"
    IN [i \in DOMAIN ts |->
          IF i <= n THEN [ts[i] EXCEPT !.raw = IF @ = "moved" THEN "moved" ELSE "stored"]
                    ELSE ts[i]]

\* The processor returns to XML_Parse or XML_ResumeParser; the buffer may
\* move before it is read again.
ProcessorReturns ==
    /\ Innermost /\ This.src = "buffer"
    /\ LET kept == IF This.via \in {"content", "external"} THEN StoreRawNames(tags) ELSE tags
       IN tags' = [i \in DOMAIN kept |->
                     [kept[i] EXCEPT !.raw = IF @ = "buffer" THEN "moved" ELSE @]]
    /\ pending' = This.rest
    /\ processor' = IF This.mode = "cdata" THEN "cdata" ELSE processor
    /\ status' = IF status = "PARSING" /\ final THEN "FINISHED" ELSE status
    /\ calls' = <<>> /\ told' = <<>>
    /\ UNCHANGED <<handed, final, errorCode, ret, open, isOpen>>

\* Any other error goes through every call.
Error ==
    /\ calls # <<>> /\ ret \notin {"running", "NONE"}
    /\ errorCode' = ret /\ processor' = "error" /\ calls' = <<>> /\ told' = <<>>
    /\ UNCHANGED <<handed, pending, final, status, ret, open, isOpen, tags>>

Pieces == UNION {[1..n -> Alphabet] : n \in 0..MaxChunk}

\* A document begins with its start tag, which doProlog has seen; a byte
\* order mark is a first character only; before the last piece none is empty.
Offered(chunk, isFinal) ==
    /\ chunk = <<>> => isFinal
    /\ \A i \in DOMAIN chunk : chunk[i].kind = "bom" => i = 1 /\ handed = 0
    /\ Document /\ handed = 0 => chunk # <<>> /\ chunk[1].kind \in {"start", "empty"}

ContentNext ==
    \/ \E chunk \in Pieces, isFinal \in BOOLEAN :
          Offered(chunk, isFinal) /\ XML_Parse(chunk, isFinal)
    \/ Resume \/ Abort \/ Step
    \/ EntityReturns \/ EntityResumed \/ ProcessorReturns \/ Error

-----------------------------------------------------------------------------
(* Properties *)

Active(o) == {i \in DOMAIN calls : calls[i].src = o.entity}

\* An entity is open that the parser does not come back to.
Stranded(o) == Active(o) = {} /\ ~(processor = "internal" /\ o = Last(open))

RestOf(o) == IF Stranded(o) THEN <<>>
             ELSE IF Active(o) = {} THEN o.rest
             ELSE calls[CHOOSE i \in Active(o) : TRUE].rest

\* What is left to read: the open entities, the innermost first, then the
\* entity itself.
Left ==
    FlattenSeq([i \in 1..Len(open) |-> RestOf(open[Len(open) + 1 - i])])
      \o (IF calls # <<>> /\ calls[1].src = "buffer" THEN calls[1].rest ELSE pending)

Mode == IF calls # <<>> THEN This.mode ELSE processor

Place ==
    IF Mode \in {"init2", "init3"}                      THEN "begin"
    ELSE IF Mode \in {"content", "external", "internal"} THEN "content"
    ELSE Mode

Failed == processor = "error"

Elements == [i \in DOMAIN tags |-> tags[i].name]

Reader == INSTANCE XmlReader WITH
    document <- Document,
    left     <- IF Failed THEN <<>> ELSE Left,
    elements <- IF Failed THEN <<>> ELSE Elements,
    place    <- IF Failed THEN "stopped" ELSE Place

(* Where the parser loses its place by being suspended *)

\* In the handler of a text declaration: the next token may be one again
\* (externalEntityInitProcessor3 returns with the processor unchanged).
ForgetsDeclaration ==
    status' = "SUSPENDED" /\ Is("init3", {"decl"}) /\ Reader!Tells("begin", Elements)

SuspendedInSection == status = "SUSPENDED" /\ open # <<>> /\ Place = "cdata"

\* In a CDATA section of an internal entity: the rest of it is read as content
\* (processInternalEntity overwrites the processor) ...
ForgetsSection ==
    /\ SuspendedInSection /\ Place' = "content"
    /\ told' = <<>> /\ UNCHANGED <<Elements, Left>>

\* ... or, in an entity that was resumed before, is never read, and the entity
\* around it goes on as CDATA (internalEntityProcessor keeps that processor).
ForgetsEntity ==
    /\ SuspendedInSection /\ Place' = "cdata"
    /\ told' = <<>> /\ Left' = pending /\ UNCHANGED Elements

\* The application is told what the entity says: every token once, in order,
\* each internal entity in place of its reference, and elements that nest,
\* in whatever pieces the entity comes and wherever parsing is suspended, but
\* for the three steps above; and after these, of what the parser still reads.
ToldAsWritten ==
    /\ Reader!RInit
    /\ [][Reader!RNext \/ ForgetsDeclaration \/ ForgetsSection \/ ForgetsEntity]_cvars

\* Parsing ends well only at the end of the entity, with every element and
\* section closed and, in a document, the root element read.  (Of an entity it
\* was suspended in and has forgotten the rest is not counted.)
FinishesComplete ==
    [][status = "PARSING" /\ status' = "FINISHED" /\ calls' = <<>>
       => Reader!Complete']_cvars

\* An element begun in an entity ends in the same one: an end tag closes an
\* element of the entity it stands in, and an entity that ends leaves none, as
\* long as the parser has not forgotten an entity that is open.
ElementsWithinEntities ==
    [][(\A i \in DOMAIN open : ~Stranded(open[i])) =>
       /\ Len(tags') < Len(tags) => Head(tags).depth = Len(open)
       /\ Len(open') < Len(open) => \A i \in DOMAIN tags : tags[i].depth <= Len(open')
      ]_cvars

\* An error is about what is written: the next token is none the reader could
\* read, an entity within itself, or the end of an entity that is not complete.
\* (Other references, and tags across the end of an entity, have other rules.)
\* Of an application that suspends outside of internal entities only.
ErrorsAreReal == StopDepth = 0 =>
    /\ errorCode # "UNEXPECTED_STATE"
    /\ calls # <<>> /\ ret \notin {"running", "NONE", "ABORTED"} =>
         IF This.rest = <<>>
         THEN This.src = "buffer" => final /\ ~Reader!Complete
         ELSE \/ /\ Token.kind = "ref"
                 /\ ret = "RECURSIVE_ENTITY_REF" =>
                       \E i \in DOMAIN calls : calls[i].src = Token.name
              \/ Token.kind = "end" /\ ret = "ASYNC_ENTITY"
              \/ ~Reader!Readable
=============================================================================
