----------------------------- MODULE MCXmlContent -----------------------------
(***************************************************************************)
(* XmlContent on small entities and the texts they refer to; and, in a    *)
(* setup that has no token, the buffer of XmlBuffer.                       *)
(***************************************************************************)
EXTENDS XmlContent, XmlBuffer

T(kind)    == [kind |-> kind, name |-> "none"]
N(kind, n) == [kind |-> kind, name |-> n]

Internal(text) == [text |-> text, declared |-> TRUE, inside |-> TRUE, notation |-> FALSE]
NoText(binary) == [Internal(NULL) EXCEPT !.notation = binary]

\* e is balanced, f refers to e, g has a CDATA section, h and j cut an element,
\* z is empty,
\* r refers to itself, u is unparsed, x external, o declared outside.
MCTable ==
    [e |-> Internal(<<N("start", "b"), T("data"), N("end", "b")>>),
     f |-> Internal(<<T("data"), N("ref", "e"), T("comment")>>),
     g |-> Internal(<<T("data"), T("open"), T("data"), T("close")>>),
     h |-> Internal(<<N("start", "b")>>),
     j |-> Internal(<<N("end", "a")>>),
     r |-> Internal(<<N("ref", "r")>>),
     z |-> Internal(<<>>),
     u |-> NoText(TRUE),
     x |-> NoText(FALSE),
     o |-> [Internal(<<T("data")>>) EXCEPT !.inside = FALSE],
     n |-> [Internal(NULL) EXCEPT !.declared = FALSE]]

Refs(es) == {N("ref", e) : e \in es}
Tags     == {N("start", "a"), N("end", "a")}

Kinds == {"start", "end", "empty", "data", "comment", "open", "close", "ref", "decl"}

Setup(alphabet, tokens, document, mustDeclare, stopAt, stopDepth) ==
    [alphabet |-> alphabet, tokens |-> tokens, document |-> document,
     mustDeclare |-> mustDeclare, stopAt |-> stopAt,
     stopDepth |-> stopDepth]

\* A document that is suspended anywhere, in an entity too.
Suspended ==
    Setup(Tags \cup {N("empty", "a"), T("data"), T("open"), T("close"), T("comment")}
            \cup Refs({"e", "g"}),
          7, TRUE, TRUE, Kinds, 1)

\* Every kind of entity, in a document that need not declare them.
Entities ==
    Setup(Tags \cup {N("end", "b"), T("data")}
            \cup Refs({"e", "f", "g", "h", "j", "r", "z", "u", "x", "o", "n"}),
          5, TRUE, FALSE, Kinds, 0)

\* An external entity.
External ==
    Setup(Tags \cup {T("bom"), T("decl"), T("open"), T("close"), T("data")}
            \cup Refs({"e", "n", "o"}),
          6, FALSE, TRUE, {"start", "end", "data", "open", "decl"}, 0)

BufferAlone == Setup({}, 0, TRUE, TRUE, {}, 0)

MCSetups == {Suspended, Entities, External, BufferAlone}

MCInit == ContentInit /\ Init

MCNext ==
    \/ ContentNext /\ UNCHANGED <<setup, bvars>>
    \/ setup = BufferAlone /\ Next /\ UNCHANGED <<setup, cvars>>

MCSpec == MCInit /\ [][MCNext]_<<setup, cvars, bvars>>
=============================================================================
