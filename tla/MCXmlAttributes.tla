---------------------------- MODULE MCXmlAttributes ----------------------------
(* A few declarations and start tags that get in each other's way.  Hashes  *)
(* are all the same modulo 8, so that names meet in the table, whose       *)
(* versions wrap with the third tag.                                       *)
EXTENDS XmlAttributes

Q(p, l) == [prefix |-> p, local |-> l]
Att(a, v) == [name |-> a, value |-> v]
Tag(e, atts) == [name |-> e, atts |-> atts]

E == Q("", "e")
PE == Q("p", "e")
PF == Q("p", "f")
A == Q("", "a")
PA == Q("p", "a")
QA == Q("q", "a")
NP == Q("xmlns", "p")
NQ == Q("xmlns", "q")
NX == Q("xmlns", "xml")

MCElements == {E, PE, PF}
MCAttributes == {A, PA, QA, Xmlns, NP, NQ, NX}
MCPrefixNames == {"", "p", "q", "xml", "xmlns"}
MCTokenized == " v" :> "v"

MCHash == [n \in Values \X {a.local : a \in MCAttributes} |->
             CASE n = <<"u", "a">> -> 5 [] n = <<"w", "a">> -> 13 [] OTHER -> 21]

Declaration(e, a, t, v) == [element |-> e, att |-> a, type |-> t, value |-> v]
MCWritten ==
    {Declaration(E, A, "CDATA", None), Declaration(E, A, "CDATA", "v"),
     Declaration(E, A, "ID", None), Declaration(E, A, "other", None),
     Declaration(E, A, "other", "w"), Declaration(E, PA, "ID", None),
     Declaration(PE, NP, "CDATA", "w"), Declaration(E, Xmlns, "CDATA", "u"),
     Declaration(E, QA, "CDATA", "v"), Declaration(PE, NQ, "CDATA", None)}

MCTags ==
    {Tag(E, <<>>), Tag(PE, <<>>), Tag(PF, <<>>), Tag(E, <<Att(A, " v")>>),
     Tag(E, <<Att(A, "v"), Att(A, "v")>>),
     Tag(PE, <<Att(NP, "u")>>), Tag(E, <<Att(NP, "u"), Att(PA, "v"), Att(A, " v")>>),
     Tag(E, <<Att(PA, "v"), Att(NP, "w")>>), Tag(E, <<Att(NQ, "u"), Att(PA, "v"), Att(QA, "w")>>),
     Tag(PE, <<Att(NP, "w"), Att(NQ, "u"), Att(PA, "v"), Att(QA, "v")>>),
     Tag(E, <<Att(Xmlns, "")>>),
     Tag(PE, <<Att(Xmlns, "u"), Att(PA, " v")>>), Tag(E, <<Att(NP, "")>>),
     Tag(E, <<Att(NX, "XML")>>), Tag(E, <<Att(NX, "u")>>), Tag(E, <<Att(NP, "XML")>>)}

Setup(ns, declarations, tags) ==
    [ns |-> ns, declarations |-> declarations, tags |-> tags]

MCSetups == {Setup(TRUE, 1, 3), Setup(FALSE, 2, 2)}

===============================================================================
