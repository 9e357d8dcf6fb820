---------------------------- MODULE XmlAttributesInv ----------------------------
(***************************************************************************)
(* The inductive invariant of XmlAttributes.  A binding is free, or that   *)
(* of xml, or owned by the one open tag that declared it; what a prefix is *)
(* bound to, and what that binding hides, is a matter of the open tags     *)
(* alone; and a name that is written into the block of a binding is that   *)
(* of a tag which is open no longer than the binding is in use.            *)
(***************************************************************************)
EXTENDS XmlAttributes

Locals   == {e.local : e \in ElementNames}
Started  == [uri : Values \cup {None}, local : Locals, prefix : PrefixNames]
Cells    == [prefix : PrefixNames, uri : Values, attId : AttributeNames \cup {NoName},
             prev : Nat, last : Started \cup {NoName}, block : {0, 1}]
Defaults == [id : AttributeNames, value : Values, isCdata : BOOLEAN]
OpenTags == [tag : Tags, str : Nat \X Nat, own : Seq(Nat), started : Started]

TypeInv ==
    /\ setup \in Setups
    /\ defaultAtts \in [ElementNames -> Seq(Defaults)]
    /\ maybeTokenized \subseteq AttributeNames
    /\ bindings \in Seq(Cells) /\ freeBindingList \in Seq(DOMAIN bindings)
    /\ bound \in [PrefixNames -> Nat]
    /\ tagStack \in Seq(OpenTags)
    /\ declared \in Seq(Written) /\ opened \in Nat

\* No attribute is marked between two tags.
FlagInv == flag = [a \in AttributeNames |-> 0]

\* What is recorded of an attribute is its first declaration; the others have
\* left an entry without a value, or none.  No tag comes before a declaration.
Entries(e, a) == {i \in DOMAIN defaultAtts[e] : defaultAtts[e][i].id = a}
First(i, e, a) == /\ i \in DOMAIN declared /\ Ours(declared[i], e, a)
                  /\ \A j \in 1 .. i - 1 : ~Ours(declared[j], e, a)
Recorded(e, a) ==
    /\ Entries(e, a) = {} => \A i \in DOMAIN declared : ~Ours(declared[i], e, a)
    /\ \A i, j \in Entries(e, a) : i < j => defaultAtts[e][j].value = None
    /\ \A i \in Entries(e, a) : (\A j \in Entries(e, a) : i <= j) =>
          \E d \in DOMAIN declared :
              /\ First(d, e, a)
              /\ defaultAtts[e][i].value = declared[d].value
              /\ defaultAtts[e][i].isCdata = (declared[d].type = "CDATA")
              /\ declared[d].type # "CDATA" => a \in maybeTokenized
DeclaredInv ==
    /\ opened = 0 => tagStack = <<>>
    /\ \A e \in ElementNames, a \in AttributeNames : Recorded(e, a)

\* Who has a binding.
Root     == IF NS THEN {1} ELSE {}
Owned(k) == Range(tagStack[k].own)
Free     == Range(freeBindingList)
Within(k) == Root \cup UNION {Owned(j) : j \in 1 .. k}

OwnsAlone(k) ==
    /\ Owned(k) \subseteq DOMAIN bindings \ (Free \cup Root)
    /\ \A j \in DOMAIN tagStack : j # k => Owned(j) \cap Owned(k) = {}
    /\ \A i, j \in DOMAIN tagStack[k].own :
          bindings[tagStack[k].own[i]].prefix = bindings[tagStack[k].own[j]].prefix
              => i = j
OwnerInv ==
    /\ NS => /\ bindings # <<>> /\ 1 \notin Free
             /\ bindings[1].prefix = "xml" /\ bindings[1].uri = "XML"
    /\ \A i, j \in DOMAIN freeBindingList :
          freeBindingList[i] = freeBindingList[j] => i = j
    /\ \A k \in DOMAIN tagStack : OwnsAlone(k)

\* What a tag owns is what it declares, all that is written and what is added.
Declarations(t) == {<<a.name, a.value>> : a \in {a \in Whole(t) : IsXmlns(a.name)}}
Text(k) ==
    /\ {<<bindings[b].attId, bindings[b].uri>> : b \in Owned(k)}
         = Declarations(tagStack[k].tag)
    /\ \A b \in Owned(k) :
          /\ bindings[b].attId \in AttributeNames /\ IsXmlns(bindings[b].attId)
          /\ bindings[b].prefix = PrefixOf(bindings[b].attId)
          /\ bindings[b].uri = "" => bindings[b].prefix = ""
TextInv == \A k \in DOMAIN tagStack : Text(k)

\* c is the binding of prefix p within the first k tags.
DeclaredBy(j, p) == \E b \in Owned(j) : bindings[b].prefix = p
StandsFor(p, k, c) ==
    \/ /\ \A j \in 1 .. k : ~DeclaredBy(j, p)
       /\ c = IF NS /\ p = "xml" THEN 1 ELSE 0
    \/ \E j \in 1 .. k : \E b \in Owned(j) :
          /\ bindings[b].prefix = p
          /\ \A i \in j + 1 .. k : ~DeclaredBy(i, p)
          /\ c = IF bindings[b].uri = "" THEN 0 ELSE b

Hides(k) == \A b \in Owned(k) : StandsFor(bindings[b].prefix, k - 1, bindings[b].prev)
ScopeInv ==
    /\ \A p \in PrefixNames : StandsFor(p, Len(tagStack), bound[p])
    /\ \A k \in DOMAIN tagStack : Hides(k)

\* Where the name of an open element is, and that it can be written again.
Named(k) ==
    LET t == tagStack[k]
        b == t.str[1]
    IN IF b = 0 THEN t.started = Plain(t.tag.name)
       ELSE /\ b \in Within(k) /\ t.str[2] = bindings[b].block
            /\ t.started = Expanded(bindings[b].uri, t.tag.name.local, bindings[b].prefix)
NameInv == \A k \in DOMAIN tagStack : Named(k)

\* idAtt is what the first declaration of an ID names; before the first tag
\* nothing is told.
IdInv == /\ idAtt \in [ElementNames -> AttributeNames \cup {NoName}]
         /\ \A e \in ElementNames : idAtt[e] = IdOf(e)
QuietInv == opened = 0 => event = Silence

\* A table has no slots, or at least 8; a version that is counted down is
\* that of no slot.
Tidy(t) ==
    /\ DOMAIN t = {"power", "version", "slots"}
    /\ t.power \in {0} \cup (Nat \ 0 .. 2) /\ t.version \in Nat
    /\ t.power # 0 => DOMAIN t.slots = 0 .. Bit[t.power] - 1
    /\ \A j \in DOMAIN t.slots : t.slots[j].version \in Nat /\ t.slots[j].version >= t.version
TableInv == Tidy(table)

AInv == /\ TypeInv /\ FlagInv /\ DeclaredInv
        /\ OwnerInv /\ TextInv /\ ScopeInv /\ NameInv

================================================================================
