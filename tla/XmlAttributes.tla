----------------------------- MODULE XmlAttributes -----------------------------
(***************************************************************************)
(* The attributes and the namespaces of expat (lib/xmlparse.c): the       *)
(* attributes that ATTLIST declares, and what storeAtts and addBinding    *)
(* make of a start tag with them, until its end tag.                       *)
(*                                                                         *)
(* An attribute is known by its ATTRIBUTE_ID, and flag is the byte in     *)
(* front of its name: 1 or 2 while the tag that holds it is processed.    *)
(* prefix->binding is the BINDING in scope, prevPrefixBinding the one it  *)
(* hides.  An expanded name is written behind the URI in the block of its *)
(* binding, where the names of the elements inside are written too: a tag *)
(* only points to it.  A block moves when it has to grow (any time, here).*)
(*                                                                         *)
(* A name has one colon at most; "" is no prefix.  Allocation succeeds.   *)
(***************************************************************************)
EXTENDS Integers, Sequences, FiniteSets, SequencesExt

CONSTANTS
    Triplets,           \* ns_triplets, as the parser was created
    ElementNames, AttributeNames, PrefixNames,
    Written,            \* the attribute declarations there may be
    Tags,               \* the start tags there may be: [name, atts]
    Tokenized,          \* raw values that change when they are not CDATA
    Hash,               \* the hash of an expanded name
    INIT_ATTS_VERSION,  \* 0xFFFFFFFF in the code
    Setups              \* what may happen in a behaviour, and its bounds

None == "none"   \* no prefix, no value

DefaultValues == {d.value : d \in Written}
WrittenValues == UNION {{t.atts[i].value : i \in DOMAIN t.atts} : t \in Tags}
Values        == {"XML"} \cup DefaultValues \cup WrittenValues \cup Range(Tokenized)

\* Names are pairs, and with namespaces the tokenizer takes no "xmlns:" for one.
AttributesAssumption ==
    /\ \A s \in Setups : s.ns \in BOOLEAN
    /\ \A s \in Setups, a \in AttributeNames : s.ns => a.local # ""
    /\ "" \in PrefixNames /\ "xml" \in PrefixNames /\ None \notin PrefixNames
    /\ None \notin WrittenValues \cup Range(Tokenized)
    /\ \A a \in AttributeNames : /\ a = [prefix |-> a.prefix, local |-> a.local]
                                 /\ a.prefix \in PrefixNames
                                 /\ a.prefix = "xmlns" => a.local \in PrefixNames
    /\ \A e \in ElementNames : e.prefix # "" => e.prefix \in PrefixNames
    /\ \A d \in Written : d.element \in ElementNames /\ d.att \in AttributeNames
    /\ \A t \in Tags : /\ t.name \in ElementNames
                      /\ t.atts \in Seq([name : AttributeNames, value : Values])
ASSUME AttributesAssumption

\* A version and a hash are unsigned long.
TableAssumption ==
    /\ INIT_ATTS_VERSION \in Nat \ {0}
    /\ \A uri \in Values, a \in AttributeNames : Hash[<<uri, a.local>>] \in Nat
ASSUME TableAssumption

VARIABLE setup   \* the one of this behaviour

NS              == setup.ns           \* ns, as the parser was created
MaxDeclarations == setup.declarations \* bound: how many declarations
MaxTags         == setup.tags         \* bound: how many start tags

VARIABLES
    defaultAtts, idAtt,   \* of each element type
    maybeTokenized,       \* attributes some element type declares not CDATA
    flag,                 \* attId->name[-1]
    bindings,             \* every BINDING there is
    freeBindingList,      \* those in no scope
    bound,                \* prefix->binding: 0 is NULL
    tagStack,             \* the open elements, the innermost last
    table,                \* nsAtts with nsAttsPower and nsAttsVersion
    event,                \* what the handlers were told of last
    code,                 \* the error
    declared, opened      \* history: declarations, and how many tags

avars == <<defaultAtts, idAtt, maybeTokenized, flag, bindings, freeBindingList,
           bound, tagStack, table, event, code, declared, opened>>

NoName  == [prefix |-> None, local |-> None]
Silence == [type |-> "none"]

-----------------------------------------------------------------------------
(* Names *)

Xmlns == [prefix |-> "", local |-> "xmlns"]

\* getAttributeId: attributes without a prefix are not in the default namespace.
IsXmlns(a) == NS /\ (a = Xmlns \/ a.prefix = "xmlns")
PrefixOf(a) ==
    IF ~NS THEN None
    ELSE IF IsXmlns(a) THEN IF a = Xmlns THEN "" ELSE a.local
    ELSE IF a.prefix = "" THEN None ELSE a.prefix

\* setElementTypePrefix
ElementPrefix(e) == IF NS /\ e.prefix # "" THEN e.prefix ELSE None

Expanded(uri, local, prefix) ==
    [uri |-> uri, local |-> local, prefix |-> IF Triplets THEN prefix ELSE ""]
Plain(name) == [uri |-> None, local |-> name.local, prefix |-> name.prefix]

-----------------------------------------------------------------------------
(* Declarations *)

\* A default, or an ID, is not recorded for an attribute already declared.
DefineAttribute(e, a, isCdata, isId, value) ==
    LET known == \E i \in DOMAIN defaultAtts[e] : defaultAtts[e][i].id = a
    IN IF (value # None \/ isId) /\ known
       THEN UNCHANGED <<defaultAtts, idAtt, maybeTokenized>>
       ELSE /\ defaultAtts' = [defaultAtts EXCEPT ![e] =
                    Append(@, [id |-> a, value |-> value, isCdata |-> isCdata])]
            /\ idAtt' = IF isId /\ idAtt[e] = NoName /\ ~IsXmlns(a)
                        THEN [idAtt EXCEPT ![e] = a] ELSE idAtt
            /\ maybeTokenized' = IF isCdata THEN maybeTokenized
                                            ELSE maybeTokenized \cup {a}

\* IMPLIED or REQUIRED (no value), DEFAULT or FIXED: those are never the ID.
Declare(d) ==
    /\ opened = 0 /\ Len(declared) < MaxDeclarations
    /\ DefineAttribute(d.element, d.att, d.type = "CDATA",
                       d.type = "ID" /\ d.value = None, d.value)
    /\ declared' = Append(declared, d)
    /\ UNCHANGED <<flag, bindings, freeBindingList, bound, tagStack, table, event,
                   code, opened>>

-----------------------------------------------------------------------------
(* A start tag: w is where storeAtts stands with it *)

Work ==
    [flag |-> flag, bindings |-> bindings, free |-> freeBindingList, bound |-> bound,
     atts |-> <<>>,      \* appAtts
     own |-> <<>>,       \* the bindings of this tag, the last one first
     scopes |-> <<>>,    \* what startNamespaceDeclHandler was told
     error |-> "NONE"]

Fail(w, c) == [w EXCEPT !.error = c]

Reserved(prefix, uri) ==
    CASE uri = "" /\ prefix # ""            -> "UNDECLARING_PREFIX"
      [] prefix = "xmlns"                   -> "RESERVED_PREFIX_XMLNS"
      [] prefix = "xml" /\ uri # "XML"      -> "RESERVED_PREFIX_XML"
      [] prefix # "xml" /\ uri = "XML"      -> "RESERVED_NAMESPACE_URI"
      [] uri = "XMLNS"                      -> "RESERVED_NAMESPACE_URI"
      [] OTHER                              -> "NONE"

\* A binding is taken from the free list, or a new one; its block may move.
AddBinding(w, att, uri) ==
    LET prefix == PrefixOf(att)
        reuse  == w.free # <<>>
        b      == IF reuse THEN Head(w.free) ELSE Len(w.bindings) + 1
        cell   == [prefix |-> prefix, uri |-> uri, attId |-> att,
                   prev |-> w.bound[prefix], last |-> NoName,
                   block |-> IF reuse THEN w.bindings[b].block ELSE 0]
    IN IF Reserved(prefix, uri) # "NONE" THEN Fail(w, Reserved(prefix, uri))
       ELSE [w EXCEPT !.bindings = IF reuse THEN [@ EXCEPT ![b] = cell]
                                            ELSE Append(@, cell),
                      !.free     = IF reuse THEN Tail(@) ELSE @,
                      !.bound    = [@ EXCEPT ![prefix] =
                                      IF uri = "" /\ prefix = "" THEN 0 ELSE b],
                      !.own      = <<b>> \o @,
                      !.scopes   = Append(@, <<prefix, uri>>)]

IsCdata(e, a) ==
    LET named == {i \in DOMAIN defaultAtts[e] : defaultAtts[e][i].id = a}
    IN IF a \notin maybeTokenized \/ named = {} THEN TRUE
       ELSE defaultAtts[e][CHOOSE i \in named : \A j \in named : i <= j].isCdata

\* storeAttributeValue: XmlValues.
Stored(value, isCdata) ==
    IF ~isCdata /\ value \in DOMAIN Tokenized THEN Tokenized[value] ELSE value

\* An attribute given to the application: 2 while its prefix is not replaced.
Give(w, a, value) ==
    [w EXCEPT !.flag[a] = IF PrefixOf(a) = None THEN 1 ELSE 2,
              !.atts = Append(@, [name |-> a, value |-> value])]

Specify(w, e, att) ==
    LET value == Stored(att.value, IsCdata(e, att.name))
    IN IF w.error # "NONE" THEN w
       ELSE IF w.flag[att.name] # 0 THEN Fail(w, "DUPLICATE_ATTRIBUTE")
       ELSE IF IsXmlns(att.name)
       THEN AddBinding([w EXCEPT !.flag[att.name] = 1], att.name, value)
       ELSE Give(w, att.name, value)

DefaultAnyway(w, da) ==
    IF w.error # "NONE" \/ da.value = None THEN w
    ELSE IF IsXmlns(da.id) THEN AddBinding(w, da.id, da.value)
    ELSE Give(w, da.id, da.value)

Default(w, da) ==
    IF w.error # "NONE" \/ w.flag[da.id] # 0 \/ da.value = None THEN w
    ELSE IF IsXmlns(da.id) THEN AddBinding(w, da.id, da.value)
    ELSE Give(w, da.id, da.value)

\* idAttIndex counts names and values, from 0.
IdAttIndex(e, w) ==
    IF idAtt[e] # NoName /\ w.flag[idAtt[e]] # 0
    THEN 2 * ((CHOOSE i \in DOMAIN w.atts : w.atts[i].name = idAtt[e]) - 1) ELSE -1

-----------------------------------------------------------------------------
(* Expanded names are kept apart by a hash table with open addressing, of  *)
(* Bit[power] slots; one is in use when it has the version of this tag.    *)

\* 1 << n, as a function to reason about.
Bit[n \in Nat] == IF n = 0 THEN 1 ELSE 2 * Bit[n - 1]

Power(nPrefixes) ==
    IF (2 * nPrefixes) \div Bit[table.power] = 0 THEN table.power
    ELSE LET p == CHOOSE q \in table.power .. table.power + nPrefixes :
                     /\ nPrefixes \div Bit[q] = 0
                     /\ \A r \in table.power .. q - 1 : nPrefixes \div Bit[r] # 0
         IN IF p + 1 < 3 THEN 3 ELSE p + 1

\* The slots are marked unused when there are new ones or the versions wrap.
FreshTableKept(nPrefixes) ==
    LET power   == Power(nPrefixes)
        renews  == power # table.power
        version == IF renews THEN INIT_ATTS_VERSION
                   ELSE IF table.version = 0 THEN INIT_ATTS_VERSION ELSE table.version
        unused  == [hash |-> 0, version |-> version, name |-> NoName]
    IN [power |-> power, version |-> version - 1,
        slots |-> IF renews THEN [j \in 0 .. Bit[power] - 1 |-> unused] ELSE table.slots]

FreshTable(nPrefixes) ==
    LET power   == Power(nPrefixes)
        renews  == power # table.power \/ table.version = 0
        version == IF renews THEN INIT_ATTS_VERSION ELSE table.version
        unused  == [hash |-> 0, version |-> version, name |-> NoName]
    IN [power |-> power, version |-> version - 1,
        slots |-> IF renews THEN [j \in 0 .. Bit[power] - 1 |-> unused] ELSE table.slots]

\* PROBE_STEP, of 8 bits, is odd, so that every slot is reached.
ProbeStep(h, power) ==
    LET s == ((h - (h % Bit[power])) \div Bit[power - 1]) % Bit[power - 2]
    IN (IF s % 2 = 0 THEN s + 1 ELSE s) % 256

Probe(t, h, k) == (h + k * (Bit[t.power] - ProbeStep(h, t.power))) % (Bit[t.power])

\* What is hashed, and compared, of an expanded name.
UriName(name) == <<name.uri, name.local>>

\* The first free slot on the way, or the one that has the name already.
Slot(t, name) ==
    LET h == Hash[UriName(name)]
        used(k) == t.slots[Probe(t, h, k)].version = t.version
        same(k) == /\ t.slots[Probe(t, h, k)].hash = h
                   /\ t.slots[Probe(t, h, k)].name = UriName(name)
        k == CHOOSE k \in 0 .. Bit[t.power] - 1 :
                /\ ~used(k) \/ same(k)
                /\ \A m \in 0 .. k - 1 : used(m) /\ ~same(m)
    IN [at |-> Probe(t, h, k), taken |-> used(k)]

\* x is the list on the way: [atts, table, flag, error].
Expand(x, w, i) ==
    LET a    == w.atts[i].name
        p    == PrefixOf(a)
        b    == w.bound[p]
        name == Expanded(w.bindings[b].uri, a.local, p)
        slot == Slot(x.table, name)
        to(n) == [x EXCEPT !.atts = Append(@, [name |-> n, value |-> w.atts[i].value]),
                           !.flag[a] = 0]
    IN IF x.error # "NONE" THEN x
       ELSE IF p = None THEN to(Plain(a))
       ELSE IF b = 0 THEN [x EXCEPT !.error = "UNBOUND_PREFIX"]
       ELSE IF slot.taken THEN [x EXCEPT !.error = "DUPLICATE_ATTRIBUTE"]
       ELSE [to(name) EXCEPT !.table.slots[slot.at] =
                [hash |-> Hash[UriName(name)], version |-> x.table.version,
                 name |-> UriName(name)]]

ExpandFrom(w) ==
    LET prefixed == Cardinality({i \in DOMAIN w.atts : PrefixOf(w.atts[i].name) # None})
    IN [atts |-> <<>>, flag |-> w.flag, error |-> "NONE",
        table |-> IF prefixed = 0 THEN table ELSE FreshTable(prefixed)]

ExpandAll(w) ==
    LET done[i \in 0 .. Len(w.atts)] ==
            IF i = 0 THEN ExpandFrom(w) ELSE Expand(done[i - 1], w, i)
    IN done[Len(w.atts)]

-----------------------------------------------------------------------------
(* Start and end of an element *)

Scanned(t) ==
    LET specified[i \in 0 .. Len(t.atts)] ==
            IF i = 0 THEN Work ELSE Specify(specified[i - 1], t.name, t.atts[i])
    IN specified[Len(t.atts)]

Completed(t, w) ==
    LET defaulted[i \in 0 .. Len(defaultAtts[t.name])] ==
            IF i = 0 THEN w ELSE Default(defaulted[i - 1], defaultAtts[t.name][i])
    IN defaulted[Len(defaultAtts[t.name])]

\* The binding that expands the name of an element, and the block it is in.
ElementBinding(e, w) ==
    IF ~NS THEN 0 ELSE w.bound[IF ElementPrefix(e) = None THEN "" ELSE ElementPrefix(e)]

WriteName(cells, b, e) ==
    [cells EXCEPT ![b].last = Expanded(cells[b].uri, e.local, cells[b].prefix)]

\* The flags of the attributes given, and of the declarations of namespaces.
ClearFlags(w, x) ==
    [a \in AttributeNames |->
       IF \E i \in DOMAIN w.own : w.bindings[w.own[i]].attId = a THEN 0 ELSE x.flag[a]]

ReleaseAll(own, free, scope) ==
    [free |-> Reverse(own) \o free,
     bound |-> [p \in PrefixNames |-> IF \E i \in DOMAIN own : bindings'[own[i]].prefix = p
                                   THEN 0 ELSE scope[p]]]

\* Bindings leave their scope in the order opposite to that of storeAtts.
Unbind(r, b) == [free  |-> <<b>> \o r.free,
                 bound |-> [r.bound EXCEPT ![bindings'[b].prefix] = bindings'[b].prev]]

Release(own, free, scope) ==
    LET left[i \in 0 .. Len(own)] ==
          IF i = 0 THEN [free |-> free, bound |-> scope] ELSE Unbind(left[i - 1], own[i])
    IN left[Len(own)]

\* A tag points to its own buffer, or into a block.
OwnBuffer == <<0, 0>>

StartTag(t, empty) ==
    LET specified == Scanned(t)
        w == Completed(t, specified)
        x == ExpandAll(w)
        b == ElementBinding(t.name, w)
        unbound == ElementPrefix(t.name) # None /\ b = 0
        error == IF w.error # "NONE" THEN w.error
                 ELSE IF x.error # "NONE" THEN x.error
                 ELSE IF unbound THEN "UNBOUND_PREFIX" ELSE "NONE"
    IN
    /\ code = "NONE" /\ opened < MaxTags
    /\ opened' = opened + 1
    /\ UNCHANGED <<defaultAtts, idAtt, maybeTokenized, declared>>
    /\ IF error # "NONE"  \* nothing is done with the parser after that
       THEN /\ code' = error /\ event' = [type |-> "error", tag |-> t]
            /\ UNCHANGED <<flag, bindings, freeBindingList, bound, tagStack, table>>
       ELSE \E grows \in {FALSE, b # 0} :
            LET cells == IF b = 0 THEN w.bindings ELSE WriteName(w.bindings, b, t.name)
                moved == [cells EXCEPT ![b].block = 1 - @]
                name  == IF b = 0 THEN Plain(t.name) ELSE cells[b].last
                str   == IF b = 0 THEN OwnBuffer ELSE <<b, bindings'[b].block>>
                told  == [type |-> IF empty THEN "empty" ELSE "start", tag |-> t,
                          name |-> name, atts |-> x.atts, scopes |-> w.scopes,
                          nSpecified |-> Len(specified.atts),
                          idAttIndex |-> IdAttIndex(t.name, specified)]
                tag   == [tag |-> t, str |-> str, own |-> w.own, started |-> name]
                follow(tags) == [k \in DOMAIN tags |->
                    IF grows /\ tags[k].str = <<b, cells[b].block>>
                    THEN [tags[k] EXCEPT !.str = <<b, moved[b].block>>] ELSE tags[k]]
            IN /\ UNCHANGED code
               /\ bindings' = IF grows THEN moved ELSE cells
               /\ flag' = ClearFlags(w, x) /\ table' = x.table
               /\ event' = told
               /\ IF empty
                  THEN LET after == Release(w.own, w.free, w.bound)
                       IN /\ bound' = after.bound /\ freeBindingList' = after.free
                          /\ tagStack' = follow(tagStack)
                  ELSE /\ bound' = w.bound /\ freeBindingList' = w.free
                       /\ tagStack' = Append(follow(tagStack), tag)

\* The name told is what stands in the block; it is written there again,
\* because the names of the elements inside were.
EndTagAsLeft ==
    LET tag   == Last(tagStack)
        b     == tag.str[1]
        after == Release(tag.own, freeBindingList, bound)
    IN
    /\ code = "NONE" /\ tagStack # <<>>
    /\ UNCHANGED bindings
    /\ event' = [type |-> "end", started |-> tag.started,
                 name |-> IF b = 0 THEN Plain(tag.tag.name)
                          ELSE IF bindings'[b].block # tag.str[2] THEN NoName
                          ELSE bindings'[b].last]
    /\ tagStack' = Front(tagStack)
    /\ bound' = after.bound /\ freeBindingList' = after.free
    /\ UNCHANGED <<defaultAtts, idAtt, maybeTokenized, flag, table, code, declared,
                   opened>>

EndTag ==
    LET tag   == Last(tagStack)
        b     == tag.str[1]
        after == Release(tag.own, freeBindingList, bound)
    IN
    /\ code = "NONE" /\ tagStack # <<>>
    /\ bindings' = IF b = 0 THEN bindings ELSE WriteName(bindings, b, tag.tag.name)
    /\ event' = [type |-> "end", started |-> tag.started,
                 name |-> IF b = 0 THEN Plain(tag.tag.name)
                          ELSE IF bindings'[b].block # tag.str[2] THEN NoName
                          ELSE bindings'[b].last]
    /\ tagStack' = Front(tagStack)
    /\ bound' = after.bound /\ freeBindingList' = after.free
    /\ UNCHANGED <<defaultAtts, idAtt, maybeTokenized, flag, table, code, declared,
                   opened>>

\* XML_ParserCreateNS begins with the binding of xml, in no tag.
Init ==
    /\ setup \in Setups
    /\ defaultAtts = [e \in ElementNames |-> <<>>]
    /\ idAtt = [e \in ElementNames |-> NoName]
    /\ maybeTokenized = {}
    /\ flag = [a \in AttributeNames |-> 0]
    /\ bindings = IF NS THEN <<[prefix |-> "xml", uri |-> "XML", attId |-> NoName,
                                prev |-> 0, last |-> NoName, block |-> 0]>> ELSE <<>>
    /\ freeBindingList = <<>>
    /\ bound = [p \in PrefixNames |-> IF NS /\ p = "xml" THEN 1 ELSE 0]
    /\ tagStack = <<>>
    /\ table = [power |-> 0, version |-> 0, slots |-> <<>>]
    /\ event = Silence /\ code = "NONE" /\ declared = <<>> /\ opened = 0

Next ==
    /\ \/ \E d \in Written : Declare(d)
       \/ \E t \in Tags, empty \in BOOLEAN : StartTag(t, empty)
       \/ EndTag
    /\ UNCHANGED setup

Spec == Init /\ [][Next]_<<setup, avars>>

-----------------------------------------------------------------------------
(* Properties: what the declarations and the open tags mean *)

Ours(d, e, a) == d.element = e /\ d.att = a
Binds(e, a) ==
    LET all == {i \in DOMAIN declared : Ours(declared[i], e, a)}
    IN IF all = {} THEN [type |-> "CDATA", value |-> None]
       ELSE declared[CHOOSE i \in all : \A j \in all : i <= j]

Attribute(e, a, value) ==
    [name |-> a, value |-> IF Binds(e, a).type # "CDATA" /\ value \in DOMAIN Tokenized
                           THEN Tokenized[value] ELSE value]

Specified(t) == {Attribute(t.name, t.atts[i].name, t.atts[i].value) : i \in DOMAIN t.atts}
Whole(t) ==
    Specified(t) \cup {[name |-> a, value |-> Binds(t.name, a).value] :
        a \in {a \in AttributeNames : /\ Binds(t.name, a).value # None
                                      /\ \A i \in DOMAIN t.atts : t.atts[i].name # a}}

Declares(t, p) == {a \in Whole(t) : IsXmlns(a.name) /\ PrefixOf(a.name) = p}

\* The URI that p stands for within the tags: the innermost, the last, binds.
InScope(tags, p) ==
    LET declaring == {k \in DOMAIN tags : Declares(tags[k], p) # {}}
        innermost == CHOOSE k \in declaring : \A j \in declaring : j <= k
        uri == (CHOOSE a \in Declares(tags[innermost], p) : TRUE).value
    IN IF declaring = {} THEN IF NS /\ p = "xml" THEN "XML" ELSE None
       ELSE IF uri = "" THEN None ELSE uri

Open == [k \in DOMAIN tagStack |-> tagStack[k].tag]
Around == IF event.type = "start" THEN Open ELSE Append(Open, event.tag)

Meaning(tags, a) ==
    IF PrefixOf(a) = None THEN Plain(a)
    ELSE Expanded(InScope(tags, PrefixOf(a)), a.local, PrefixOf(a))

ElementMeaning(tags, e) ==
    LET p == IF ElementPrefix(e) = None THEN "" ELSE ElementPrefix(e)
    IN IF ~NS \/ InScope(tags, p) = None THEN Plain(e)
       ELSE Expanded(InScope(tags, p), e.local, p)

BadNamespace(a) ==
    LET p == PrefixOf(a.name) IN
    /\ IsXmlns(a.name)
    /\ \/ p = "xmlns" \/ a.value = "XMLNS"
       \/ (p = "xml") # (a.value = "XML")
       \/ p # "" /\ a.value = ""

\* What is wrong with a tag within tags, itself the last one.
Wrong(t, tags) ==
    LET other == {a \in Whole(t) : ~IsXmlns(a.name) /\ PrefixOf(a.name) # None}
        same(a, b) == /\ a.name.local = b.name.local
                      /\ InScope(tags, PrefixOf(a.name)) = InScope(tags, PrefixOf(b.name))
        twice == \E i, j \in DOMAIN t.atts : i < j /\ t.atts[i].name = t.atts[j].name
    IN  (IF twice \/ \E a, b \in other : a.name # b.name /\ same(a, b)
         THEN {"DUPLICATE_ATTRIBUTE"} ELSE {})
        \cup (IF \E a \in Whole(t) : BadNamespace(a)
              THEN {"UNDECLARING_PREFIX", "RESERVED_PREFIX_XMLNS", "RESERVED_PREFIX_XML",
                    "RESERVED_NAMESPACE_URI"} ELSE {})
        \cup (IF \/ \E a \in other : InScope(tags, PrefixOf(a.name)) = None
                 \/ /\ ElementPrefix(t.name) # None
                    /\ InScope(tags, ElementPrefix(t.name)) = None
              THEN {"UNBOUND_PREFIX"} ELSE {})

(***************************************************************************)
(* A start tag is refused just when something is wrong with it: whatever  *)
(* tags came before, however the hash table was filled and its versions   *)
(* wrapped, no duplicate is missed and none is seen that is not there.    *)
(***************************************************************************)
RefusedRightly ==
    /\ event.type = "error" => code \in Wrong(event.tag, Append(Open, event.tag))
    /\ event.type \in {"start", "empty"} => Wrong(event.tag, Around) = {}

\* Where an attribute that is written comes among those that are given.
Place(t, i) == Cardinality({j \in 1 .. i : ~IsXmlns(t.atts[j].name)})

\* The first declaration of an attribute of e as its ID, unless it declares no ID.
Ids(e) == {i \in DOMAIN declared :
             LET d == declared[i] IN
             /\ d.element = e /\ d.type = "ID" /\ d.value = None /\ ~IsXmlns(d.att)
             /\ \A j \in 1 .. i - 1 : ~Ours(declared[j], e, d.att)}
IdOf(e) == IF Ids(e) = {} THEN NoName
           ELSE declared[CHOOSE i \in Ids(e) : \A j \in Ids(e) : i <= j].att

(***************************************************************************)
(* A start tag is told with the attributes written in it, in order and    *)
(* normalized by their types, then the defaults of those that are not     *)
(* there, each as its first declaration has it; names are those of the    *)
(* namespaces in scope, declared by defaults too.  nSpecifiedAtts and     *)
(* idAttIndex point to what they should.                                   *)
(***************************************************************************)
AttributesAsDeclared ==
    event.type \in {"start", "empty"} =>
        LET t == event.tag
            told == {a \in Whole(t) : ~IsXmlns(a.name)}
            expanded(a) == [name |-> Meaning(Around, a.name), value |-> a.value]
            given == {i \in DOMAIN t.atts : ~IsXmlns(t.atts[i].name)}
            ids == {i \in given : t.atts[i].name = IdOf(t.name)}
        IN /\ event.name = ElementMeaning(Around, t.name)
           /\ event.nSpecified = Place(t, Len(t.atts))
           /\ Len(event.atts) = Cardinality(told)
           /\ Range(event.atts) = {expanded(a) : a \in told}
           /\ \A i \in given :
                 event.atts[Place(t, i)] =
                    expanded(Attribute(t.name, t.atts[i].name, t.atts[i].value))
           /\ event.idAttIndex = IF ids = {} THEN -1
                                 ELSE 2 * (Place(t, CHOOSE i \in ids : TRUE) - 1)

(***************************************************************************)
(* An element ends under the name it began with, although the elements    *)
(* inside wrote their names over it, or moved the block it stands in.     *)
(***************************************************************************)
EndsAsItBegan == event.type = "end" => event.name = event.started

(***************************************************************************)
(* A tag leaves nothing behind that a later one could meet.  Outside of   *)
(* storeAtts a prefix stands for the URI of the innermost open element    *)
(* that declares it, however elements were nested and the same bindings   *)
(* used again; and no attribute is marked as one of the tag before, which *)
(* would make a default missing, or a duplicate, much later.               *)
(***************************************************************************)
NothingLeftBehind ==
    code = "NONE" =>
        /\ \A p \in PrefixNames :
              InScope(Open, p) = IF bound[p] = 0 THEN None ELSE bindings[bound[p]].uri
        /\ \A a \in AttributeNames : flag[a] = 0

===============================================================================
