-------------------------- MODULE XmlAttributesProofs --------------------------
(***************************************************************************)
(* Proofs about the attributes and the namespaces of expat                 *)
(* (XmlAttributes), for any declarations, tags and bounds: AInv is an      *)
(* invariant, an element ends under the name it began with, a tag leaves   *)
(* nothing behind, and a start tag is told as it is declared, or refused   *)
(* for what is wrong with it.                                              *)
(*                                                                         *)
(* storeAtts goes through lists of any length, so that what it makes of    *)
(* them is shown by induction: Least and Induction give it for sets of     *)
(* numbers, Scanning to Releasing the functions that go through the lists, *)
(* and for each list there is an invariant (WorkInv, DefaultInv,           *)
(* ExpandInv, LeftInv, and GivenInv, AddedInv, FullInv of what is told)    *)
(* that holds at its start, over a step (Next), and so at its end (Done).  *)
(* The table of expanded names rests on arithmetic: an odd step meets      *)
(* every slot of a table with a power of two of them (ProbesDiffer).       *)
(***************************************************************************)
EXTENDS XmlAttributesInv, WellFoundedInduction, SequenceTheorems,
        FiniteSetTheorems, TLAPS

-----------------------------------------------------------------------------
(* Induction over a list *)

\* A set of numbers has a least one.
LEMMA Least ==
    ASSUME NEW T \in SUBSET Nat, T # {}
    PROVE  \E m \in T : \A n \in T : m <= n
<1> DEFINE R == OpToRel(<, Nat)
<1>1. IsWellFoundedOn(R, Nat)
    BY NatLessThanWellFounded
<1>2. \E x \in T : \A y \in T : ~(<<y, x>> \in R)
  <2> HIDE DEF R
  <2> QED BY <1>1, WFMin
<1>3. \A x, y \in Nat : <<y, x>> \in R <=> y < x
    BY DEF OpToRel
<1>4. PICK m \in T : \A y \in T : ~(<<y, m>> \in R)
    BY <1>2
<1>5. ASSUME NEW n \in T PROVE m <= n
  <2>1. n \in Nat /\ m \in Nat
      OBVIOUS
  <2>2. ~(n < m)
      BY <1>3, <1>4, <2>1
  <2> HIDE DEF R
  <2> QED BY <2>1, <2>2
<1> HIDE DEF R
<1> QED
    BY <1>5

\* A set of numbers that begins at 0 and goes on is all of them.
LEMMA Induction ==
    ASSUME NEW n \in Nat, NEW T, 0 \in T,
           \A i \in 1 .. n : i - 1 \in T => i \in T
    PROVE  \A i \in 0 .. n : i \in T
<1> DEFINE U == (0 .. n) \ T
<1>1. CASE U = {}
    BY <1>1
<1>2. CASE U # {}
  <2>1. PICK m \in U : \A k \in U : m <= k
      BY <1>2, Least, U \in SUBSET Nat
  <2>2. m # 0 /\ m \in 1 .. n /\ m - 1 \in 0 .. n
      BY <2>1
  <2>3. m - 1 \in T
      BY <2>1, <2>2
  <2> QED BY <2>1, <2>2, <2>3
<1> QED BY <1>1, <1>2

\* The attributes of a tag are looked at one after the other.
LEMMA Scanning ==
    ASSUME NEW t, Len(t.atts) \in Nat
    PROVE  \E f : /\ f[0] = Work
                  /\ \A i \in 1 .. Len(t.atts) : f[i] = Specify(f[i - 1], t.name, t.atts[i])
                  /\ Scanned(t) = f[Len(t.atts)]
<1> DEFINE f[i \in 0 .. Len(t.atts)] == IF i = 0 THEN Work ELSE Specify(f[i - 1], t.name, t.atts[i])
           n == Len(t.atts)
           w == Work
<1>1. Scanned(t) = f[n]
    BY DEF Scanned
<1> HIDE DEF f, n, w
<1>2. n \in Nat
    BY DEF n
<1> DEFINE Def(g, k) == [i \in 0 .. k |-> IF i = 0 THEN w ELSE Specify(g[i - 1], t.name, t.atts[i])]
           T == {k \in 0 .. n : \E g : g = Def(g, k)}
<1>3. 0 \in T
  <2> DEFINE g == [i \in 0 .. 0 |-> w]
  <2>1. g = Def(g, 0)
      OBVIOUS
  <2> HIDE DEF g
  <2>2. \E h : h = Def(h, 0)
      BY <2>1, Zenon
  <2>3. 0 \in 0 .. n
      BY <1>2
  <2> HIDE DEF Def
  <2> QED BY <2>2, <2>3
<1>4. ASSUME NEW k \in 1 .. n, k - 1 \in T
      PROVE  k \in T
  <2>1. PICK h : h = Def(h, k - 1)
      BY <1>4
  <2> DEFINE g == [i \in 0 .. k |-> IF i = k THEN Specify(h[k - 1], t.name, t.atts[k]) ELSE h[i]]
  <2>2. ASSUME NEW i \in 0 .. k PROVE g[i] = Def(g, k)[i]
    <3>1. CASE i = 0
        BY <3>1, <2>1, <1>2
    <3>2. CASE i = k
        BY <3>2, <1>2, g[k - 1] = h[k - 1], k - 1 \in 0 .. k
    <3>3. CASE i # 0 /\ i # k
        BY <3>3, <2>1, <1>2, g[i - 1] = h[i - 1], i - 1 \in 0 .. k, i \in 0 .. k - 1
    <3> QED BY <3>1, <3>2, <3>3
  <2>3. g = Def(g, k)
      BY <2>2
  <2> HIDE DEF g
  <2>4. \E u : u = Def(u, k)
      BY <2>3, Zenon
  <2>5. k \in 0 .. n
      BY <1>2
  <2> HIDE DEF Def
  <2> QED BY <2>4, <2>5
<1>5. \E g : g = Def(g, n)
  <2> HIDE DEF T
  <2>1. \A i \in 0 .. n : i \in T
      BY <1>2, <1>3, <1>4, Induction
  <2>2. n \in T
      BY <1>2, <2>1
  <2> QED BY <2>2 DEF T
<1>6. f = Def(f, n)
    BY <1>5, Zenon DEF f, n, w
<1>7. f[0] = w /\ \A i \in 1 .. n : f[i] = Specify(f[i - 1], t.name, t.atts[i])
  <2>1. \A i \in 0 .. n : f[i] = IF i = 0 THEN w ELSE Specify(f[i - 1], t.name, t.atts[i])
      BY <1>6
  <2>2. 0 \in 0 .. n /\ \A i \in 1 .. n : i \in 0 .. n /\ i # 0
      BY <1>2
  <2> QED BY <2>1, <2>2
<1> QED BY <1>1, <1>7 DEF n, w

\* Then those that are declared.
LEMMA Completing ==
    ASSUME NEW t, NEW s, Len(defaultAtts[t.name]) \in Nat
    PROVE  \E f : /\ f[0] = s
                  /\ \A i \in 1 .. Len(defaultAtts[t.name]) : f[i] = Default(f[i - 1], defaultAtts[t.name][i])
                  /\ Completed(t, s) = f[Len(defaultAtts[t.name])]
<1> DEFINE f[i \in 0 .. Len(defaultAtts[t.name])] == IF i = 0 THEN s ELSE Default(f[i - 1], defaultAtts[t.name][i])
           n == Len(defaultAtts[t.name])
           w == s
<1>1. Completed(t, s) = f[n]
    BY DEF Completed
<1> HIDE DEF f, n, w
<1>2. n \in Nat
    BY DEF n
<1> DEFINE Def(g, k) == [i \in 0 .. k |-> IF i = 0 THEN w ELSE Default(g[i - 1], defaultAtts[t.name][i])]
           T == {k \in 0 .. n : \E g : g = Def(g, k)}
<1>3. 0 \in T
  <2> DEFINE g == [i \in 0 .. 0 |-> w]
  <2>1. g = Def(g, 0)
      OBVIOUS
  <2> HIDE DEF g
  <2>2. \E h : h = Def(h, 0)
      BY <2>1, Zenon
  <2>3. 0 \in 0 .. n
      BY <1>2
  <2> HIDE DEF Def
  <2> QED BY <2>2, <2>3
<1>4. ASSUME NEW k \in 1 .. n, k - 1 \in T
      PROVE  k \in T
  <2>1. PICK h : h = Def(h, k - 1)
      BY <1>4
  <2> DEFINE g == [i \in 0 .. k |-> IF i = k THEN Default(h[k - 1], defaultAtts[t.name][k]) ELSE h[i]]
  <2>2. ASSUME NEW i \in 0 .. k PROVE g[i] = Def(g, k)[i]
    <3>1. CASE i = 0
        BY <3>1, <2>1, <1>2
    <3>2. CASE i = k
        BY <3>2, <1>2, g[k - 1] = h[k - 1], k - 1 \in 0 .. k
    <3>3. CASE i # 0 /\ i # k
        BY <3>3, <2>1, <1>2, g[i - 1] = h[i - 1], i - 1 \in 0 .. k, i \in 0 .. k - 1
    <3> QED BY <3>1, <3>2, <3>3
  <2>3. g = Def(g, k)
      BY <2>2
  <2> HIDE DEF g
  <2>4. \E u : u = Def(u, k)
      BY <2>3, Zenon
  <2>5. k \in 0 .. n
      BY <1>2
  <2> HIDE DEF Def
  <2> QED BY <2>4, <2>5
<1>5. \E g : g = Def(g, n)
  <2> HIDE DEF T
  <2>1. \A i \in 0 .. n : i \in T
      BY <1>2, <1>3, <1>4, Induction
  <2>2. n \in T
      BY <1>2, <2>1
  <2> QED BY <2>2 DEF T
<1>6. f = Def(f, n)
    BY <1>5, Zenon DEF f, n, w
<1>7. f[0] = w /\ \A i \in 1 .. n : f[i] = Default(f[i - 1], defaultAtts[t.name][i])
  <2>1. \A i \in 0 .. n : f[i] = IF i = 0 THEN w ELSE Default(f[i - 1], defaultAtts[t.name][i])
      BY <1>6
  <2>2. 0 \in 0 .. n /\ \A i \in 1 .. n : i \in 0 .. n /\ i # 0
      BY <1>2
  <2> QED BY <2>1, <2>2
<1> QED BY <1>1, <1>7 DEF n, w

\* Then those that are given.
LEMMA Expanding ==
    ASSUME NEW s, Len(s.atts) \in Nat
    PROVE  \E f : /\ f[0] = ExpandFrom(s)
                  /\ \A i \in 1 .. Len(s.atts) : f[i] = Expand(f[i - 1], s, i)
                  /\ ExpandAll(s) = f[Len(s.atts)]
<1> DEFINE f[i \in 0 .. Len(s.atts)] == IF i = 0 THEN ExpandFrom(s) ELSE Expand(f[i - 1], s, i)
           n == Len(s.atts)
           w == ExpandFrom(s)
<1>1. ExpandAll(s) = f[n]
    BY DEF ExpandAll
<1> HIDE DEF f, n, w
<1>2. n \in Nat
    BY DEF n
<1> DEFINE Def(g, k) == [i \in 0 .. k |-> IF i = 0 THEN w ELSE Expand(g[i - 1], s, i)]
           T == {k \in 0 .. n : \E g : g = Def(g, k)}
<1>3. 0 \in T
  <2> DEFINE g == [i \in 0 .. 0 |-> w]
  <2>1. g = Def(g, 0)
      OBVIOUS
  <2> HIDE DEF g
  <2>2. \E h : h = Def(h, 0)
      BY <2>1, Zenon
  <2>3. 0 \in 0 .. n
      BY <1>2
  <2> HIDE DEF Def
  <2> QED BY <2>2, <2>3
<1>4. ASSUME NEW k \in 1 .. n, k - 1 \in T
      PROVE  k \in T
  <2>1. PICK h : h = Def(h, k - 1)
      BY <1>4
  <2> DEFINE g == [i \in 0 .. k |-> IF i = k THEN Expand(h[k - 1], s, k) ELSE h[i]]
  <2>2. ASSUME NEW i \in 0 .. k PROVE g[i] = Def(g, k)[i]
    <3>1. CASE i = 0
        BY <3>1, <2>1, <1>2
    <3>2. CASE i = k
        BY <3>2, <1>2, g[k - 1] = h[k - 1], k - 1 \in 0 .. k
    <3>3. CASE i # 0 /\ i # k
        BY <3>3, <2>1, <1>2, g[i - 1] = h[i - 1], i - 1 \in 0 .. k, i \in 0 .. k - 1
    <3> QED BY <3>1, <3>2, <3>3
  <2>3. g = Def(g, k)
      BY <2>2
  <2> HIDE DEF g
  <2>4. \E u : u = Def(u, k)
      BY <2>3, Zenon
  <2>5. k \in 0 .. n
      BY <1>2
  <2> HIDE DEF Def
  <2> QED BY <2>4, <2>5
<1>5. \E g : g = Def(g, n)
  <2> HIDE DEF T
  <2>1. \A i \in 0 .. n : i \in T
      BY <1>2, <1>3, <1>4, Induction
  <2>2. n \in T
      BY <1>2, <2>1
  <2> QED BY <2>2 DEF T
<1>6. f = Def(f, n)
    BY <1>5, Zenon DEF f, n, w
<1>7. f[0] = w /\ \A i \in 1 .. n : f[i] = Expand(f[i - 1], s, i)
  <2>1. \A i \in 0 .. n : f[i] = IF i = 0 THEN w ELSE Expand(f[i - 1], s, i)
      BY <1>6
  <2>2. 0 \in 0 .. n /\ \A i \in 1 .. n : i \in 0 .. n /\ i # 0
      BY <1>2
  <2> QED BY <2>1, <2>2
<1> QED BY <1>1, <1>7 DEF n, w

\* And bindings leave their scope one after the other.
LEMMA Releasing ==
    ASSUME NEW own, NEW free, NEW scope, Len(own) \in Nat
    PROVE  \E f : /\ f[0] = [free |-> free, bound |-> scope]
                  /\ \A i \in 1 .. Len(own) : f[i] = Unbind(f[i - 1], own[i])
                  /\ Release(own, free, scope) = f[Len(own)]
<1> DEFINE f[i \in 0 .. Len(own)] == IF i = 0 THEN [free |-> free, bound |-> scope] ELSE Unbind(f[i - 1], own[i])
           n == Len(own)
           w == [free |-> free, bound |-> scope]
<1>1. Release(own, free, scope) = f[n]
    BY DEF Release
<1> HIDE DEF f, n, w
<1>2. n \in Nat
    BY DEF n
<1> DEFINE Def(g, k) == [i \in 0 .. k |-> IF i = 0 THEN w ELSE Unbind(g[i - 1], own[i])]
           T == {k \in 0 .. n : \E g : g = Def(g, k)}
<1>3. 0 \in T
  <2> DEFINE g == [i \in 0 .. 0 |-> w]
  <2>1. g = Def(g, 0)
      OBVIOUS
  <2> HIDE DEF g
  <2>2. \E h : h = Def(h, 0)
      BY <2>1, Zenon
  <2>3. 0 \in 0 .. n
      BY <1>2
  <2> HIDE DEF Def
  <2> QED BY <2>2, <2>3
<1>4. ASSUME NEW k \in 1 .. n, k - 1 \in T
      PROVE  k \in T
  <2>1. PICK h : h = Def(h, k - 1)
      BY <1>4
  <2> DEFINE g == [i \in 0 .. k |-> IF i = k THEN Unbind(h[k - 1], own[k]) ELSE h[i]]
  <2>2. ASSUME NEW i \in 0 .. k PROVE g[i] = Def(g, k)[i]
    <3>1. CASE i = 0
        BY <3>1, <2>1, <1>2
    <3>2. CASE i = k
        BY <3>2, <1>2, g[k - 1] = h[k - 1], k - 1 \in 0 .. k
    <3>3. CASE i # 0 /\ i # k
        BY <3>3, <2>1, <1>2, g[i - 1] = h[i - 1], i - 1 \in 0 .. k, i \in 0 .. k - 1
    <3> QED BY <3>1, <3>2, <3>3
  <2>3. g = Def(g, k)
      BY <2>2
  <2> HIDE DEF g
  <2>4. \E u : u = Def(u, k)
      BY <2>3, Zenon
  <2>5. k \in 0 .. n
      BY <1>2
  <2> HIDE DEF Def
  <2> QED BY <2>4, <2>5
<1>5. \E g : g = Def(g, n)
  <2> HIDE DEF T
  <2>1. \A i \in 0 .. n : i \in T
      BY <1>2, <1>3, <1>4, Induction
  <2>2. n \in T
      BY <1>2, <2>1
  <2> QED BY <2>2 DEF T
<1>6. f = Def(f, n)
    BY <1>5, Zenon DEF f, n, w
<1>7. f[0] = w /\ \A i \in 1 .. n : f[i] = Unbind(f[i - 1], own[i])
  <2>1. \A i \in 0 .. n : f[i] = IF i = 0 THEN w ELSE Unbind(f[i - 1], own[i])
      BY <1>6
  <2>2. 0 \in 0 .. n /\ \A i \in 1 .. n : i \in 0 .. n /\ i # 0
      BY <1>2
  <2> QED BY <2>1, <2>2
<1> QED BY <1>1, <1>7 DEF n, w

-----------------------------------------------------------------------------
(* Sequences that grow or shrink at the front *)

\* What is put in front, and what was there before.
LEMMA Pushed ==
    ASSUME NEW S, NEW x \in S, NEW s \in Seq(S)
    PROVE  /\ <<x>> \o s \in Seq(S) /\ Len(<<x>> \o s) = Len(s) + 1
           /\ 1 \in DOMAIN (<<x>> \o s) /\ (<<x>> \o s)[1] = x
           /\ \A i \in DOMAIN (<<x>> \o s) :
                 i = 1 \/ (i - 1 \in DOMAIN s /\ (<<x>> \o s)[i] = s[i - 1])
           /\ \A i \in DOMAIN s :
                 i + 1 \in DOMAIN (<<x>> \o s) /\ (<<x>> \o s)[i + 1] = s[i]
<1>1. <<x>> \in Seq(S) /\ Len(<<x>>) = 1 /\ <<x>>[1] = x
    OBVIOUS
<1> DEFINE c == <<x>> \o s
<1>2. /\ c \in Seq(S) /\ Len(c) = Len(s) + 1
      /\ \A i \in 1 .. Len(s) + 1 : c[i] = IF i <= 1 THEN x ELSE s[i - 1]
    BY <1>1, ConcatProperties
<1> HIDE DEF c
<1>3. DOMAIN c = 1 .. Len(s) + 1 /\ DOMAIN s = 1 .. Len(s) /\ Len(s) \in Nat
    BY <1>2
<1>4. /\ 1 \in DOMAIN c /\ c[1] = x
      /\ \A i \in DOMAIN c : i = 1 \/ (i - 1 \in DOMAIN s /\ c[i] = s[i - 1])
      /\ \A i \in DOMAIN s : i + 1 \in DOMAIN c /\ c[i + 1] = s[i]
    BY <1>2, <1>3
<1> QED BY <1>2, <1>4 DEF c

\* What is left when the first is taken.
LEMMA Popped ==
    ASSUME NEW S, NEW s \in Seq(S), s # <<>>
    PROVE  /\ Tail(s) \in Seq(S) /\ Head(s) = s[1] /\ 1 \in DOMAIN s /\ s[1] \in S
           /\ \A i \in DOMAIN Tail(s) : i + 1 \in DOMAIN s /\ i + 1 # 1 /\ Tail(s)[i] = s[i + 1]
    OBVIOUS

-----------------------------------------------------------------------------
(* Work on a start tag: what it has taken and bound, and of what *)

Works ==
    [flag : [AttributeNames -> 0 .. 2], bindings : Seq(Cells), free : Seq(Nat),
     bound : [PrefixNames -> Nat], atts : Seq([name : AttributeNames, value : Values]),
     own : Seq(Nat), scopes : Seq(PrefixNames \X Values), error : {"NONE"}]

Cell(w, i) == w.bindings[w.own[i]]

\* What is taken was free or is new, and hides what was bound before the tag.
WorkInv(w) ==
    /\ w \in Works
    /\ Len(bindings) <= Len(w.bindings)
    /\ \A i, j \in DOMAIN w.free : w.free[i] = w.free[j] => i = j
    /\ \A i \in DOMAIN w.free : w.free[i] \in Free
    /\ \A b \in DOMAIN bindings : b \notin Free => w.bindings[b] = bindings[b]
    /\ \A i \in DOMAIN w.own :
          /\ w.own[i] \in DOMAIN w.bindings
          /\ \A j \in DOMAIN w.free : w.own[i] # w.free[j]
          /\ w.own[i] \in Free \/ w.own[i] > Len(bindings)
          /\ IsXmlns(Cell(w, i).attId) /\ Cell(w, i).attId \in AttributeNames
          /\ Cell(w, i).prefix = PrefixOf(Cell(w, i).attId)
          /\ Cell(w, i).prev = bound[Cell(w, i).prefix]
          /\ Cell(w, i).uri = "" => Cell(w, i).prefix = ""
          /\ w.bound[Cell(w, i).prefix] = IF Cell(w, i).uri = "" THEN 0 ELSE w.own[i]
    /\ \A i, j \in DOMAIN w.own : Cell(w, i).attId = Cell(w, j).attId => i = j
    /\ \A p \in PrefixNames :
          (\A i \in DOMAIN w.own : Cell(w, i).prefix # p) => w.bound[p] = bound[p]

\* The declarations of namespaces that have been taken.
Taken(w) == {<<Cell(w, i).attId, Cell(w, i).uri>> : i \in DOMAIN w.own}

\* The prefix that an attribute declares tells the attribute.
LEMMA PrefixTells ==
    ASSUME AttributesAssumption, TypeInv, NEW a \in AttributeNames, IsXmlns(a)
    PROVE  /\ NS /\ PrefixOf(a) \in PrefixNames
           /\ \A b \in AttributeNames : IsXmlns(b) /\ PrefixOf(b) = PrefixOf(a) => a = b
<1>1. NS \in BOOLEAN
    BY DEF AttributesAssumption, TypeInv, NS
<1>2. \A b \in AttributeNames : IsXmlns(b) =>
          /\ NS
          /\ b = Xmlns \/ b.prefix = "xmlns"
          /\ PrefixOf(b) = IF b = Xmlns THEN "" ELSE b.local
  <2> SUFFICES ASSUME NEW b \in AttributeNames, IsXmlns(b)
               PROVE  /\ NS
                      /\ b = Xmlns \/ b.prefix = "xmlns"
                      /\ PrefixOf(b) = IF b = Xmlns THEN "" ELSE b.local
      OBVIOUS
  <2>1. NS /\ (b = Xmlns \/ b.prefix = "xmlns")
      BY DEF IsXmlns
  <2>2. PrefixOf(b) = IF b = Xmlns THEN "" ELSE b.local
      BY <2>1 DEF PrefixOf
  <2> QED BY <2>1, <2>2
<1>3. \A b \in AttributeNames : b.local # "" /\ b = [prefix |-> b.prefix, local |-> b.local]
  <2>1. NS /\ setup \in Setups
      BY <1>2 DEF TypeInv
  <2> QED BY <2>1 DEF AttributesAssumption, NS
<1>4. PrefixOf(a) \in PrefixNames
    BY <1>2 DEF AttributesAssumption
<1>5. ASSUME NEW b \in AttributeNames, IsXmlns(b), PrefixOf(b) = PrefixOf(a)
      PROVE  a = b
  <2>1. CASE a = Xmlns
      BY <2>1, <1>2, <1>3, <1>5
  <2>2. CASE a # Xmlns
    <3>1. b # Xmlns /\ a.local = b.local /\ a.prefix = b.prefix
        BY <2>2, <1>2, <1>3, <1>5
    <3> QED BY <3>1, <1>3
  <2> QED BY <2>1, <2>2
<1> QED BY <1>2, <1>4, <1>5

\* A free binding is one of those there are.
LEMMA FreeAre ==
    ASSUME TypeInv
    PROVE  /\ \A c \in Free : c \in DOMAIN bindings /\ c \in Nat /\ c # 0 /\ c <= Len(bindings)
           /\ Len(bindings) \in Nat
<1>1. bindings \in Seq(Cells) /\ DOMAIN bindings = 1 .. Len(bindings) /\ Len(bindings) \in Nat
    BY DEF TypeInv
<1>2. \A i \in DOMAIN freeBindingList : freeBindingList[i] \in DOMAIN bindings
    BY DEF TypeInv
<1>3. \A c \in Free : c \in DOMAIN bindings
    BY <1>2 DEF Free, Range
<1> QED BY <1>1, <1>3

\* addBinding takes a free or a new binding, and notes what it hides.
LEMMA AddBindingKeeps ==
    ASSUME AttributesAssumption, TypeInv,
           NEW w, WorkInv(w), NEW att \in AttributeNames, IsXmlns(att), NEW uri \in Values,
           \A i \in DOMAIN w.own : Cell(w, i).attId # att,
           NEW r, r = AddBinding(w, att, uri), r.error = "NONE"
    PROVE  /\ WorkInv(r) /\ Taken(r) = Taken(w) \cup {<<att, uri>>}
           /\ r.flag = w.flag /\ r.atts = w.atts
<1> DEFINE prefix == PrefixOf(att)
           reuse == w.free # <<>>
           b     == IF reuse THEN Head(w.free) ELSE Len(w.bindings) + 1
           cell  == [prefix |-> prefix, uri |-> uri, attId |-> att,
                     prev |-> w.bound[prefix], last |-> NoName,
                     block |-> IF reuse THEN w.bindings[b].block ELSE 0]
           cells == IF reuse THEN [w.bindings EXCEPT ![b] = cell]
                             ELSE Append(w.bindings, cell)
           free  == IF reuse THEN Tail(w.free) ELSE w.free
           own   == <<b>> \o w.own
           scope == [w.bound EXCEPT ![prefix] = IF uri = "" /\ prefix = "" THEN 0 ELSE b]
<1>1. w \in Works
    BY DEF WorkInv
<1>0. /\ Len(bindings) <= Len(w.bindings) /\ Len(w.bindings) \in Nat
      /\ DOMAIN w.bindings = 1 .. Len(w.bindings)
  <2>1. Len(bindings) <= Len(w.bindings)
      BY DEF WorkInv
  <2>2. w.bindings \in Seq(Cells)
      BY <1>1 DEF Works
  <2> QED BY <2>1, <2>2
<1>2. Reserved(prefix, uri) = "NONE"
    BY <1>1 DEF AddBinding, Fail, Works
<1>3. r = [w EXCEPT !.bindings = cells, !.free = free, !.bound = scope,
                    !.own = own, !.scopes = Append(@, <<prefix, uri>>)]
    BY <1>2, Zenon DEF AddBinding
<1> HIDE DEF prefix, b, cell, cells, free, own, scope
<1>4. /\ r.flag = w.flag /\ r.atts = w.atts /\ r.bindings = cells /\ r.free = free
      /\ r.bound = scope /\ r.own = own
    BY <1>1, <1>3 DEF Works
<1>5. uri = "" => prefix = ""
    BY <1>2 DEF Reserved
<1>6. prefix \in PrefixNames
    BY PrefixTells DEF prefix
<1>7. /\ reuse => /\ b = w.free[1] /\ 1 \in DOMAIN w.free /\ b \in Free
                   /\ b \in DOMAIN w.bindings
      /\ ~reuse => b = Len(w.bindings) + 1
      /\ b \in Nat /\ b # 0
  <2>1. CASE reuse
    <3>1. b = w.free[1] /\ 1 \in DOMAIN w.free
        BY <2>1, <1>1 DEF b, Works
    <3>2. b \in Free
        BY <3>1 DEF WorkInv
    <3> QED BY <2>1, <3>1, <3>2, <1>0, FreeAre
  <2>2. CASE ~reuse
      BY <2>2, <1>1 DEF b, Works
  <2> QED BY <2>1, <2>2
<1>8. /\ cell \in Cells /\ cell.prefix = prefix /\ cell.uri = uri /\ cell.attId = att
      /\ cell.prev = w.bound[prefix]
  <2>1. w.bound[prefix] \in Nat
      BY <1>1, <1>6 DEF Works
  <2>2. (IF reuse THEN w.bindings[b].block ELSE 0) \in {0, 1}
    <3>1. CASE reuse
      <4>1. w.bindings[b] \in Cells
          BY <3>1, <1>7, <1>1 DEF Works
      <4> QED BY <3>1, <4>1 DEF Cells
    <3>2. CASE ~reuse
        BY <3>2
    <3> QED BY <3>1, <3>2
  <2> QED BY <2>1, <2>2, <1>6 DEF cell, Cells
<1>9. /\ cells \in Seq(Cells) /\ Len(w.bindings) <= Len(cells) /\ b \in DOMAIN cells
      /\ cells[b] = cell /\ \A c \in DOMAIN w.bindings : c # b => cells[c] = w.bindings[c]
      /\ b \in Free \/ b > Len(w.bindings)
  <2>1. CASE reuse
    <3>1. cells = [w.bindings EXCEPT ![b] = cell] /\ w.bindings \in Seq(Cells)
        BY <2>1, <1>1 DEF cells, Works
    <3>2. cells \in Seq(Cells) /\ Len(cells) = Len(w.bindings)
        BY <2>1, <3>1, <1>7, <1>8
    <3> QED BY <2>1, <1>7, <3>1, <3>2
  <2>2. CASE ~reuse
    <3>1. b = Len(w.bindings) + 1 /\ cells = Append(w.bindings, cell) /\ w.bindings \in Seq(Cells)
        BY <2>2, <1>1 DEF b, cells, Works
    <3> QED BY <3>1, <1>8
  <2> QED BY <2>1, <2>2
<1>10. /\ free \in Seq(Nat)
       /\ \A i, j \in DOMAIN free : free[i] = free[j] => i = j
       /\ \A i \in DOMAIN free : free[i] \in Free /\ free[i] # b
       /\ \A i \in DOMAIN free : \E j \in DOMAIN w.free : free[i] = w.free[j]
  <2>0. /\ w.free \in Seq(Nat)
        /\ \A i, j \in DOMAIN w.free : w.free[i] = w.free[j] => i = j
        /\ \A i \in DOMAIN w.free : w.free[i] \in Free
      BY <1>1 DEF WorkInv, Works
  <2>1. CASE reuse
    <3>1. free = Tail(w.free) /\ b = w.free[1]
        BY <2>0, <2>1, <1>7 DEF free
    <3>2. /\ free \in Seq(Nat) /\ 1 \in DOMAIN w.free
          /\ \A i \in DOMAIN free : i + 1 \in DOMAIN w.free /\ i + 1 # 1 /\ free[i] = w.free[i + 1]
        BY <2>0, <2>1, <3>1, Popped
    <3>3. ASSUME NEW i \in DOMAIN free, NEW j \in DOMAIN free, free[i] = free[j]
          PROVE  i = j
      <4>1. i + 1 = j + 1
          BY <3>2, <3>3, <2>0
      <4> QED BY <4>1, <3>2
    <3>4. ASSUME NEW i \in DOMAIN free
          PROVE  /\ free[i] \in Free /\ free[i] # b
                 /\ \E j \in DOMAIN w.free : free[i] = w.free[j]
        BY <3>1, <3>2, <2>0
    <3> QED BY <3>2, <3>3, <3>4
  <2>2. CASE ~reuse
    <3>1. free = w.free /\ b = Len(w.bindings) + 1
        BY <2>2, <1>7 DEF free
    <3>3. \A c \in Free : c # b
        BY <3>1, <1>0, FreeAre
    <3> QED BY <3>1, <3>3, <2>0
  <2> QED BY <2>1, <2>2
<1>11. /\ own \in Seq(Nat) /\ own[1] = b /\ 1 \in DOMAIN own
       /\ \A i \in DOMAIN own : i = 1 \/ (i - 1 \in DOMAIN w.own /\ own[i] = w.own[i - 1])
       /\ \A i \in DOMAIN w.own : i + 1 \in DOMAIN own /\ own[i + 1] = w.own[i]
  <2>1. w.own \in Seq(Nat)
      BY <1>1 DEF Works
  <2> QED BY <2>1, <1>7, Pushed DEF own
<1>12. \A i \in DOMAIN w.own : w.own[i] # b /\ w.own[i] \in DOMAIN w.bindings
  <2>1. \A i \in DOMAIN w.own :
           /\ w.own[i] \in DOMAIN w.bindings
           /\ \A j \in DOMAIN w.free : w.own[i] # w.free[j]
      BY DEF WorkInv
  <2>2. DOMAIN w.bindings = 1 .. Len(w.bindings) /\ Len(w.bindings) \in Nat
      BY <1>1 DEF Works
  <2>3. CASE reuse
      BY <2>1, <2>3, <1>7
  <2>4. CASE ~reuse
      BY <2>1, <2>2, <2>4, <1>7
  <2> QED BY <2>3, <2>4
<1>13. /\ Cell(r, 1) = cell
       /\ \A i \in DOMAIN own : i # 1 => Cell(r, i) = Cell(w, i - 1)
    BY <1>4, <1>9, <1>11, <1>12 DEF Cell
<1>14. \A i \in DOMAIN w.own : Cell(w, i).prefix # prefix /\ Cell(w, i).prefix \in PrefixNames
  <2>1. \A i \in DOMAIN w.own :
           /\ IsXmlns(Cell(w, i).attId) /\ Cell(w, i).attId \in AttributeNames
           /\ Cell(w, i).prefix = PrefixOf(Cell(w, i).attId) /\ Cell(w, i).attId # att
      BY DEF WorkInv
  <2> QED BY <2>1, PrefixTells DEF prefix
<1>15. /\ scope \in [PrefixNames -> Nat]
       /\ scope[prefix] = IF uri = "" THEN 0 ELSE b
       /\ \A p \in PrefixNames : p # prefix => scope[p] = w.bound[p]
    BY <1>1, <1>5, <1>6, <1>7 DEF scope, Works
<1>16. w.bound[prefix] = bound[prefix]
    BY <1>6, <1>14 DEF WorkInv
<1>17. r \in Works
  <2>1. Append(w.scopes, <<prefix, uri>>) \in Seq(PrefixNames \X Values)
      BY <1>1, <1>6 DEF Works
  <2> QED BY <1>1, <1>3, <1>9, <1>10, <1>11, <1>15, <2>1, ZenonT(40) DEF Works
<1>18. \A c \in DOMAIN bindings : c \notin Free => cells[c] = bindings[c]
  <2> SUFFICES ASSUME NEW c \in DOMAIN bindings, c \notin Free
               PROVE  cells[c] = bindings[c]
      OBVIOUS
  <2>1. w.bindings[c] = bindings[c]
      BY DEF WorkInv
  <2>2. DOMAIN bindings = 1 .. Len(bindings) /\ Len(bindings) \in Nat
      BY DEF TypeInv
  <2>3. c \in DOMAIN w.bindings
      BY <1>0, <2>2
  <2>4. c # b
      BY <1>0, <1>7, <2>2
  <2> QED BY <1>9, <2>1, <2>3, <2>4
<1>19. \A i \in DOMAIN own :
          /\ own[i] \in DOMAIN cells
          /\ \A j \in DOMAIN free : own[i] # free[j]
          /\ own[i] \in Free \/ own[i] > Len(bindings)
          /\ IsXmlns(Cell(r, i).attId) /\ Cell(r, i).attId \in AttributeNames
          /\ Cell(r, i).prefix = PrefixOf(Cell(r, i).attId)
          /\ Cell(r, i).prev = bound[Cell(r, i).prefix]
          /\ Cell(r, i).uri = "" => Cell(r, i).prefix = ""
          /\ scope[Cell(r, i).prefix] = IF Cell(r, i).uri = "" THEN 0 ELSE own[i]
  <2> SUFFICES ASSUME NEW i \in DOMAIN own
               PROVE  /\ own[i] \in DOMAIN cells
                      /\ \A j \in DOMAIN free : own[i] # free[j]
                      /\ own[i] \in Free \/ own[i] > Len(bindings)
                      /\ IsXmlns(Cell(r, i).attId) /\ Cell(r, i).attId \in AttributeNames
                      /\ Cell(r, i).prefix = PrefixOf(Cell(r, i).attId)
                      /\ Cell(r, i).prev = bound[Cell(r, i).prefix]
                      /\ Cell(r, i).uri = "" => Cell(r, i).prefix = ""
                      /\ scope[Cell(r, i).prefix] =
                             IF Cell(r, i).uri = "" THEN 0 ELSE own[i]
      BY Zenon
  <2>1. CASE i = 1
    <3>1. own[i] = b /\ Cell(r, i) = cell
        BY <2>1, <1>11, <1>13
    <3>2. b \in DOMAIN cells /\ \A j \in DOMAIN free : b # free[j]
        BY <1>9, <1>10
    <3>3. b \in Free \/ b > Len(bindings)
        BY <1>0, <1>7, FreeAre
    <3> QED BY <3>1, <3>2, <3>3, <1>5, <1>8, <1>15, <1>16 DEF prefix
  <2>2. CASE i # 1
    <3> DEFINE k == i - 1
    <3>1. k \in DOMAIN w.own /\ own[i] = w.own[k] /\ Cell(r, i) = Cell(w, k)
        BY <2>2, <1>11, <1>13
    <3> HIDE DEF k
    <3>2. /\ w.own[k] \in DOMAIN w.bindings
          /\ \A j \in DOMAIN w.free : w.own[k] # w.free[j]
          /\ w.own[k] \in Free \/ w.own[k] > Len(bindings)
          /\ IsXmlns(Cell(w, k).attId) /\ Cell(w, k).attId \in AttributeNames
          /\ Cell(w, k).prefix = PrefixOf(Cell(w, k).attId)
          /\ Cell(w, k).prev = bound[Cell(w, k).prefix]
          /\ Cell(w, k).uri = "" => Cell(w, k).prefix = ""
          /\ w.bound[Cell(w, k).prefix] = IF Cell(w, k).uri = "" THEN 0 ELSE w.own[k]
        BY <3>1 DEF WorkInv
    <3>3. scope[Cell(w, k).prefix] = w.bound[Cell(w, k).prefix]
        BY <3>1, <1>14, <1>15
    <3>4. w.own[k] \in DOMAIN cells
      <4>1. DOMAIN cells = 1 .. Len(cells) /\ Len(cells) \in Nat
          BY <1>9
      <4>2. w.own[k] \in 1 .. Len(w.bindings)
          BY <3>2, <1>0
      <4> QED BY <4>1, <4>2, <1>0, <1>9
    <3>5. \A j \in DOMAIN free : w.own[k] # free[j]
        BY <3>2, <1>10
    <3> QED BY <3>1, <3>2, <3>3, <3>4, <3>5
  <2> QED BY <2>1, <2>2
<1>20. \A i, j \in DOMAIN own : Cell(r, i).attId = Cell(r, j).attId => i = j
  <2> SUFFICES ASSUME NEW i \in DOMAIN own, NEW j \in DOMAIN own,
                      Cell(r, i).attId = Cell(r, j).attId
               PROVE  i = j
      OBVIOUS
  <2>1. CASE i = 1 /\ j = 1
      BY <2>1
  <2>2. CASE i = 1 /\ j # 1
      BY <2>2, <1>8, <1>11, <1>13
  <2>3. CASE i # 1 /\ j = 1
      BY <2>3, <1>8, <1>11, <1>13
  <2>4. CASE i # 1 /\ j # 1
    <3>1. /\ i - 1 \in DOMAIN w.own /\ j - 1 \in DOMAIN w.own
          /\ Cell(r, i) = Cell(w, i - 1) /\ Cell(r, j) = Cell(w, j - 1)
        BY <2>4, <1>11, <1>13
    <3>2. Cell(w, i - 1).attId = Cell(w, j - 1).attId
        BY <3>1
    <3>3. \A k, l \in DOMAIN w.own : Cell(w, k).attId = Cell(w, l).attId => k = l
        BY DEF WorkInv
    <3>4. i - 1 = j - 1
        BY <3>1, <3>2, <3>3
    <3> QED BY <3>4, <1>11
  <2> QED BY <2>1, <2>2, <2>3, <2>4
<1>21. \A p \in PrefixNames :
          (\A i \in DOMAIN own : Cell(r, i).prefix # p) => scope[p] = bound[p]
  <2> SUFFICES ASSUME NEW p \in PrefixNames, \A i \in DOMAIN own : Cell(r, i).prefix # p
               PROVE  scope[p] = bound[p]
      OBVIOUS
  <2>1. p # prefix
      BY <1>8, <1>11, <1>13
  <2>2. \A i \in DOMAIN w.own : Cell(w, i).prefix # p
    <3> SUFFICES ASSUME NEW i \in DOMAIN w.own PROVE Cell(w, i).prefix # p
        OBVIOUS
    <3>1. i + 1 \in DOMAIN own /\ i + 1 # 1 /\ (i + 1) - 1 = i
        BY <1>11, <1>1, SMTT(30) DEF Works
    <3>2. Cell(r, i + 1) = Cell(w, i)
        BY <3>1, <1>13
    <3> QED BY <3>1, <3>2
  <2> QED BY <2>1, <2>2, <1>15 DEF WorkInv
<1>22. Taken(r) = Taken(w) \cup {<<att, uri>>}
  <2>1. ASSUME NEW i \in DOMAIN own
        PROVE  <<Cell(r, i).attId, Cell(r, i).uri>> \in Taken(w) \cup {<<att, uri>>}
      BY <1>8, <1>11, <1>13 DEF Taken
  <2>2. ASSUME NEW i \in DOMAIN w.own
        PROVE  <<Cell(w, i).attId, Cell(w, i).uri>> \in Taken(r)
    <3>1. i + 1 \in DOMAIN own /\ i + 1 # 1 /\ (i + 1) - 1 = i
        BY <1>11, <1>1 DEF Works
    <3>2. Cell(r, i + 1) = Cell(w, i)
        BY <3>1, <1>13
    <3> QED BY <3>1, <3>2, <1>4 DEF Taken
  <2>3. <<att, uri>> \in Taken(r)
      BY <1>4, <1>8, <1>11, <1>13 DEF Taken
  <2> QED BY <2>1, <2>2, <2>3, <1>4 DEF Taken
<1>23. WorkInv(r)
  <2>1. Len(bindings) <= Len(cells)
      BY <1>0, <1>9, FreeAre
  <2>2. /\ \A i, j \in DOMAIN r.free : r.free[i] = r.free[j] => i = j
        /\ \A i \in DOMAIN r.free : r.free[i] \in Free
      BY <1>4, <1>10
  <2>3. /\ Len(bindings) <= Len(r.bindings)
        /\ \A c \in DOMAIN bindings : c \notin Free => r.bindings[c] = bindings[c]
      BY <1>4, <1>18, <2>1
  <2>4. \A i \in DOMAIN r.own :
          /\ r.own[i] \in DOMAIN r.bindings
          /\ \A j \in DOMAIN r.free : r.own[i] # r.free[j]
          /\ r.own[i] \in Free \/ r.own[i] > Len(bindings)
          /\ IsXmlns(Cell(r, i).attId) /\ Cell(r, i).attId \in AttributeNames
          /\ Cell(r, i).prefix = PrefixOf(Cell(r, i).attId)
          /\ Cell(r, i).prev = bound[Cell(r, i).prefix]
          /\ Cell(r, i).uri = "" => Cell(r, i).prefix = ""
          /\ r.bound[Cell(r, i).prefix] = IF Cell(r, i).uri = "" THEN 0 ELSE r.own[i]
    <3> SUFFICES ASSUME NEW i \in DOMAIN r.own
                 PROVE  /\ r.own[i] \in DOMAIN r.bindings
                        /\ \A j \in DOMAIN r.free : r.own[i] # r.free[j]
                        /\ r.own[i] \in Free \/ r.own[i] > Len(bindings)
                        /\ IsXmlns(Cell(r, i).attId)
                        /\ Cell(r, i).attId \in AttributeNames
                        /\ Cell(r, i).prefix = PrefixOf(Cell(r, i).attId)
                        /\ Cell(r, i).prev = bound[Cell(r, i).prefix]
                        /\ Cell(r, i).uri = "" => Cell(r, i).prefix = ""
                        /\ r.bound[Cell(r, i).prefix] =
                               IF Cell(r, i).uri = "" THEN 0 ELSE r.own[i]
        BY Zenon
    <3>1. i \in DOMAIN own
        BY <1>4
    <3>2. /\ IsXmlns(Cell(r, i).attId) /\ Cell(r, i).attId \in AttributeNames
          /\ Cell(r, i).prefix = PrefixOf(Cell(r, i).attId)
          /\ Cell(r, i).prev = bound[Cell(r, i).prefix]
          /\ Cell(r, i).uri = "" => Cell(r, i).prefix = ""
        BY <1>19, <3>1
    <3>3. /\ own[i] \in DOMAIN cells
          /\ \A j \in DOMAIN free : own[i] # free[j]
          /\ own[i] \in Free \/ own[i] > Len(bindings)
          /\ scope[Cell(r, i).prefix] = IF Cell(r, i).uri = "" THEN 0 ELSE own[i]
        BY <1>19, <3>1
    <3>4. /\ r.own[i] \in DOMAIN r.bindings
          /\ \A j \in DOMAIN r.free : r.own[i] # r.free[j]
          /\ r.own[i] \in Free \/ r.own[i] > Len(bindings)
          /\ r.bound[Cell(r, i).prefix] = IF Cell(r, i).uri = "" THEN 0 ELSE r.own[i]
        BY <1>4, <3>3
    <3> QED BY <3>2, <3>4
  <2>5. /\ \A i, j \in DOMAIN r.own : Cell(r, i).attId = Cell(r, j).attId => i = j
        /\ \A p \in PrefixNames :
              (\A i \in DOMAIN r.own : Cell(r, i).prefix # p) => r.bound[p] = bound[p]
      BY <1>4, <1>20, <1>21
  <2> QED BY <1>17, <2>2, <2>3, <2>4, <2>5, Zenon DEF WorkInv
<1> QED BY <1>4, <1>22, <1>23

-----------------------------------------------------------------------------
(* The attributes that are written in a tag *)

\* Flags and attributes that are given do not disturb what is taken.
LEMMA WorkKept ==
    ASSUME NEW w, WorkInv(w), NEW v \in Works,
           v.bindings = w.bindings, v.free = w.free, v.bound = w.bound, v.own = w.own
    PROVE  WorkInv(v) /\ Taken(v) = Taken(w)
<1>1. \A i : Cell(v, i) = Cell(w, i)
    BY DEF Cell
<1>2. /\ Len(bindings) <= Len(v.bindings)
      /\ \A i, j \in DOMAIN v.free : v.free[i] = v.free[j] => i = j
      /\ \A i \in DOMAIN v.free : v.free[i] \in Free
      /\ \A b \in DOMAIN bindings : b \notin Free => v.bindings[b] = bindings[b]
    BY ZenonT(40) DEF WorkInv
<1>3. ASSUME NEW i \in DOMAIN v.own
      PROVE  /\ v.own[i] \in DOMAIN v.bindings
             /\ \A j \in DOMAIN v.free : v.own[i] # v.free[j]
             /\ v.own[i] \in Free \/ v.own[i] > Len(bindings)
             /\ IsXmlns(Cell(v, i).attId) /\ Cell(v, i).attId \in AttributeNames
             /\ Cell(v, i).prefix = PrefixOf(Cell(v, i).attId)
             /\ Cell(v, i).prev = bound[Cell(v, i).prefix]
             /\ Cell(v, i).uri = "" => Cell(v, i).prefix = ""
             /\ v.bound[Cell(v, i).prefix] = IF Cell(v, i).uri = "" THEN 0 ELSE v.own[i]
  <2>1. i \in DOMAIN w.own /\ Cell(v, i) = Cell(w, i)
      BY <1>1
  <2>2. /\ w.own[i] \in DOMAIN w.bindings
        /\ \A j \in DOMAIN w.free : w.own[i] # w.free[j]
        /\ w.own[i] \in Free \/ w.own[i] > Len(bindings)
        /\ IsXmlns(Cell(w, i).attId) /\ Cell(w, i).attId \in AttributeNames
        /\ Cell(w, i).prefix = PrefixOf(Cell(w, i).attId)
        /\ Cell(w, i).prev = bound[Cell(w, i).prefix]
        /\ Cell(w, i).uri = "" => Cell(w, i).prefix = ""
        /\ w.bound[Cell(w, i).prefix] = IF Cell(w, i).uri = "" THEN 0 ELSE w.own[i]
      BY <2>1 DEF WorkInv
  <2> QED BY <2>1, <2>2
<1>4. /\ \A i, j \in DOMAIN v.own : Cell(v, i).attId = Cell(v, j).attId => i = j
      /\ \A p \in PrefixNames :
            (\A i \in DOMAIN v.own : Cell(v, i).prefix # p) => v.bound[p] = bound[p]
  <2>1. /\ \A i, j \in DOMAIN w.own : Cell(w, i).attId = Cell(w, j).attId => i = j
        /\ \A p \in PrefixNames :
              (\A i \in DOMAIN w.own : Cell(w, i).prefix # p) => w.bound[p] = bound[p]
      BY DEF WorkInv
  <2> QED BY <1>1, <2>1
<1>5. WorkInv(v)
    BY <1>2, <1>3, <1>4, Zenon DEF WorkInv
<1>6. Taken(v) = Taken(w)
    BY <1>1 DEF Taken
<1> QED BY <1>5, <1>6

\* An attribute that is given is marked, and no binding is touched.
LEMMA GiveKeeps ==
    ASSUME NEW w, WorkInv(w), NEW a \in AttributeNames, NEW value \in Values,
           NEW r, r = Give(w, a, value)
    PROVE  /\ WorkInv(r) /\ Taken(r) = Taken(w) /\ r.error = w.error
           /\ r.flag[a] # 0
           /\ \A b \in AttributeNames : b # a => r.flag[b] = w.flag[b]
           /\ \E m \in DOMAIN r.atts : r.atts[m].name = a
           /\ \A m \in DOMAIN w.atts : m \in DOMAIN r.atts /\ r.atts[m] = w.atts[m]
<1>1. w \in Works
    BY DEF WorkInv
<1> DEFINE n == IF PrefixOf(a) = None THEN 1 ELSE 2
           att == [name |-> a, value |-> value]
<1>2. r = [w EXCEPT !.flag = [w.flag EXCEPT ![a] = n], !.atts = Append(w.atts, att)]
    BY <1>1 DEF Give
<1>3. n \in 1 .. 2
    OBVIOUS
<1>4. att \in [name : AttributeNames, value : Values] /\ att.name = a
    OBVIOUS
<1> HIDE DEF n, att
<1>5. /\ r.flag = [w.flag EXCEPT ![a] = n] /\ r.atts = Append(w.atts, att)
      /\ r.bindings = w.bindings /\ r.free = w.free /\ r.bound = w.bound /\ r.own = w.own
      /\ r.error = w.error
    BY <1>1, <1>2 DEF Works
<1>6. w.flag \in [AttributeNames -> 0 .. 2] /\ w.atts \in Seq([name : AttributeNames, value : Values])
    BY <1>1 DEF Works
<1>7. /\ r.flag \in [AttributeNames -> 0 .. 2] /\ r.flag[a] # 0
      /\ \A b \in AttributeNames : b # a => r.flag[b] = w.flag[b]
    BY <1>3, <1>5, <1>6
<1>8. /\ r.atts \in Seq([name : AttributeNames, value : Values])
      /\ Len(r.atts) = Len(w.atts) + 1 /\ r.atts[Len(w.atts) + 1] = att
      /\ \A m \in DOMAIN w.atts : m \in DOMAIN r.atts /\ r.atts[m] = w.atts[m]
    BY <1>4, <1>5, <1>6
<1>9. r \in Works
    BY <1>1, <1>2, <1>5, <1>7, <1>8 DEF Works
<1>10. \E m \in DOMAIN r.atts : r.atts[m].name = a
  <2>1. Len(w.atts) + 1 \in DOMAIN r.atts
      BY <1>6, <1>8
  <2> QED BY <2>1, <1>4, <1>8
<1> QED BY <1>5, <1>7, <1>8, <1>9, <1>10, WorkKept

\* A value that is normalized is one of the values.
LEMMA StoredIsValue ==
    ASSUME NEW v \in Values, NEW c \in BOOLEAN
    PROVE  Stored(v, c) \in Values
<1>1. ASSUME NEW x \in DOMAIN Tokenized PROVE Tokenized[x] \in Values
  <2>1. Tokenized[x] \in Range(Tokenized)
      BY DEF Range
  <2> QED BY <2>1 DEF Values
<1> QED BY <1>1 DEF Stored

\* What the attributes of t up to the i-th have made of the work.
Wrote(t, a, i) == \E j \in 1 .. i : t.atts[j].name = a
Declaration(t, j) == <<t.atts[j].name, Stored(t.atts[j].value, IsCdata(t.name, t.atts[j].name))>>

ScanInv(t, i, w) ==
    w.error = "NONE" =>
        /\ WorkInv(w)
        /\ \A a \in AttributeNames : w.flag[a] # 0 <=> Wrote(t, a, i)
        /\ \A a \in AttributeNames : w.flag[a] # 0 =>
              IsXmlns(a) \/ \E m \in DOMAIN w.atts : w.atts[m].name = a
        /\ Taken(w) = {Declaration(t, j) : j \in {j \in 1 .. i : IsXmlns(t.atts[j].name)}}

\* Before the first attribute nothing is taken.
LEMMA ScanStart ==
    ASSUME TypeInv, FlagInv, OwnerInv, NEW t
    PROVE  ScanInv(t, 0, Work)
<1>1. Work \in Works
  <2>1. freeBindingList \in Seq(Nat)
    <3>1. freeBindingList \in Seq(DOMAIN bindings) /\ DOMAIN bindings \subseteq Nat
        BY DEF TypeInv
    <3> QED BY <3>1
  <2>2. /\ bindings \in Seq(Cells) /\ bound \in [PrefixNames -> Nat]
        /\ flag \in [AttributeNames -> 0 .. 2]
      BY DEF TypeInv, FlagInv
  <2>3. /\ <<>> \in Seq([name : AttributeNames, value : Values]) /\ <<>> \in Seq(Nat)
        /\ <<>> \in Seq(PrefixNames \X Values)
      OBVIOUS
  <2>4. "NONE" \in {"NONE"}
      OBVIOUS
  <2> QED BY <2>1, <2>2, <2>3, <2>4, Zenon DEF Work, Works
<1>2. /\ Work.bindings = bindings /\ Work.free = freeBindingList /\ Work.bound = bound
      /\ Work.own = <<>> /\ Work.flag = flag
    BY DEF Work
<1> HIDE DEF Work
<1>3. DOMAIN Work.own = {}
    BY <1>2
<1>4. WorkInv(Work)
  <2>1. \A i, j \in DOMAIN Work.free : Work.free[i] = Work.free[j] => i = j
      BY <1>2 DEF OwnerInv
  <2>2. \A i \in DOMAIN Work.free : Work.free[i] \in Free
      BY <1>2 DEF Free, Range
  <2>3. Len(bindings) <= Len(Work.bindings)
      BY <1>2 DEF TypeInv
  <2> QED BY <1>1, <1>2, <1>3, <2>1, <2>2, <2>3 DEF WorkInv
<1>5. Taken(Work) = {}
    BY <1>3 DEF Taken
<1>6. \A a \in AttributeNames : Work.flag[a] = 0 /\ ~Wrote(t, a, 0)
    BY <1>2 DEF FlagInv, Wrote
<1> QED BY <1>4, <1>5, <1>6 DEF ScanInv

\* An attribute is CDATA, or it is not.
LEMMA IsCdataIsBoolean ==
    ASSUME TypeInv, DeclaredInv, NEW e \in ElementNames, NEW a \in AttributeNames
    PROVE  IsCdata(e, a) \in BOOLEAN
<1> DEFINE named == {i \in DOMAIN defaultAtts[e] : defaultAtts[e][i].id = a}
           least == CHOOSE i \in named : \A j \in named : i <= j
<1>1. CASE a \notin maybeTokenized \/ named = {}
    BY <1>1 DEF IsCdata
<1>2. CASE a \in maybeTokenized /\ named # {}
  <2>1. defaultAtts[e] \in Seq(Defaults)
      BY DEF TypeInv
  <2>2. named \in SUBSET Nat
      BY <2>1
  <2>3. \E i \in named : \A j \in named : i <= j
      BY <1>2, <2>2, Least
  <2>4. least \in named
      BY <2>3
  <2>5. defaultAtts[e][least] \in Defaults
    <3>1. least \in DOMAIN defaultAtts[e]
        BY <2>4
    <3> HIDE DEF least
    <3> QED BY <2>1, <3>1
  <2>6. IsCdata(e, a) = defaultAtts[e][least].isCdata
      BY <1>2 DEF IsCdata
  <2> QED BY <2>5, <2>6 DEF Defaults
<1> QED BY <1>1, <1>2

\* The declaration of a namespace that is not taken yet.
LEMMA Taking ==
    ASSUME AttributesAssumption, TypeInv,
           NEW w, WorkInv(w), NEW a \in AttributeNames, IsXmlns(a), NEW uri \in Values,
           \A x \in Taken(w) : x[1] # a,
           NEW r, r = AddBinding(w, a, uri), r.error = "NONE"
    PROVE  /\ WorkInv(r) /\ Taken(r) = Taken(w) \cup {<<a, uri>>}
           /\ r.flag = w.flag /\ r.atts = w.atts
<1>1. ASSUME NEW i \in DOMAIN w.own
      PROVE  Cell(w, i).attId # a
  <2>1. <<Cell(w, i).attId, Cell(w, i).uri>> \in Taken(w)
      BY DEF Taken
  <2>2. <<Cell(w, i).attId, Cell(w, i).uri>>[1] # a
      BY <2>1
  <2> QED BY <2>2
<1> QED BY <1>1, AddBindingKeeps

\* One more attribute that is written in the tag.
LEMMA ScanNext ==
    ASSUME AttributesAssumption, TypeInv, DeclaredInv,
           NEW t \in Tags, NEW i \in 1 .. Len(t.atts), NEW w, ScanInv(t, i - 1, w),
           NEW r, r = Specify(w, t.name, t.atts[i])
    PROVE  ScanInv(t, i, r)
<1> DEFINE att == t.atts[i]
           value == Stored(att.value, IsCdata(t.name, att.name))
           marked == [w EXCEPT !.flag[att.name] = 1]
<1>1. CASE w.error # "NONE"
    BY <1>1 DEF Specify, ScanInv
<1>2. CASE w.error = "NONE"
  <2> SUFFICES ASSUME r.error = "NONE"
               PROVE  /\ WorkInv(r)
                      /\ \A a \in AttributeNames : r.flag[a] # 0 <=> Wrote(t, a, i)
                      /\ \A a \in AttributeNames : r.flag[a] # 0 =>
                            IsXmlns(a) \/ \E m \in DOMAIN r.atts : r.atts[m].name = a
                      /\ Taken(r) = {Declaration(t, j) :
                                        j \in {j \in 1 .. i : IsXmlns(t.atts[j].name)}}
      BY DEF ScanInv
  <2>1. /\ t.atts \in Seq([name : AttributeNames, value : Values]) /\ t.name \in ElementNames
        /\ i \in Nat /\ 0 < i /\ i \in DOMAIN t.atts
        /\ att.name \in AttributeNames /\ att.value \in Values
    <3>1. t.atts \in Seq([name : AttributeNames, value : Values]) /\ t.name \in ElementNames
        BY DEF AttributesAssumption
    <3>2. att \in [name : AttributeNames, value : Values]
      <4> DEFINE S == [name : AttributeNames, value : Values]
      <4>1. t.atts \in Seq(S)
          BY <3>1
      <4> HIDE DEF S
      <4>2. Len(t.atts) \in Nat /\ i \in 1 .. Len(t.atts)
          BY <4>1
      <4>3. t.atts[i] \in S
          BY <4>1, <4>2, ElementOfSeq
      <4> QED BY <4>3 DEF S
    <3>3. i \in Nat /\ 0 < i /\ i \in DOMAIN t.atts
        BY <3>1
    <3>4. att.name \in AttributeNames /\ att.value \in Values
      <4> HIDE DEF att
      <4> QED BY <3>2
    <3> QED BY <3>1, <3>3, <3>4
  <2>2. value \in Values
      BY <2>1, StoredIsValue, IsCdataIsBoolean
  <2>3. /\ WorkInv(w)
        /\ \A a \in AttributeNames : w.flag[a] # 0 <=> Wrote(t, a, i - 1)
        /\ \A a \in AttributeNames : w.flag[a] # 0 =>
              IsXmlns(a) \/ \E m \in DOMAIN w.atts : w.atts[m].name = a
        /\ Taken(w) = {Declaration(t, j) : j \in {j \in 1 .. i - 1 : IsXmlns(t.atts[j].name)}}
      BY <1>2 DEF ScanInv
  <2>4. w \in Works
      BY <2>3 DEF WorkInv
  <2>5. w.flag[att.name] = 0
      BY <1>2, <2>4 DEF Specify, Fail, Works
  <2>6. \A a \in AttributeNames : Wrote(t, a, i) <=> a = att.name \/ Wrote(t, a, i - 1)
      BY <2>1 DEF Wrote
  <2>7. CASE IsXmlns(att.name)
    <3>1. r = AddBinding(marked, att.name, value)
        BY <1>2, <2>5, <2>7 DEF Specify
    <3>2. marked = [w EXCEPT !.flag = [w.flag EXCEPT ![att.name] = 1]]
        BY <2>4
    <3> HIDE DEF value, att, marked
    <3>3. w.flag \in [AttributeNames -> 0 .. 2]
        BY <2>4 DEF Works
    <3>4. /\ marked.flag = [w.flag EXCEPT ![att.name] = 1]
          /\ marked.bindings = w.bindings /\ marked.free = w.free /\ marked.bound = w.bound
          /\ marked.own = w.own /\ marked.atts = w.atts
        BY <2>4, <3>2 DEF Works
    <3>5. [w.flag EXCEPT ![att.name] = 1] \in [AttributeNames -> 0 .. 2]
        BY <3>3, 1 \in 0 .. 2
    <3>6. marked \in Works
        BY <2>4, <3>2, <3>5 DEF Works
    <3>7. WorkInv(marked) /\ Taken(marked) = Taken(w)
        BY <2>3, <3>4, <3>6, WorkKept
    <3>8. \A x \in Taken(marked) : x[1] # att.name
      <4>1. ~Wrote(t, att.name, i - 1)
          BY <2>1, <2>3, <2>5
      <4>2. \A j \in 1 .. i - 1 : Declaration(t, j)[1] # att.name
          BY <4>1 DEF Wrote, Declaration
      <4> QED BY <2>3, <3>7, <4>2
    <3>9. /\ WorkInv(r) /\ Taken(r) = Taken(w) \cup {<<att.name, value>>}
          /\ r.flag = marked.flag /\ r.atts = w.atts
        BY <2>1, <2>2, <2>7, <3>1, <3>4, <3>7, <3>8, Taking
    <3>10. /\ r.flag[att.name] # 0
           /\ \A a \in AttributeNames : a # att.name => r.flag[a] = w.flag[a]
        BY <2>1, <3>3, <3>4, <3>9
    <3>11. \A a \in AttributeNames : r.flag[a] # 0 <=> Wrote(t, a, i)
        BY <2>3, <2>6, <3>10
    <3>12. \A a \in AttributeNames : r.flag[a] # 0 =>
                IsXmlns(a) \/ \E m \in DOMAIN r.atts : r.atts[m].name = a
        BY <2>3, <2>7, <3>9, <3>10
    <3>13. <<att.name, value>> = Declaration(t, i)
        BY DEF att, value, Declaration
    <3>14. {j \in 1 .. i : IsXmlns(t.atts[j].name)}
             = {j \in 1 .. i - 1 : IsXmlns(t.atts[j].name)} \cup {i}
        BY <2>1, <2>7 DEF att
    <3>15. Taken(r) = {Declaration(t, j) : j \in {j \in 1 .. i : IsXmlns(t.atts[j].name)}}
        BY <2>3, <3>9, <3>13, <3>14
    <3> QED BY <3>9, <3>11, <3>12, <3>15
  <2>8. CASE ~IsXmlns(att.name)
    <3>1. r = Give(w, att.name, value)
        BY <1>2, <2>5, <2>8 DEF Specify
    <3> HIDE DEF value, att
    <3>2. /\ WorkInv(r) /\ Taken(r) = Taken(w) /\ r.flag[att.name] # 0
          /\ \A b \in AttributeNames : b # att.name => r.flag[b] = w.flag[b]
          /\ \E m \in DOMAIN r.atts : r.atts[m].name = att.name
          /\ \A m \in DOMAIN w.atts : m \in DOMAIN r.atts /\ r.atts[m] = w.atts[m]
      <4>1. WorkInv(w) /\ att.name \in AttributeNames /\ value \in Values
          BY <2>1, <2>2, <2>3
      <4> QED BY <4>1, <3>1, GiveKeeps
    <3>3. \A a \in AttributeNames : r.flag[a] # 0 <=> Wrote(t, a, i)
        BY <2>3, <2>6, <3>2
    <3>4. ASSUME NEW a \in AttributeNames, r.flag[a] # 0
          PROVE  IsXmlns(a) \/ \E m \in DOMAIN r.atts : r.atts[m].name = a
      <4>1. CASE a = att.name
          BY <4>1, <3>2
      <4>2. CASE a # att.name
        <5>1. IsXmlns(a) \/ \E m \in DOMAIN w.atts : w.atts[m].name = a
            BY <2>3, <3>2, <3>4, <4>2
        <5> QED BY <5>1, <3>2
      <4> QED BY <4>1, <4>2
    <3>5. {j \in 1 .. i : IsXmlns(t.atts[j].name)} = {j \in 1 .. i - 1 : IsXmlns(t.atts[j].name)}
        BY <2>1, <2>8 DEF att
    <3> QED BY <2>3, <3>2, <3>3, <3>4, <3>5
  <2> QED BY <2>7, <2>8
<1> QED BY <1>1, <1>2

\* The name and the attributes of a tag.
LEMMA AttsOf ==
    ASSUME AttributesAssumption, NEW t \in Tags
    PROVE  /\ t.name \in ElementNames /\ t.atts \in Seq([name : AttributeNames, value : Values])
           /\ Len(t.atts) \in Nat /\ DOMAIN t.atts = 1 .. Len(t.atts)
           /\ \A i \in DOMAIN t.atts : t.atts[i].name \in AttributeNames /\ t.atts[i].value \in Values
<1> DEFINE S == [name : AttributeNames, value : Values]
<1>1. t.name \in ElementNames /\ t.atts \in Seq(S)
    BY DEF AttributesAssumption
<1>2. \A x \in S : x.name \in AttributeNames /\ x.value \in Values
    OBVIOUS
<1> HIDE DEF S
<1>3. Len(t.atts) \in Nat /\ DOMAIN t.atts = 1 .. Len(t.atts)
    BY <1>1
<1>4. \A i \in DOMAIN t.atts : t.atts[i] \in S
    BY <1>1, <1>3, ElementOfSeq
<1> QED BY <1>1, <1>2, <1>3, <1>4 DEF S

\* The attributes that are declared for an element type.
LEMMA DefaultsOf ==
    ASSUME TypeInv, NEW e \in ElementNames
    PROVE  /\ defaultAtts[e] \in Seq(Defaults) /\ Len(defaultAtts[e]) \in Nat
           /\ DOMAIN defaultAtts[e] = 1 .. Len(defaultAtts[e])
           /\ \A i \in DOMAIN defaultAtts[e] : /\ defaultAtts[e][i].id \in AttributeNames
                                               /\ defaultAtts[e][i].value \in Values
                                               /\ defaultAtts[e][i].isCdata \in BOOLEAN
<1>1. defaultAtts[e] \in Seq(Defaults)
    BY DEF TypeInv
<1>2. \A x \in Defaults : x.id \in AttributeNames /\ x.value \in Values /\ x.isCdata \in BOOLEAN
    BY DEF Defaults
<1>3. Len(defaultAtts[e]) \in Nat /\ DOMAIN defaultAtts[e] = 1 .. Len(defaultAtts[e])
    BY <1>1
<1>4. \A i \in DOMAIN defaultAtts[e] : defaultAtts[e][i] \in Defaults
    BY <1>1, <1>3, ElementOfSeq
<1> QED BY <1>1, <1>2, <1>3, <1>4

\* What has been taken when all that is written was looked at.
LEMMA ScanDone ==
    ASSUME AttributesAssumption, TypeInv, FlagInv, OwnerInv, DeclaredInv, NEW t \in Tags
    PROVE  ScanInv(t, Len(t.atts), Scanned(t))
<1> DEFINE n == Len(t.atts)
<1>1. n \in Nat
    BY AttsOf
<1>2. PICK f : /\ f[0] = Work
               /\ \A i \in 1 .. n : f[i] = Specify(f[i - 1], t.name, t.atts[i])
               /\ Scanned(t) = f[n]
    BY <1>1, Scanning
<1> DEFINE T == {i \in 0 .. n : ScanInv(t, i, f[i])}
<1>3. 0 \in T
    BY <1>1, <1>2, ScanStart
<1>4. ASSUME NEW i \in 1 .. n, i - 1 \in T PROVE i \in T
  <2>1. ScanInv(t, i - 1, f[i - 1])
      BY <1>4
  <2>2. ScanInv(t, i, f[i])
      BY <1>2, <2>1, ScanNext
  <2>3. i \in 0 .. n
      BY <1>1
  <2> QED BY <2>2, <2>3
<1>5. n \in T
  <2> HIDE DEF T
  <2>1. \A i \in 0 .. n : i \in T
      BY <1>1, <1>3, <1>4, Induction
  <2> QED BY <1>1, <2>1
<1> QED BY <1>2, <1>5

-----------------------------------------------------------------------------
(* The defaults that are added *)

Adds(t, j) == LET d == defaultAtts[t.name][j]
              IN IsXmlns(d.id) /\ d.value # None /\ ~Wrote(t, d.id, Len(t.atts))
Addition(t, j) == <<defaultAtts[t.name][j].id, defaultAtts[t.name][j].value>>

DefaultInv(t, i, w) ==
    LET n == Len(t.atts)
    IN w.error = "NONE" =>
        /\ WorkInv(w)
        /\ \A a \in AttributeNames : Wrote(t, a, n) => w.flag[a] # 0
        /\ \A a \in AttributeNames : w.flag[a] # 0 => Wrote(t, a, n) \/ ~IsXmlns(a)
        /\ \A a \in AttributeNames : w.flag[a] # 0 =>
              IsXmlns(a) \/ \E m \in DOMAIN w.atts : w.atts[m].name = a
        /\ Taken(w) = {Declaration(t, j) : j \in {j \in 1 .. n : IsXmlns(t.atts[j].name)}}
                        \cup {Addition(t, j) : j \in {j \in 1 .. i : Adds(t, j)}}

\* Before the first default.
LEMMA DefaultStart ==
    ASSUME NEW t, NEW w, ScanInv(t, Len(t.atts), w)
    PROVE  DefaultInv(t, 0, w)
<1>1. {Addition(t, j) : j \in {j \in 1 .. 0 : Adds(t, j)}} = {}
    OBVIOUS
<1> QED BY <1>1 DEF ScanInv, DefaultInv

\* One more default: it is added when the attribute is not written.
LEMMA DefaultNext ==
    ASSUME AttributesAssumption, TypeInv, DeclaredInv,
           NEW t \in Tags, NEW i \in 1 .. Len(defaultAtts[t.name]), NEW w,
           DefaultInv(t, i - 1, w), NEW r, r = Default(w, defaultAtts[t.name][i])
    PROVE  DefaultInv(t, i, r)
<1> DEFINE n == Len(t.atts)
           da == defaultAtts[t.name][i]
           Before(k) == {Addition(t, j) : j \in {j \in 1 .. k : Adds(t, j)}}
           Written0 == {Declaration(t, j) : j \in {j \in 1 .. n : IsXmlns(t.atts[j].name)}}
<1>0. /\ t.name \in ElementNames /\ i \in Nat /\ 0 < i /\ i \in DOMAIN defaultAtts[t.name]
      /\ da.id \in AttributeNames /\ da.value \in Values /\ i - 1 \in Nat
  <2>1. t.name \in ElementNames
      BY AttsOf
  <2>2. i \in DOMAIN defaultAtts[t.name] /\ i \in Nat /\ 0 < i
      BY <2>1, DefaultsOf
  <2> QED BY <2>1, <2>2, DefaultsOf
<1>1. Adds(t, i) <=> IsXmlns(da.id) /\ da.value # None /\ ~Wrote(t, da.id, n)
    BY DEF Adds
<1>2. Before(i) = IF Adds(t, i) THEN Before(i - 1) \cup {<<da.id, da.value>>} ELSE Before(i - 1)
  <2>1. {j \in 1 .. i : Adds(t, j)} =
           IF Adds(t, i) THEN {j \in 1 .. i - 1 : Adds(t, j)} \cup {i}
                         ELSE {j \in 1 .. i - 1 : Adds(t, j)}
      BY <1>0
  <2>2. Addition(t, i) = <<da.id, da.value>>
      BY DEF Addition
  <2> QED BY <2>1, <2>2
<1>3. CASE w.error # "NONE"
    BY <1>3 DEF Default, DefaultInv
<1>4. CASE w.error = "NONE"
  <2> SUFFICES ASSUME r.error = "NONE"
               PROVE  /\ WorkInv(r)
                      /\ \A a \in AttributeNames : Wrote(t, a, n) => r.flag[a] # 0
                      /\ \A a \in AttributeNames : r.flag[a] # 0 => Wrote(t, a, n) \/ ~IsXmlns(a)
                      /\ \A a \in AttributeNames : r.flag[a] # 0 =>
                            IsXmlns(a) \/ \E m \in DOMAIN r.atts : r.atts[m].name = a
                      /\ Taken(r) = Written0 \cup Before(i)
      BY DEF DefaultInv
  <2>1. /\ WorkInv(w)
        /\ \A a \in AttributeNames : Wrote(t, a, n) => w.flag[a] # 0
        /\ \A a \in AttributeNames : w.flag[a] # 0 => Wrote(t, a, n) \/ ~IsXmlns(a)
        /\ \A a \in AttributeNames : w.flag[a] # 0 =>
              IsXmlns(a) \/ \E m \in DOMAIN w.atts : w.atts[m].name = a
        /\ Taken(w) = Written0 \cup Before(i - 1)
      BY <1>4 DEF DefaultInv
  <2> HIDE DEF da, n
  <2>2. CASE w.flag[da.id] # 0 \/ da.value = None
    <3>1. r = w
        BY <2>2, Zenon DEF Default, da
    <3>2. ~Adds(t, i)
        BY <1>0, <1>1, <2>1, <2>2
    <3> HIDE DEF Before, Written0
    <3> QED BY <3>1, <3>2, <1>2, <2>1
  <2>3. CASE w.flag[da.id] = 0 /\ da.value # None /\ IsXmlns(da.id)
    <3>1. r = AddBinding(w, da.id, da.value)
        BY <1>4, <2>3, Zenon DEF Default, da
    <3>2. Adds(t, i)
        BY <1>0, <1>1, <2>1, <2>3
    <3>3. \A x \in Taken(w) : x[1] # da.id
      <4>1. \A j \in 1 .. n : Declaration(t, j)[1] # da.id
        <5>1. ~Wrote(t, da.id, n)
            BY <1>1, <3>2
        <5> QED BY <5>1 DEF Wrote, Declaration
      <4>2. ASSUME NEW j \in 1 .. i - 1, Adds(t, j), Addition(t, j)[1] = da.id
            PROVE  FALSE
        <5>1. Addition(t, j)[1] = defaultAtts[t.name][j].id
            BY DEF Addition
        <5>2. j \in DOMAIN defaultAtts[t.name] /\ j < i
            BY <1>0, DefaultsOf
        <5>3. j \in Entries(t.name, da.id) /\ i \in Entries(t.name, da.id)
            BY <1>0, <4>2, <5>1, <5>2 DEF Entries, da
        <5>4. defaultAtts[t.name][i].value = None
            BY <1>0, <5>2, <5>3 DEF DeclaredInv, Recorded
        <5> QED BY <5>4, <2>3 DEF da
      <4> QED BY <2>1, <4>1, <4>2
    <3> HIDE DEF Before, Written0
    <3>4. /\ WorkInv(r) /\ Taken(r) = Taken(w) \cup {<<da.id, da.value>>}
          /\ r.flag = w.flag /\ r.atts = w.atts
      <4>1. WorkInv(w) /\ da.id \in AttributeNames /\ da.value \in Values /\ IsXmlns(da.id)
          BY <1>0, <2>1, <2>3, SMTT(30)
      <4> QED BY <4>1, <3>1, <3>3, Taking
    <3> QED BY <3>2, <3>4, <1>2, <2>1
  <2>4. CASE w.flag[da.id] = 0 /\ da.value # None /\ ~IsXmlns(da.id)
    <3>1. r = Give(w, da.id, da.value)
        BY <1>4, <2>4, Zenon DEF Default, da
    <3>2. ~Adds(t, i)
        BY <1>1, <2>4
    <3> HIDE DEF Before, Written0
    <3>3. /\ WorkInv(r) /\ Taken(r) = Taken(w) /\ r.flag[da.id] # 0
          /\ \A b \in AttributeNames : b # da.id => r.flag[b] = w.flag[b]
          /\ \E m \in DOMAIN r.atts : r.atts[m].name = da.id
          /\ \A m \in DOMAIN w.atts : m \in DOMAIN r.atts /\ r.atts[m] = w.atts[m]
      <4>1. WorkInv(w) /\ da.id \in AttributeNames /\ da.value \in Values
          BY <1>0, <2>1
      <4> QED BY <4>1, <3>1, GiveKeeps
    <3>4. ASSUME NEW a \in AttributeNames, r.flag[a] # 0
          PROVE  IsXmlns(a) \/ \E m \in DOMAIN r.atts : r.atts[m].name = a
      <4>1. CASE a = da.id
          BY <4>1, <3>3, SMTT(30)
      <4>2. CASE a # da.id
        <5>1. IsXmlns(a) \/ \E m \in DOMAIN w.atts : w.atts[m].name = a
            BY <2>1, <3>3, <3>4, <4>2
        <5> QED BY <5>1, <3>3
      <4> QED BY <4>1, <4>2
    <3>5. \A a \in AttributeNames : Wrote(t, a, n) => r.flag[a] # 0
        BY <2>1, <3>3
    <3>6. \A a \in AttributeNames : r.flag[a] # 0 => Wrote(t, a, n) \/ ~IsXmlns(a)
        BY <2>1, <2>4, <3>3
    <3> QED BY <3>2, <3>3, <3>4, <3>5, <3>6, <1>2, <2>1
  <2> QED BY <2>2, <2>3, <2>4
<1> QED BY <1>3, <1>4

\* What has been taken when all defaults were looked at.
LEMMA DefaultDone ==
    ASSUME AttributesAssumption, TypeInv, FlagInv, OwnerInv, DeclaredInv, NEW t \in Tags
    PROVE  DefaultInv(t, Len(defaultAtts[t.name]), Completed(t, Scanned(t)))
<1> DEFINE n == Len(defaultAtts[t.name])
           s == Scanned(t)
<1>1. n \in Nat
    BY AttsOf, DefaultsOf
<1>0. DefaultInv(t, 0, s)
    BY ScanDone, DefaultStart
<1> HIDE DEF s
<1>2. PICK f : /\ f[0] = s
               /\ \A i \in 1 .. n : f[i] = Default(f[i - 1], defaultAtts[t.name][i])
               /\ Completed(t, s) = f[n]
    BY <1>1, Completing
<1> DEFINE T == {i \in 0 .. n : DefaultInv(t, i, f[i])}
<1>3. 0 \in T
    BY <1>0, <1>1, <1>2
<1>4. ASSUME NEW i \in 1 .. n, i - 1 \in T PROVE i \in T
  <2>1. DefaultInv(t, i - 1, f[i - 1])
      BY <1>4
  <2>2. DefaultInv(t, i, f[i])
      BY <1>2, <2>1, DefaultNext
  <2>3. i \in 0 .. n
      BY <1>1
  <2> QED BY <2>2, <2>3
<1>5. n \in T
  <2> HIDE DEF T
  <2>1. \A i \in 0 .. n : i \in T
      BY <1>1, <1>3, <1>4, Induction
  <2> QED BY <1>1, <2>1
<1> QED BY <1>2, <1>5 DEF s

\* The first entry of an attribute, and its first declaration.
LEMMA FirstEntry ==
    ASSUME TypeInv, DeclaredInv, NEW e \in ElementNames, NEW a \in AttributeNames,
           Entries(e, a) # {}
    PROVE  \E i \in Entries(e, a) :
              /\ \A j \in Entries(e, a) : i <= j
              /\ \A j \in Entries(e, a) : defaultAtts[e][j].value # None => j = i
              /\ defaultAtts[e][i].value = Binds(e, a).value
              /\ defaultAtts[e][i].isCdata = (Binds(e, a).type = "CDATA")
              /\ Binds(e, a).type # "CDATA" => a \in maybeTokenized
<1>1. Entries(e, a) \in SUBSET Nat
    BY DefaultsOf DEF Entries
<1>2. PICK i \in Entries(e, a) : \A j \in Entries(e, a) : i <= j
    BY <1>1, Least
<1>3. ASSUME NEW j \in Entries(e, a), defaultAtts[e][j].value # None
      PROVE  j = i
  <2>1. \A k, l \in Entries(e, a) : k < l => defaultAtts[e][l].value = None
      BY DEF DeclaredInv, Recorded
  <2>2. ~(i < j)
      BY <2>1, <1>3
  <2> QED BY <2>2, <1>1, <1>2
<1>4. PICK d \in DOMAIN declared :
          /\ First(d, e, a)
          /\ defaultAtts[e][i].value = declared[d].value
          /\ defaultAtts[e][i].isCdata = (declared[d].type = "CDATA")
          /\ declared[d].type # "CDATA" => a \in maybeTokenized
    BY <1>2 DEF DeclaredInv, Recorded
<1>5. Binds(e, a) = declared[d]
  <2> DEFINE all == {k \in DOMAIN declared : Ours(declared[k], e, a)}
             min == CHOOSE k \in all : \A l \in all : k <= l
  <2>1. DOMAIN declared \subseteq Nat /\ DOMAIN declared = 1 .. Len(declared)
      BY DEF TypeInv
  <2>2. d \in all /\ \A l \in all : d <= l
      BY <2>1, <1>4 DEF First
  <2>3. min \in all /\ \A l \in all : min <= l
      BY <2>2
  <2>4. min = d
    <3>1. min <= d /\ d <= min /\ min \in Nat /\ d \in Nat
        BY <2>1, <2>2, <2>3
    <3> HIDE DEF min
    <3> QED BY <3>1
  <2>5. Binds(e, a) = declared[min]
      BY <2>2 DEF Binds
  <2> QED BY <2>4, <2>5
<1> QED BY <1>2, <1>3, <1>4, <1>5

\* Without an entry an attribute is not declared.
LEMMA NoEntry ==
    ASSUME DeclaredInv, NEW e \in ElementNames, NEW a \in AttributeNames, Entries(e, a) = {}
    PROVE  Binds(e, a) = [type |-> "CDATA", value |-> None]
<1>1. \A i \in DOMAIN declared : ~Ours(declared[i], e, a)
    BY DEF DeclaredInv, Recorded
<1> QED BY <1>1 DEF Binds

\* The type that storeAtts finds is that of the first declaration.
LEMMA CdataAsDeclared ==
    ASSUME TypeInv, DeclaredInv, NEW e \in ElementNames, NEW a \in AttributeNames
    PROVE  IsCdata(e, a) = (Binds(e, a).type = "CDATA")
<1> DEFINE named == {i \in DOMAIN defaultAtts[e] : defaultAtts[e][i].id = a}
           least == CHOOSE i \in named : \A j \in named : i <= j
<1>1. named = Entries(e, a)
    BY DEF Entries
<1>2. CASE named = {}
  <2>1. IsCdata(e, a) = TRUE
      BY <1>2 DEF IsCdata
  <2>2. Binds(e, a) = [type |-> "CDATA", value |-> None]
      BY <1>1, <1>2, NoEntry
  <2>3. Binds(e, a).type = "CDATA"
      BY <2>2
  <2> QED BY <2>1, <2>3
<1>3. CASE named # {}
  <2>1. PICK i \in Entries(e, a) :
              /\ \A j \in Entries(e, a) : i <= j
              /\ defaultAtts[e][i].isCdata = (Binds(e, a).type = "CDATA")
              /\ Binds(e, a).type # "CDATA" => a \in maybeTokenized
      BY <1>1, <1>3, FirstEntry
  <2>2. least \in named /\ \A j \in named : least <= j
      BY <1>1, <2>1
  <2>3. named \subseteq Nat
      BY DefaultsOf
  <2>4. least = i
    <3>1. least <= i /\ i <= least /\ least \in Nat /\ i \in Nat
        BY <1>1, <2>1, <2>2, <2>3
    <3> HIDE DEF least, named
    <3> QED BY <3>1
  <2>5. CASE a \notin maybeTokenized
      BY <2>1, <2>5 DEF IsCdata
  <2>6. CASE a \in maybeTokenized
    <3>1. IsCdata(e, a) = defaultAtts[e][least].isCdata
        BY <1>3, <2>6 DEF IsCdata
    <3> QED BY <2>1, <2>4, <3>1
  <2> QED BY <2>5, <2>6
<1> QED BY <1>2, <1>3

\* A value is normalized by the first declaration of its attribute.
LEMMA StoredAsDeclared ==
    ASSUME AttributesAssumption, TypeInv, DeclaredInv, NEW t \in Tags, NEW j \in DOMAIN t.atts
    PROVE  /\ Declaration(t, j)[1] = Attribute(t.name, t.atts[j].name, t.atts[j].value).name
           /\ Declaration(t, j)[2] = Attribute(t.name, t.atts[j].name, t.atts[j].value).value
           /\ Declaration(t, j)[1] = t.atts[j].name
<1> DEFINE a == t.atts[j].name
           v == t.atts[j].value
<1>1. a \in AttributeNames /\ t.name \in ElementNames
    BY AttsOf
<1>2. IsCdata(t.name, a) = (Binds(t.name, a).type = "CDATA")
    BY <1>1, CdataAsDeclared
<1>3. Declaration(t, j) = <<a, Stored(v, IsCdata(t.name, a))>>
    BY DEF Declaration
<1>4. Attribute(t.name, a, v) =
        [name |-> a, value |-> IF ~IsCdata(t.name, a) /\ v \in DOMAIN Tokenized
                               THEN Tokenized[v] ELSE v]
    BY <1>2 DEF Attribute
<1> HIDE DEF a, v
<1>5. Attribute(t.name, a, v).name = a
      /\ Attribute(t.name, a, v).value = Stored(v, IsCdata(t.name, a))
    BY <1>4 DEF Stored
<1> QED BY <1>3, <1>5 DEF a, v

\* What has been taken is what the tag declares, written or by default.
LEMMA TakenIsWhole ==
    ASSUME AttributesAssumption, TypeInv, DeclaredInv, NEW t \in Tags,
           NEW w, DefaultInv(t, Len(defaultAtts[t.name]), w), w.error = "NONE"
    PROVE  Taken(w) = Declarations(t)
<1> DEFINE n == Len(t.atts)
           e == t.name
           m == Len(defaultAtts[t.name])
           Here == {Declaration(t, j) : j \in {j \in 1 .. n : IsXmlns(t.atts[j].name)}}
           Added == {Addition(t, j) : j \in {j \in 1 .. m : Adds(t, j)}}
           given(a) == [name |-> a, value |-> Binds(t.name, a).value]
<1>1. Taken(w) = Here \cup Added
    BY DEF DefaultInv
<1>2. /\ e \in ElementNames /\ DOMAIN t.atts = 1 .. n
      /\ DOMAIN defaultAtts[e] = 1 .. m
    BY AttsOf, DefaultsOf
<1>3. Here \subseteq Declarations(t)
  <2> SUFFICES ASSUME NEW j \in 1 .. n, IsXmlns(t.atts[j].name)
               PROVE  Declaration(t, j) \in Declarations(t)
      OBVIOUS
  <2> DEFINE a == Attribute(t.name, t.atts[j].name, t.atts[j].value)
  <2>1. a \in Whole(t)
      BY <1>2 DEF Whole, Specified
  <2>2. Declaration(t, j) = <<a.name, a.value>>
    <3>1. Declaration(t, j)[1] = a.name /\ Declaration(t, j)[2] = a.value
        BY <1>2, StoredAsDeclared
    <3>2. Declaration(t, j) = <<Declaration(t, j)[1], Declaration(t, j)[2]>>
        BY DEF Declaration
    <3> QED BY <3>1, <3>2
  <2>3. IsXmlns(a.name)
      BY <1>2, StoredAsDeclared
  <2> HIDE DEF a
  <2> QED BY <2>1, <2>2, <2>3 DEF Declarations
<1>4. Added \subseteq Declarations(t)
  <2> SUFFICES ASSUME NEW j \in 1 .. m, Adds(t, j)
               PROVE  Addition(t, j) \in Declarations(t)
      OBVIOUS
  <2> DEFINE a == defaultAtts[e][j].id
  <2>1. /\ a \in AttributeNames /\ IsXmlns(a) /\ defaultAtts[e][j].value # None
        /\ \A i \in DOMAIN t.atts : t.atts[i].name # a
      BY <1>2, DefaultsOf DEF Adds, Wrote
  <2>2. j \in Entries(e, a)
      BY <1>2 DEF Entries
  <2>3. defaultAtts[e][j].value = Binds(e, a).value
    <3> HIDE DEF a, e
    <3> QED BY <1>2, <2>1, <2>2, FirstEntry
  <2>4. given(a) \in Whole(t)
      BY <2>1, <2>3 DEF Whole
  <2>5. Addition(t, j) = <<given(a).name, given(a).value>> /\ given(a).name = a
      BY <2>3 DEF Addition
  <2> HIDE DEF a, given
  <2> QED BY <2>1, <2>4, <2>5 DEF Declarations
<1>5. ASSUME NEW x \in Whole(t), IsXmlns(x.name)
      PROVE  <<x.name, x.value>> \in Here \cup Added
  <2>1. CASE x \in Specified(t)
    <3>1. PICK j \in DOMAIN t.atts : x = Attribute(t.name, t.atts[j].name, t.atts[j].value)
        BY <2>1 DEF Specified
    <3>2. /\ Declaration(t, j)[1] = x.name /\ Declaration(t, j)[2] = x.value
          /\ x.name = t.atts[j].name
        BY <3>1, StoredAsDeclared
    <3>3. Declaration(t, j) = <<Declaration(t, j)[1], Declaration(t, j)[2]>>
        BY DEF Declaration
    <3>4. Declaration(t, j) \in Here
        BY <1>2, <1>5, <3>2
    <3> QED BY <3>2, <3>3, <3>4
  <2>2. CASE x \notin Specified(t)
    <3>1. PICK a \in AttributeNames :
              /\ Binds(e, a).value # None
              /\ \A i \in DOMAIN t.atts : t.atts[i].name # a
              /\ x = given(a)
        BY <2>2 DEF Whole
    <3>2. Entries(e, a) # {}
        BY <1>2, <3>1, NoEntry
    <3>3. PICK j \in Entries(e, a) : defaultAtts[e][j].value = Binds(e, a).value
      <4> HIDE DEF e
      <4> QED BY <1>2, <3>2, FirstEntry
    <3>4. j \in 1 .. m /\ defaultAtts[e][j].id = a
        BY <1>2 DEF Entries
    <3>5. x.name = a /\ x.value = Binds(e, a).value
        BY <3>1
    <3>6. Adds(t, j)
        BY <1>2, <1>5, <3>1, <3>3, <3>4, <3>5 DEF Adds, Wrote
    <3>7. Addition(t, j) = <<x.name, x.value>>
        BY <3>3, <3>4, <3>5 DEF Addition
    <3> QED BY <3>4, <3>6, <3>7
  <2> QED BY <2>1, <2>2
<1> HIDE DEF Here, Added
<1> QED BY <1>1, <1>3, <1>4, <1>5 DEF Declarations

-----------------------------------------------------------------------------
(* The attributes that are given *)

\* The i attributes that are expanded are marked no more, the others as before.
ExpandInv(w, i, x) ==
    x.error = "NONE" =>
        /\ DOMAIN x = {"atts", "flag", "error", "table"}
        /\ x.flag \in [AttributeNames -> 0 .. 2]
        /\ \A a \in AttributeNames :
              x.flag[a] = 0 \/ (x.flag[a] = w.flag[a] /\ \A m \in 1 .. i : w.atts[m].name # a)

\* One more name that is expanded, or the list is refused.
LEMMA ExpandNext ==
    ASSUME NEW w, w \in Works, NEW i \in 1 .. Len(w.atts), NEW x, ExpandInv(w, i - 1, x)
    PROVE  ExpandInv(w, i, Expand(x, w, i))
<1> DEFINE b    == w.bound[PrefixOf(w.atts[i].name)]
           name == Expanded(w.bindings[b].uri, w.atts[i].name.local, PrefixOf(w.atts[i].name))
           slot == Slot(x.table, name)
           a == w.atts[i].name
           to(n) == [x EXCEPT !.atts = Append(@, [name |-> n, value |-> w.atts[i].value]),
                              !.flag[a] = 0]
           entered == [to(name) EXCEPT !.table.slots[slot.at] =
                [hash |-> Hash[UriName(name)], version |-> x.table.version,
                 name |-> UriName(name)]]
           r == Expand(x, w, i)
<1>1. CASE x.error # "NONE"
    BY <1>1 DEF Expand, ExpandInv
<1>2. CASE x.error = "NONE"
  <2>1. /\ DOMAIN x = {"atts", "flag", "error", "table"}
        /\ x.flag \in [AttributeNames -> 0 .. 2]
        /\ \A c \in AttributeNames :
              \/ x.flag[c] = 0
              \/ x.flag[c] = w.flag[c] /\ \A m \in 1 .. i - 1 : w.atts[m].name # c
      BY <1>2 DEF ExpandInv
  <2>2. w.atts \in Seq([name : AttributeNames, value : Values])
      BY DEF Works
  <2>3. \/ r = to(Plain(a))
        \/ r = [x EXCEPT !.error = "UNBOUND_PREFIX"]
        \/ r = [x EXCEPT !.error = "DUPLICATE_ATTRIBUTE"]
        \/ r = entered
    <3> DEFINE u == [x EXCEPT !.error = "UNBOUND_PREFIX"]
               d == [x EXCEPT !.error = "DUPLICATE_ATTRIBUTE"]
               plain == to(Plain(a))
    <3>1. r = IF x.error # "NONE" THEN x
              ELSE IF PrefixOf(a) = None THEN plain
              ELSE IF b = 0 THEN u
              ELSE IF slot.taken THEN d ELSE entered
        BY Zenon DEF Expand
    <3> HIDE DEF r, u, d, plain, entered, a, b, slot
    <3>2. r = plain \/ r = u \/ r = d \/ r = entered
        BY <1>2, <3>1
    <3> QED BY <3>2 DEF u, d, plain
  <2>4. ASSUME r.error = "NONE"
        PROVE  /\ DOMAIN r = DOMAIN x
               /\ r.flag = [x.flag EXCEPT ![a] = 0]
    <3> HIDE DEF a, b, name, slot, r
    <3>1. CASE r = to(Plain(a))
        BY <2>1, <3>1
    <3>2. CASE r = entered
        BY <2>1, <3>2
    <3>3. CASE r = [x EXCEPT !.error = "UNBOUND_PREFIX"]
        BY <2>1, <2>4, <3>3
    <3>4. CASE r = [x EXCEPT !.error = "DUPLICATE_ATTRIBUTE"]
        BY <2>1, <2>4, <3>4
    <3> QED BY <2>3, <3>1, <3>2, <3>3, <3>4
  <2>5. ASSUME r.error = "NONE"
        PROVE  /\ r.flag \in [AttributeNames -> 0 .. 2]
               /\ \A c \in AttributeNames :
                     \/ r.flag[c] = 0
                     \/ r.flag[c] = w.flag[c] /\ \A m \in 1 .. i : w.atts[m].name # c
    <3>1. r.flag = [x.flag EXCEPT ![a] = 0]
        BY <2>4, <2>5
    <3>2. /\ a = w.atts[i].name
          /\ \A m \in 1 .. i : m \in 1 .. i - 1 \/ m = i
        BY <2>2
    <3> HIDE DEF r, a
    <3>3. r.flag \in [AttributeNames -> 0 .. 2]
        BY <2>1, <3>1, 0 \in 0 .. 2
    <3>4. \A c \in AttributeNames : r.flag[c] = IF c = a THEN 0 ELSE x.flag[c]
        BY <2>1, <3>1
    <3> QED BY <2>1, <3>2, <3>3, <3>4
  <2> HIDE DEF r
  <2>6. ExpandInv(w, i, r)
      BY <2>1, <2>4, <2>5 DEF ExpandInv
  <2> QED BY <2>6 DEF r
<1> QED BY <1>1, <1>2, SMTT(30)

\* When the names are expanded no attribute that was given is marked.
LEMMA ExpandDone ==
    ASSUME NEW w, w \in Works
    PROVE  ExpandInv(w, Len(w.atts), ExpandAll(w))
<1> DEFINE n == Len(w.atts)
<1>1. n \in Nat
    BY DEF Works
<1>2. PICK f : /\ f[0] = ExpandFrom(w)
               /\ \A i \in 1 .. n : f[i] = Expand(f[i - 1], w, i)
               /\ ExpandAll(w) = f[n]
    BY <1>1, Expanding
<1> DEFINE T == {i \in 0 .. n : ExpandInv(w, i, f[i])}
<1>3. 0 \in T
  <2>1. w.flag \in [AttributeNames -> 0 .. 2]
      BY DEF Works
  <2>2. ExpandFrom(w).flag = w.flag /\ DOMAIN ExpandFrom(w) = {"atts", "flag", "error", "table"}
      BY DEF ExpandFrom
  <2>3. ExpandInv(w, 0, ExpandFrom(w))
      BY <2>1, <2>2 DEF ExpandInv
  <2> QED BY <1>1, <1>2, <2>3
<1>4. ASSUME NEW i \in 1 .. n, i - 1 \in T PROVE i \in T
  <2>1. ExpandInv(w, i - 1, f[i - 1])
      BY <1>4
  <2>2. ExpandInv(w, i, f[i])
      BY <1>2, <2>1, ExpandNext
  <2>3. i \in 0 .. n
      BY <1>1
  <2> QED BY <2>2, <2>3
<1>5. n \in T
  <2> HIDE DEF T
  <2>1. \A i \in 0 .. n : i \in T
      BY <1>1, <1>3, <1>4, Induction
  <2> QED BY <1>1, <2>1
<1> QED BY <1>2, <1>5

\* An attribute that is marked is expanded, or the declaration of a namespace.
LEMMA FlagsCleared ==
    ASSUME AttributesAssumption, TypeInv, NEW t \in Tags,
           NEW w, DefaultInv(t, Len(defaultAtts[t.name]), w), w.error = "NONE",
           NEW x, ExpandInv(w, Len(w.atts), x), x.error = "NONE"
    PROVE  ClearFlags(w, x) = [a \in AttributeNames |-> 0]
<1>1. /\ w \in Works
      /\ \A a \in AttributeNames : w.flag[a] # 0 => Wrote(t, a, Len(t.atts)) \/ ~IsXmlns(a)
      /\ \A a \in AttributeNames : w.flag[a] # 0 =>
            IsXmlns(a) \/ \E m \in DOMAIN w.atts : w.atts[m].name = a
      /\ {Declaration(t, j) : j \in {j \in 1 .. Len(t.atts) : IsXmlns(t.atts[j].name)}}
            \subseteq Taken(w)
    BY DEF DefaultInv, WorkInv
<1>2. DOMAIN w.atts = 1 .. Len(w.atts)
    BY <1>1 DEF Works
<1>3. ASSUME NEW a \in AttributeNames, \A i \in DOMAIN w.own : w.bindings[w.own[i]].attId # a
      PROVE  x.flag[a] = 0
  <2>1. CASE x.flag[a] # 0
    <3>1. x.flag[a] = w.flag[a] /\ \A m \in 1 .. Len(w.atts) : w.atts[m].name # a
        BY <2>1 DEF ExpandInv
    <3>2. IsXmlns(a) /\ Wrote(t, a, Len(t.atts))
        BY <1>1, <1>2, <2>1, <3>1
    <3>3. PICK j \in 1 .. Len(t.atts) : t.atts[j].name = a
        BY <3>2 DEF Wrote
    <3>4. Declaration(t, j) \in Taken(w)
        BY <1>1, <3>2, <3>3
    <3>5. PICK i \in DOMAIN w.own : Declaration(t, j) = <<Cell(w, i).attId, Cell(w, i).uri>>
        BY <3>4 DEF Taken
    <3>6. Cell(w, i).attId = a
        BY <3>3, <3>5 DEF Declaration
    <3> QED BY <3>6, <1>3 DEF Cell
  <2> QED BY <2>1
<1>4. \A a \in AttributeNames :
         (IF \E i \in DOMAIN w.own : w.bindings[w.own[i]].attId = a THEN 0 ELSE x.flag[a]) = 0
    BY <1>3
<1> QED BY <1>4 DEF ClearFlags

-----------------------------------------------------------------------------
(* The bindings that leave their scope *)

\* Those of a tag: each of its own prefix, none of them free.
Leaving(own, free, scope, cells) ==
    /\ own \in Seq(Nat) /\ free \in Seq(Nat) /\ scope \in [PrefixNames -> Nat]
    /\ \A i, j \in DOMAIN free : free[i] = free[j] => i = j
    /\ \A i \in DOMAIN own : /\ \A j \in DOMAIN free : own[i] # free[j]
                             /\ cells[own[i]].prefix \in PrefixNames
                             /\ cells[own[i]].prev \in Nat
    /\ \A i, j \in DOMAIN own : cells[own[i]].prefix = cells[own[j]].prefix => i = j

LeftInv(own, free, scope, cells, n, r) ==
    /\ r.free \in Seq(Nat) /\ r.bound \in [PrefixNames -> Nat]
    /\ \A i, j \in DOMAIN r.free : r.free[i] = r.free[j] => i = j
    /\ \A k \in DOMAIN r.free : \/ \E j \in DOMAIN free : r.free[k] = free[j]
                                \/ \E j \in 1 .. n : r.free[k] = own[j]
    /\ \A j \in 1 .. n : r.bound[cells[own[j]].prefix] = cells[own[j]].prev
    /\ \A p \in PrefixNames :
          (\A j \in 1 .. n : cells[own[j]].prefix # p) => r.bound[p] = scope[p]

\* One more binding that leaves its scope.
LEMMA LeftNext ==
    ASSUME NEW own, NEW free, NEW scope, NEW cells, cells = bindings',
           Leaving(own, free, scope, cells), NEW n \in 1 .. Len(own),
           NEW r, LeftInv(own, free, scope, cells, n - 1, r)
    PROVE  LeftInv(own, free, scope, cells, n, Unbind(r, own[n]))
<1> DEFINE b == own[n]
           p == cells[b].prefix
           u == Unbind(r, b)
<1>1. /\ own \in Seq(Nat) /\ free \in Seq(Nat) /\ scope \in [PrefixNames -> Nat]
      /\ \A i \in DOMAIN own : /\ \A j \in DOMAIN free : own[i] # free[j]
                               /\ cells[own[i]].prefix \in PrefixNames
                               /\ cells[own[i]].prev \in Nat
      /\ \A i, j \in DOMAIN own : cells[own[i]].prefix = cells[own[j]].prefix => i = j
    BY DEF Leaving
<1>2. DOMAIN own = 1 .. Len(own) /\ Len(own) \in Nat /\ n \in DOMAIN own /\ n \in Nat
    BY <1>1
<1>3. b \in Nat
    BY <1>1, <1>2, ElementOfSeq
<1>4. /\ p \in PrefixNames /\ cells[b].prev \in Nat /\ \A j \in DOMAIN free : b # free[j]
      /\ \A j \in 1 .. n - 1 : j \in DOMAIN own /\ j # n /\ cells[own[j]].prefix # p /\ own[j] # b
  <2>1. p \in PrefixNames /\ cells[b].prev \in Nat /\ \A j \in DOMAIN free : b # free[j]
      BY <1>1, <1>2
  <2>2. ASSUME NEW j \in 1 .. n - 1
        PROVE  j \in DOMAIN own /\ j # n /\ cells[own[j]].prefix # p /\ own[j] # b
    <3>1. j \in DOMAIN own /\ j # n
        BY <1>2
    <3>2. cells[own[j]].prefix # p
        BY <1>1, <1>2, <3>1
    <3> QED BY <3>1, <3>2
  <2> QED BY <2>1, <2>2
<1>5. /\ r.free \in Seq(Nat) /\ r.bound \in [PrefixNames -> Nat]
      /\ \A i, j \in DOMAIN r.free : r.free[i] = r.free[j] => i = j
      /\ \A k \in DOMAIN r.free : \/ \E j \in DOMAIN free : r.free[k] = free[j]
                                  \/ \E j \in 1 .. n - 1 : r.free[k] = own[j]
      /\ \A j \in 1 .. n - 1 : r.bound[cells[own[j]].prefix] = cells[own[j]].prev
      /\ \A q \in PrefixNames :
            (\A j \in 1 .. n - 1 : cells[own[j]].prefix # q) => r.bound[q] = scope[q]
    BY DEF LeftInv
<1>6. u.free = <<b>> \o r.free /\ u.bound = [r.bound EXCEPT ![p] = cells[b].prev]
    BY DEF Unbind
<1>7. 1 .. n = (1 .. n - 1) \cup {n}
    BY <1>2
<1>8. own[n] = b
    OBVIOUS
<1> HIDE DEF b, p, u
<1>9. /\ u.free \in Seq(Nat) /\ u.free[1] = b
      /\ \A i \in DOMAIN u.free : i = 1 \/ (i - 1 \in DOMAIN r.free /\ u.free[i] = r.free[i - 1])
    BY <1>3, <1>5, <1>6, Pushed
<1>10. \A k \in DOMAIN r.free : r.free[k] # b
    BY <1>4, <1>5
<1>11. ASSUME NEW i \in DOMAIN u.free, NEW j \in DOMAIN u.free, u.free[i] = u.free[j]
       PROVE  i = j
  <2>0. i \in Nat /\ j \in Nat
      BY <1>9
  <2>1. CASE i = 1 \/ j = 1
      BY <2>1, <1>9, <1>10, <1>11
  <2>2. CASE i # 1 /\ j # 1
    <3>1. /\ i - 1 \in DOMAIN r.free /\ u.free[i] = r.free[i - 1]
          /\ j - 1 \in DOMAIN r.free /\ u.free[j] = r.free[j - 1]
        BY <2>2, <1>9
    <3>2. i - 1 = j - 1
        BY <3>1, <1>5, <1>11
    <3> QED BY <2>0, <3>2
  <2> QED BY <2>1, <2>2
<1>12. ASSUME NEW k \in DOMAIN u.free
       PROVE  \/ \E j \in DOMAIN free : u.free[k] = free[j]
              \/ \E j \in 1 .. n : u.free[k] = own[j]
  <2>1. CASE k = 1
      BY <2>1, <1>7, <1>8, <1>9
  <2>2. CASE k # 1
    <3>1. k - 1 \in DOMAIN r.free /\ u.free[k] = r.free[k - 1]
        BY <2>2, <1>9
    <3> QED BY <3>1, <1>5, <1>7
  <2> QED BY <2>1, <2>2
<1>13. u.bound \in [PrefixNames -> Nat]
    BY <1>4, <1>5, <1>6
<1>14. \A j \in 1 .. n : u.bound[cells[own[j]].prefix] = cells[own[j]].prev
  <2>1. u.bound[p] = cells[b].prev
      BY <1>4, <1>5, <1>6
  <2>2. cells[own[n]].prefix = p
      BY <1>8 DEF p
  <2>3. ASSUME NEW j \in 1 .. n - 1
        PROVE  u.bound[cells[own[j]].prefix] = cells[own[j]].prev
    <3>1. cells[own[j]].prefix # p /\ cells[own[j]].prefix \in PrefixNames
        BY <1>1, <1>4
    <3> QED BY <3>1, <1>5, <1>6
  <2> QED BY <1>7, <1>8, <2>1, <2>2, <2>3
<1>15. ASSUME NEW q \in PrefixNames, \A j \in 1 .. n : cells[own[j]].prefix # q
       PROVE  u.bound[q] = scope[q]
  <2>1. q # p /\ \A j \in 1 .. n - 1 : cells[own[j]].prefix # q
      BY <1>7, <1>8, <1>15 DEF p
  <2> QED BY <2>1, <1>5, <1>6
<1>16. LeftInv(own, free, scope, cells, n, u)
    BY <1>9, <1>11, <1>12, <1>13, <1>14, <1>15 DEF LeftInv
<1> QED BY <1>16 DEF u, b

\* When all have left, each prefix has what its binding hid.
LEMMA LeftDone ==
    ASSUME NEW own, NEW free, NEW scope, NEW cells, cells = bindings',
           Leaving(own, free, scope, cells)
    PROVE  LeftInv(own, free, scope, cells, Len(own), Release(own, free, scope))
<1> DEFINE n == Len(own)
<1>1. n \in Nat
    BY DEF Leaving
<1>2. PICK f : /\ f[0] = [free |-> free, bound |-> scope]
               /\ \A i \in 1 .. n : f[i] = Unbind(f[i - 1], own[i])
               /\ Release(own, free, scope) = f[n]
    BY <1>1, Releasing
<1> DEFINE T == {i \in 0 .. n : LeftInv(own, free, scope, cells, i, f[i])}
<1>3. 0 \in T
  <2>1. /\ free \in Seq(Nat) /\ scope \in [PrefixNames -> Nat]
        /\ \A i, j \in DOMAIN free : free[i] = free[j] => i = j
      BY DEF Leaving
  <2>2. f[0].free = free /\ f[0].bound = scope
      BY <1>2
  <2>3. LeftInv(own, free, scope, cells, 0, f[0])
      BY <2>1, <2>2 DEF LeftInv
  <2> QED BY <1>1, <2>3
<1>4. ASSUME NEW i \in 1 .. n, i - 1 \in T PROVE i \in T
  <2>1. LeftInv(own, free, scope, cells, i - 1, f[i - 1])
      BY <1>4
  <2>2. LeftInv(own, free, scope, cells, i, Unbind(f[i - 1], own[i]))
      BY <2>1, LeftNext
  <2>3. i \in 0 .. n
      BY <1>1
  <2> QED BY <1>2, <2>2, <2>3
<1>5. n \in T
  <2> HIDE DEF T
  <2>1. \A i \in 0 .. n : i \in T
      BY <1>1, <1>3, <1>4, Induction
  <2> QED BY <1>1, <2>1
<1> QED BY <1>2, <1>5

-----------------------------------------------------------------------------
(* What a step leaves of the invariant *)

\* A sequence is one of the set its elements are in.
LEMMA SequenceOf ==
    ASSUME NEW S, NEW T, NEW s \in Seq(S), \A i \in DOMAIN s : s[i] \in T
    PROVE  s \in Seq(T)
<1>1. Len(s) \in Nat /\ DOMAIN s = 1 .. Len(s) /\ s \in [1 .. Len(s) -> S]
    BY LenProperties
<1>2. s \in [1 .. Len(s) -> T]
    BY <1>1
<1> QED BY <1>1, <1>2, SeqDef

\* What the declarations of attributes say of a tag is said once for all.
LEMMA SaidForAll ==
    ASSUME setup' = setup, declared' = declared
    PROVE  /\ NS' = NS /\ Root' = Root
           /\ \A a : IsXmlns(a)' = IsXmlns(a) /\ PrefixOf(a)' = PrefixOf(a)
           /\ \A t : Declarations(t)' = Declarations(t)
<1>1. NS' = NS
    BY DEF NS
<1>2. Root' = Root
    BY <1>1 DEF Root
<1>3. \A a : IsXmlns(a)' = IsXmlns(a)
    BY <1>1 DEF IsXmlns
<1>4. \A a : PrefixOf(a)' = PrefixOf(a)
    BY <1>1, <1>3 DEF PrefixOf
<1>5. \A e, a : Binds(e, a)' = Binds(e, a)
    BY DEF Binds, Ours
<1>6. \A e, a, v : Attribute(e, a, v)' = Attribute(e, a, v)
    BY <1>5 DEF Attribute
<1>7. \A t : Specified(t)' = Specified(t)
    BY <1>6 DEF Specified
<1>8. \A t : Whole(t)' = Whole(t)
    BY <1>5, <1>7 DEF Whole
<1>9. \A t : Declarations(t)' = Declarations(t)
    BY <1>3, <1>8 DEF Declarations
<1> QED BY <1>1, <1>2, <1>3, <1>4, <1>9

\* The first m tags are as before, and so are the bindings they own.
StackOf(m) ==
    /\ m \in Nat /\ m <= Len(tagStack) /\ m <= Len(tagStack')
    /\ \A k \in 1 .. m : tagStack'[k].own = tagStack[k].own /\ tagStack'[k].tag = tagStack[k].tag
CellsOf(m) ==
    \A k \in 1 .. m : \A b \in Owned(k) :
        /\ bindings'[b].prefix = bindings[b].prefix /\ bindings'[b].uri = bindings[b].uri
        /\ bindings'[b].attId = bindings[b].attId /\ bindings'[b].prev = bindings[b].prev

\* Then a prefix stands for what it did.
LEMMA StandsStill ==
    ASSUME setup' = setup, NEW m, StackOf(m), CellsOf(m)
    PROVE  /\ \A k \in 1 .. m : Owned(k)' = Owned(k)
           /\ \A k \in 1 .. m : \A p : DeclaredBy(k, p)' = DeclaredBy(k, p)
           /\ \A k \in 0 .. m : \A p, c : StandsFor(p, k, c) => StandsFor(p, k, c)'
<1>1. \A k \in 1 .. m : Owned(k)' = Owned(k)
    BY DEF StackOf, Owned
<1>2. \A k \in 1 .. m : \A p : DeclaredBy(k, p)' = DeclaredBy(k, p)
    BY <1>1 DEF CellsOf, DeclaredBy
<1>3. ASSUME NEW k \in 0 .. m, NEW p, NEW c, StandsFor(p, k, c)
      PROVE  StandsFor(p, k, c)'
  <2>0. NS' = NS
      BY DEF NS
  <2>1. \A j \in 1 .. k : j \in 1 .. m
      BY DEF StackOf
  <2>2. CASE /\ \A j \in 1 .. k : ~DeclaredBy(j, p)
             /\ c = IF NS /\ p = "xml" THEN 1 ELSE 0
    <3>1. \A j \in 1 .. k : ~DeclaredBy(j, p)'
        BY <1>2, <2>1, <2>2
    <3> QED BY <2>0, <2>2, <3>1 DEF StandsFor
  <2>3. CASE \E j \in 1 .. k : \E b \in Owned(j) :
                /\ bindings[b].prefix = p
                /\ \A i \in j + 1 .. k : ~DeclaredBy(i, p)
                /\ c = IF bindings[b].uri = "" THEN 0 ELSE b
    <3>0. PICK j \in 1 .. k : \E b \in Owned(j) :
                /\ bindings[b].prefix = p
                /\ \A i \in j + 1 .. k : ~DeclaredBy(i, p)
                /\ c = IF bindings[b].uri = "" THEN 0 ELSE b
        BY <2>3
    <3>1. PICK b \in Owned(j) :
                /\ bindings[b].prefix = p
                /\ \A i \in j + 1 .. k : ~DeclaredBy(i, p)
                /\ c = IF bindings[b].uri = "" THEN 0 ELSE b
        BY <3>0
    <3>2. b \in Owned(j)' /\ bindings'[b].prefix = p /\ bindings'[b].uri = bindings[b].uri
        BY <1>1, <2>1, <3>1 DEF CellsOf
    <3>3. \A i \in j + 1 .. k : i \in 1 .. k
        BY DEF StackOf
    <3>4. \A i \in j + 1 .. k : ~DeclaredBy(i, p)'
        BY <1>2, <2>1, <3>1, <3>3
    <3> QED BY <3>1, <3>2, <3>4 DEF StandsFor
  <2> QED BY <1>3, <2>2, <2>3 DEF StandsFor
<1> QED BY <1>1, <1>2, <1>3

\* And a tag owns what it declares.
LEMMA TextStays ==
    ASSUME setup' = setup, declared' = declared, NEW m, StackOf(m), CellsOf(m),
           NEW k \in 1 .. m, Text(k)
    PROVE  Text(k)'
<1>1. Owned(k)' = Owned(k) /\ tagStack'[k].tag = tagStack[k].tag
    BY StandsStill DEF StackOf
<1>2. \A b \in Owned(k) :
        /\ bindings'[b].prefix = bindings[b].prefix /\ bindings'[b].uri = bindings[b].uri
        /\ bindings'[b].attId = bindings[b].attId
    BY DEF CellsOf
<1>3. /\ \A a : IsXmlns(a)' = IsXmlns(a) /\ PrefixOf(a)' = PrefixOf(a)
      /\ \A t : Declarations(t)' = Declarations(t)
    BY SaidForAll
<1>4. /\ {<<bindings[b].attId, bindings[b].uri>> : b \in Owned(k)}
           = Declarations(tagStack[k].tag)
      /\ \A b \in Owned(k) :
            /\ bindings[b].attId \in AttributeNames /\ IsXmlns(bindings[b].attId)
            /\ bindings[b].prefix = PrefixOf(bindings[b].attId)
            /\ bindings[b].uri = "" => bindings[b].prefix = ""
    BY DEF Text
<1>5. ({<<bindings[b].attId, bindings[b].uri>> : b \in Owned(k)}
         = Declarations(tagStack[k].tag))'
  <2>1. {<<bindings'[b].attId, bindings'[b].uri>> : b \in Owned(k)'}
          = {<<bindings[b].attId, bindings[b].uri>> : b \in Owned(k)}
      BY <1>1, <1>2
  <2>2. PICK t : t = tagStack[k].tag
      OBVIOUS
  <2>3. Declarations(tagStack[k].tag)' = Declarations(t)'
      BY <1>1, <2>2, Zenon DEF Declarations, Whole, Specified
  <2> QED BY <1>3, <1>4, <2>1, <2>2, <2>3
<1>6. ASSUME NEW b \in Owned(k)'
      PROVE  (/\ bindings[b].attId \in AttributeNames /\ IsXmlns(bindings[b].attId)
              /\ bindings[b].prefix = PrefixOf(bindings[b].attId)
              /\ bindings[b].uri = "" => bindings[b].prefix = "")'
  <2>1. NS' = NS
      BY DEF NS
  <2> QED BY <1>1, <1>2, <1>4, <2>1, ZenonT(40) DEF IsXmlns, PrefixOf
<1> QED BY <1>5, <1>6 DEF Text

\* And each binding hides what it did.
LEMMA HidesStill ==
    ASSUME setup' = setup, NEW m, StackOf(m), CellsOf(m), NEW k \in 1 .. m, Hides(k)
    PROVE  Hides(k)'
<1>1. Owned(k)' = Owned(k) /\ k - 1 \in 0 .. m
    BY StandsStill DEF StackOf
<1>2. ASSUME NEW b \in Owned(k)
      PROVE  \E p, c : p = bindings'[b].prefix /\ c = bindings'[b].prev /\ StandsFor(p, k - 1, c)'
  <2>1. StandsFor(bindings[b].prefix, k - 1, bindings[b].prev)
      BY DEF Hides
  <2>2. PICK p, c : p = bindings[b].prefix /\ c = bindings[b].prev /\ StandsFor(p, k - 1, c)
      BY <2>1
  <2>3. StandsFor(p, k - 1, c)'
      BY <1>1, <2>2, StandsStill
  <2>4. bindings'[b].prefix = bindings[b].prefix /\ bindings'[b].prev = bindings[b].prev
      BY DEF CellsOf
  <2> QED BY <2>2, <2>3, <2>4
<1>3. ASSUME NEW b \in Owned(k)
      PROVE  (StandsFor(bindings[b].prefix, k - 1, bindings[b].prev))'
  <2>1. PICK p, c : p = bindings'[b].prefix /\ c = bindings'[b].prev /\ StandsFor(p, k - 1, c)'
      BY <1>2
  <2> QED BY <2>1 DEF StandsFor, DeclaredBy
<1> QED BY <1>1, <1>3 DEF Hides

\* A tag that does not declare p leaves it what it was.
LEMMA StandsOn ==
    ASSUME NEW k \in Nat, NEW p, NEW c, ~DeclaredBy(k + 1, p)
    PROVE  StandsFor(p, k, c) <=> StandsFor(p, k + 1, c)
<1>1. ASSUME StandsFor(p, k, c) PROVE StandsFor(p, k + 1, c)
  <2>1. CASE /\ \A j \in 1 .. k : ~DeclaredBy(j, p)
             /\ c = IF NS /\ p = "xml" THEN 1 ELSE 0
    <3>1. \A j \in 1 .. k + 1 : j \in 1 .. k \/ j = k + 1
        OBVIOUS
    <3> QED BY <2>1, <3>1 DEF StandsFor
  <2>2. CASE \E j \in 1 .. k : \E b \in Owned(j) :
                /\ bindings[b].prefix = p
                /\ \A i \in j + 1 .. k : ~DeclaredBy(i, p)
                /\ c = IF bindings[b].uri = "" THEN 0 ELSE b
    <3>0. PICK j \in 1 .. k : \E b \in Owned(j) :
                /\ bindings[b].prefix = p
                /\ \A i \in j + 1 .. k : ~DeclaredBy(i, p)
                /\ c = IF bindings[b].uri = "" THEN 0 ELSE b
        BY <2>2
    <3>1. PICK b \in Owned(j) :
                /\ bindings[b].prefix = p
                /\ \A i \in j + 1 .. k : ~DeclaredBy(i, p)
                /\ c = IF bindings[b].uri = "" THEN 0 ELSE b
        BY <3>0
    <3>2. j \in 1 .. k + 1 /\ \A i \in j + 1 .. k + 1 : i \in j + 1 .. k \/ i = k + 1
        OBVIOUS
    <3>3. \A i \in j + 1 .. k + 1 : ~DeclaredBy(i, p)
        BY <3>1, <3>2
    <3> QED BY <3>1, <3>2, <3>3 DEF StandsFor
  <2> QED BY <1>1, <2>1, <2>2 DEF StandsFor
<1>2. ASSUME StandsFor(p, k + 1, c) PROVE StandsFor(p, k, c)
  <2>1. CASE /\ \A j \in 1 .. k + 1 : ~DeclaredBy(j, p)
             /\ c = IF NS /\ p = "xml" THEN 1 ELSE 0
    <3>1. \A j \in 1 .. k : j \in 1 .. k + 1
        OBVIOUS
    <3> QED BY <2>1, <3>1 DEF StandsFor
  <2>2. CASE \E j \in 1 .. k + 1 : \E b \in Owned(j) :
                /\ bindings[b].prefix = p
                /\ \A i \in j + 1 .. k + 1 : ~DeclaredBy(i, p)
                /\ c = IF bindings[b].uri = "" THEN 0 ELSE b
    <3>0. PICK j \in 1 .. k + 1 : \E b \in Owned(j) :
                /\ bindings[b].prefix = p
                /\ \A i \in j + 1 .. k + 1 : ~DeclaredBy(i, p)
                /\ c = IF bindings[b].uri = "" THEN 0 ELSE b
        BY <2>2
    <3>1. PICK b \in Owned(j) :
                /\ bindings[b].prefix = p
                /\ \A i \in j + 1 .. k + 1 : ~DeclaredBy(i, p)
                /\ c = IF bindings[b].uri = "" THEN 0 ELSE b
        BY <3>0
    <3>2. DeclaredBy(j, p)
        BY <3>1 DEF DeclaredBy
    <3>3. j # k + 1
        BY <3>2
    <3>4. j \in 1 .. k /\ \A i \in j + 1 .. k : i \in j + 1 .. k + 1
        BY <3>3
    <3> QED BY <3>1, <3>4 DEF StandsFor
  <2> QED BY <1>2, <2>1, <2>2 DEF StandsFor
<1> QED BY <1>1, <1>2

\* ScopeInv of the next state, said of values.
LEMMA ScopesOf ==
    ASSUME \A p \in PrefixNames :
              \E n, c : n = Len(tagStack') /\ c = bound'[p] /\ StandsFor(p, n, c)'
    PROVE  (\A p \in PrefixNames : StandsFor(p, Len(tagStack), bound[p]))'
<1>1. ASSUME NEW p \in PrefixNames
      PROVE  (StandsFor(p, Len(tagStack), bound[p]))'
  <2>1. PICK n, c : n = Len(tagStack') /\ c = bound'[p] /\ StandsFor(p, n, c)'
      BY <1>1
  <2> QED BY <2>1 DEF StandsFor, DeclaredBy
<1> QED BY <1>1

-----------------------------------------------------------------------------
(* Before the first tag *)

\* The invariant holds in a new parser.
LEMMA InitHolds ==
    ASSUME AttributesAssumption, Init
    PROVE  AInv
<1>1. /\ setup \in Setups /\ NS \in BOOLEAN
      /\ defaultAtts = [e \in ElementNames |-> <<>>] /\ maybeTokenized = {}
      /\ flag = [a \in AttributeNames |-> 0]
      /\ bindings = IF NS THEN <<[prefix |-> "xml", uri |-> "XML", attId |-> NoName,
                                  prev |-> 0, last |-> NoName, block |-> 0]>> ELSE <<>>
      /\ freeBindingList = <<>> /\ tagStack = <<>> /\ declared = <<>> /\ opened = 0
      /\ bound = [p \in PrefixNames |-> IF NS /\ p = "xml" THEN 1 ELSE 0] /\ code = "NONE"
    BY DEF Init, AttributesAssumption, NS
<1> DEFINE root == [prefix |-> "xml", uri |-> "XML", attId |-> NoName, prev |-> 0,
                    last |-> NoName, block |-> 0]
<1>2. root \in Cells /\ root.prefix = "xml" /\ root.uri = "XML"
  <2>1. "XML" \in Values /\ "xml" \in PrefixNames
      BY DEF Values, AttributesAssumption
  <2> QED BY <2>1 DEF Cells
<1> HIDE DEF root
<1>3. bindings \in Seq(Cells)
  <2>1. CASE NS
    <3>1. bindings = <<root>>
        BY <1>1, <2>1 DEF root
    <3> QED BY <1>2, <3>1
  <2>2. CASE ~NS
      BY <1>1, <2>2
  <2> QED BY <2>1, <2>2
<1>4. TypeInv
  <2>2. defaultAtts \in [ElementNames -> Seq(Defaults)]
      BY <1>1
  <2>3. bound \in [PrefixNames -> Nat]
      BY <1>1
  <2>4. /\ maybeTokenized \subseteq AttributeNames /\ freeBindingList \in Seq(DOMAIN bindings)
        /\ tagStack \in Seq(OpenTags) /\ declared \in Seq(Written) /\ opened \in Nat
      BY <1>1
  <2> QED BY <1>1, <1>3, <2>2, <2>3, <2>4 DEF TypeInv
<1>5. FlagInv
    BY <1>1 DEF FlagInv
<1>6. DeclaredInv
  <2>1. \A e \in ElementNames : DOMAIN defaultAtts[e] = {}
      BY <1>1
  <2>2. \A e \in ElementNames, a \in AttributeNames : Entries(e, a) = {}
      BY <2>1 DEF Entries
  <2>3. DOMAIN declared = {}
      BY <1>1
  <2> QED BY <1>1, <2>2, <2>3 DEF DeclaredInv, Recorded
<1>7. DOMAIN tagStack = {} /\ Len(tagStack) = 0 /\ DOMAIN freeBindingList = {}
    BY <1>1
<1>8. OwnerInv
  <2>1. Free = {}
      BY <1>7 DEF Free, Range
  <2>2. ASSUME NS PROVE bindings # <<>> /\ bindings[1].prefix = "xml" /\ bindings[1].uri = "XML"
    <3>1. bindings = <<root>>
        BY <1>1, <2>2 DEF root
    <3> QED BY <1>2, <3>1
  <2> QED BY <1>7, <2>1, <2>2 DEF OwnerInv
<1>9. TextInv /\ NameInv
    BY <1>7 DEF TextInv, NameInv
<1>10. ScopeInv
  <2>1. \A p \in PrefixNames : StandsFor(p, 0, bound[p])
      BY <1>1 DEF StandsFor
  <2> QED BY <1>7, <2>1 DEF ScopeInv
<1> QED BY <1>4, <1>5, <1>6, <1>8, <1>9, <1>10 DEF AInv

-----------------------------------------------------------------------------
(* A declaration *)

\* What is recorded of an attribute after one more declaration.
LEMMA DeclareRecords ==
    ASSUME AttributesAssumption, TypeInv, DeclaredInv, NEW d \in Written, Declare(d),
           NEW e \in ElementNames, NEW a \in AttributeNames
    PROVE  Recorded(e, a)'
<1> DEFINE b == d.att
           f == d.element
           n == Len(defaultAtts[e])
           entry == [id |-> b, value |-> d.value, isCdata |-> d.type = "CDATA"]
           known == \E i \in DOMAIN defaultAtts[f] : defaultAtts[f][i].id = b
           isId == d.type = "ID" /\ d.value = None
<1>1. f \in ElementNames /\ b \in AttributeNames
    BY DEF AttributesAssumption
<1>2. /\ declared \in Seq(Written) /\ declared' = Append(declared, d)
      /\ Len(declared) \in Nat /\ DOMAIN declared = 1 .. Len(declared)
      /\ DOMAIN declared' = 1 .. Len(declared) + 1
      /\ declared'[Len(declared) + 1] = d
      /\ \A i \in DOMAIN declared : declared'[i] = declared[i]
    BY DEF TypeInv, Declare
<1>3. /\ defaultAtts[e] \in Seq(Defaults) /\ n \in Nat /\ DOMAIN defaultAtts[e] = 1 .. n
      /\ defaultAtts \in [ElementNames -> Seq(Defaults)]
    BY DefaultsOf DEF TypeInv
<1>4. /\ Entries(e, a) = {} => \A i \in DOMAIN declared : ~Ours(declared[i], e, a)
      /\ \A i, j \in Entries(e, a) : i < j => defaultAtts[e][j].value = None
      /\ \A i \in Entries(e, a) : (\A j \in Entries(e, a) : i <= j) =>
            \E k \in DOMAIN declared :
                /\ First(k, e, a)
                /\ defaultAtts[e][i].value = declared[k].value
                /\ defaultAtts[e][i].isCdata = (declared[k].type = "CDATA")
                /\ declared[k].type # "CDATA" => a \in maybeTokenized
    BY DEF DeclaredInv, Recorded
<1>5. \A k \in DOMAIN declared : First(k, e, a) => First(k, e, a)' /\ k \in DOMAIN declared'
    BY <1>2 DEF First, Ours
<1>6. maybeTokenized \subseteq maybeTokenized'
    BY DEF Declare, DefineAttribute
\* what is recorded already stays the first
<1>7. ASSUME NEW i \in Entries(e, a), \A j \in Entries(e, a) : i <= j,
             defaultAtts'[e][i] = defaultAtts[e][i]
      PROVE  \E k \in DOMAIN declared' :
                /\ First(k, e, a)'
                /\ defaultAtts'[e][i].value = declared'[k].value
                /\ defaultAtts'[e][i].isCdata = (declared'[k].type = "CDATA")
                /\ declared'[k].type # "CDATA" => a \in maybeTokenized'
    BY <1>2, <1>4, <1>5, <1>6, <1>7
<1>8. CASE (d.value # None \/ isId) /\ known
  <2>1. defaultAtts' = defaultAtts
      BY <1>8 DEF Declare, DefineAttribute
  <2>2. Entries(e, a)' = Entries(e, a)
      BY <2>1 DEF Entries
  <2>3. ASSUME Entries(e, a) = {} PROVE \A i \in DOMAIN declared' : ~Ours(declared'[i], e, a)
    <3>1. ~(f = e /\ b = a)
        BY <1>8, <2>3 DEF Entries
    <3>2. ~Ours(d, e, a)
        BY <3>1 DEF Ours
    <3> QED BY <1>2, <1>4, <2>3, <3>2
  <2>4. \A i, j \in Entries(e, a) : i < j => defaultAtts'[e][j].value = None
      BY <1>4, <2>1
  <2>5. (\A i \in DOMAIN declared' : ~Ours(declared'[i], e, a))
           <=> (\A i \in DOMAIN declared : ~Ours(declared[i], e, a))'
      BY DEF Ours
  <2> HIDE DEF f, b, n, entry, known, isId
  <2> QED BY <1>7, <2>1, <2>2, <2>3, <2>4, <2>5 DEF Recorded
<1>9. CASE ~((d.value # None \/ isId) /\ known)
  <2>1. /\ defaultAtts' = [defaultAtts EXCEPT ![f] = Append(@, entry)]
        /\ maybeTokenized' = IF d.type = "CDATA" THEN maybeTokenized
                             ELSE maybeTokenized \cup {b}
      BY <1>9 DEF Declare, DefineAttribute
  <2>2. CASE f # e
    <3>1. defaultAtts'[e] = defaultAtts[e]
        BY <1>3, <2>1, <2>2
    <3>2. Entries(e, a)' = Entries(e, a)
        BY <3>1 DEF Entries
    <3>3. ~Ours(d, e, a)
        BY <2>2 DEF Ours
    <3>4. Entries(e, a) = {} => \A i \in DOMAIN declared' : ~Ours(declared'[i], e, a)
        BY <1>2, <1>4, <3>3
    <3>5. (\A i \in DOMAIN declared' : ~Ours(declared'[i], e, a))
             <=> (\A i \in DOMAIN declared : ~Ours(declared[i], e, a))'
        BY DEF Ours
    <3> HIDE DEF f, b, n, entry, known, isId
    <3> QED BY <1>4, <1>7, <3>1, <3>2, <3>4, <3>5, SMTT(30) DEF Recorded
  <2>3. CASE f = e
    <3>1. /\ defaultAtts'[e] = Append(defaultAtts[e], entry)
          /\ DOMAIN defaultAtts'[e] = 1 .. n + 1 /\ defaultAtts'[e][n + 1] = entry
          /\ \A i \in 1 .. n : defaultAtts'[e][i] = defaultAtts[e][i]
        BY <1>3, <2>1, <2>3
    <3>2. entry.id = b /\ entry.value = d.value /\ entry.isCdata = (d.type = "CDATA")
        OBVIOUS
    <3>3. Entries(e, a)' = IF a = b THEN Entries(e, a) \cup {n + 1} ELSE Entries(e, a)
        BY <1>3, <3>1, <3>2 DEF Entries
    <3>4. \A i \in Entries(e, a) : i \in 1 .. n /\ defaultAtts'[e][i] = defaultAtts[e][i]
        BY <1>3, <3>1 DEF Entries
    <3>5. (\A i \in DOMAIN declared' : ~Ours(declared'[i], e, a))
             <=> (\A i \in DOMAIN declared : ~Ours(declared[i], e, a))'
        BY DEF Ours
    <3>6. CASE a # b
      <4>1. ~Ours(d, e, a)
          BY <3>6 DEF Ours
      <4>2. Entries(e, a) = {} => \A i \in DOMAIN declared' : ~Ours(declared'[i], e, a)
          BY <1>2, <1>4, <4>1
      <4> HIDE DEF f, b, n, entry, known, isId
      <4> QED BY <1>4, <1>7, <3>3, <3>4, <3>5, <3>6, <4>2 DEF Recorded
    <3>7. CASE a = b
      <4>1. known <=> Entries(e, a) # {}
          BY <2>3, <3>7 DEF Entries
      <4>2. CASE Entries(e, a) = {}
        <5>1. Entries(e, a)' = {n + 1}
            BY <3>3, <3>7, <4>2
        <5> DEFINE m == Len(declared) + 1
        <5>2. PICK k \in Nat : k = m
            BY <1>2
        <5>8. First(k, e, a)'
          <6>1. Ours(d, e, a)
              BY <2>3, <3>7 DEF Ours
          <6>2. \A j \in 1 .. Len(declared) : ~Ours(declared[j], e, a)
              BY <1>2, <1>4, <4>2
          <6>3. \A j \in 1 .. k - 1 : ~Ours(declared'[j], e, a)
              BY <1>2, <5>2, <6>2
          <6>4. k \in DOMAIN declared' /\ Ours(declared'[k], e, a)
              BY <1>2, <5>2, <6>1
          <6> QED BY <6>3, <6>4 DEF First, Ours
        <5>3. k \in DOMAIN declared' /\ declared'[k] = d
            BY <1>2, <5>2
        <5>4. d.type # "CDATA" => a \in maybeTokenized'
            BY <2>1, <3>7
        <5>5. \A i, j \in Entries(e, a)' : i = j /\ i = n + 1
            BY <5>1
        <5> HIDE DEF f, b, n, entry, known, isId
        <5>6. \A i \in Entries(e, a)' :
                \E q \in DOMAIN declared' :
                /\ First(q, e, a)'
                /\ defaultAtts'[e][i].value = declared'[q].value
                /\ defaultAtts'[e][i].isCdata = (declared'[q].type = "CDATA")
                /\ declared'[q].type # "CDATA" => a \in maybeTokenized'
            BY <3>1, <3>2, <5>3, <5>4, <5>5, <5>8
        <5>7. \A i, j \in Entries(e, a)' : ~(i < j)
            BY <1>3, <5>5
        <5> QED BY <5>1, <5>6, <5>7 DEF Recorded
      <4>3. CASE Entries(e, a) # {}
        <5>1. d.value = None
            BY <1>9, <4>1, <4>3
        <5>2. Entries(e, a)' = Entries(e, a) \cup {n + 1}
            BY <3>3, <3>7
        <5>3. ASSUME NEW i \in Entries(e, a)', NEW j \in Entries(e, a)', i < j
              PROVE  defaultAtts'[e][j].value = None
          <6>1. CASE j = n + 1
              BY <3>1, <3>2, <5>1, <6>1
          <6>2. CASE j # n + 1
            <7>1. j \in Entries(e, a) /\ i \in Entries(e, a)
                BY <1>3, <3>4, <5>2, <5>3, <6>2
            <7> QED BY <1>4, <3>4, <5>3, <7>1
          <6> QED BY <6>1, <6>2
        <5>4. ASSUME NEW i \in Entries(e, a)', \A j \in Entries(e, a)' : i <= j
              PROVE  \E k \in DOMAIN declared' :
                        /\ First(k, e, a)'
                        /\ defaultAtts'[e][i].value = declared'[k].value
                        /\ defaultAtts'[e][i].isCdata = (declared'[k].type = "CDATA")
                        /\ declared'[k].type # "CDATA" => a \in maybeTokenized'
          <6>1. i \in Entries(e, a) /\ \A j \in Entries(e, a) : i <= j
            <7>1. PICK j \in Entries(e, a) : TRUE
                BY <4>3
            <7>2. i <= j /\ j \in 1 .. n
                BY <3>4, <5>2, <5>4, <7>1
            <7>3. i # n + 1
                BY <1>3, <7>2
            <7> QED BY <5>2, <5>4, <7>3
          <6> HIDE DEF f, b, n, entry, known, isId
          <6> QED BY <1>7, <3>4, <6>1
        <5> HIDE DEF f, b, n, entry, known, isId
        <5>5. Entries(e, a)' # {}
            BY <5>2
        <5> QED BY <5>3, <5>4, <5>5 DEF Recorded
      <4> QED BY <4>2, <4>3
    <3> QED BY <3>6, <3>7
  <2> QED BY <2>2, <2>3
<1> QED BY <1>8, <1>9

\* A declaration keeps the invariant: there are no tags yet.
LEMMA DeclareKeeps ==
    ASSUME AttributesAssumption, AInv, NEW d \in Written, Declare(d), setup' = setup
    PROVE  AInv'
<1>0. TypeInv /\ FlagInv /\ DeclaredInv /\ OwnerInv /\ TextInv /\ ScopeInv /\ NameInv
    BY DEF AInv
<1>1. /\ flag' = flag /\ bindings' = bindings /\ freeBindingList' = freeBindingList
      /\ bound' = bound /\ tagStack' = tagStack /\ code' = code /\ opened' = opened
      /\ opened = 0 /\ declared' = Append(declared, d)
    BY DEF Declare
<1>2. tagStack = <<>> /\ DOMAIN tagStack = {} /\ Len(tagStack) = 0
    BY <1>0, <1>1 DEF DeclaredInv
<1>3. d.element \in ElementNames /\ d.att \in AttributeNames /\ d.value \in Values
  <2>1. d.value \in DefaultValues
      BY DEF DefaultValues
  <2> QED BY <2>1 DEF AttributesAssumption, Values
<1>4. TypeInv'
  <2> DEFINE entry == [id |-> d.att, value |-> d.value, isCdata |-> d.type = "CDATA"]
  <2>1. entry \in Defaults
      BY <1>3 DEF Defaults
  <2>2. \/ defaultAtts' = defaultAtts
        \/ defaultAtts' = [defaultAtts EXCEPT ![d.element] = Append(@, entry)]
      BY DEF Declare, DefineAttribute
  <2>3. maybeTokenized' \subseteq AttributeNames
      BY <1>0, <1>3 DEF TypeInv, Declare, DefineAttribute
  <2>4. defaultAtts \in [ElementNames -> Seq(Defaults)]
      BY <1>0 DEF TypeInv
  <2> HIDE DEF entry
  <2>5. Append(defaultAtts[d.element], entry) \in Seq(Defaults)
      BY <1>3, <2>1, <2>4
  <2>6. defaultAtts' \in [ElementNames -> Seq(Defaults)]
      BY <1>3, <2>2, <2>4, <2>5
  <2>7. declared' \in Seq(Written)
      BY <1>0, <1>1 DEF TypeInv
  <2> QED BY <1>0, <1>1, <2>3, <2>6, <2>7 DEF TypeInv
<1>5. FlagInv'
    BY <1>0, <1>1 DEF FlagInv
<1>6. DeclaredInv'
    BY <1>0, <1>1, <1>2, DeclareRecords DEF DeclaredInv
<1>7. OwnerInv'
  <2>1. NS' = NS /\ Free' = Free
      BY <1>1 DEF NS, Free
  <2> QED BY <1>0, <1>1, <1>2, <2>1 DEF OwnerInv
<1>8. TextInv' /\ NameInv'
    BY <1>1, <1>2 DEF TextInv, NameInv
<1>9. ScopeInv'
  <2>1. ASSUME NEW p \in PrefixNames
        PROVE  \E n, c : n = Len(tagStack') /\ c = bound'[p] /\ StandsFor(p, n, c)'
    <3>1. PICK c : c = bound[p]
        OBVIOUS
    <3>2. StandsFor(p, 0, c)
        BY <1>0, <1>2, <3>1 DEF ScopeInv
    <3>3. StackOf(0) /\ CellsOf(0)
        BY <1>1, <1>2 DEF StackOf, CellsOf
    <3>4. StandsFor(p, 0, c)'
        BY <3>2, <3>3, StandsStill
    <3> QED BY <1>1, <1>2, <3>1, <3>4
  <2>2. DOMAIN tagStack' = {}
      BY <1>1, <1>2
  <2> QED BY <2>1, <2>2, ScopesOf DEF ScopeInv
<1> QED BY <1>4, <1>5, <1>6, <1>7, <1>8, <1>9 DEF AInv

\* The records stay true while nothing is declared.
LEMMA RecordsStay ==
    ASSUME DeclaredInv, defaultAtts' = defaultAtts, declared' = declared,
           maybeTokenized' = maybeTokenized, opened' = 0 => tagStack' = <<>>
    PROVE  DeclaredInv'
<1>1. ASSUME NEW e \in ElementNames, NEW a \in AttributeNames
      PROVE  Recorded(e, a)'
  <2>1. Recorded(e, a)
      BY DEF DeclaredInv
  <2> QED BY <2>1 DEF Recorded, Entries, First, Ours
<1> QED BY <1>1 DEF DeclaredInv

-----------------------------------------------------------------------------
(* The end of an element *)

\* The open tags are records of their kind.
LEMMA TagsOf ==
    ASSUME TypeInv
    PROVE  /\ Len(tagStack) \in Nat /\ DOMAIN tagStack = 1 .. Len(tagStack)
           /\ \A k \in DOMAIN tagStack :
                 /\ tagStack[k].own \in Seq(Nat) /\ tagStack[k].tag \in Tags
                 /\ tagStack[k].str \in Nat \X Nat /\ tagStack[k].started \in Started
                 /\ \A i \in DOMAIN tagStack[k].own : tagStack[k].own[i] \in Owned(k)
                 /\ \A b \in Owned(k) : \E i \in DOMAIN tagStack[k].own : b = tagStack[k].own[i]
<1>1. tagStack \in Seq(OpenTags)
    BY DEF TypeInv
<1>2. Len(tagStack) \in Nat /\ DOMAIN tagStack = 1 .. Len(tagStack)
    BY <1>1
<1>3. ASSUME NEW k \in DOMAIN tagStack
      PROVE  /\ tagStack[k].own \in Seq(Nat) /\ tagStack[k].tag \in Tags
             /\ tagStack[k].str \in Nat \X Nat /\ tagStack[k].started \in Started
  <2>1. tagStack[k] \in OpenTags
      BY <1>1, <1>2, ElementOfSeq
  <2> QED BY <2>1 DEF OpenTags
<1>4. ASSUME NEW k \in DOMAIN tagStack
      PROVE  /\ \A i \in DOMAIN tagStack[k].own : tagStack[k].own[i] \in Owned(k)
             /\ \A b \in Owned(k) : \E i \in DOMAIN tagStack[k].own : b = tagStack[k].own[i]
    BY DEF Owned, Range
<1> QED BY <1>2, <1>3, <1>4

\* A binding that is in use is not free, and is of its kind.
LEMMA UsedIs ==
    ASSUME TypeInv, OwnerInv, NEW k \in 0 .. Len(tagStack), NEW b \in Within(k)
    PROVE  /\ b \in DOMAIN bindings /\ b \notin Free /\ bindings[b] \in Cells
           /\ b \in Nat /\ b # 0
<1>1. bindings \in Seq(Cells) /\ DOMAIN bindings = 1 .. Len(bindings) /\ Len(bindings) \in Nat
    BY DEF TypeInv
<1>2. b \in DOMAIN bindings /\ b \notin Free
  <2>1. CASE b \in Root
    <3>1. NS /\ b = 1
        BY <2>1 DEF Root
    <3>2. bindings # <<>> /\ 1 \notin Free
        BY <3>1 DEF OwnerInv
    <3>3. Len(bindings) # 0
        BY <1>1, <3>2
    <3> QED BY <1>1, <3>1, <3>2, <3>3
  <2>2. CASE b \notin Root
    <3>1. PICK j \in 1 .. k : b \in Owned(j)
        BY <2>2 DEF Within
    <3>2. j \in DOMAIN tagStack
        BY TagsOf
    <3>3. OwnsAlone(j)
        BY <3>2 DEF OwnerInv
    <3> QED BY <3>1, <3>3 DEF OwnsAlone
  <2> QED BY <2>1, <2>2
<1>3. bindings[b] \in Cells
    BY <1>1, <1>2, ElementOfSeq
<1> QED BY <1>1, <1>2, <1>3

\* A name that is written into a block changes nothing else of its binding.
LEMMA NameWritten ==
    ASSUME AttributesAssumption, NEW cells \in Seq(Cells), NEW b \in DOMAIN cells,
           NEW e \in ElementNames, NEW r, r = WriteName(cells, b, e)
    PROVE  /\ r \in Seq(Cells) /\ Len(r) = Len(cells) /\ DOMAIN r = DOMAIN cells
           /\ r[b].last = Expanded(cells[b].uri, e.local, cells[b].prefix)
           /\ r[b].last \in Started
           /\ \A c \in DOMAIN cells :
                 /\ r[c].prefix = cells[c].prefix /\ r[c].uri = cells[c].uri
                 /\ r[c].attId = cells[c].attId /\ r[c].prev = cells[c].prev
                 /\ r[c].block = cells[c].block
<1> DEFINE name == Expanded(cells[b].uri, e.local, cells[b].prefix)
           cell == [cells[b] EXCEPT !.last = name]
<1>1. Len(cells) \in Nat /\ DOMAIN cells = 1 .. Len(cells) /\ \A c \in DOMAIN cells : cells[c] \in Cells
  <2>1. Len(cells) \in Nat /\ DOMAIN cells = 1 .. Len(cells)
      OBVIOUS
  <2> QED BY <2>1, ElementOfSeq
<1>2. /\ cells[b].uri \in Values /\ cells[b].prefix \in PrefixNames
    BY <1>1 DEF Cells
<1>3. name \in Started
  <2>1. e.local \in Locals
      BY DEF Locals
  <2>2. "" \in PrefixNames
      BY DEF AttributesAssumption
  <2> QED BY <1>2, <2>1, <2>2 DEF Expanded, Started
<1> HIDE DEF name
<1>4. /\ cell \in Cells /\ cell.last = name
      /\ cell.prefix = cells[b].prefix /\ cell.uri = cells[b].uri
      /\ cell.attId = cells[b].attId /\ cell.prev = cells[b].prev /\ cell.block = cells[b].block
    BY <1>1, <1>3 DEF Cells
<1>5. r = [cells EXCEPT ![b] = cell]
    BY DEF WriteName, name
<1> HIDE DEF cell
<1>6. /\ r \in Seq(Cells) /\ Len(r) = Len(cells) /\ DOMAIN r = DOMAIN cells
      /\ \A c \in DOMAIN cells : r[c] = IF c = b THEN cell ELSE cells[c]
    BY <1>1, <1>4, <1>5, ExceptSeq
<1> QED BY <1>1, <1>3, <1>4, <1>6 DEF name

\* The end of an element keeps the invariant, and is told as its start.
LEMMA EndTagKeeps ==
    ASSUME AttributesAssumption, AInv, EndTag, setup' = setup
    PROVE  AInv' /\ EndsAsItBegan'
<1>0. TypeInv /\ FlagInv /\ DeclaredInv /\ OwnerInv /\ TextInv /\ ScopeInv /\ NameInv
    BY DEF AInv
<1>a. tagStack \in Seq(OpenTags) /\ tagStack # <<>>
    BY <1>0 DEF TypeInv, EndTag
<1>b. Len(tagStack) \in Nat /\ Len(tagStack) # 0 /\ DOMAIN tagStack = 1 .. Len(tagStack)
    BY <1>a, SMTT(30)
<1>c. PICK n \in Nat : n = Len(tagStack)
    BY <1>b
<1>d. PICK m \in Nat : m = n - 1
  <2>1. n - 1 \in Nat
      BY <1>b, <1>c
  <2> QED BY <2>1
<1>e. n # 0 /\ m + 1 = n /\ m \in 0 .. m /\ n \in 1 .. n
    BY <1>b, <1>c, <1>d
<1> DEFINE tag == tagStack[n]
           own == tag.own
           b == tag.str[1]
           after == Release(own, freeBindingList, bound)
<1>1. Last(tagStack) = tag
    BY <1>c DEF Last
<1>2. /\ tagStack # <<>> /\ tagStack' = Front(tagStack) /\ code' = code
      /\ bindings' = IF b = 0 THEN bindings ELSE WriteName(bindings, b, tag.tag.name)
      /\ event' = [type |-> "end", started |-> tag.started,
                   name |-> IF b = 0 THEN Plain(tag.tag.name)
                            ELSE IF bindings'[b].block # tag.str[2] THEN NoName
                            ELSE bindings'[b].last]
      /\ bound' = after.bound /\ freeBindingList' = after.free
      /\ defaultAtts' = defaultAtts /\ maybeTokenized' = maybeTokenized /\ flag' = flag
      /\ declared' = declared /\ opened' = opened
    BY <1>1 DEF EndTag
<1>3. tagStack \in Seq(OpenTags) /\ n \in Nat /\ n # 0 /\ DOMAIN tagStack = 1 .. n
    BY <1>a, <1>b, <1>c
<1>4. /\ tagStack' \in Seq(OpenTags) /\ Len(tagStack') = m /\ DOMAIN tagStack' = 1 .. m
      /\ \A k \in 1 .. m : tagStack'[k] = tagStack[k] /\ k \in DOMAIN tagStack /\ k # n
  <2>1. tagStack' = SubSeq(tagStack, 1, m)
      BY <1>2, <1>c, <1>d DEF Front
  <2>2. \A k \in 1 .. m : k \in DOMAIN tagStack /\ k # n /\ tagStack[k] \in OpenTags
      BY <1>3, <1>e, ElementOfSeq
  <2>3. /\ tagStack' \in Seq(OpenTags) /\ Len(tagStack') = IF 1 <= m THEN m - 1 + 1 ELSE 0
        /\ \A k \in 1 .. m - 1 + 1 : tagStack'[k] = tagStack[1 + k - 1]
      BY <2>1, <2>2, SubSeqProperties
  <2>4. m - 1 + 1 = m /\ \A k \in 1 .. m : 1 + k - 1 = k
      BY <1>d
  <2>5. Len(tagStack') = m /\ DOMAIN tagStack' = 1 .. m
      BY <2>3, <2>4, <1>d
  <2> QED BY <2>2, <2>3, <2>4, <2>5
<1>5. /\ bindings \in Seq(Cells) /\ DOMAIN bindings = 1 .. Len(bindings) /\ Len(bindings) \in Nat
      /\ n \in DOMAIN tagStack /\ tag.tag \in Tags /\ tag.tag.name \in ElementNames
      /\ own \in Seq(Nat) /\ \A i \in DOMAIN own : own[i] \in Owned(n)
      /\ \A c \in Owned(n) : \E i \in DOMAIN own : c = own[i]
  <2>1. bindings \in Seq(Cells) /\ DOMAIN bindings = 1 .. Len(bindings) /\ Len(bindings) \in Nat
      BY <1>0 DEF TypeInv
  <2>2. n \in DOMAIN tagStack
      BY <1>3
  <2>3. /\ tag.tag \in Tags /\ own \in Seq(Nat) /\ \A i \in DOMAIN own : own[i] \in Owned(n)
        /\ \A c \in Owned(n) : \E i \in DOMAIN own : c = own[i]
      BY <1>0, <2>2, TagsOf
  <2> QED BY <2>1, <2>2, <2>3, AttsOf
<1>6. Named(n) /\ OwnsAlone(n) /\ Hides(n) /\ \A k \in DOMAIN tagStack : OwnsAlone(k)
    BY <1>0, <1>5 DEF NameInv, OwnerInv, ScopeInv
<1> HIDE DEF after, own, b, tag
<1>7. b # 0 => /\ b \in Within(n) /\ b \in DOMAIN bindings /\ tag.str[2] = bindings[b].block
               /\ tag.started = Expanded(bindings[b].uri, tag.tag.name.local, bindings[b].prefix)
  <2>1. b # 0 => /\ b \in Within(n) /\ tag.str[2] = bindings[b].block
                 /\ tag.started = Expanded(bindings[b].uri, tag.tag.name.local, bindings[b].prefix)
      BY <1>6 DEF Named, b, tag
  <2>2. n \in 0 .. Len(tagStack)
      BY <1>c
  <2> QED BY <1>0, <2>1, <2>2, UsedIs
<1>8. /\ bindings' \in Seq(Cells) /\ Len(bindings') = Len(bindings) /\ DOMAIN bindings' = DOMAIN bindings
      /\ \A c \in DOMAIN bindings :
            /\ bindings'[c].prefix = bindings[c].prefix /\ bindings'[c].uri = bindings[c].uri
            /\ bindings'[c].attId = bindings[c].attId /\ bindings'[c].prev = bindings[c].prev
            /\ bindings'[c].block = bindings[c].block
      /\ b # 0 => bindings'[b].last = Expanded(bindings[b].uri, tag.tag.name.local, bindings[b].prefix)
  <2>1. CASE b = 0
      BY <2>1, <1>2, <1>5
  <2>2. CASE b # 0
    <3>1. bindings' = WriteName(bindings, b, tag.tag.name) /\ b \in DOMAIN bindings
        BY <2>2, <1>2, <1>7
    <3>2. bindings \in Seq(Cells) /\ tag.tag.name \in ElementNames
        BY <1>5
    <3>3. /\ bindings' \in Seq(Cells) /\ Len(bindings') = Len(bindings) /\ DOMAIN bindings' = DOMAIN bindings
          /\ bindings'[b].last = Expanded(bindings[b].uri, tag.tag.name.local, bindings[b].prefix)
        BY <3>1, <3>2, NameWritten
    <3>4. \A c \in DOMAIN bindings :
            /\ bindings'[c].prefix = bindings[c].prefix /\ bindings'[c].uri = bindings[c].uri
            /\ bindings'[c].attId = bindings[c].attId /\ bindings'[c].prev = bindings[c].prev
            /\ bindings'[c].block = bindings[c].block
        BY <3>1, <3>2, NameWritten
    <3> QED BY <3>3, <3>4
  <2> QED BY <2>1, <2>2
<1>9. EndsAsItBegan'
  <2>1. CASE b = 0
    <3>1. tag.started = Plain(tag.tag.name)
        BY <2>1, <1>6 DEF Named, b, tag
    <3> QED BY <2>1, <3>1, <1>2 DEF EndsAsItBegan
  <2>2. CASE b # 0
    <3>1. bindings'[b].block = tag.str[2] /\ bindings'[b].last = tag.started
        BY <2>2, <1>7, <1>8
    <3> QED BY <2>2, <3>1, <1>2 DEF EndsAsItBegan
  <2> QED BY <2>1, <2>2
<1>10. \A c \in Owned(n) : c \in DOMAIN bindings /\ c \notin Free /\ c \notin Root
    BY <1>6 DEF OwnsAlone
<1>11. /\ freeBindingList \in Seq(Nat) /\ bound \in [PrefixNames -> Nat]
       /\ \A i, j \in DOMAIN freeBindingList : freeBindingList[i] = freeBindingList[j] => i = j
       /\ \A i \in DOMAIN freeBindingList : freeBindingList[i] \in Free
       /\ Free \subseteq DOMAIN bindings
  <2>1. freeBindingList \in Seq(DOMAIN bindings) /\ DOMAIN bindings \subseteq Nat
      BY <1>0, <1>5 DEF TypeInv
  <2>2. freeBindingList \in Seq(Nat)
      BY <2>1
  <2>3. \A i \in DOMAIN freeBindingList : freeBindingList[i] \in Free
      BY DEF Free, Range
  <2>4. Free \subseteq DOMAIN bindings
      BY <1>0, FreeAre
  <2> QED BY <1>0, <2>2, <2>3, <2>4 DEF TypeInv, OwnerInv
<1>12. Leaving(own, freeBindingList, bound, bindings')
  <2>1. ASSUME NEW i \in DOMAIN own
        PROVE  /\ \A j \in DOMAIN freeBindingList : own[i] # freeBindingList[j]
               /\ bindings'[own[i]].prefix \in PrefixNames /\ bindings'[own[i]].prev \in Nat
    <3>1. own[i] \in Owned(n) /\ own[i] \in DOMAIN bindings
        BY <1>5, <1>10
    <3>2. bindings'[own[i]] \in Cells
        BY <3>1, <1>8, <1>5, ElementOfSeq
    <3> QED BY <3>1, <3>2, <1>10, <1>11 DEF Cells
  <2>2. \A i, j \in DOMAIN own : bindings'[own[i]].prefix = bindings'[own[j]].prefix => i = j
    <3>1. \A i, j \in DOMAIN own : bindings[own[i]].prefix = bindings[own[j]].prefix => i = j
        BY <1>6 DEF OwnsAlone, own, tag
    <3> QED BY <3>1, <1>5, <1>8, <1>10
  <2> QED BY <1>5, <1>11, <2>1, <2>2 DEF Leaving
<1>13. LeftInv(own, freeBindingList, bound, bindings', Len(own), after)
    BY <1>12, LeftDone DEF after
<1>14. /\ freeBindingList' \in Seq(Nat) /\ bound' \in [PrefixNames -> Nat]
       /\ \A i, j \in DOMAIN freeBindingList' : freeBindingList'[i] = freeBindingList'[j] => i = j
       /\ \A k \in DOMAIN freeBindingList' :
             \/ \E j \in DOMAIN freeBindingList : freeBindingList'[k] = freeBindingList[j]
             \/ \E j \in DOMAIN own : freeBindingList'[k] = own[j]
       /\ \A j \in DOMAIN own : bound'[bindings'[own[j]].prefix] = bindings'[own[j]].prev
       /\ \A p \in PrefixNames :
             (\A j \in DOMAIN own : bindings'[own[j]].prefix # p) => bound'[p] = bound[p]
  <2>1. DOMAIN own = 1 .. Len(own)
      BY <1>5
  <2> QED BY <1>2, <1>13, <2>1 DEF LeftInv
<1>15. \A c \in Free' : c \in Free \/ c \in Owned(n)
  <2>1. \A k \in DOMAIN freeBindingList' : freeBindingList'[k] \in Free \/ freeBindingList'[k] \in Owned(n)
      BY <1>5, <1>11, <1>14
  <2> QED BY <2>1 DEF Free, Range
<1>16. \A k \in DOMAIN freeBindingList' : freeBindingList'[k] \in DOMAIN bindings'
  <2> SUFFICES ASSUME NEW k \in DOMAIN freeBindingList' PROVE freeBindingList'[k] \in DOMAIN bindings
      BY <1>8
  <2>1. CASE \E j \in DOMAIN freeBindingList : freeBindingList'[k] = freeBindingList[j]
      BY <2>1, <1>11
  <2>2. CASE \E j \in DOMAIN own : freeBindingList'[k] = own[j]
      BY <2>2, <1>5, <1>10
  <2> QED BY <1>14, <2>1, <2>2
<1>17. TypeInv'
  <2>1. freeBindingList' \in Seq(DOMAIN bindings')
      BY <1>14, <1>16, SequenceOf
  <2> QED BY <1>0, <1>2, <1>4, <1>8, <1>14, <2>1 DEF TypeInv
<1>18. FlagInv' /\ DeclaredInv'
  <2>1. opened # 0
      BY <1>0, <1>2 DEF DeclaredInv
  <2> QED BY <1>0, <1>2, <2>1, RecordsStay DEF FlagInv
<1>19. StackOf(m) /\ CellsOf(m)
  <2>1. StackOf(m)
    <3>1. m <= Len(tagStack) /\ m <= Len(tagStack')
        BY <1>c, <1>d, <1>4
    <3>2. \A k \in 1 .. m : tagStack'[k] = tagStack[k]
        BY <1>4
    <3> QED BY <3>1, <3>2 DEF StackOf
  <2>2. ASSUME NEW k \in 1 .. m, NEW c \in Owned(k)
        PROVE  c \in DOMAIN bindings
      BY <1>4, <1>6 DEF OwnsAlone
  <2> QED BY <1>8, <2>1, <2>2 DEF CellsOf
<1>20. /\ \A k \in 1 .. m : Owned(k)' = Owned(k)
       /\ \A k \in 0 .. m : \A p, c : StandsFor(p, k, c) => StandsFor(p, k, c)'
    BY <1>19, StandsStill
<1>21. Root' = Root /\ NS' = NS
    BY <1>2, SaidForAll
<1>22. ASSUME NEW k \in 1 .. m
       PROVE  OwnsAlone(k)'
  <2>1. /\ Owned(k) \subseteq DOMAIN bindings \ (Free \cup Root)
        /\ \A j \in DOMAIN tagStack : j # k => Owned(j) \cap Owned(k) = {}
        /\ \A i, j \in DOMAIN tagStack[k].own :
              bindings[tagStack[k].own[i]].prefix = bindings[tagStack[k].own[j]].prefix => i = j
    <3>1. OwnsAlone(k)
        BY <1>4, <1>6
    <3> QED BY <3>1 DEF OwnsAlone
  <2>2. Owned(k) \cap Owned(n) = {}
      BY <1>4, <1>5, <2>1
  <2>3. Owned(k)' \subseteq DOMAIN bindings' \ (Free' \cup Root')
      BY <1>8, <1>15, <1>20, <1>21, <2>1, <2>2
  <2>4. \A j \in DOMAIN tagStack' : j # k => Owned(j)' \cap Owned(k)' = {}
      BY <1>4, <1>20, <2>1
  <2>5. \A i \in DOMAIN tagStack[k].own : tagStack[k].own[i] \in DOMAIN bindings
      BY <1>0, <1>4, <2>1, TagsOf
  <2>6. \A i, j \in DOMAIN tagStack'[k].own :
              bindings'[tagStack'[k].own[i]].prefix = bindings'[tagStack'[k].own[j]].prefix => i = j
    <3>1. PICK s : s = tagStack[k].own /\ s = tagStack'[k].own
        BY <1>4
    <3>2. \A i, j \in DOMAIN s : bindings[s[i]].prefix = bindings[s[j]].prefix => i = j
        BY <2>1, <3>1
    <3>3. \A i \in DOMAIN s : bindings'[s[i]].prefix = bindings[s[i]].prefix
        BY <1>8, <2>5, <3>1
    <3> QED BY <3>1, <3>2, <3>3
  <2> QED BY <2>3, <2>4, <2>6 DEF OwnsAlone
<1>23. OwnerInv'
  <2>1. ASSUME NS
        PROVE  /\ bindings' # <<>> /\ 1 \notin Free'
               /\ bindings'[1].prefix = "xml" /\ bindings'[1].uri = "XML"
    <3>1. /\ bindings # <<>> /\ 1 \notin Free /\ 1 \in Root
          /\ bindings[1].prefix = "xml" /\ bindings[1].uri = "XML"
        BY <1>0, <2>1 DEF OwnerInv, Root
    <3>2. 1 \in DOMAIN bindings
        BY <1>5, <3>1
    <3> QED BY <3>1, <3>2, <1>5, <1>8, <1>10, <1>15, SMTT(30)
  <2> QED BY <1>4, <1>14, <1>21, <1>22, <2>1 DEF OwnerInv
<1>24. TextInv'
  <2>1. \A k \in 1 .. m : Text(k)
      BY <1>0, <1>4 DEF TextInv
  <2>2. \A k \in 1 .. m : Text(k)'
      BY <1>2, <1>19, <2>1, TextStays
  <2> QED BY <1>4, <2>2 DEF TextInv
<1>25. ScopeInv'
  <2>1. \A k \in 1 .. m : Hides(k)'
    <3>1. \A k \in 1 .. m : Hides(k)
        BY <1>0, <1>4 DEF ScopeInv
    <3> QED BY <3>1, <1>19, HidesStill
  <2>2. ASSUME NEW p \in PrefixNames
        PROVE  \E l, c : l = Len(tagStack') /\ c = bound'[p] /\ StandsFor(p, l, c)'
    <3>1. PICK c : c = bound'[p]
        OBVIOUS
    <3>2. StandsFor(p, m, c)
      <4>1. CASE \A j \in DOMAIN own : bindings'[own[j]].prefix # p
        <5>1. c = bound[p]
            BY <1>14, <3>1, <4>1
        <5>2. StandsFor(p, n, c)
            BY <1>0, <1>c, <5>1 DEF ScopeInv
        <5>3. ~DeclaredBy(m + 1, p)
            BY <1>5, <1>8, <1>10, <1>e, <4>1 DEF DeclaredBy
        <5> QED BY <1>e, <5>2, <5>3, StandsOn
      <4>2. CASE ~\A j \in DOMAIN own : bindings'[own[j]].prefix # p
        <5>1. PICK j \in DOMAIN own : bindings'[own[j]].prefix = p
            BY <4>2
        <5>2. own[j] \in Owned(n) /\ own[j] \in DOMAIN bindings
            BY <1>5, <1>10
        <5>3. c = bindings[own[j]].prev /\ bindings[own[j]].prefix = p
            BY <1>8, <1>14, <3>1, <5>1, <5>2
        <5>4. StandsFor(bindings[own[j]].prefix, n - 1, bindings[own[j]].prev)
            BY <1>6, <5>2 DEF Hides
        <5> QED BY <5>3, <5>4, <1>d
      <4> QED BY <4>1, <4>2
    <3>3. StandsFor(p, m, c)'
        BY <1>20, <1>e, <3>2
    <3> QED BY <1>4, <3>1, <3>3
  <2> QED BY <1>4, <2>1, <2>2, ScopesOf DEF ScopeInv
<1>26. NameInv'
  <2>1. ASSUME NEW k \in 1 .. m
        PROVE  Named(k)'
    <3>1. Named(k) /\ k \in 0 .. Len(tagStack)
        BY <1>0, <1>4, <1>c, <1>d DEF NameInv
    <3> DEFINE c == tagStack[k].str[1]
    <3>2. CASE c = 0
        BY <1>4, <3>1, <3>2 DEF Named
    <3>3. CASE c # 0
      <4>1. /\ c \in Within(k) /\ tagStack[k].str[2] = bindings[c].block
            /\ tagStack[k].started =
                  Expanded(bindings[c].uri, tagStack[k].tag.name.local, bindings[c].prefix)
          BY <3>1, <3>3 DEF Named
      <4>2. c \in DOMAIN bindings
          BY <1>0, <3>1, <4>1, UsedIs
      <4>3. c \in Within(k)'
        <5>1. \A j \in 1 .. k : Owned(j)' = Owned(j)
            BY <1>c, <1>d, <1>20
        <5> QED BY <1>21, <4>1, <5>1 DEF Within
      <4> QED BY <1>4, <1>8, <3>3, <4>1, <4>2, <4>3 DEF Named
    <3> QED BY <3>2, <3>3
  <2> QED BY <1>4, <2>1 DEF NameInv
<1> QED BY <1>9, <1>17, <1>18, <1>23, <1>24, <1>25, <1>26 DEF AInv

-----------------------------------------------------------------------------
(* The start of an element *)

\* What is made of tag t: w is the work on it, name what it is told as, b the
\* binding that expands the name, and tags the elements around it.
Begun(t, w, b, name, tags) ==
    /\ WorkInv(w) /\ Taken(w) = Declarations(t)
    /\ bindings' \in Seq(Cells) /\ DOMAIN bindings' = DOMAIN w.bindings
    /\ \A c \in DOMAIN w.bindings :
          /\ bindings'[c].prefix = w.bindings[c].prefix /\ bindings'[c].uri = w.bindings[c].uri
          /\ bindings'[c].attId = w.bindings[c].attId /\ bindings'[c].prev = w.bindings[c].prev
    /\ flag' = [a \in AttributeNames |-> 0]
    /\ b \in Nat
    /\ b # 0 => b \in Within(Len(tagStack)) \cup Range(w.own)
    /\ name \in Started
    /\ name = IF b = 0 THEN Plain(t.name)
              ELSE Expanded(bindings'[b].uri, t.name.local, bindings'[b].prefix)
    /\ tags \in Seq(OpenTags) /\ Len(tags) = Len(tagStack)
    /\ \A k \in DOMAIN tagStack :
          /\ tags[k].own = tagStack[k].own /\ tags[k].tag = tagStack[k].tag
          /\ tags[k].started = tagStack[k].started /\ tags[k].str[1] = tagStack[k].str[1]
          /\ tags[k].str[1] # 0 => tags[k].str[2] = bindings'[tags[k].str[1]].block

Pushes(t, w, b, name, tags) ==
    /\ bound' = w.bound /\ freeBindingList' = w.free
    /\ tagStack' = Append(tags, [tag |-> t, own |-> w.own, started |-> name,
                                 str |-> IF b = 0 THEN OwnBuffer
                                         ELSE <<b, bindings'[b].block>>])
PopsAtOnce(w, tags) ==
    LET after == Release(w.own, w.free, w.bound)
    IN /\ bound' = after.bound /\ freeBindingList' = after.free /\ tagStack' = tags

\* The binding of the name of an element is one in scope.
LEMMA NameBinding ==
    ASSUME AttributesAssumption, AInv, NEW w, WorkInv(w), NEW e \in ElementNames,
           NEW b, b = ElementBinding(e, w)
    PROVE  /\ b \in Nat
           /\ b # 0 => b \in Within(Len(tagStack)) \cup Range(w.own)
<1>0. TypeInv /\ OwnerInv /\ ScopeInv /\ w \in Works
    BY DEF AInv, WorkInv
<1>1. CASE ~NS
    BY <1>1 DEF ElementBinding
<1>2. CASE NS
  <2>1. PICK p \in PrefixNames : b = w.bound[p]
    <3>1. ElementPrefix(e) # None => ElementPrefix(e) = e.prefix /\ e.prefix # ""
        BY DEF ElementPrefix
    <3>2. ElementPrefix(e) # None => ElementPrefix(e) \in PrefixNames
        BY <3>1 DEF AttributesAssumption
    <3>3. "" \in PrefixNames
        BY DEF AttributesAssumption
    <3>4. b = IF ElementPrefix(e) # None THEN w.bound[ElementPrefix(e)] ELSE w.bound[""]
        BY <1>2 DEF ElementBinding
    <3> QED BY <3>2, <3>3, <3>4
  <2>2. b \in Nat
      BY <1>0, <2>1 DEF Works
  <2>3. CASE \E i \in DOMAIN w.own : Cell(w, i).prefix = p
    <3>1. PICK i \in DOMAIN w.own : Cell(w, i).prefix = p
        BY <2>3
    <3>2. w.bound[Cell(w, i).prefix] = IF Cell(w, i).uri = "" THEN 0 ELSE w.own[i]
        BY DEF WorkInv
    <3>3. b = 0 \/ b = w.own[i]
        BY <2>1, <3>1, <3>2
    <3>4. w.own[i] \in Range(w.own)
        BY DEF Range
    <3> QED BY <2>2, <3>3, <3>4
  <2>4. CASE ~\E i \in DOMAIN w.own : Cell(w, i).prefix = p
    <3>1. b = bound[p]
        BY <2>1, <2>4 DEF WorkInv
    <3>2. StandsFor(p, Len(tagStack), b)
        BY <1>0, <3>1 DEF ScopeInv
    <3>3. b # 0 => b \in Within(Len(tagStack))
        BY <1>2, <3>2 DEF StandsFor, Within, Root
    <3> QED BY <2>2, <3>3
  <2> QED BY <2>3, <2>4
<1> QED BY <1>1, <1>2

\* A binding of an open tag is not touched, and those of t are known.
LEMMA WorkedOn ==
    ASSUME TypeInv, OwnerInv, NEW w, WorkInv(w)
    PROVE  /\ \A k \in 0 .. Len(tagStack) : \A c \in Within(k) :
                  c \in DOMAIN w.bindings /\ w.bindings[c] = bindings[c] /\ c # 0
           /\ \A c \in Range(w.own) : c \in DOMAIN w.bindings /\ c \in Nat /\ c # 0
           /\ w.bindings \in Seq(Cells)
           /\ DOMAIN bindings \subseteq DOMAIN w.bindings
<1>1. /\ w.bindings \in Seq(Cells) /\ Len(bindings) <= Len(w.bindings)
      /\ \A c \in DOMAIN bindings : c \notin Free => w.bindings[c] = bindings[c]
      /\ \A i \in DOMAIN w.own : w.own[i] \in DOMAIN w.bindings
    BY DEF WorkInv, Works
<1>2. /\ DOMAIN w.bindings = 1 .. Len(w.bindings) /\ Len(w.bindings) \in Nat
      /\ DOMAIN bindings = 1 .. Len(bindings) /\ Len(bindings) \in Nat
    BY <1>1 DEF TypeInv
<1>3. DOMAIN bindings \subseteq DOMAIN w.bindings
    BY <1>1, <1>2
<1>4. ASSUME NEW k \in 0 .. Len(tagStack), NEW c \in Within(k)
      PROVE  c \in DOMAIN w.bindings /\ w.bindings[c] = bindings[c] /\ c # 0
  <2>1. c \in DOMAIN bindings /\ c \notin Free /\ c # 0
      BY UsedIs
  <2> QED BY <2>1, <1>1, <1>3
<1>5. ASSUME NEW c \in Range(w.own)
      PROVE  c \in DOMAIN w.bindings /\ c \in Nat /\ c # 0
    BY <1>1, <1>2 DEF Range
<1> QED BY <1>1, <1>3, <1>4, <1>5

Stopped == /\ UNCHANGED <<flag, bindings, freeBindingList, bound, tagStack, table>>
           /\ code' # "NONE"

\* A start tag is refused, or begins an element as Begun says.
LEMMA StartTagDoes ==
    ASSUME AttributesAssumption, AInv, NEW t \in Tags, NEW empty \in BOOLEAN,
           StartTag(t, empty), setup' = setup
    PROVE  \/ Stopped
           \/ \E w, b, name, tags :
                 /\ Begun(t, w, b, name, tags)
                 /\ IF empty THEN PopsAtOnce(w, tags) ELSE Pushes(t, w, b, name, tags)
<1>0. TypeInv /\ FlagInv /\ DeclaredInv /\ OwnerInv /\ TextInv /\ ScopeInv /\ NameInv
    BY DEF AInv
<1> DEFINE specified == Scanned(t)
           w == Completed(t, specified)
           x == ExpandAll(w)
           b == ElementBinding(t.name, w)
           unbound == ElementPrefix(t.name) # None /\ b = 0
           error == IF w.error # "NONE" THEN w.error
                    ELSE IF x.error # "NONE" THEN x.error
                    ELSE IF unbound THEN "UNBOUND_PREFIX" ELSE "NONE"
           cells == IF b = 0 THEN w.bindings ELSE WriteName(w.bindings, b, t.name)
           moved == [cells EXCEPT ![b].block = 1 - @]
           name  == IF b = 0 THEN Plain(t.name) ELSE cells[b].last
           str   == IF b = 0 THEN OwnBuffer ELSE <<b, bindings'[b].block>>
           tag   == [tag |-> t, str |-> str, own |-> w.own, started |-> name]
           follow(grows) == [k \in DOMAIN tagStack |->
                    IF grows /\ tagStack[k].str = <<b, cells[b].block>>
                    THEN [tagStack[k] EXCEPT !.str = <<b, moved[b].block>>] ELSE tagStack[k]]
<1>1. CASE error # "NONE"
  <2>1. /\ UNCHANGED <<flag, bindings, freeBindingList, bound, tagStack, table>>
        /\ code' = error
      BY <1>1, Zenon DEF StartTag
  <2> QED BY <1>1, <2>1 DEF Stopped
<1>2. CASE error = "NONE"
  <2>1. w.error = "NONE" /\ x.error = "NONE"
    <3> HIDE DEF w, x, unbound
    <3> QED BY <1>2
  <2>2. PICK grows \in {FALSE, b # 0} :
          /\ bindings' = IF grows THEN moved ELSE cells
          /\ flag' = ClearFlags(w, x)
          /\ IF empty
             THEN /\ bound' = Release(w.own, w.free, w.bound).bound
                  /\ freeBindingList' = Release(w.own, w.free, w.bound).free
                  /\ tagStack' = follow(grows)
             ELSE /\ bound' = w.bound /\ freeBindingList' = w.free
                  /\ tagStack' = Append(follow(grows), tag)
      BY <1>2, Zenon DEF StartTag
  <2>3. DefaultInv(t, Len(defaultAtts[t.name]), w)
      BY <1>0, DefaultDone
  <2>4. WorkInv(w) /\ Taken(w) = Declarations(t)
      BY <1>0, <2>1, <2>3, TakenIsWhole, SMTT(30) DEF DefaultInv
  <2>5. flag' = [a \in AttributeNames |-> 0]
    <3>1. ExpandInv(w, Len(w.atts), x)
        BY <2>4, ExpandDone DEF WorkInv
    <3> QED BY <1>0, <2>1, <2>2, <2>3, <3>1, FlagsCleared
  <2>6. t.name \in ElementNames
      BY AttsOf
  <2>7. /\ b \in Nat
        /\ b # 0 => b \in Within(Len(tagStack)) \cup Range(w.own)
      BY <2>4, <2>6, NameBinding
  <2> HIDE DEF w, x, b
  <2>8. /\ \A k \in 0 .. Len(tagStack) : \A c \in Within(k) :
              c \in DOMAIN w.bindings /\ w.bindings[c] = bindings[c] /\ c # 0
        /\ \A c \in Range(w.own) : c \in DOMAIN w.bindings /\ c \in Nat /\ c # 0
        /\ w.bindings \in Seq(Cells)
      BY <1>0, <2>4, WorkedOn
  <2>9. b # 0 => b \in DOMAIN w.bindings
    <3>1. Len(tagStack) \in 0 .. Len(tagStack)
        BY <1>0, TagsOf
    <3> QED BY <2>7, <2>8, <3>1
  <2>10. /\ cells \in Seq(Cells) /\ DOMAIN cells = DOMAIN w.bindings
         /\ \A c \in DOMAIN w.bindings :
              /\ cells[c].prefix = w.bindings[c].prefix /\ cells[c].uri = w.bindings[c].uri
              /\ cells[c].attId = w.bindings[c].attId /\ cells[c].prev = w.bindings[c].prev
              /\ cells[c].block = w.bindings[c].block
         /\ b # 0 => /\ cells[b].last = Expanded(cells[b].uri, t.name.local, cells[b].prefix)
                     /\ cells[b].last \in Started
    <3>1. CASE b = 0
        BY <2>8, <3>1
    <3>2. CASE b # 0
      <4>1. cells = WriteName(w.bindings, b, t.name)
          BY <3>2
      <4> HIDE DEF cells
      <4>2. /\ cells \in Seq(Cells) /\ DOMAIN cells = DOMAIN w.bindings
            /\ cells[b].last = Expanded(w.bindings[b].uri, t.name.local, w.bindings[b].prefix)
            /\ cells[b].last \in Started
          BY <2>6, <2>8, <2>9, <3>2, <4>1, NameWritten
      <4>3. \A c \in DOMAIN w.bindings :
              /\ cells[c].prefix = w.bindings[c].prefix /\ cells[c].uri = w.bindings[c].uri
              /\ cells[c].attId = w.bindings[c].attId /\ cells[c].prev = w.bindings[c].prev
              /\ cells[c].block = w.bindings[c].block
          BY <2>6, <2>8, <2>9, <3>2, <4>1, NameWritten
      <4> QED BY <2>9, <4>2, <4>3
    <3> QED BY <3>1, <3>2
  <2> HIDE DEF cells
  <2>11. DOMAIN cells = 1 .. Len(cells) /\ \A c \in DOMAIN cells : cells[c] \in Cells
    <3>1. DOMAIN cells = 1 .. Len(cells)
        BY <2>10
    <3> QED BY <2>10, <3>1, ElementOfSeq
  <2>12. grows = FALSE \/ (grows = TRUE /\ b # 0)
    <3>1. (b # 0) \in BOOLEAN
        OBVIOUS
    <3> QED BY <2>2, <3>1
  <2>13. b # 0 => /\ moved \in Seq(Cells) /\ DOMAIN moved = DOMAIN cells
                  /\ \A c \in DOMAIN cells :
                        /\ moved[c].prefix = cells[c].prefix /\ moved[c].uri = cells[c].uri
                        /\ moved[c].attId = cells[c].attId /\ moved[c].prev = cells[c].prev
                        /\ c # b => moved[c].block = cells[c].block
    <3> SUFFICES ASSUME b # 0
                 PROVE  /\ moved \in Seq(Cells) /\ DOMAIN moved = DOMAIN cells
                        /\ \A c \in DOMAIN cells :
                              /\ moved[c].prefix = cells[c].prefix /\ moved[c].uri = cells[c].uri
                              /\ moved[c].attId = cells[c].attId /\ moved[c].prev = cells[c].prev
                              /\ c # b => moved[c].block = cells[c].block
        OBVIOUS
    <3> DEFINE cell == [cells[b] EXCEPT !.block = 1 - @]
    <3>1. b \in DOMAIN cells /\ cells[b] \in Cells /\ b \in 1 .. Len(cells)
        BY <2>9, <2>10, <2>11
    <3>2. cell \in Cells /\ cell.prefix = cells[b].prefix /\ cell.uri = cells[b].uri
          /\ cell.attId = cells[b].attId /\ cell.prev = cells[b].prev
        BY <3>1 DEF Cells
    <3>3. moved = [cells EXCEPT ![b] = cell]
        OBVIOUS
    <3> HIDE DEF cell, moved
    <3>4. /\ moved \in Seq(Cells) /\ Len(moved) = Len(cells)
          /\ \A c \in 1 .. Len(cells) : moved[c] = IF c = b THEN cell ELSE cells[c]
        BY <2>10, <3>1, <3>2, <3>3, ExceptSeq
    <3>5. DOMAIN moved = DOMAIN cells
        BY <2>10, <3>4
    <3> QED BY <2>11, <3>2, <3>4, <3>5
  <2> HIDE DEF moved
  <2>14. /\ bindings' \in Seq(Cells) /\ DOMAIN bindings' = DOMAIN w.bindings
         /\ \A c \in DOMAIN w.bindings :
              /\ bindings'[c].prefix = w.bindings[c].prefix /\ bindings'[c].uri = w.bindings[c].uri
              /\ bindings'[c].attId = w.bindings[c].attId /\ bindings'[c].prev = w.bindings[c].prev
              /\ (c # b \/ grows = FALSE) => bindings'[c].block = w.bindings[c].block
         /\ grows = TRUE => bindings' = moved
    <3>1. CASE grows = FALSE
        BY <2>2, <2>10, <3>1
    <3>2. CASE grows = TRUE /\ b # 0
        BY <2>2, <2>10, <2>13, <3>2
    <3> QED BY <2>12, <3>1, <3>2
  <2>15. name \in Started /\ name = IF b = 0 THEN Plain(t.name)
                              ELSE Expanded(bindings'[b].uri, t.name.local, bindings'[b].prefix)
    <3>1. CASE b = 0
      <4>1. t.name.local \in Locals /\ t.name.prefix \in PrefixNames
          BY <2>6 DEF Locals, AttributesAssumption
      <4> QED BY <3>1, <4>1 DEF Plain, Started
    <3>2. CASE b # 0
        BY <2>9, <2>10, <2>14, <3>2
    <3> QED BY <3>1, <3>2
  <2> DEFINE tags == follow(grows)
  <2>16. /\ tags \in Seq(OpenTags) /\ Len(tags) = Len(tagStack)
         /\ \A k \in DOMAIN tagStack :
               /\ tags[k].own = tagStack[k].own /\ tags[k].tag = tagStack[k].tag
               /\ tags[k].started = tagStack[k].started /\ tags[k].str[1] = tagStack[k].str[1]
               /\ tags[k].str[1] # 0 => tags[k].str[2] = bindings'[tags[k].str[1]].block
    <3>1. /\ tagStack \in Seq(OpenTags) /\ Len(tagStack) \in Nat
          /\ DOMAIN tagStack = 1 .. Len(tagStack) /\ DOMAIN tags = 1 .. Len(tagStack)
        BY <1>0, TagsOf DEF TypeInv
    <3>2. ASSUME NEW k \in DOMAIN tagStack
          PROVE  /\ tags[k] \in OpenTags
                 /\ tags[k].own = tagStack[k].own /\ tags[k].tag = tagStack[k].tag
                 /\ tags[k].started = tagStack[k].started /\ tags[k].str[1] = tagStack[k].str[1]
                 /\ tags[k].str[1] # 0 => tags[k].str[2] = bindings'[tags[k].str[1]].block
      <4> DEFINE tk == tagStack[k]
                 c == tk.str[1]
      <4>1. tk \in OpenTags /\ tk.str \in Nat \X Nat /\ c \in Nat /\ tk.str = <<c, tk.str[2]>>
        <5>1. tk \in OpenTags
            BY <3>1, ElementOfSeq
        <5> QED BY <5>1 DEF OpenTags
      <4>2. Named(k) /\ k \in 0 .. Len(tagStack)
          BY <1>0, <3>1 DEF NameInv
      <4>3. c # 0 => /\ c \in DOMAIN w.bindings /\ w.bindings[c] = bindings[c]
                     /\ tk.str[2] = bindings[c].block /\ cells[c].block = bindings[c].block
        <5>1. c # 0 => c \in Within(k) /\ tk.str[2] = bindings[c].block
            BY <4>2 DEF Named
        <5> QED BY <4>2, <5>1, <2>8, <2>10
      <4>4. tags[k] = IF grows /\ tk.str = <<b, cells[b].block>>
                      THEN [tk EXCEPT !.str = <<b, moved[b].block>>] ELSE tk
          OBVIOUS
      <4> HIDE DEF tags, tk, c
      <4>5. CASE grows = FALSE \/ c = 0 \/ c # b
        <5>1. tags[k] = tk
            BY <2>12, <4>1, <4>4, <4>5
        <5>2. c # 0 => tk.str[2] = bindings'[c].block
            BY <2>14, <4>3, <4>5
        <5> QED BY <4>1, <5>1, <5>2 DEF tk, c
      <4>6. CASE grows = TRUE /\ c # 0 /\ c = b
        <5>1. tk.str = <<b, cells[b].block>>
            BY <4>1, <4>3, <4>6
        <5>2. tags[k] = [tk EXCEPT !.str = <<b, moved[b].block>>]
            BY <4>4, <4>6, <5>1
        <5>3. moved[b].block = bindings'[b].block /\ moved[b].block \in Nat
          <6>1. b \in DOMAIN moved /\ DOMAIN moved = 1 .. Len(moved) /\ moved \in Seq(Cells)
              BY <2>9, <2>10, <2>13, <4>6
          <6>2. moved[b] \in Cells
              BY <6>1, ElementOfSeq
          <6> QED BY <2>14, <4>6, <6>2 DEF Cells
        <5>4. <<b, moved[b].block>> \in Nat \X Nat
            BY <2>7, <5>3
        <5>5. /\ tags[k] \in OpenTags /\ tags[k].own = tk.own /\ tags[k].tag = tk.tag
              /\ tags[k].started = tk.started /\ tags[k].str = <<b, moved[b].block>>
            BY <4>1, <5>2, <5>4 DEF OpenTags
        <5> QED BY <4>6, <5>3, <5>5 DEF tk, c
      <4> QED BY <2>12, <4>5, <4>6
    <3>3. tags \in Seq(OpenTags) /\ Len(tags) = Len(tagStack)
      <4>1. tags \in [1 .. Len(tagStack) -> OpenTags]
        <5> HIDE DEF follow
        <5>1. \A k \in 1 .. Len(tagStack) : tags[k] \in OpenTags
            BY <3>1, <3>2
        <5> QED BY <3>1, <5>1 DEF follow
      <4> HIDE DEF tags
      <4> QED BY <3>1, <4>1, SeqDef
    <3> HIDE DEF tags
    <3> QED BY <3>2, <3>3
  <2> HIDE DEF tags, name
  <2>17. Begun(t, w, b, name, tags)
      BY <2>4, <2>5, <2>7, <2>14, <2>15, <2>16 DEF Begun
  <2>18. CASE empty
    <3>1. PopsAtOnce(w, tags)
      <4> USE DEF tags
      <4> HIDE DEF follow
      <4> QED BY <2>2, <2>18 DEF PopsAtOnce
    <3> QED BY <2>17, <2>18, <3>1
  <2>19. CASE ~empty
    <3>1. Pushes(t, w, b, name, tags)
      <4>1. tagStack' = Append(tags, tag)
        <5> USE DEF tags
        <5> HIDE DEF follow, tag
        <5> QED BY <2>2, <2>19
      <4>2. bound' = w.bound /\ freeBindingList' = w.free
          BY <2>2, <2>19
      <4>3. tag = [tag |-> t, own |-> w.own, started |-> name,
                   str |-> IF b = 0 THEN OwnBuffer ELSE <<b, bindings'[b].block>>]
          OBVIOUS
      <4> HIDE DEF tag
      <4> QED BY <4>1, <4>2, <4>3 DEF Pushes
    <3> QED BY <2>17, <2>19, <3>1
  <2> QED BY <2>18, <2>19
<1> QED BY <1>1, <1>2

\* What holds of both: the tags around are as before, and what t has taken.
LEMMA BegunKeeps ==
    ASSUME AttributesAssumption, AInv, NEW t \in Tags, NEW w, NEW b, NEW name, NEW tags,
           Begun(t, w, b, name, tags),
           setup' = setup, declared' = declared,
           NEW m \in Nat, m = Len(tagStack),
           m <= Len(tagStack'), \A k \in 1 .. m : tagStack'[k] = tags[k],
           \A i \in DOMAIN freeBindingList' :
              freeBindingList'[i] \in Free \/ freeBindingList'[i] \in Range(w.own)
    PROVE  /\ StackOf(m) /\ CellsOf(m)
           /\ \A k \in 1 .. m : Text(k)' /\ Hides(k)' /\ Named(k)'
           /\ \A k \in 1 .. m : Owned(k) \subseteq DOMAIN bindings' \ (Free' \cup Root')
           /\ \A k \in 1 .. m : Owned(k) \cap Range(w.own) = {}
           /\ \A k \in 1 .. m : \A i, j \in DOMAIN tagStack'[k].own :
                bindings'[tagStack'[k].own[i]].prefix = bindings'[tagStack'[k].own[j]].prefix => i = j
           /\ NS' => /\ bindings' # <<>> /\ 1 \notin Free'
                     /\ bindings'[1].prefix = "xml" /\ bindings'[1].uri = "XML"
           /\ \A p, c : StandsFor(p, m, c) => StandsFor(p, m, c)'
           /\ \A i \in DOMAIN w.own : w.own[i] \in DOMAIN bindings' /\ w.own[i] \notin Root
<1>0. TypeInv /\ FlagInv /\ DeclaredInv /\ OwnerInv /\ TextInv /\ ScopeInv /\ NameInv
    BY DEF AInv
<1>1. /\ WorkInv(w) /\ Taken(w) = Declarations(t)
      /\ bindings' \in Seq(Cells) /\ DOMAIN bindings' = DOMAIN w.bindings
      /\ \A c \in DOMAIN w.bindings :
            /\ bindings'[c].prefix = w.bindings[c].prefix /\ bindings'[c].uri = w.bindings[c].uri
            /\ bindings'[c].attId = w.bindings[c].attId /\ bindings'[c].prev = w.bindings[c].prev
      /\ tags \in Seq(OpenTags) /\ Len(tags) = m
      /\ \A k \in DOMAIN tagStack :
            /\ tags[k].own = tagStack[k].own /\ tags[k].tag = tagStack[k].tag
            /\ tags[k].started = tagStack[k].started /\ tags[k].str[1] = tagStack[k].str[1]
            /\ tags[k].str[1] # 0 => tags[k].str[2] = bindings'[tags[k].str[1]].block
    BY DEF Begun
<1>2. DOMAIN tagStack = 1 .. m /\ \A k \in 1 .. m : k \in 0 .. Len(tagStack)
    BY <1>0, TagsOf
<1>3. \A k \in 0 .. Len(tagStack) : \A c \in Within(k) :
          c \in DOMAIN w.bindings /\ w.bindings[c] = bindings[c] /\ c # 0
    BY <1>0, <1>1, WorkedOn
<1>4. \A k \in 1 .. m : \A c \in Owned(k) :
          c \in DOMAIN w.bindings /\ w.bindings[c] = bindings[c] /\ c # 0
  <2>1. \A k \in 1 .. m : \A c \in Owned(k) : k \in 1 .. k /\ c \in Within(k)
      BY DEF Within
  <2> QED BY <1>2, <1>3, <2>1
<1>5. StackOf(m)
    BY <1>1, <1>2 DEF StackOf
<1>6. CellsOf(m)
    BY <1>1, <1>4 DEF CellsOf
<1>7. /\ \A k \in 1 .. m : Owned(k)' = Owned(k)
      /\ \A k \in 0 .. m : \A p, c : StandsFor(p, k, c) => StandsFor(p, k, c)'
    BY <1>5, <1>6, StandsStill
<1>8. Root' = Root /\ NS' = NS
    BY SaidForAll
<1>9. \A k \in 1 .. m : Text(k)' /\ Hides(k)'
  <2>1. \A k \in 1 .. m : Text(k) /\ Hides(k)
      BY <1>0, <1>2 DEF TextInv, ScopeInv
  <2> QED BY <1>5, <1>6, <2>1, TextStays, HidesStill
<1>10. \A c \in Free' : c \in Free \/ c \in Range(w.own)
    BY DEF Free, Range
<1>11. \A i \in DOMAIN w.own : /\ w.own[i] \in DOMAIN w.bindings
                               /\ w.own[i] \in Free \/ w.own[i] > Len(bindings)
    BY <1>1 DEF WorkInv
<1>12. \A c \in Range(w.own) : c \in Free \/ c > Len(bindings)
    BY <1>11 DEF Range
<1>13. bindings \in Seq(Cells) /\ DOMAIN bindings = 1 .. Len(bindings) /\ Len(bindings) \in Nat
    BY <1>0 DEF TypeInv
<1>14. \A c \in DOMAIN bindings : c \notin Free => c \notin Range(w.own)
    BY <1>12, <1>13
<1>15. \A k \in 1 .. m : /\ Owned(k) \subseteq DOMAIN bindings \ (Free \cup Root)
                         /\ \A i, j \in DOMAIN tagStack[k].own :
                              bindings[tagStack[k].own[i]].prefix = bindings[tagStack[k].own[j]].prefix
                                 => i = j
  <2>1. \A k \in 1 .. m : OwnsAlone(k)
      BY <1>0, <1>2 DEF OwnerInv
  <2> QED BY <2>1 DEF OwnsAlone
<1>16. \A k \in 1 .. m : Owned(k) \cap Range(w.own) = {}
    BY <1>14, <1>15
<1>17. \A k \in 1 .. m : Owned(k) \subseteq DOMAIN bindings' \ (Free' \cup Root')
    BY <1>1, <1>4, <1>8, <1>10, <1>15, <1>16
<1>18. ASSUME NEW k \in 1 .. m
       PROVE  \A i, j \in DOMAIN tagStack'[k].own :
                bindings'[tagStack'[k].own[i]].prefix = bindings'[tagStack'[k].own[j]].prefix => i = j
  <2>1. PICK s : s = tagStack[k].own /\ s = tagStack'[k].own
      BY <1>1, <1>2
  <2>2. \A i, j \in DOMAIN s : bindings[s[i]].prefix = bindings[s[j]].prefix => i = j
      BY <1>15, <2>1
  <2>3. \A i \in DOMAIN s : s[i] \in Owned(k)
      BY <1>0, <1>2, <2>1, TagsOf
  <2>4. \A i \in DOMAIN s : bindings'[s[i]].prefix = bindings[s[i]].prefix
      BY <1>1, <1>4, <2>3
  <2> QED BY <2>1, <2>2, <2>4
<1>19. ASSUME NS'
       PROVE  /\ bindings' # <<>> /\ 1 \notin Free'
              /\ bindings'[1].prefix = "xml" /\ bindings'[1].uri = "XML"
  <2>1. /\ bindings # <<>> /\ 1 \notin Free
        /\ bindings[1].prefix = "xml" /\ bindings[1].uri = "XML"
      BY <1>0, <1>8, <1>19 DEF OwnerInv
  <2>2. 1 \in DOMAIN bindings
      BY <1>13, <2>1
  <2>3. 1 \notin Range(w.own)
      BY <1>14, <2>1, <2>2
  <2>4. 1 \in DOMAIN w.bindings /\ w.bindings[1] = bindings[1]
    <3>1. 1 \in Within(m) /\ m \in 0 .. Len(tagStack)
        BY <1>8, <1>19 DEF Within, Root
    <3> QED BY <1>3, <3>1
  <2>5. 1 \in DOMAIN bindings' /\ DOMAIN bindings' = 1 .. Len(bindings')
      BY <1>1, <2>4
  <2> QED BY <1>1, <1>10, <2>1, <2>3, <2>4, <2>5
<1>20. ASSUME NEW k \in 1 .. m
       PROVE  Named(k)'
  <2>1. Named(k)
      BY <1>0, <1>2 DEF NameInv
  <2>2. tagStack'[k] = tags[k]
      OBVIOUS
  <2> DEFINE c == tagStack[k].str[1]
  <2>3. /\ tagStack'[k].str[1] = c /\ tagStack'[k].tag = tagStack[k].tag
        /\ tagStack'[k].started = tagStack[k].started
        /\ c # 0 => tagStack'[k].str[2] = bindings'[c].block
      BY <1>1, <1>2, <2>2
  <2>4. c = 0 => tagStack[k].started = Plain(tagStack[k].tag.name)
      BY <2>1 DEF Named
  <2>5. c # 0 => /\ c \in Within(k)
                 /\ tagStack[k].started =
                      Expanded(bindings[c].uri, tagStack[k].tag.name.local, bindings[c].prefix)
      BY <2>1 DEF Named
  <2> HIDE DEF c
  <2>6. CASE c = 0
      BY <2>3, <2>4, <2>6 DEF Named
  <2>7. CASE c # 0
    <3>1. c \in Within(k)'
      <4>1. \A j \in 1 .. k : Owned(j)' = Owned(j)
          BY <1>7
      <4> QED BY <1>8, <2>5, <2>7, <4>1 DEF Within
    <3>2. bindings'[c].uri = bindings[c].uri /\ bindings'[c].prefix = bindings[c].prefix
        BY <1>1, <1>2, <1>3, <2>5, <2>7
    <3> QED BY <2>3, <2>5, <2>7, <3>1, <3>2 DEF Named
  <2> QED BY <2>6, <2>7
<1>21. ASSUME NEW i \in DOMAIN w.own
       PROVE  w.own[i] \in DOMAIN bindings' /\ w.own[i] \notin Root
  <2>1. w.own[i] \in DOMAIN bindings'
      BY <1>1, <1>11
  <2>2. ASSUME w.own[i] \in Root PROVE FALSE
    <3>1. NS /\ w.own[i] = 1
        BY <2>2 DEF Root
    <3>2. bindings # <<>> /\ 1 \notin Free
        BY <1>0, <3>1 DEF OwnerInv
    <3>3. 1 \in DOMAIN bindings
        BY <1>13, <3>2
    <3>4. w.own[i] \in Range(w.own)
        BY DEF Range
    <3> QED BY <1>14, <3>1, <3>2, <3>3, <3>4
  <2> QED BY <2>1, <2>2
<1> QED BY <1>5, <1>6, <1>7, <1>9, <1>16, <1>17, <1>18, <1>19, <1>20, <1>21

\* The bindings that t has taken, as they are now.
Now(w, i) == bindings'[w.own[i]]

\* They are the declarations of t, and bound as such.
LEMMA TakenAre ==
    ASSUME AttributesAssumption, AInv, NEW t \in Tags, NEW w, NEW b, NEW name, NEW tags,
           Begun(t, w, b, name, tags), setup' = setup
    PROVE  /\ w \in Works /\ w.own \in Seq(Nat)
           /\ \A i \in DOMAIN w.own :
                /\ w.own[i] \in DOMAIN bindings' /\ Now(w, i) \in Cells
                /\ Now(w, i).attId \in AttributeNames
                /\ IsXmlns(Now(w, i).attId)
                /\ Now(w, i).prefix = PrefixOf(Now(w, i).attId)
                /\ Now(w, i).prefix \in PrefixNames
                /\ Now(w, i).prev = bound[Now(w, i).prefix]
                /\ Now(w, i).uri = "" => Now(w, i).prefix = ""
                /\ w.bound[Now(w, i).prefix]
                      = IF Now(w, i).uri = "" THEN 0 ELSE w.own[i]
                /\ \A j \in DOMAIN w.free : w.own[i] # w.free[j]
           /\ \A i, j \in DOMAIN w.own :
                Now(w, i).prefix = Now(w, j).prefix => i = j
           /\ {<<bindings'[c].attId, bindings'[c].uri>> : c \in Range(w.own)} = Declarations(t)
<1>1. /\ WorkInv(w) /\ Taken(w) = Declarations(t)
      /\ bindings' \in Seq(Cells) /\ DOMAIN bindings' = DOMAIN w.bindings
      /\ \A c \in DOMAIN w.bindings :
            /\ bindings'[c].prefix = w.bindings[c].prefix /\ bindings'[c].uri = w.bindings[c].uri
            /\ bindings'[c].attId = w.bindings[c].attId /\ bindings'[c].prev = w.bindings[c].prev
    BY DEF Begun
<1>2. w \in Works /\ w.own \in Seq(Nat)
    BY <1>1 DEF WorkInv, Works
<1>3. DOMAIN bindings' = 1 .. Len(bindings')
    BY <1>1
<1>4. TypeInv
    BY DEF AInv
<1>5. ASSUME NEW i \in DOMAIN w.own
      PROVE  /\ w.own[i] \in DOMAIN bindings' /\ Now(w, i) \in Cells
             /\ Now(w, i).attId = Cell(w, i).attId
             /\ Now(w, i).attId \in AttributeNames
             /\ IsXmlns(Now(w, i).attId)
             /\ Now(w, i).prefix = Cell(w, i).prefix
             /\ Now(w, i).prefix = PrefixOf(Now(w, i).attId)
             /\ Now(w, i).prefix \in PrefixNames
             /\ Now(w, i).prev = bound[Now(w, i).prefix]
             /\ Now(w, i).uri = Cell(w, i).uri
             /\ Now(w, i).uri = "" => Now(w, i).prefix = ""
             /\ w.bound[Now(w, i).prefix]
                   = IF Now(w, i).uri = "" THEN 0 ELSE w.own[i]
             /\ \A j \in DOMAIN w.free : w.own[i] # w.free[j]
  <2>1. /\ w.own[i] \in DOMAIN w.bindings
        /\ \A j \in DOMAIN w.free : w.own[i] # w.free[j]
        /\ IsXmlns(Cell(w, i).attId) /\ Cell(w, i).attId \in AttributeNames
        /\ Cell(w, i).prefix = PrefixOf(Cell(w, i).attId)
        /\ Cell(w, i).prev = bound[Cell(w, i).prefix]
        /\ Cell(w, i).uri = "" => Cell(w, i).prefix = ""
        /\ w.bound[Cell(w, i).prefix] = IF Cell(w, i).uri = "" THEN 0 ELSE w.own[i]
      BY <1>1, ZenonT(40) DEF WorkInv
  <2>2. /\ Now(w, i).attId = Cell(w, i).attId /\ Now(w, i).uri = Cell(w, i).uri
        /\ Now(w, i).prefix = Cell(w, i).prefix
        /\ Now(w, i).prev = Cell(w, i).prev
      BY <1>1, <2>1 DEF Cell, Now
  <2>3. w.own[i] \in DOMAIN bindings' /\ Now(w, i) \in Cells
      BY <1>1, <1>3, <2>1, ElementOfSeq DEF Now
  <2>4. Now(w, i).prefix \in PrefixNames
      BY <2>3 DEF Cells
  <2> QED BY <2>1, <2>2, <2>3, <2>4
<1>6. ASSUME NEW i \in DOMAIN w.own, NEW j \in DOMAIN w.own,
             Now(w, i).prefix = Now(w, j).prefix
      PROVE  i = j
  <2>1. \A k, l \in DOMAIN w.own : Cell(w, k).attId = Cell(w, l).attId => k = l
      BY <1>1 DEF WorkInv
  <2>2. /\ Cell(w, i).attId \in AttributeNames /\ IsXmlns(Cell(w, i).attId)
        /\ Cell(w, j).attId \in AttributeNames /\ IsXmlns(Cell(w, j).attId)
        /\ PrefixOf(Cell(w, j).attId) = PrefixOf(Cell(w, i).attId)
    <3>1. /\ Now(w, i).attId = Cell(w, i).attId /\ Now(w, i).attId \in AttributeNames
          /\ IsXmlns(Now(w, i).attId) /\ Now(w, i).prefix = PrefixOf(Now(w, i).attId)
        BY <1>5
    <3>2. /\ Now(w, j).attId = Cell(w, j).attId /\ Now(w, j).attId \in AttributeNames
          /\ IsXmlns(Now(w, j).attId) /\ Now(w, j).prefix = PrefixOf(Now(w, j).attId)
        BY <1>5
    <3> QED BY <3>1, <3>2, <1>6
  <2>3. Cell(w, i).attId = Cell(w, j).attId
      BY <1>4, <2>2, PrefixTells
  <2> QED BY <2>1, <2>3
<1>8. {<<bindings'[c].attId, bindings'[c].uri>> : c \in Range(w.own)} = Taken(w)
  <2>1. ASSUME NEW i \in DOMAIN w.own
        PROVE  <<bindings'[w.own[i]].attId, bindings'[w.own[i]].uri>> = <<Cell(w, i).attId, Cell(w, i).uri>>
      BY <1>5 DEF Now
  <2>2. ASSUME NEW c \in Range(w.own)
        PROVE  <<bindings'[c].attId, bindings'[c].uri>> \in Taken(w)
      BY <2>1 DEF Taken, Range
  <2>3. ASSUME NEW x \in Taken(w)
        PROVE  \E c \in Range(w.own) : x = <<bindings'[c].attId, bindings'[c].uri>>
    <3>1. PICK i \in DOMAIN w.own : x = <<Cell(w, i).attId, Cell(w, i).uri>>
        BY DEF Taken
    <3>2. w.own[i] \in Range(w.own)
        BY DEF Range
    <3> QED BY <2>1, <3>1, <3>2
  <2> QED BY <2>2, <2>3
<1> QED BY <1>1, <1>2, <1>5, <1>6, <1>8

\* A prefix that t does not declare is bound as before.
LEMMA OthersAre ==
    ASSUME NEW t, NEW w, NEW b, NEW name, NEW tags, Begun(t, w, b, name, tags),
           NEW p \in PrefixNames, \A i \in DOMAIN w.own : Now(w, i).prefix # p
    PROVE  w.bound[p] = bound[p]
<1>1. /\ WorkInv(w)
      /\ \A c \in DOMAIN w.bindings : bindings'[c].prefix = w.bindings[c].prefix
    BY DEF Begun
<1>2. ASSUME NEW i \in DOMAIN w.own PROVE Cell(w, i).prefix # p
  <2>1. w.own[i] \in DOMAIN w.bindings
      BY <1>1 DEF WorkInv
  <2>2. Now(w, i).prefix = Cell(w, i).prefix
      BY <1>1, <2>1 DEF Now, Cell
  <2> QED BY <2>2
<1> QED BY <1>1, <1>2 DEF WorkInv

\* An element without content keeps the invariant: it ends at once.
LEMMA EmptyKeeps ==
    ASSUME AttributesAssumption, AInv, NEW t \in Tags, NEW w, NEW b, NEW name, NEW tags,
           Begun(t, w, b, name, tags), PopsAtOnce(w, tags),
           UNCHANGED <<setup, defaultAtts, maybeTokenized, declared>>, opened' = opened + 1
    PROVE  AInv'
<1>0. TypeInv /\ FlagInv /\ DeclaredInv /\ OwnerInv /\ TextInv /\ ScopeInv /\ NameInv
    BY SMTT(30) DEF AInv
<1>1. PICK m \in Nat : m = Len(tagStack)
    BY <1>0, TagsOf
<1>2. /\ WorkInv(w) /\ tags \in Seq(OpenTags) /\ Len(tags) = m
      /\ bindings' \in Seq(Cells) /\ flag' = [a \in AttributeNames |-> 0]
    BY <1>1 DEF Begun
<1>3. tagStack' = tags /\ DOMAIN tagStack' = 1 .. m /\ Len(tagStack') = m
    BY <1>2 DEF PopsAtOnce
<1> DEFINE after == Release(w.own, w.free, w.bound)
<1>4. bound' = after.bound /\ freeBindingList' = after.free
    BY DEF PopsAtOnce
<1>5. /\ w \in Works /\ w.own \in Seq(Nat)
      /\ \A i \in DOMAIN w.own :
           /\ w.own[i] \in DOMAIN bindings' /\ Now(w, i) \in Cells
           /\ Now(w, i).prefix \in PrefixNames
           /\ Now(w, i).prev = bound[Now(w, i).prefix]
           /\ \A j \in DOMAIN w.free : w.own[i] # w.free[j]
      /\ \A i, j \in DOMAIN w.own : Now(w, i).prefix = Now(w, j).prefix => i = j
      /\ \A p \in PrefixNames :
           (\A i \in DOMAIN w.own : Now(w, i).prefix # p) => w.bound[p] = bound[p]
  <2>1. w \in Works /\ w.own \in Seq(Nat)
      BY TakenAre
  <2>2. ASSUME NEW i \in DOMAIN w.own
        PROVE  /\ w.own[i] \in DOMAIN bindings' /\ Now(w, i) \in Cells
               /\ Now(w, i).prefix \in PrefixNames
               /\ Now(w, i).prev = bound[Now(w, i).prefix]
               /\ \A j \in DOMAIN w.free : w.own[i] # w.free[j]
      BY TakenAre
  <2>3. \A i, j \in DOMAIN w.own : Now(w, i).prefix = Now(w, j).prefix => i = j
      BY TakenAre
  <2>4. ASSUME NEW p \in PrefixNames, \A i \in DOMAIN w.own : Now(w, i).prefix # p
        PROVE  w.bound[p] = bound[p]
      BY <2>4, OthersAre
  <2> QED BY <2>1, <2>2, <2>3, <2>4
<1>6. /\ \A i, j \in DOMAIN w.free : w.free[i] = w.free[j] => i = j
      /\ \A i \in DOMAIN w.free : w.free[i] \in Free
    BY <1>2 DEF WorkInv
<1>7. w.free \in Seq(Nat) /\ w.bound \in [PrefixNames -> Nat] /\ DOMAIN w.own = 1 .. Len(w.own)
    BY <1>5 DEF Works
<1>8. Leaving(w.own, w.free, w.bound, bindings')
    BY <1>5, <1>6, <1>7 DEF Leaving, Cells, Now
<1> HIDE DEF after
<1>9. LeftInv(w.own, w.free, w.bound, bindings', Len(w.own), after)
    BY <1>8, LeftDone DEF after
<1>10. /\ freeBindingList' \in Seq(Nat) /\ bound' \in [PrefixNames -> Nat]
       /\ \A i, j \in DOMAIN freeBindingList' : freeBindingList'[i] = freeBindingList'[j] => i = j
       /\ \A k \in DOMAIN freeBindingList' :
             \/ \E j \in DOMAIN w.free : freeBindingList'[k] = w.free[j]
             \/ \E j \in DOMAIN w.own : freeBindingList'[k] = w.own[j]
       /\ \A j \in DOMAIN w.own : bound'[Now(w, j).prefix] = Now(w, j).prev
       /\ \A p \in PrefixNames :
             (\A j \in DOMAIN w.own : Now(w, j).prefix # p) => bound'[p] = w.bound[p]
    BY <1>4, <1>7, <1>9 DEF LeftInv, Now
<1>11. \A k \in DOMAIN freeBindingList' :
          freeBindingList'[k] \in Free \/ freeBindingList'[k] \in Range(w.own)
    BY <1>6, <1>10 DEF Range
<1>12. ASSUME NEW p \in PrefixNames PROVE bound'[p] = bound[p]
  <2>1. CASE \A i \in DOMAIN w.own : Now(w, i).prefix # p
      BY <2>1, <1>5, <1>10
  <2>2. CASE ~\A i \in DOMAIN w.own : Now(w, i).prefix # p
    <3>1. PICK i \in DOMAIN w.own : Now(w, i).prefix = p
        BY <2>2
    <3>2. bound'[Now(w, i).prefix] = Now(w, i).prev /\ Now(w, i).prev = bound[Now(w, i).prefix]
        BY <1>5, <1>10
    <3> QED BY <3>1, <3>2
  <2> QED BY <2>1, <2>2
<1>13. /\ StackOf(m) /\ CellsOf(m)
       /\ \A k \in 1 .. m : Text(k)' /\ Hides(k)' /\ Named(k)'
       /\ \A k \in 1 .. m : Owned(k) \subseteq DOMAIN bindings' \ (Free' \cup Root')
       /\ \A k \in 1 .. m : \A i, j \in DOMAIN tagStack'[k].own :
            bindings'[tagStack'[k].own[i]].prefix = bindings'[tagStack'[k].own[j]].prefix => i = j
       /\ NS' => /\ bindings' # <<>> /\ 1 \notin Free'
                 /\ bindings'[1].prefix = "xml" /\ bindings'[1].uri = "XML"
       /\ \A p, c : StandsFor(p, m, c) => StandsFor(p, m, c)'
    BY <1>1, <1>3, <1>11, BegunKeeps
<1>14. \A k \in 1 .. m : Owned(k)' = Owned(k)
    BY <1>13, StandsStill
<1>15. TypeInv'
  <2>1. \A k \in DOMAIN freeBindingList' : freeBindingList'[k] \in DOMAIN bindings'
    <3>1. \A c \in Free : c \in DOMAIN bindings
        BY <1>0, FreeAre
    <3>2. DOMAIN bindings \subseteq DOMAIN w.bindings /\ DOMAIN bindings' = DOMAIN w.bindings
        BY <1>0, <1>2, WorkedOn DEF Begun
    <3>3. \A c \in Range(w.own) : c \in DOMAIN bindings'
        BY <1>5 DEF Range
    <3> QED BY <1>11, <3>1, <3>2, <3>3
  <2>2. freeBindingList' \in Seq(DOMAIN bindings')
      BY <1>10, <2>1, SequenceOf
  <2>3. opened' \in Nat
      BY <1>0 DEF TypeInv
  <2> QED BY <1>0, <1>2, <1>3, <1>10, <2>2, <2>3 DEF TypeInv
<1>16. FlagInv' /\ DeclaredInv'
  <2>1. opened' # 0
      BY <1>0 DEF TypeInv
  <2> QED BY <1>0, <1>2, <2>1, RecordsStay DEF FlagInv
<1>17. OwnerInv'
  <2>1. \A k \in 1 .. m : \A j \in 1 .. m : j # k => Owned(j) \cap Owned(k) = {}
    <3>1. \A k \in 1 .. m : k \in DOMAIN tagStack
        BY <1>0, <1>1, TagsOf
    <3> QED BY <1>0, <3>1 DEF OwnerInv, OwnsAlone
  <2>2. \A k \in 1 .. m : OwnsAlone(k)'
      BY <1>3, <1>13, <1>14, <2>1 DEF OwnsAlone
  <2> QED BY <1>3, <1>10, <1>13, <2>2 DEF OwnerInv
<1>18. TextInv' /\ NameInv'
    BY <1>3, <1>13 DEF TextInv, NameInv
<1>19. ScopeInv'
  <2>1. ASSUME NEW p \in PrefixNames
        PROVE  \E l, c : l = Len(tagStack') /\ c = bound'[p] /\ StandsFor(p, l, c)'
    <3>1. PICK c : c = bound[p]
        OBVIOUS
    <3>2. StandsFor(p, m, c)
        BY <1>0, <1>1, <3>1 DEF ScopeInv
    <3> QED BY <1>3, <1>12, <1>13, <3>1, <3>2
  <2> QED BY <1>3, <1>13, <2>1, ScopesOf DEF ScopeInv
<1> QED BY <1>15, <1>16, <1>17, <1>18, <1>19 DEF AInv

\* The innermost tag is new, and does not declare p.
LEMMA StandsAfter ==
    ASSUME NEW k \in Nat, NEW p, NEW c, ~DeclaredBy(k + 1, p)', StandsFor(p, k, c)'
    PROVE  StandsFor(p, k + 1, c)'
<1>1. CASE /\ \A j \in 1 .. k : ~DeclaredBy(j, p)'
           /\ c = IF NS' /\ p = "xml" THEN 1 ELSE 0
  <2>1. \A j \in 1 .. k + 1 : j \in 1 .. k \/ j = k + 1
      OBVIOUS
  <2>2. \A j \in 1 .. k + 1 : ~DeclaredBy(j, p)'
      BY <1>1, <2>1
  <2> QED BY <1>1, <2>2 DEF StandsFor
<1>2. CASE \E j \in 1 .. k : \E b \in Owned(j)' :
              /\ bindings'[b].prefix = p
              /\ \A i \in j + 1 .. k : ~DeclaredBy(i, p)'
              /\ c = IF bindings'[b].uri = "" THEN 0 ELSE b
  <2>0. PICK j \in 1 .. k : \E b \in Owned(j)' :
              /\ bindings'[b].prefix = p
              /\ \A i \in j + 1 .. k : ~DeclaredBy(i, p)'
              /\ c = IF bindings'[b].uri = "" THEN 0 ELSE b
      BY <1>2
  <2>1. PICK b \in Owned(j)' :
              /\ bindings'[b].prefix = p
              /\ \A i \in j + 1 .. k : ~DeclaredBy(i, p)'
              /\ c = IF bindings'[b].uri = "" THEN 0 ELSE b
      BY <2>0
  <2>2. j \in 1 .. k + 1 /\ \A i \in j + 1 .. k + 1 : i \in j + 1 .. k \/ i = k + 1
      OBVIOUS
  <2>3. \A i \in j + 1 .. k + 1 : ~DeclaredBy(i, p)'
      BY <2>1, <2>2
  <2> QED BY <2>1, <2>2, <2>3 DEF StandsFor
<1> QED BY <1>1, <1>2 DEF StandsFor

\* A start tag keeps the invariant, as one more open tag.
LEMMA PushKeeps ==
    ASSUME AttributesAssumption, AInv, NEW t \in Tags, NEW w, NEW b, NEW name, NEW tags,
           Begun(t, w, b, name, tags), Pushes(t, w, b, name, tags),
           UNCHANGED <<setup, defaultAtts, maybeTokenized, declared>>, opened' = opened + 1
    PROVE  AInv'
<1>0. TypeInv /\ FlagInv /\ DeclaredInv /\ OwnerInv /\ TextInv /\ ScopeInv /\ NameInv
    BY SMTT(30) DEF AInv
<1>1. PICK m \in Nat : m = Len(tagStack)
    BY <1>0, TagsOf
<1>2. /\ WorkInv(w) /\ tags \in Seq(OpenTags) /\ Len(tags) = m
      /\ bindings' \in Seq(Cells) /\ flag' = [a \in AttributeNames |-> 0]
      /\ b \in Nat /\ (b # 0 => b \in Within(m) \cup Range(w.own)) /\ name \in Started
      /\ name = IF b = 0 THEN Plain(t.name)
                ELSE Expanded(bindings'[b].uri, t.name.local, bindings'[b].prefix)
      /\ DOMAIN bindings' = DOMAIN w.bindings
    BY <1>1 DEF Begun
<1> DEFINE str == IF b = 0 THEN OwnBuffer ELSE <<b, bindings'[b].block>>
           tag == [tag |-> t, own |-> w.own, started |-> name, str |-> str]
           n   == m + 1
<1>3. setup' = setup /\ declared' = declared
    OBVIOUS
<1>4. /\ bound' = w.bound /\ freeBindingList' = w.free /\ tagStack' = Append(tags, tag)
    BY DEF Pushes
<1>5. \A c \in Within(m) \cup Range(w.own) : c \in DOMAIN bindings'
    BY <1>0, <1>1, <1>2, WorkedOn
<1>6. b # 0 => bindings'[b] \in Cells
    BY <1>2, <1>5, ElementOfSeq
<1>7. str \in Nat \X Nat
    BY <1>2, <1>6 DEF OwnBuffer, Cells
<1>8. w \in Works /\ w.own \in Seq(Nat)
    BY <1>2 DEF WorkInv, Works
<1>9. tag \in OpenTags /\ tag.tag = t /\ tag.own = w.own /\ tag.started = name /\ tag.str = str
    BY <1>2, <1>7, <1>8 DEF OpenTags
<1> HIDE DEF tag
<1>10. /\ tagStack' \in Seq(OpenTags) /\ Len(tagStack') = n /\ DOMAIN tagStack' = 1 .. n
       /\ \A k \in 1 .. m : tagStack'[k] = tags[k]
       /\ tagStack'[n] = tag
    BY <1>2, <1>4, <1>9
<1>11. n \in Nat /\ n \in 1 .. n /\ n \notin 1 .. m /\ n - 1 = m /\ \A k \in 1 .. n : k \in 1 .. m \/ k = n
    OBVIOUS
<1> HIDE DEF n
<1>12. /\ \A i, j \in DOMAIN w.free : w.free[i] = w.free[j] => i = j
       /\ \A i \in DOMAIN w.free : w.free[i] \in Free
       /\ w.free \in Seq(Nat) /\ w.bound \in [PrefixNames -> Nat]
    BY <1>2, <1>8 DEF WorkInv, Works
<1>13. \A i \in DOMAIN freeBindingList' :
          freeBindingList'[i] \in Free \/ freeBindingList'[i] \in Range(w.own)
    BY <1>4, <1>12
<1>14. m <= Len(tagStack')
    BY <1>10 DEF n
<1>15. /\ StackOf(m) /\ CellsOf(m)
       /\ \A k \in 1 .. m : Text(k)' /\ Hides(k)' /\ Named(k)'
       /\ \A k \in 1 .. m : Owned(k) \subseteq DOMAIN bindings' \ (Free' \cup Root')
       /\ \A k \in 1 .. m : Owned(k) \cap Range(w.own) = {}
       /\ \A k \in 1 .. m : \A i, j \in DOMAIN tagStack'[k].own :
            bindings'[tagStack'[k].own[i]].prefix = bindings'[tagStack'[k].own[j]].prefix => i = j
       /\ NS' => /\ bindings' # <<>> /\ 1 \notin Free'
                 /\ bindings'[1].prefix = "xml" /\ bindings'[1].uri = "XML"
       /\ \A p, c : StandsFor(p, m, c) => StandsFor(p, m, c)'
       /\ \A i \in DOMAIN w.own : w.own[i] \in DOMAIN bindings' /\ w.own[i] \notin Root
    BY <1>1, <1>3, <1>10, <1>13, <1>14, BegunKeeps
<1>16. \A k \in 1 .. m : Owned(k)' = Owned(k)
    BY <1>15, StandsStill
<1>17. Owned(n)' = Range(w.own)
    BY <1>9, <1>10 DEF Owned
<1>18. Root' = Root
    BY SaidForAll
<1>19. \A i \in DOMAIN w.own :
          /\ w.own[i] \in DOMAIN bindings'
          /\ Now(w, i).attId \in AttributeNames
          /\ IsXmlns(Now(w, i).attId)
          /\ Now(w, i).prefix = PrefixOf(Now(w, i).attId)
          /\ Now(w, i).prefix \in PrefixNames
          /\ Now(w, i).prev = bound[Now(w, i).prefix]
          /\ Now(w, i).uri = "" => Now(w, i).prefix = ""
          /\ w.bound[Now(w, i).prefix] = IF Now(w, i).uri = "" THEN 0 ELSE w.own[i]
          /\ \A j \in DOMAIN w.free : w.own[i] # w.free[j]
  <2> SUFFICES ASSUME NEW i \in DOMAIN w.own
               PROVE /\ w.own[i] \in DOMAIN bindings'
                     /\ Now(w, i).attId \in AttributeNames
                     /\ IsXmlns(Now(w, i).attId)
                     /\ Now(w, i).prefix = PrefixOf(Now(w, i).attId)
                     /\ Now(w, i).prefix \in PrefixNames
                     /\ Now(w, i).prev = bound[Now(w, i).prefix]
                     /\ Now(w, i).uri = "" => Now(w, i).prefix = ""
                     /\ w.bound[Now(w, i).prefix] = IF Now(w, i).uri = "" THEN 0 ELSE w.own[i]
                     /\ \A j \in DOMAIN w.free : w.own[i] # w.free[j]
      OBVIOUS
  <2> QED BY TakenAre, ZenonT(40)
<1>20. \A c \in Range(w.own) : \E i \in DOMAIN w.own : c = w.own[i] /\ bindings'[c] = Now(w, i)
    BY DEF Range, Now
<1>21. TypeInv'
  <2>1. \A k \in DOMAIN freeBindingList' : freeBindingList'[k] \in DOMAIN bindings'
    <3>1. \A c \in Free : c \in DOMAIN bindings
        BY <1>0, FreeAre
    <3>2. DOMAIN bindings \subseteq DOMAIN w.bindings
        BY <1>0, <1>2, WorkedOn
    <3> QED BY <1>2, <1>4, <1>12, <3>1, <3>2
  <2>2. freeBindingList' \in Seq(Nat)
      BY <1>4, <1>12
  <2>3. freeBindingList' \in Seq(DOMAIN bindings')
      BY <2>1, <2>2, SequenceOf
  <2>4. opened' \in Nat
      BY <1>0 DEF TypeInv
  <2> QED BY <1>0, <1>2, <1>4, <1>10, <1>12, <2>3, <2>4 DEF TypeInv
<1>22. FlagInv' /\ DeclaredInv'
  <2>1. opened' # 0
      BY <1>0 DEF TypeInv
  <2> QED BY <1>0, <1>2, <2>1, RecordsStay DEF FlagInv
<1>23. OwnerInv'
  <2>1. \A k \in 1 .. m : \A j \in 1 .. m : j # k => Owned(j) \cap Owned(k) = {}
    <3>1. \A k \in 1 .. m : k \in DOMAIN tagStack
        BY <1>0, <1>1, TagsOf
    <3> QED BY <1>0, <3>1 DEF OwnerInv, OwnsAlone
  <2>2. ASSUME NEW k \in 1 .. m PROVE OwnsAlone(k)'
    <3>1. \A j \in DOMAIN tagStack' : j # k => Owned(j)' \cap Owned(k)' = {}
        BY <1>10, <1>11, <1>15, <1>16, <1>17, <2>1
    <3> QED BY <1>15, <1>16, <3>1 DEF OwnsAlone
  <2>3. OwnsAlone(n)'
    <3>1. Range(w.own) \subseteq DOMAIN bindings' \ (Free' \cup Root')
      <4>1. \A c \in Range(w.own) : c \in DOMAIN bindings' /\ c \notin Root
          BY <1>15 DEF Range
      <4>2. ASSUME NEW c \in Range(w.own) PROVE c \notin Free'
        <5>1. PICK i \in DOMAIN w.own : c = w.own[i]
            BY DEF Range
        <5>2. \A j \in DOMAIN w.free : c # w.free[j]
            BY <1>19, <5>1
        <5> QED BY <1>4, <5>2 DEF Free, Range
      <4> QED BY <1>18, <4>1, <4>2
    <3>2. \A j \in DOMAIN tagStack' : j # n => Owned(j)' \cap Owned(n)' = {}
        BY <1>10, <1>11, <1>15, <1>16, <1>17
    <3>3. \A i, j \in DOMAIN w.own : Now(w, i).prefix = Now(w, j).prefix => i = j
        BY TakenAre
    <3>4. \A i, j \in DOMAIN tagStack'[n].own :
            bindings'[tagStack'[n].own[i]].prefix = bindings'[tagStack'[n].own[j]].prefix => i = j
        BY <1>9, <1>10, <3>3 DEF Now
    <3> QED BY <1>17, <3>1, <3>2, <3>4 DEF OwnsAlone
  <2>4. \A k \in DOMAIN tagStack' : OwnsAlone(k)'
      BY <1>10, <1>11, <2>2, <2>3
  <2>5. \A i, j \in DOMAIN freeBindingList' : freeBindingList'[i] = freeBindingList'[j] => i = j
      BY <1>4, <1>12
  <2> QED BY <1>15, <2>4, <2>5 DEF OwnerInv
<1>24. TextInv'
  <2>1. Text(n)'
    <3>1. {<<bindings'[c].attId, bindings'[c].uri>> : c \in Range(w.own)} = Declarations(t)
        BY TakenAre
    <3>2. Declarations(t)' = Declarations(t)
        BY SaidForAll
    <3>3. Declarations(tagStack[n].tag)' = Declarations(t)'
      <4>1. tagStack'[n].tag = t
          BY <1>9, <1>10
      <4> QED BY <4>1, ZenonT(40) DEF Declarations, Whole, Specified
    <3>4. ({<<bindings[c].attId, bindings[c].uri>> : c \in Owned(n)} = Declarations(tagStack[n].tag))'
        BY <1>17, <3>1, <3>2, <3>3
    <3>5. ASSUME NEW c \in Owned(n)'
          PROVE  (/\ bindings[c].attId \in AttributeNames /\ IsXmlns(bindings[c].attId)
                  /\ bindings[c].prefix = PrefixOf(bindings[c].attId)
                  /\ bindings[c].uri = "" => bindings[c].prefix = "")'
      <4>1. /\ bindings'[c].attId \in AttributeNames /\ IsXmlns(bindings'[c].attId)
            /\ bindings'[c].prefix = PrefixOf(bindings'[c].attId)
            /\ bindings'[c].uri = "" => bindings'[c].prefix = ""
        <5>1. PICK i \in DOMAIN w.own : c = w.own[i] /\ bindings'[c] = Now(w, i)
            BY <1>17, <1>20
        <5> QED BY <1>19, <5>1
      <4>2. NS' = NS
          BY DEF NS
      <4> QED BY <4>1, <4>2 DEF IsXmlns, PrefixOf
    <3> QED BY <3>4, <3>5 DEF Text
  <2> QED BY <1>10, <1>11, <1>15, <2>1 DEF TextInv
<1>25. NameInv'
  <2>1. Named(n)'
    <3>1. CASE b = 0
        BY <1>2, <1>9, <1>10, <3>1 DEF Named, OwnBuffer
    <3>2. CASE b # 0
      <4>1. b \in Within(n)'
        <5>1. CASE b \in Within(m)
          <6>1. \A j \in 1 .. m : Owned(j)' = Owned(j) /\ j \in 1 .. n
              BY <1>16 DEF n
          <6> QED BY <1>18, <5>1, <6>1 DEF Within
        <5>2. CASE b \in Range(w.own)
            BY <1>11, <1>17, <5>2 DEF Within
        <5> QED BY <1>2, <3>2, <5>1, <5>2
      <4>2. str[1] = b /\ str[2] = bindings'[b].block
          BY <3>2
      <4>3. name = Expanded(bindings'[b].uri, t.name.local, bindings'[b].prefix)
          BY <1>2, <3>2
      <4> HIDE DEF str
      <4> QED BY <1>9, <1>10, <3>2, <4>1, <4>2, <4>3 DEF Named
    <3> QED BY <3>1, <3>2
  <2> QED BY <1>10, <1>11, <1>15, <2>1 DEF NameInv
<1>26. ASSUME NEW p \in PrefixNames
       PROVE  \E c : c = bound[p] /\ StandsFor(p, m, c)'
  <2>1. PICK c : c = bound[p]
      OBVIOUS
  <2>2. StandsFor(p, m, c)
      BY <1>0, <1>1, <2>1 DEF ScopeInv
  <2> QED BY <1>15, <2>1, <2>2
<1>27. Hides(n)'
  <2>1. ASSUME NEW c \in Owned(n)'
        PROVE  (StandsFor(bindings[c].prefix, n - 1, bindings[c].prev))'
    <3>1. PICK i \in DOMAIN w.own : c = w.own[i] /\ bindings'[c] = Now(w, i)
        BY <1>17, <1>20
    <3>2. PICK p \in PrefixNames : p = bindings'[c].prefix
        BY <1>19, <3>1
    <3>3. PICK d : d = bound[p] /\ StandsFor(p, m, d)'
        BY <1>26
    <3>4. bindings'[c].prev = d
        BY <1>19, <3>1, <3>2, <3>3
    <3> QED BY <1>11, <3>2, <3>3, <3>4 DEF StandsFor, DeclaredBy
  <2> QED BY <2>1 DEF Hides
<1>28. ASSUME NEW p \in PrefixNames
       PROVE  \E l, c : l = Len(tagStack') /\ c = bound'[p] /\ StandsFor(p, l, c)'
  <2>1. CASE \A i \in DOMAIN w.own : Now(w, i).prefix # p
    <3>1. w.bound[p] = bound[p]
        BY <2>1, OthersAre
    <3>2. \A c \in Owned(n)' : bindings'[c].prefix # p
        BY <1>17, <1>20, <2>1
    <3>3. ~DeclaredBy(m + 1, p)'
        BY <3>2 DEF DeclaredBy, n
    <3>4. PICK c : c = bound[p] /\ StandsFor(p, m, c)'
        BY <1>26
    <3>5. StandsFor(p, m + 1, c)'
        BY <3>3, <3>4, StandsAfter
    <3> QED BY <1>4, <1>10, <3>1, <3>4, <3>5 DEF n
  <2>2. CASE ~\A i \in DOMAIN w.own : Now(w, i).prefix # p
    <3>1. PICK i \in DOMAIN w.own : Now(w, i).prefix = p
        BY <2>2
    <3>2. PICK d, c : d = w.own[i] /\ c = IF bindings'[d].uri = "" THEN 0 ELSE d
        OBVIOUS
    <3>3. w.bound[p] = c
        BY <1>19, <3>1, <3>2 DEF Now
    <3>4. d \in Owned(n)' /\ bindings'[d].prefix = p
        BY <1>17, <3>1, <3>2 DEF Range, Now
    <3>5. n + 1 .. n = {}
        BY <1>11
    <3>6. StandsFor(p, n, c)'
        BY <1>11, <3>2, <3>4, <3>5 DEF StandsFor
    <3> QED BY <1>4, <1>10, <3>3, <3>6
  <2> QED BY <2>1, <2>2
<1>29. ScopeInv'
  <2>1. \A k \in DOMAIN tagStack' : Hides(k)'
      BY <1>10, <1>11, <1>15, <1>27
  <2> QED BY <1>28, <2>1, ScopesOf DEF ScopeInv
<1> QED BY <1>21, <1>22, <1>23, <1>24, <1>25, <1>29 DEF AInv

\* The invariant says nothing of the table, the event and the code.
LEMMA StillKeeps ==
    ASSUME AInv, UNCHANGED <<setup, defaultAtts, maybeTokenized, declared>>,
           UNCHANGED <<flag, bindings, freeBindingList, bound, tagStack>>,
           opened' \in {opened, opened + 1}
    PROVE  AInv'
<1>0. TypeInv /\ FlagInv /\ DeclaredInv /\ OwnerInv /\ TextInv /\ ScopeInv /\ NameInv
    BY DEF AInv
<1>1. /\ setup' = setup /\ defaultAtts' = defaultAtts /\ maybeTokenized' = maybeTokenized
      /\ declared' = declared /\ flag' = flag /\ bindings' = bindings
      /\ freeBindingList' = freeBindingList /\ bound' = bound /\ tagStack' = tagStack
    OBVIOUS
<1>2. opened' \in Nat /\ (opened' = 0 => tagStack' = <<>>)
    BY <1>0, <1>1 DEF TypeInv, DeclaredInv
<1>3. TypeInv' /\ FlagInv'
    BY <1>0, <1>1, <1>2 DEF TypeInv, FlagInv
<1>4. DeclaredInv'
    BY <1>0, <1>1, <1>2, RecordsStay, SMTT(30)
<1>5. PICK m \in Nat : m = Len(tagStack)
    BY <1>0, TagsOf
<1>6. DOMAIN tagStack = 1 .. m
    BY <1>0, <1>5, TagsOf
<1>7. NS' = NS /\ Root' = Root /\ Free' = Free
    BY <1>1, SaidForAll DEF Free
<1>8. StackOf(m) /\ CellsOf(m)
    BY <1>1, <1>5 DEF StackOf, CellsOf
<1>9. \A k \in 1 .. m : Owned(k)' = Owned(k)
    BY <1>1, <1>8, StandsStill
<1>10. OwnerInv'
  <2>1. \A k \in 1 .. m : OwnsAlone(k)
      BY <1>0, <1>6 DEF OwnerInv
  <2>2. \A k \in 1 .. m : OwnsAlone(k)'
      BY <1>1, <1>6, <1>7, <1>9, <2>1 DEF OwnsAlone
  <2> QED BY <1>0, <1>1, <1>6, <1>7, <2>2 DEF OwnerInv
<1>11. TextInv'
  <2>1. \A k \in 1 .. m : Text(k)
      BY <1>0, <1>6 DEF TextInv
  <2> QED BY <1>1, <1>6, <1>8, <2>1, TextStays DEF TextInv
<1>12. ScopeInv'
  <2>1. \A k \in 1 .. m : Hides(k)
      BY <1>0, <1>6 DEF ScopeInv
  <2>2. \A k \in 1 .. m : Hides(k)'
      BY <1>1, <1>8, <2>1, HidesStill
  <2>3. ASSUME NEW p \in PrefixNames
        PROVE  \E l, c : l = Len(tagStack') /\ c = bound'[p] /\ StandsFor(p, l, c)'
    <3>1. PICK c : c = bound[p]
        OBVIOUS
    <3>2. StandsFor(p, m, c) /\ m \in 0 .. m
        BY <1>0, <1>5, <3>1 DEF ScopeInv
    <3>3. StandsFor(p, m, c)'
        BY <1>1, <1>8, <3>2, StandsStill
    <3> QED BY <1>1, <1>5, <3>1, <3>3
  <2> QED BY <1>1, <1>6, <2>2, <2>3, ScopesOf DEF ScopeInv
<1>13. NameInv'
  <2>1. ASSUME NEW k \in 1 .. m PROVE Named(k)'
    <3>1. Named(k)
        BY <1>0, <1>6 DEF NameInv
    <3>2. \A j \in 1 .. k : Owned(j)' = Owned(j)
        BY <1>9
    <3>3. Within(k)' = Within(k)
        BY <1>7, <3>2 DEF Within
    <3> QED BY <1>1, <3>1, <3>3 DEF Named
  <2> QED BY <1>1, <1>6, <2>1 DEF NameInv
<1> QED BY <1>3, <1>4, <1>10, <1>11, <1>12, <1>13 DEF AInv

\* A start tag keeps the invariant, however it comes out.
LEMMA StartTagKeeps ==
    ASSUME AttributesAssumption, AInv, NEW t \in Tags, NEW empty \in BOOLEAN,
           StartTag(t, empty), setup' = setup
    PROVE  AInv' /\ EndsAsItBegan'
<1>1. /\ opened' = opened + 1
      /\ UNCHANGED <<defaultAtts, idAtt, maybeTokenized, declared>>
    BY Zenon DEF StartTag
<1>2. \/ Stopped
      \/ \E w, b, name, tags :
            /\ Begun(t, w, b, name, tags)
            /\ IF empty THEN PopsAtOnce(w, tags) ELSE Pushes(t, w, b, name, tags)
    BY StartTagDoes
<1>3. AInv'
  <2>1. CASE Stopped
      BY <1>1, <2>1, StillKeeps DEF Stopped
  <2>2. CASE ~Stopped
    <3>1. PICK w, b, name, tags :
            /\ Begun(t, w, b, name, tags)
            /\ IF empty THEN PopsAtOnce(w, tags) ELSE Pushes(t, w, b, name, tags)
        BY <1>2, <2>2
    <3>2. CASE empty
        BY <1>1, <3>1, <3>2, EmptyKeeps
    <3>3. CASE ~empty
        BY <1>1, <3>1, <3>3, PushKeeps
    <3> QED BY <3>2, <3>3
  <2> QED BY <2>1, <2>2
<1>4. event'.type # "end"
  <2> DEFINE specified == Scanned(t)
             w == Completed(t, specified)
             x == ExpandAll(w)
             b == ElementBinding(t.name, w)
             unbound == ElementPrefix(t.name) # None /\ b = 0
             error == IF w.error # "NONE" THEN w.error
                      ELSE IF x.error # "NONE" THEN x.error
                      ELSE IF unbound THEN "UNBOUND_PREFIX" ELSE "NONE"
             cells == IF b = 0 THEN w.bindings ELSE WriteName(w.bindings, b, t.name)
             name  == IF b = 0 THEN Plain(t.name) ELSE cells[b].last
             told  == [type |-> IF empty THEN "empty" ELSE "start", tag |-> t,
                       name |-> name, atts |-> x.atts, scopes |-> w.scopes,
                       nSpecified |-> Len(specified.atts),
                       idAttIndex |-> IdAttIndex(t.name, specified)]
  <2>1. CASE error # "NONE"
    <3>1. event' = [type |-> "error", tag |-> t]
        BY <2>1, Zenon DEF StartTag
    <3> QED BY <3>1
  <2>2. CASE error = "NONE"
    <3>1. event' = told
        BY <2>2, Zenon DEF StartTag
    <3>2. told.type = IF empty THEN "empty" ELSE "start"
        OBVIOUS
    <3> HIDE DEF told
    <3> QED BY <3>1, <3>2
  <2> HIDE DEF error
  <2> QED BY <2>1, <2>2
<1> QED BY <1>3, <1>4 DEF EndsAsItBegan

-----------------------------------------------------------------------------
(* What the invariant says of the scopes *)

\* What a tag declares is what it owns.
LEMMA OwnedIsDeclared ==
    ASSUME AInv, NEW k \in DOMAIN tagStack, NEW p
    PROVE  /\ Declares(tagStack[k].tag, p) # {} <=> DeclaredBy(k, p)
           /\ \A b \in Owned(k), a \in Declares(tagStack[k].tag, p) :
                 bindings[b].prefix = p => a.value = bindings[b].uri
<1> DEFINE t == tagStack[k].tag
<1>0. TypeInv /\ OwnerInv /\ TextInv
    BY DEF AInv
<1>1. /\ {<<bindings[b].attId, bindings[b].uri>> : b \in Owned(k)} = Declarations(t)
      /\ \A b \in Owned(k) : /\ IsXmlns(bindings[b].attId)
                             /\ bindings[b].prefix = PrefixOf(bindings[b].attId)
    BY <1>0 DEF TextInv, Text
<1>2. ASSUME NEW b \in Owned(k), bindings[b].prefix = p
      PROVE  Declares(t, p) # {}
  <2>1. <<bindings[b].attId, bindings[b].uri>> \in Declarations(t)
      BY <1>1
  <2>2. PICK a \in Whole(t) : IsXmlns(a.name) /\ a.name = bindings[b].attId
      BY <2>1 DEF Declarations
  <2>3. a \in Declares(t, p)
      BY <1>1, <1>2, <2>2 DEF Declares
  <2> QED BY <2>3
<1>3. ASSUME NEW a \in Declares(t, p)
      PROVE  \E b \in Owned(k) : bindings[b].prefix = p /\ bindings[b].uri = a.value
  <2>1. a \in Whole(t) /\ IsXmlns(a.name) /\ PrefixOf(a.name) = p
      BY DEF Declares
  <2>2. <<a.name, a.value>> \in Declarations(t)
      BY <2>1 DEF Declarations
  <2>3. PICK b \in Owned(k) : <<a.name, a.value>> = <<bindings[b].attId, bindings[b].uri>>
      BY <1>1, <2>2
  <2> QED BY <1>1, <2>1, <2>3
<1>4. ASSUME NEW b \in Owned(k), NEW c \in Owned(k), bindings[b].prefix = bindings[c].prefix
      PROVE  b = c
  <2>1. PICK i, j \in DOMAIN tagStack[k].own : b = tagStack[k].own[i] /\ c = tagStack[k].own[j]
      BY <1>0, TagsOf
  <2>2. OwnsAlone(k)
      BY <1>0 DEF OwnerInv
  <2> QED BY <1>4, <2>1, <2>2 DEF OwnsAlone
<1>5. ASSUME NEW b \in Owned(k), NEW a \in Declares(t, p), bindings[b].prefix = p
      PROVE  a.value = bindings[b].uri
  <2>1. PICK c \in Owned(k) : bindings[c].prefix = p /\ bindings[c].uri = a.value
      BY <1>3
  <2> QED BY <1>4, <1>5, <2>1
<1> QED BY <1>2, <1>3, <1>5 DEF DeclaredBy

\* StandsFor, of bindings, is InScope, of tags.
LEMMA StandsForUri ==
    ASSUME AInv, NEW p \in PrefixNames, NEW c, StandsFor(p, Len(tagStack), c)
    PROVE  InScope(Open, p) = IF c = 0 THEN None ELSE bindings[c].uri
<1> DEFINE declaring == {k \in DOMAIN Open : Declares(Open[k], p) # {}}
           innermost == CHOOSE k \in declaring : \A j \in declaring : j <= k
           uri == (CHOOSE a \in Declares(Open[innermost], p) : TRUE).value
<1>0. TypeInv /\ OwnerInv
    BY DEF AInv
<1>1. PICK m \in Nat : m = Len(tagStack)
    BY <1>0, TagsOf
<1>2. DOMAIN tagStack = 1 .. m /\ DOMAIN Open = 1 .. m
    BY <1>0, <1>1, TagsOf DEF Open
<1>3. \A k \in 1 .. m : Open[k] = tagStack[k].tag
    BY <1>2 DEF Open
<1>4. \A k \in 1 .. m : k \in declaring <=> DeclaredBy(k, p)
    BY <1>2, <1>3, OwnedIsDeclared
<1>5. InScope(Open, p) = IF declaring = {} THEN IF NS /\ p = "xml" THEN "XML" ELSE None
                         ELSE IF uri = "" THEN None ELSE uri
    BY Zenon DEF InScope
<1>6. declaring \subseteq 1 .. m
    BY <1>2
<1> HIDE DEF declaring, uri
<1>7. CASE /\ \A j \in 1 .. m : ~DeclaredBy(j, p)
           /\ c = IF NS /\ p = "xml" THEN 1 ELSE 0
  <2>1. declaring = {}
      BY <1>4, <1>6, <1>7
  <2>2. NS => bindings[1].uri = "XML"
      BY <1>0 DEF OwnerInv
  <2> QED BY <1>5, <1>7, <2>1, <2>2
<1>8. CASE \E j \in 1 .. m : \E b \in Owned(j) :
              /\ bindings[b].prefix = p
              /\ \A i \in j + 1 .. m : ~DeclaredBy(i, p)
              /\ c = IF bindings[b].uri = "" THEN 0 ELSE b
  <2>0. PICK j \in 1 .. m : \E b \in Owned(j) :
              /\ bindings[b].prefix = p
              /\ \A i \in j + 1 .. m : ~DeclaredBy(i, p)
              /\ c = IF bindings[b].uri = "" THEN 0 ELSE b
      BY <1>8
  <2>1. PICK b \in Owned(j) :
              /\ bindings[b].prefix = p
              /\ \A i \in j + 1 .. m : ~DeclaredBy(i, p)
              /\ c = IF bindings[b].uri = "" THEN 0 ELSE b
      BY <2>0
  <2>2. j \in declaring
      BY <1>4, <2>1 DEF DeclaredBy
  <2>3. \A k \in declaring : k \in 1 .. m /\ k <= j
    <3>1. ASSUME NEW k \in declaring PROVE k \in 1 .. m /\ k <= j
      <4>1. k \in 1 .. m /\ DeclaredBy(k, p)
          BY <1>4, <1>6
      <4>2. ~(k \in j + 1 .. m)
          BY <2>1, <4>1
      <4> QED BY <4>1, <4>2
    <3> QED BY <3>1
  <2>4. innermost = j
    <3>1. innermost \in declaring /\ \A k \in declaring : k <= innermost
        BY <2>2, <2>3
    <3>2. innermost \in 1 .. m /\ j <= innermost /\ innermost <= j
        BY <2>2, <2>3, <3>1
    <3> QED BY <3>2
  <2> HIDE DEF innermost
  <2>5. Declares(Open[j], p) # {}
      BY <2>2 DEF declaring
  <2>6. PICK a \in Declares(Open[j], p) : uri = a.value
      BY <2>4, <2>5 DEF uri
  <2>7. uri = bindings[b].uri
    <3>1. j \in DOMAIN tagStack /\ a \in Declares(tagStack[j].tag, p)
        BY <1>2, <1>3, <2>6
    <3>2. \A x \in Owned(j), y \in Declares(tagStack[j].tag, p) :
             bindings[x].prefix = p => y.value = bindings[x].uri
        BY <3>1, OwnedIsDeclared
    <3>3. a.value = bindings[b].uri
        BY <2>1, <3>1, <3>2
    <3> QED BY <2>6, <3>3
  <2>8. b # 0
    <3>1. j \in 1 .. j /\ j \in 0 .. Len(tagStack) /\ b \in Within(j)
        BY <1>1 DEF Within
    <3> QED BY <1>0, <3>1, UsedIs
  <2> QED BY <1>5, <2>1, <2>2, <2>7, <2>8
<1> QED BY <1>1, <1>7, <1>8 DEF StandsFor

\* The invariant says that nothing is left behind.
LEMMA NothingIsLeft ==
    ASSUME AInv
    PROVE  NothingLeftBehind
<1>1. FlagInv /\ ScopeInv
    BY DEF AInv
<1>2. ASSUME NEW p \in PrefixNames
      PROVE  InScope(Open, p) = IF bound[p] = 0 THEN None ELSE bindings[bound[p]].uri
    BY <1>1, StandsForUri DEF ScopeInv
<1> QED BY <1>1, <1>2 DEF FlagInv, NothingLeftBehind

-----------------------------------------------------------------------------
(* What is given of a tag *)

\* The places of the attributes that are given, one after the other.
LEMMA PlaceNext ==
    ASSUME NEW t, NEW i \in Nat \ {0}
    PROVE  /\ Place(t, 0) = 0 /\ Place(t, i - 1) \in Nat /\ Place(t, i) \in Nat
           /\ Place(t, i) = IF IsXmlns(t.atts[i].name) THEN Place(t, i - 1) ELSE Place(t, i - 1) + 1
<1> DEFINE S(k) == {j \in 1 .. k : ~IsXmlns(t.atts[j].name)}
<1>1. S(0) = {}
    OBVIOUS
<1>2. \A k \in Nat : IsFiniteSet(S(k))
  <2>1. \A k \in Nat : IsFiniteSet(1 .. k) /\ S(k) \in SUBSET (1 .. k)
      BY FS_Interval
  <2> HIDE DEF S
  <2> QED BY <2>1, FS_Subset
<1>3. S(i) = IF IsXmlns(t.atts[i].name) THEN S(i - 1) ELSE S(i - 1) \cup {i}
    OBVIOUS
<1>4. i \notin S(i - 1)
    OBVIOUS
<1>5. \A k : Place(t, k) = Cardinality(S(k))
    BY DEF Place
<1> HIDE DEF S
<1>6. i - 1 \in Nat /\ i \in Nat
    OBVIOUS
<1>7. \A k \in Nat : Place(t, k) \in Nat
    BY <1>2, <1>5, FS_CardinalityType
<1>8. Place(t, 0) = 0
    BY <1>1, <1>5, FS_EmptySet
<1>9. Cardinality(S(i - 1) \cup {i}) = Cardinality(S(i - 1)) + 1
    BY <1>2, <1>4, <1>6, FS_AddElement
<1> QED BY <1>3, <1>5, <1>6, <1>7, <1>8, <1>9

\* What is given of the attributes of t up to the i-th: each at its place.
Said(t, j) == [name |-> Declaration(t, j)[1], value |-> Declaration(t, j)[2]]

GivenInv(t, i, w) ==
    w.error = "NONE" =>
        /\ Len(w.atts) = Place(t, i)
        /\ \A j \in 1 .. i : ~IsXmlns(t.atts[j].name) =>
              Place(t, j) \in DOMAIN w.atts /\ w.atts[Place(t, j)] = Said(t, j)
        /\ \A m \in DOMAIN w.atts : \E j \in 1 .. i :
              ~IsXmlns(t.atts[j].name) /\ m = Place(t, j)
        /\ \A j, k \in 1 .. i : t.atts[j].name = t.atts[k].name => j = k
        /\ \A j \in 1 .. i : IsXmlns(t.atts[j].name) =>
              Reserved(PrefixOf(t.atts[j].name), Said(t, j).value) = "NONE"

\* An attribute that is given comes last.
LEMMA GiveAppends ==
    ASSUME NEW w, w \in Works, NEW a \in AttributeNames, NEW value \in Values,
           NEW r, r = Give(w, a, value)
    PROVE  /\ Len(r.atts) = Len(w.atts) + 1 /\ Len(w.atts) \in Nat
           /\ DOMAIN w.atts = 1 .. Len(w.atts) /\ DOMAIN r.atts = 1 .. Len(w.atts) + 1
           /\ r.atts[Len(w.atts) + 1] = [name |-> a, value |-> value]
           /\ \A m \in DOMAIN w.atts : r.atts[m] = w.atts[m]
           /\ r.error = w.error
<1> DEFINE S == [name : AttributeNames, value : Values]
           rec == [name |-> a, value |-> value]
<1>1. w.atts \in Seq(S) /\ rec \in S
    BY DEF Works
<1>2. r.atts = Append(w.atts, rec) /\ r.error = w.error
    BY DEF Give, Works
<1> HIDE DEF S, rec
<1> QED BY <1>1, <1>2 DEF rec

\* Before the first attribute none is given.
LEMMA GivenStart ==
    ASSUME NEW t
    PROVE  GivenInv(t, 0, Work)
<1>1. Work.atts = <<>>
    BY DEF Work
<1>2. Place(t, 0) = 0
    BY PlaceNext, 1 \in Nat \ {0}
<1>3. DOMAIN Work.atts = {} /\ Len(Work.atts) = 0
    BY <1>1
<1> HIDE DEF Work
<1> QED BY <1>2, <1>3 DEF GivenInv

\* A binding that is added gives no attribute.
LEMMA AddBindingGives ==
    ASSUME NEW w, w \in Works, NEW att, NEW uri
    PROVE  /\ AddBinding(w, att, uri).atts = w.atts /\ AddBinding(w, att, uri).flag = w.flag
           /\ AddBinding(w, att, uri).error = "NONE" <=> Reserved(PrefixOf(att), uri) = "NONE"
<1>1. CASE Reserved(PrefixOf(att), uri) = "NONE"
  <2> HIDE DEF Reserved, PrefixOf
  <2>1. w.error = "NONE"
      BY DEF Works
  <2> QED BY <1>1, <2>1 DEF AddBinding, Works
<1>2. CASE Reserved(PrefixOf(att), uri) # "NONE"
  <2>1. AddBinding(w, att, uri) = [w EXCEPT !.error = Reserved(PrefixOf(att), uri)]
      BY <1>2 DEF AddBinding, Fail
  <2> QED BY <1>2, <2>1 DEF Works
<1> QED BY <1>1, <1>2

\* One more attribute that is written in the tag.
LEMMA GivenNext ==
    ASSUME AttributesAssumption, TypeInv, DeclaredInv,
           NEW t \in Tags, NEW i \in 1 .. Len(t.atts), NEW w,
           ScanInv(t, i - 1, w), GivenInv(t, i - 1, w),
           NEW r, r = Specify(w, t.name, t.atts[i])
    PROVE  GivenInv(t, i, r)
<1> DEFINE att == t.atts[i]
           value == Stored(att.value, IsCdata(t.name, att.name))
           marked == [w EXCEPT !.flag[att.name] = 1]
<1>1. CASE w.error # "NONE"
    BY <1>1 DEF Specify, GivenInv
<1>2. CASE w.error = "NONE"
  <2> SUFFICES ASSUME r.error = "NONE"
               PROVE  /\ Len(r.atts) = Place(t, i)
                      /\ \A j \in 1 .. i : ~IsXmlns(t.atts[j].name) =>
                            Place(t, j) \in DOMAIN r.atts /\ r.atts[Place(t, j)] = Said(t, j)
                      /\ \A m \in DOMAIN r.atts : \E j \in 1 .. i :
                            ~IsXmlns(t.atts[j].name) /\ m = Place(t, j)
                      /\ \A j, k \in 1 .. i : t.atts[j].name = t.atts[k].name => j = k
                      /\ \A j \in 1 .. i : IsXmlns(t.atts[j].name) =>
                            Reserved(PrefixOf(t.atts[j].name), Said(t, j).value) = "NONE"
      BY DEF GivenInv
  <2>0. /\ i \in Nat /\ 0 < i /\ i \in DOMAIN t.atts /\ i \in Nat \ {0}
        /\ att.name \in AttributeNames /\ att.value \in Values /\ t.name \in ElementNames
      BY AttsOf
  <2>1. value \in Values
      BY <2>0, StoredIsValue, IsCdataIsBoolean
  <2>2. w \in Works /\ \A a \in AttributeNames : w.flag[a] # 0 <=> Wrote(t, a, i - 1)
      BY <1>2 DEF ScanInv, WorkInv
  <2>3. /\ Len(w.atts) = Place(t, i - 1)
        /\ \A j \in 1 .. i - 1 : ~IsXmlns(t.atts[j].name) =>
              Place(t, j) \in DOMAIN w.atts /\ w.atts[Place(t, j)] = Said(t, j)
        /\ \A m \in DOMAIN w.atts : \E j \in 1 .. i - 1 :
              ~IsXmlns(t.atts[j].name) /\ m = Place(t, j)
        /\ \A j, k \in 1 .. i - 1 : t.atts[j].name = t.atts[k].name => j = k
        /\ \A j \in 1 .. i - 1 : IsXmlns(t.atts[j].name) =>
              Reserved(PrefixOf(t.atts[j].name), Said(t, j).value) = "NONE"
      BY <1>2 DEF GivenInv
  <2>4. w.flag[att.name] = 0
      BY <1>2, <2>2 DEF Specify, Fail, Works
  <2>5. \A j \in 1 .. i - 1 : t.atts[j].name # att.name
      BY <2>0, <2>2, <2>4 DEF Wrote
  <2>6. \A j, k \in 1 .. i : t.atts[j].name = t.atts[k].name => j = k
    <3> SUFFICES ASSUME NEW j \in 1 .. i, NEW k \in 1 .. i, t.atts[j].name = t.atts[k].name
                 PROVE  j = k
        OBVIOUS
    <3>1. CASE j = i /\ k # i
        BY <2>0, <2>5, <3>1
    <3>2. CASE k = i /\ j # i
        BY <2>0, <2>5, <3>2
    <3>3. CASE j # i /\ k # i
        BY <2>0, <2>3, <3>3
    <3> QED BY <3>1, <3>2, <3>3
  <2>7. /\ Place(t, i) \in Nat /\ Place(t, i - 1) \in Nat
        /\ Place(t, i) = IF IsXmlns(att.name) THEN Place(t, i - 1) ELSE Place(t, i - 1) + 1
      BY <2>0, PlaceNext
  <2>8. Said(t, i) = [name |-> att.name, value |-> value]
      BY DEF Said, Declaration
  <2> HIDE DEF att, value
  <2>9. CASE IsXmlns(att.name)
    <3>1. r = AddBinding(marked, att.name, value)
        BY <1>2, <2>4, <2>9 DEF Specify, att, value
    <3>2. marked \in Works /\ marked.atts = w.atts
      <4>1. marked = [w EXCEPT !.flag = [w.flag EXCEPT ![att.name] = 1]]
          BY <2>2
      <4>2. [w.flag EXCEPT ![att.name] = 1] \in [AttributeNames -> 0 .. 2]
          BY <2>2, 1 \in 0 .. 2 DEF Works
      <4> HIDE DEF marked
      <4> QED BY <2>2, <4>1, <4>2 DEF Works
    <3> HIDE DEF marked
    <3>3. r.atts = w.atts /\ Reserved(PrefixOf(att.name), value) = "NONE"
        BY <3>1, <3>2, AddBindingGives
    <3>4. \A j \in 1 .. i : j = i \/ j \in 1 .. i - 1
        BY <2>0
    <3>5. \A j \in 1 .. i - 1 : j \in 1 .. i
        BY <2>0
    <3>6. \A j \in 1 .. i : IsXmlns(t.atts[j].name) =>
              Reserved(PrefixOf(t.atts[j].name), Said(t, j).value) = "NONE"
        BY <2>3, <2>8, <3>3, <3>4 DEF att
    <3>7. \A j \in 1 .. i : ~IsXmlns(t.atts[j].name) =>
              Place(t, j) \in DOMAIN r.atts /\ r.atts[Place(t, j)] = Said(t, j)
        BY <2>3, <2>9, <3>3, <3>4 DEF att
    <3>8. \A m \in DOMAIN r.atts : \E j \in 1 .. i : ~IsXmlns(t.atts[j].name) /\ m = Place(t, j)
        BY <2>3, <3>3, <3>5
    <3>9. Len(r.atts) = Place(t, i)
        BY <2>3, <2>7, <2>9, <3>3
    <3> QED BY <2>6, <3>6, <3>7, <3>8, <3>9
  <2>10. CASE ~IsXmlns(att.name)
    <3>1. r = Give(w, att.name, value)
        BY <1>2, <2>4, <2>10 DEF Specify, att, value
    <3>2. /\ Len(r.atts) = Len(w.atts) + 1 /\ Len(w.atts) \in Nat
          /\ DOMAIN w.atts = 1 .. Len(w.atts) /\ DOMAIN r.atts = 1 .. Len(w.atts) + 1
          /\ r.atts[Len(w.atts) + 1] = [name |-> att.name, value |-> value]
          /\ \A m \in DOMAIN w.atts : r.atts[m] = w.atts[m]
        BY <2>0, <2>1, <2>2, <3>1, GiveAppends DEF att
    <3>3. Place(t, i) = Len(w.atts) + 1
        BY <2>3, <2>7, <2>10
    <3>4. /\ \A j \in 1 .. i : j = i \/ j \in 1 .. i - 1
          /\ \A j \in 1 .. i - 1 : j \in 1 .. i
          /\ i \in 1 .. i
        BY <2>0
    <3>5. \A m \in DOMAIN r.atts : m = Len(w.atts) + 1 \/ m \in DOMAIN w.atts
        BY <3>2
    <3>6. \A m \in DOMAIN w.atts : m \in DOMAIN r.atts
        BY <3>2
    <3>7. ASSUME NEW j \in 1 .. i, ~IsXmlns(t.atts[j].name)
          PROVE  Place(t, j) \in DOMAIN r.atts /\ r.atts[Place(t, j)] = Said(t, j)
      <4>1. CASE j = i
          BY <2>8, <3>2, <3>3, <4>1
      <4>2. CASE j \in 1 .. i - 1
          BY <2>3, <3>2, <3>6, <3>7, <4>2
      <4> QED BY <3>4, <4>1, <4>2
    <3>8. ASSUME NEW m \in DOMAIN r.atts
          PROVE  \E j \in 1 .. i : ~IsXmlns(t.atts[j].name) /\ m = Place(t, j)
      <4>1. CASE m = Len(w.atts) + 1
          BY <2>10, <3>3, <3>4, <4>1 DEF att
      <4>2. CASE m \in DOMAIN w.atts
          BY <2>3, <3>4, <4>2
      <4> QED BY <3>5, <4>1, <4>2
    <3>9. \A j \in 1 .. i : IsXmlns(t.atts[j].name) =>
              Reserved(PrefixOf(t.atts[j].name), Said(t, j).value) = "NONE"
        BY <2>3, <2>10, <3>4 DEF att
    <3>10. Len(r.atts) = Place(t, i)
        BY <3>2, <3>3
    <3> QED BY <2>6, <3>7, <3>8, <3>9, <3>10
  <2> QED BY <2>9, <2>10
<1> QED BY <1>1, <1>2

\* What is given when all that is written was looked at.
LEMMA GivenDone ==
    ASSUME AttributesAssumption, TypeInv, FlagInv, OwnerInv, DeclaredInv, NEW t \in Tags
    PROVE  GivenInv(t, Len(t.atts), Scanned(t))
<1> DEFINE n == Len(t.atts)
<1>1. n \in Nat
    BY AttsOf
<1>2. PICK f : /\ f[0] = Work
               /\ \A i \in 1 .. n : f[i] = Specify(f[i - 1], t.name, t.atts[i])
               /\ Scanned(t) = f[n]
    BY <1>1, Scanning
<1> DEFINE T == {i \in 0 .. n : ScanInv(t, i, f[i]) /\ GivenInv(t, i, f[i])}
<1>3. 0 \in T
    BY <1>1, <1>2, ScanStart, GivenStart
<1>4. ASSUME NEW i \in 1 .. n, i - 1 \in T PROVE i \in T
  <2>1. ScanInv(t, i - 1, f[i - 1]) /\ GivenInv(t, i - 1, f[i - 1])
      BY <1>4
  <2>2. ScanInv(t, i, f[i])
      BY <1>2, <2>1, ScanNext
  <2>3. GivenInv(t, i, f[i])
      BY <1>2, <2>1, GivenNext
  <2>4. i \in 0 .. n
      BY <1>1
  <2> QED BY <2>2, <2>3, <2>4
<1>5. n \in T
  <2> HIDE DEF T
  <2>1. \A i \in 0 .. n : i \in T
      BY <1>1, <1>3, <1>4, Induction
  <2> QED BY <1>1, <2>1
<1> QED BY <1>2, <1>5

-----------------------------------------------------------------------------
(* The defaults that are given in addition *)

\* The defaults up to the i-th that are given in addition to s.
Fills(t, j) == LET d == defaultAtts[t.name][j]
               IN ~IsXmlns(d.id) /\ d.value # None /\ ~Wrote(t, d.id, Len(t.atts))
Filling(t, j) == [name |-> defaultAtts[t.name][j].id, value |-> defaultAtts[t.name][j].value]

AddedInv(t, i, s, w) ==
    w.error = "NONE" =>
        /\ s.error = "NONE"
        /\ \A m \in DOMAIN s.atts : m \in DOMAIN w.atts /\ w.atts[m] = s.atts[m]
        /\ \A m \in DOMAIN w.atts :
              m \in DOMAIN s.atts \/ \E j \in 1 .. i : Fills(t, j) /\ w.atts[m] = Filling(t, j)
        /\ \A j \in 1 .. i : Fills(t, j) => \E m \in DOMAIN w.atts : w.atts[m] = Filling(t, j)
        /\ \A m \in DOMAIN w.atts : w.flag[w.atts[m].name] # 0
        /\ \A m, k \in DOMAIN w.atts : w.atts[m].name = w.atts[k].name => m = k
        /\ \A j \in 1 .. i : Adds(t, j) =>
              Reserved(PrefixOf(Addition(t, j)[1]), Addition(t, j)[2]) = "NONE"

\* What is given is written in the tag.
LEMMA GivenIsWritten ==
    ASSUME NEW t, NEW s, s.error = "NONE", GivenInv(t, Len(t.atts), s)
    PROVE  \A m \in DOMAIN s.atts : Wrote(t, s.atts[m].name, Len(t.atts))
<1> SUFFICES ASSUME NEW m \in DOMAIN s.atts
             PROVE  Wrote(t, s.atts[m].name, Len(t.atts))
    OBVIOUS
<1>1. PICK j \in 1 .. Len(t.atts) : ~IsXmlns(t.atts[j].name) /\ m = Place(t, j)
    BY DEF GivenInv
<1>2. s.atts[m] = Said(t, j)
    BY <1>1 DEF GivenInv
<1>3. s.atts[m].name = t.atts[j].name
    BY <1>2 DEF Said, Declaration
<1> QED BY <1>3 DEF Wrote

\* Before the first default.
LEMMA AddedStart ==
    ASSUME AttributesAssumption, NEW t \in Tags, NEW s,
           ScanInv(t, Len(t.atts), s), GivenInv(t, Len(t.atts), s)
    PROVE  AddedInv(t, 0, s, s)
<1> DEFINE n == Len(t.atts)
<1> SUFFICES ASSUME s.error = "NONE"
             PROVE  /\ \A m \in DOMAIN s.atts : s.flag[s.atts[m].name] # 0
                    /\ \A m, k \in DOMAIN s.atts : s.atts[m].name = s.atts[k].name => m = k
    BY DEF AddedInv
<1>1. ASSUME NEW m \in DOMAIN s.atts
      PROVE  \E j \in 1 .. n : /\ m = Place(t, j) /\ s.atts[m].name = t.atts[j].name
                               /\ t.atts[j].name \in AttributeNames
  <2>1. PICK j \in 1 .. n : ~IsXmlns(t.atts[j].name) /\ m = Place(t, j)
      BY DEF GivenInv
  <2>2. s.atts[m] = Said(t, j)
      BY <2>1 DEF GivenInv
  <2>3. s.atts[m].name = t.atts[j].name
      BY <2>2 DEF Said, Declaration
  <2> QED BY <2>1, <2>3, AttsOf
<1>2. \A a \in AttributeNames : s.flag[a] # 0 <=> Wrote(t, a, n)
    BY DEF ScanInv
<1>3. \A j, k \in 1 .. n : t.atts[j].name = t.atts[k].name => j = k
    BY DEF GivenInv
<1>4. ASSUME NEW m \in DOMAIN s.atts PROVE s.flag[s.atts[m].name] # 0
    BY <1>1, <1>2 DEF Wrote
<1>5. ASSUME NEW m \in DOMAIN s.atts, NEW k \in DOMAIN s.atts, s.atts[m].name = s.atts[k].name
      PROVE  m = k
  <2>1. PICK j \in 1 .. n : m = Place(t, j) /\ s.atts[m].name = t.atts[j].name
      BY <1>1
  <2>2. PICK l \in 1 .. n : k = Place(t, l) /\ s.atts[k].name = t.atts[l].name
      BY <1>1
  <2>3. j = l
      BY <1>3, <1>5, <2>1, <2>2
  <2> QED BY <2>1, <2>2, <2>3
<1> QED BY <1>4, <1>5

\* A default is met once: a second one of the same attribute has no value.
LEMMA FillsOnce ==
    ASSUME AttributesAssumption, TypeInv, DeclaredInv, NEW t \in Tags,
           NEW i \in 1 .. Len(defaultAtts[t.name]), NEW j \in 1 .. i - 1,
           defaultAtts[t.name][j].id = defaultAtts[t.name][i].id
    PROVE  defaultAtts[t.name][i].value = None
<1> DEFINE a == defaultAtts[t.name][i].id
<1>1. t.name \in ElementNames
    BY AttsOf
<1>2. /\ i \in DOMAIN defaultAtts[t.name] /\ j \in DOMAIN defaultAtts[t.name]
      /\ a \in AttributeNames /\ j < i
    BY <1>1, DefaultsOf
<1>3. i \in Entries(t.name, a) /\ j \in Entries(t.name, a)
    BY <1>2 DEF Entries
<1> HIDE DEF a
<1> QED BY <1>1, <1>2, <1>3 DEF DeclaredInv, Recorded

\* One more default.
LEMMA AddedNext ==
    ASSUME AttributesAssumption, TypeInv, DeclaredInv,
           NEW t \in Tags, NEW s, s.error = "NONE" => GivenInv(t, Len(t.atts), s),
           NEW i \in 1 .. Len(defaultAtts[t.name]), NEW w,
           DefaultInv(t, i - 1, w), AddedInv(t, i - 1, s, w),
           NEW r, r = Default(w, defaultAtts[t.name][i])
    PROVE  AddedInv(t, i, s, r)
<1> DEFINE n == Len(t.atts)
           da == defaultAtts[t.name][i]
<1>0. /\ t.name \in ElementNames /\ i \in Nat /\ 0 < i /\ i \in DOMAIN defaultAtts[t.name]
      /\ da.id \in AttributeNames /\ da.value \in Values
  <2>1. t.name \in ElementNames
      BY AttsOf
  <2>2. i \in DOMAIN defaultAtts[t.name] /\ i \in Nat /\ 0 < i
      BY <2>1, DefaultsOf
  <2> QED BY <2>1, <2>2, DefaultsOf
<1>1. /\ Adds(t, i) <=> IsXmlns(da.id) /\ da.value # None /\ ~Wrote(t, da.id, n)
      /\ Fills(t, i) <=> ~IsXmlns(da.id) /\ da.value # None /\ ~Wrote(t, da.id, n)
      /\ Filling(t, i) = [name |-> da.id, value |-> da.value]
      /\ Addition(t, i) = <<da.id, da.value>>
    BY DEF Adds, Fills, Filling, Addition
<1>2. /\ \A j \in 1 .. i : j = i \/ j \in 1 .. i - 1
      /\ \A j \in 1 .. i - 1 : j \in 1 .. i
      /\ i \in 1 .. i
    BY <1>0
<1>3. CASE w.error # "NONE"
    BY <1>3 DEF Default, AddedInv
<1>4. CASE w.error = "NONE"
  <2> SUFFICES ASSUME r.error = "NONE" PROVE AddedInv(t, i, s, r)
      BY DEF AddedInv
  <2>1. /\ w \in Works
        /\ \A a \in AttributeNames : Wrote(t, a, n) => w.flag[a] # 0
        /\ \A a \in AttributeNames : w.flag[a] # 0 =>
              IsXmlns(a) \/ \E m \in DOMAIN w.atts : w.atts[m].name = a
        /\ WorkInv(w)
      BY <1>4 DEF DefaultInv, WorkInv
  <2>2. /\ s.error = "NONE"
        /\ \A m \in DOMAIN s.atts : m \in DOMAIN w.atts /\ w.atts[m] = s.atts[m]
        /\ \A m \in DOMAIN w.atts :
              m \in DOMAIN s.atts \/ \E j \in 1 .. i - 1 : Fills(t, j) /\ w.atts[m] = Filling(t, j)
        /\ \A j \in 1 .. i - 1 : Fills(t, j) => \E m \in DOMAIN w.atts : w.atts[m] = Filling(t, j)
        /\ \A m \in DOMAIN w.atts : w.flag[w.atts[m].name] # 0
        /\ \A m, k \in DOMAIN w.atts : w.atts[m].name = w.atts[k].name => m = k
        /\ \A j \in 1 .. i - 1 : Adds(t, j) =>
              Reserved(PrefixOf(Addition(t, j)[1]), Addition(t, j)[2]) = "NONE"
      BY <1>4 DEF AddedInv
  <2> HIDE DEF da, n
  <2>3. CASE w.flag[da.id] # 0 \/ da.value = None
    <3>1. r = w
        BY <2>3, Zenon DEF Default, da
    <3>2. ~Adds(t, i)
      <4>1. w.flag[da.id] # 0 => Wrote(t, da.id, n) \/ ~IsXmlns(da.id)
          BY <1>0, <1>4 DEF DefaultInv, n
      <4> QED BY <1>1, <2>3, <4>1
    <3>3. ~Fills(t, i)
      <4> SUFFICES ASSUME ~IsXmlns(da.id), da.value # None, ~Wrote(t, da.id, n)
                   PROVE  FALSE
          BY <1>1
      <4>1. PICK m \in DOMAIN w.atts : w.atts[m].name = da.id
          BY <1>0, <2>1, <2>3
      <4>2. CASE m \in DOMAIN s.atts
        <5>1. Wrote(t, s.atts[m].name, n)
            BY <2>2, <4>2, GivenIsWritten DEF n
        <5> QED BY <2>2, <4>1, <4>2, <5>1
      <4>3. ASSUME NEW j \in 1 .. i - 1, w.atts[m] = Filling(t, j) PROVE FALSE
        <5>1. defaultAtts[t.name][j].id = da.id
            BY <4>1, <4>3 DEF Filling
        <5> QED BY <5>1, FillsOnce DEF da
      <4> QED BY <2>2, <4>1, <4>2, <4>3
    <3> QED BY <1>2, <2>2, <3>1, <3>2, <3>3 DEF AddedInv
  <2>4. CASE w.flag[da.id] = 0 /\ da.value # None /\ IsXmlns(da.id)
    <3>1. r = AddBinding(w, da.id, da.value)
        BY <1>4, <2>4, Zenon DEF Default, da
    <3>2. r.atts = w.atts /\ r.flag = w.flag /\ Reserved(PrefixOf(da.id), da.value) = "NONE"
        BY <2>1, <3>1, AddBindingGives
    <3>3. ~Fills(t, i) /\ Reserved(PrefixOf(Addition(t, i)[1]), Addition(t, i)[2]) = "NONE"
        BY <1>1, <2>4, <3>2
    <3> QED BY <1>2, <2>2, <3>2, <3>3 DEF AddedInv
  <2>5. CASE w.flag[da.id] = 0 /\ da.value # None /\ ~IsXmlns(da.id)
    <3>1. r = Give(w, da.id, da.value)
        BY <1>4, <2>5, Zenon DEF Default, da
    <3>2. Fills(t, i) /\ ~Adds(t, i)
        BY <1>0, <1>1, <2>1, <2>5
    <3> DEFINE l == Len(w.atts) + 1
    <3>3. /\ DOMAIN w.atts = 1 .. Len(w.atts) /\ DOMAIN r.atts = 1 .. l /\ Len(w.atts) \in Nat
          /\ r.atts[l] = Filling(t, i)
          /\ \A m \in DOMAIN w.atts : r.atts[m] = w.atts[m]
        BY <1>0, <1>1, <2>1, <3>1, GiveAppends
    <3>4. /\ \A m \in DOMAIN r.atts : m = l \/ m \in DOMAIN w.atts
          /\ \A m \in DOMAIN w.atts : m \in DOMAIN r.atts /\ m # l
          /\ l \in DOMAIN r.atts
        BY <3>3
    <3> HIDE DEF l
    <3>5. /\ r.flag[da.id] # 0
          /\ \A b \in AttributeNames : b # da.id => r.flag[b] = w.flag[b]
          /\ r.atts[l].name = da.id
        BY <1>0, <1>1, <2>1, <3>1, <3>3, GiveKeeps
    <3>6. \A m \in DOMAIN w.atts : w.atts[m].name \in AttributeNames
      <4> DEFINE S == [name : AttributeNames, value : Values]
      <4>1. w.atts \in Seq(S)
          BY <2>1 DEF Works
      <4>2. \A x \in S : x.name \in AttributeNames
          OBVIOUS
      <4> HIDE DEF S
      <4>3. \A m \in DOMAIN w.atts : w.atts[m] \in S
          BY <3>3, <4>1, ElementOfSeq
      <4> QED BY <4>2, <4>3
    <3>7. \A m \in DOMAIN w.atts : w.atts[m].name # da.id
        BY <2>2, <2>5
    <3>8. ASSUME NEW m \in DOMAIN r.atts PROVE r.flag[r.atts[m].name] # 0
      <4>1. CASE m = l
          BY <3>5, <4>1
      <4>2. CASE m \in DOMAIN w.atts
        <5>1. r.atts[m].name = w.atts[m].name
            BY <3>3, <4>2
        <5>2. w.flag[w.atts[m].name] # 0
            BY <2>2, <4>2
        <5>3. r.flag[w.atts[m].name] = w.flag[w.atts[m].name]
            BY <3>5, <3>6, <3>7, <4>2
        <5> QED BY <5>1, <5>2, <5>3
      <4> QED BY <3>4, <4>1, <4>2
    <3>9. ASSUME NEW m \in DOMAIN r.atts, NEW k \in DOMAIN r.atts,
                 r.atts[m].name = r.atts[k].name
          PROVE  m = k
      <4>1. CASE m = l /\ k \in DOMAIN w.atts
          BY <3>3, <3>5, <3>7, <3>9, <4>1
      <4>2. CASE k = l /\ m \in DOMAIN w.atts
          BY <3>3, <3>5, <3>7, <3>9, <4>2
      <4>3. CASE m \in DOMAIN w.atts /\ k \in DOMAIN w.atts
          BY <2>2, <3>3, <3>9, <4>3
      <4> QED BY <3>4, <4>1, <4>2, <4>3
    <3>10. \A m \in DOMAIN r.atts :
              m \in DOMAIN s.atts \/ \E j \in 1 .. i : Fills(t, j) /\ r.atts[m] = Filling(t, j)
      <4> SUFFICES ASSUME NEW m \in DOMAIN r.atts, m \notin DOMAIN s.atts
                   PROVE  \E j \in 1 .. i : Fills(t, j) /\ r.atts[m] = Filling(t, j)
          OBVIOUS
      <4>1. CASE m = l
          BY <1>2, <3>2, <3>3, <4>1
      <4>2. CASE m \in DOMAIN w.atts
          BY <1>2, <2>2, <3>3, <4>2
      <4> QED BY <3>4, <4>1, <4>2
    <3>11. \A j \in 1 .. i : Fills(t, j) => \E m \in DOMAIN r.atts : r.atts[m] = Filling(t, j)
        BY <1>2, <2>2, <3>3, <3>4
    <3>12. \A m \in DOMAIN s.atts : m \in DOMAIN r.atts /\ r.atts[m] = s.atts[m]
        BY <2>2, <3>3, <3>4
    <3>13. \A j \in 1 .. i : Adds(t, j) =>
              Reserved(PrefixOf(Addition(t, j)[1]), Addition(t, j)[2]) = "NONE"
        BY <1>2, <2>2, <3>2
    <3> QED BY <2>2, <3>8, <3>9, <3>10, <3>11, <3>12, <3>13 DEF AddedInv
  <2> QED BY <2>3, <2>4, <2>5
<1> QED BY <1>3, <1>4

\* What is given when all defaults were looked at.
LEMMA AddedDone ==
    ASSUME AttributesAssumption, TypeInv, FlagInv, OwnerInv, DeclaredInv, NEW t \in Tags
    PROVE  AddedInv(t, Len(defaultAtts[t.name]), Scanned(t), Completed(t, Scanned(t)))
<1> DEFINE n == Len(defaultAtts[t.name])
           s == Scanned(t)
<1>1. n \in Nat
    BY AttsOf, DefaultsOf
<1>2. ScanInv(t, Len(t.atts), s) /\ GivenInv(t, Len(t.atts), s)
    BY ScanDone, GivenDone
<1> HIDE DEF s
<1>3. DefaultInv(t, 0, s) /\ AddedInv(t, 0, s, s)
    BY <1>2, DefaultStart, AddedStart
<1>4. PICK f : /\ f[0] = s
               /\ \A i \in 1 .. n : f[i] = Default(f[i - 1], defaultAtts[t.name][i])
               /\ Completed(t, s) = f[n]
    BY <1>1, Completing
<1> DEFINE T == {i \in 0 .. n : DefaultInv(t, i, f[i]) /\ AddedInv(t, i, s, f[i])}
<1>5. 0 \in T
    BY <1>1, <1>3, <1>4
<1>6. ASSUME NEW i \in 1 .. n, i - 1 \in T PROVE i \in T
  <2>1. DefaultInv(t, i - 1, f[i - 1]) /\ AddedInv(t, i - 1, s, f[i - 1])
      BY <1>6
  <2>2. DefaultInv(t, i, f[i])
      BY <1>4, <2>1, DefaultNext
  <2>3. AddedInv(t, i, s, f[i])
      BY <1>2, <1>4, <2>1, AddedNext
  <2>4. i \in 0 .. n
      BY <1>1
  <2> QED BY <2>2, <2>3, <2>4
<1>7. n \in T
  <2> HIDE DEF T
  <2>1. \A i \in 0 .. n : i \in T
      BY <1>1, <1>5, <1>6, Induction
  <2> QED BY <1>1, <2>1
<1> QED BY <1>4, <1>7 DEF s

-----------------------------------------------------------------------------
(* What is told of a tag *)

\* The whole of a tag is what is written, and the defaults that are added.
Supplies(t, j) == LET d == defaultAtts[t.name][j]
                  IN d.value # None /\ ~Wrote(t, d.id, Len(t.atts))

\* What is given of an attribute that is written is what its declaration says.
LEMMA SaidIsAttribute ==
    ASSUME AttributesAssumption, TypeInv, DeclaredInv, NEW t \in Tags, NEW j \in DOMAIN t.atts
    PROVE  /\ Said(t, j) = Attribute(t.name, t.atts[j].name, t.atts[j].value)
           /\ Said(t, j).name = t.atts[j].name
<1> DEFINE a == Attribute(t.name, t.atts[j].name, t.atts[j].value)
<1>1. /\ Declaration(t, j)[1] = a.name /\ Declaration(t, j)[2] = a.value
      /\ Declaration(t, j)[1] = t.atts[j].name
    BY StoredAsDeclared
<1>2. a = [name |-> a.name, value |-> a.value]
    BY DEF Attribute
<1>3. Said(t, j) = [name |-> Declaration(t, j)[1], value |-> Declaration(t, j)[2]]
    BY DEF Said
<1> HIDE DEF a
<1> QED BY <1>1, <1>2, <1>3 DEF a

\* The whole of a tag is what is written, and the defaults that are added.
LEMMA WholeIs ==
    ASSUME AttributesAssumption, TypeInv, DeclaredInv, NEW t \in Tags
    PROVE  /\ \A j \in 1 .. Len(t.atts) : Said(t, j) \in Whole(t)
           /\ \A j \in 1 .. Len(defaultAtts[t.name]) : Supplies(t, j) => Filling(t, j) \in Whole(t)
           /\ \A x \in Whole(t) :
                 \/ \E j \in 1 .. Len(t.atts) : x = Said(t, j)
                 \/ \E j \in 1 .. Len(defaultAtts[t.name]) : Supplies(t, j) /\ x = Filling(t, j)
<1> DEFINE n == Len(t.atts)
           e == t.name
           m == Len(defaultAtts[t.name])
           given(a) == [name |-> a, value |-> Binds(t.name, a).value]
<1>1. /\ e \in ElementNames /\ DOMAIN t.atts = 1 .. n
      /\ DOMAIN defaultAtts[e] = 1 .. m
    BY AttsOf, DefaultsOf
<1>2. \A j \in 1 .. n : Said(t, j) = Attribute(t.name, t.atts[j].name, t.atts[j].value)
    BY <1>1, SaidIsAttribute
<1>3. \A j \in 1 .. n : Said(t, j) \in Whole(t)
    BY <1>1, <1>2 DEF Whole, Specified
<1>4. ASSUME NEW j \in 1 .. m, Supplies(t, j)
      PROVE  Filling(t, j) \in Whole(t)
  <2> DEFINE a == defaultAtts[e][j].id
  <2>1. /\ a \in AttributeNames /\ defaultAtts[e][j].value # None
        /\ \A i \in DOMAIN t.atts : t.atts[i].name # a
      BY <1>1, <1>4, DefaultsOf DEF Supplies, Wrote
  <2>2. j \in Entries(e, a)
      BY <1>1 DEF Entries
  <2>3. defaultAtts[e][j].value = Binds(e, a).value
    <3> HIDE DEF a, e
    <3> QED BY <1>1, <2>1, <2>2, FirstEntry
  <2>4. given(a) \in Whole(t)
      BY <2>1, <2>3 DEF Whole
  <2>5. Filling(t, j) = given(a)
      BY <2>3 DEF Filling
  <2> QED BY <2>4, <2>5
<1>5. ASSUME NEW x \in Whole(t)
      PROVE  \/ \E j \in 1 .. n : x = Said(t, j)
             \/ \E j \in 1 .. m : Supplies(t, j) /\ x = Filling(t, j)
  <2>1. CASE x \in Specified(t)
      BY <1>1, <1>2, <2>1 DEF Specified
  <2>2. CASE x \notin Specified(t)
    <3>1. PICK a \in AttributeNames :
              /\ Binds(e, a).value # None
              /\ \A i \in DOMAIN t.atts : t.atts[i].name # a
              /\ x = given(a)
        BY <2>2 DEF Whole
    <3>2. Entries(e, a) # {}
        BY <1>1, <3>1, NoEntry
    <3>3. PICK j \in Entries(e, a) : defaultAtts[e][j].value = Binds(e, a).value
      <4> HIDE DEF e
      <4> QED BY <1>1, <3>2, FirstEntry
    <3>4. j \in 1 .. m /\ defaultAtts[e][j].id = a
        BY <1>1 DEF Entries
    <3>5. Supplies(t, j)
        BY <1>1, <3>1, <3>3, <3>4 DEF Supplies, Wrote
    <3>6. x = Filling(t, j)
        BY <3>1, <3>3, <3>4 DEF Filling
    <3> QED BY <3>4, <3>5, <3>6
  <2> QED BY <2>1, <2>2
<1> QED BY <1>3, <1>4, <1>5

\* What is given is the whole of a tag but for the declarations of namespaces.
Told(t) == {a \in Whole(t) : ~IsXmlns(a.name)}

GivesAll(w, t) == /\ \A m \in DOMAIN w.atts : w.atts[m] \in Told(t)
                  /\ \A a \in Told(t) : \E m \in DOMAIN w.atts : w.atts[m] = a

\* What is given is what is told, the declarations of namespaces left out.
LEMMA GivenIsTold ==
    ASSUME AttributesAssumption, TypeInv, DeclaredInv, NEW t \in Tags, NEW s, NEW w,
           GivenInv(t, Len(t.atts), s), AddedInv(t, Len(defaultAtts[t.name]), s, w), w.error = "NONE"
    PROVE  GivesAll(w, t)
<1> DEFINE n == Len(t.atts)
           d == Len(defaultAtts[t.name])
<1>1. /\ s.error = "NONE"
      /\ \A m \in DOMAIN s.atts : m \in DOMAIN w.atts /\ w.atts[m] = s.atts[m]
      /\ \A m \in DOMAIN w.atts :
            m \in DOMAIN s.atts \/ \E j \in 1 .. d : Fills(t, j) /\ w.atts[m] = Filling(t, j)
      /\ \A j \in 1 .. d : Fills(t, j) => \E m \in DOMAIN w.atts : w.atts[m] = Filling(t, j)
    BY DEF AddedInv
<1>2. /\ \A j \in 1 .. n : ~IsXmlns(t.atts[j].name) =>
            Place(t, j) \in DOMAIN s.atts /\ s.atts[Place(t, j)] = Said(t, j)
      /\ \A m \in DOMAIN s.atts : \E j \in 1 .. n :
            ~IsXmlns(t.atts[j].name) /\ m = Place(t, j)
    BY <1>1 DEF GivenInv
<1>3. \A j \in 1 .. n : Said(t, j) \in Whole(t) /\ Said(t, j).name = t.atts[j].name
    BY AttsOf, WholeIs, SaidIsAttribute
<1>4. \A j \in 1 .. d : /\ Fills(t, j) <=> Supplies(t, j) /\ ~IsXmlns(Filling(t, j).name)
                        /\ Supplies(t, j) => Filling(t, j) \in Whole(t)
    BY WholeIs DEF Fills, Supplies, Filling
<1> HIDE DEF n, d
<1>5. ASSUME NEW m \in DOMAIN w.atts PROVE w.atts[m] \in Told(t)
  <2>1. CASE m \in DOMAIN s.atts
      BY <1>1, <1>2, <1>3, <2>1 DEF Told
  <2>2. CASE m \notin DOMAIN s.atts
      BY <1>1, <1>4, <2>2 DEF Told
  <2> QED BY <2>1, <2>2
<1>6. ASSUME NEW a \in Told(t) PROVE \E m \in DOMAIN w.atts : w.atts[m] = a
  <2>1. a \in Whole(t) /\ ~IsXmlns(a.name)
      BY DEF Told
  <2>2. CASE \E j \in 1 .. n : a = Said(t, j)
      BY <1>1, <1>2, <1>3, <2>1, <2>2
  <2>3. CASE \E j \in 1 .. d : Supplies(t, j) /\ a = Filling(t, j)
      BY <1>1, <1>4, <2>1, <2>3
  <2> QED BY <2>1, <2>2, <2>3, WholeIs DEF n, d
<1> QED BY <1>5, <1>6 DEF GivesAll

\* There are as many as are given.
OneToOne(f, n, T) == /\ DOMAIN f = 1 .. n
                     /\ \A m \in 1 .. n : f[m] \in T
                     /\ \A a \in T : \E m \in 1 .. n : f[m] = a
                     /\ \A m, k \in 1 .. n : f[m] = f[k] => m = k

LEMMA AsManyAsTold ==
    ASSUME NEW T, NEW n \in Nat, NEW f, OneToOne(f, n, T)
    PROVE  Cardinality(T) = n
<1> USE DEF OneToOne
<1> DEFINE g == [m \in 1 .. n |-> f[m]]
<1>1. g \in Bijection(1 .. n, T)
  <2>1. g \in [1 .. n -> T]
      OBVIOUS
  <2>2. \A m, k \in 1 .. n : g[m] = g[k] => m = k
      OBVIOUS
  <2>3. \A a \in T : \E m \in 1 .. n : g[m] = a
      OBVIOUS
  <2> HIDE DEF g
  <2>4. DOMAIN g = 1 .. n
      BY <2>1
  <2>5. IsInjective(g)
      BY <2>2, <2>4 DEF IsInjective
  <2> QED BY <2>1, <2>3, <2>5 DEF Bijection, Injection, Surjection
<1>2. ExistsBijection(1 .. n, T)
    BY <1>1 DEF ExistsBijection
<1>3. IsFiniteSet(1 .. n) /\ Cardinality(1 .. n) = n
    BY FS_Interval
<1> HIDE DEF g
<1> QED BY <1>2, <1>3, FS_Bijection

-----------------------------------------------------------------------------
(* Names in full *)

\* What becomes of the i-th attribute: it is told under its full name.
Full(w, i) ==
    LET a == w.atts[i].name
        p == PrefixOf(a)
    IN [name  |-> IF p = None THEN Plain(a) ELSE Expanded(w.bindings[w.bound[p]].uri, a.local, p),
        value |-> w.atts[i].value]
Entered(tab, n) ==
    [tab EXCEPT !.slots[Slot(tab, n).at] =
        [hash |-> Hash[UriName(n)], version |-> tab.version, name |-> UriName(n)]]

\* What expanding one name does, when it is not refused.
LEMMA ExpandDoes ==
    ASSUME NEW w, NEW i, NEW x, x.error = "NONE", DOMAIN x = {"atts", "flag", "error", "table"},
           NEW p, p = PrefixOf(w.atts[i].name), NEW n, n = Full(w, i).name,
           NEW r, r = Expand(x, w, i)
    PROVE  /\ r.error = IF p = None THEN "NONE"
                        ELSE IF w.bound[p] = 0 THEN "UNBOUND_PREFIX"
                        ELSE IF Slot(x.table, n).taken THEN "DUPLICATE_ATTRIBUTE" ELSE "NONE"
           /\ r.error = "NONE" =>
                /\ r.atts = Append(x.atts, Full(w, i))
                /\ r.table = IF p = None THEN x.table ELSE Entered(x.table, n)
<1> DEFINE a    == w.atts[i].name
           b    == w.bound[p]
           name == Expanded(w.bindings[b].uri, a.local, p)
           to(m) == [x EXCEPT !.atts = Append(@, [name |-> m, value |-> w.atts[i].value]),
                              !.flag[a] = 0]
           u == [x EXCEPT !.error = "UNBOUND_PREFIX"]
           d == [x EXCEPT !.error = "DUPLICATE_ATTRIBUTE"]
           plain == to(Plain(a))
           entered == [to(name) EXCEPT !.table.slots[Slot(x.table, name).at] =
                [hash |-> Hash[UriName(name)], version |-> x.table.version,
                 name |-> UriName(name)]]
<1>1. r = IF x.error # "NONE" THEN x
          ELSE IF p = None THEN plain
          ELSE IF b = 0 THEN u
          ELSE IF Slot(x.table, name).taken THEN d ELSE entered
    BY Zenon DEF Expand
<1>2. /\ plain.error = "NONE" /\ plain.table = x.table
      /\ plain.atts = Append(x.atts, [name |-> Plain(a), value |-> w.atts[i].value])
    OBVIOUS
<1>3. u.error = "UNBOUND_PREFIX" /\ d.error = "DUPLICATE_ATTRIBUTE"
    OBVIOUS
<1>4. /\ to(name).error = "NONE" /\ to(name).table = x.table /\ DOMAIN to(name) = DOMAIN x
      /\ to(name).atts = Append(x.atts, [name |-> name, value |-> w.atts[i].value])
    OBVIOUS
<1>5. /\ entered.error = "NONE" /\ entered.atts = to(name).atts
      /\ entered.table = Entered(x.table, name)
  <2> HIDE DEF to, name
  <2>1. entered.error = "NONE" /\ entered.atts = to(name).atts
      BY <1>4
  <2>2. entered.table = Entered(x.table, name)
      BY <1>4 DEF Entered
  <2> QED BY <2>1, <2>2
<1>6. /\ p = None => Full(w, i) = [name |-> Plain(a), value |-> w.atts[i].value]
      /\ p # None => /\ Full(w, i) = [name |-> name, value |-> w.atts[i].value]
                     /\ n = name
    BY DEF Full
<1> HIDE DEF plain, u, d, entered, name, to, b, a
<1>7. CASE p = None
    BY <1>1, <1>2, <1>6, <1>7
<1>8. CASE p # None /\ b = 0
    BY <1>1, <1>3, <1>8 DEF b
<1>9. CASE p # None /\ b # 0 /\ Slot(x.table, name).taken
    BY <1>1, <1>3, <1>6, <1>9 DEF b
<1>10. CASE p # None /\ b # 0 /\ ~Slot(x.table, name).taken
    BY <1>1, <1>4, <1>5, <1>6, <1>10 DEF b
<1> QED BY <1>7, <1>8, <1>9, <1>10

\* The first i attributes are told under their full names.
FullInv(w, i, x) ==
    x.error = "NONE" =>
        /\ x.atts \in Seq({Full(w, m) : m \in 1 .. Len(w.atts)}) /\ Len(x.atts) = i
        /\ \A m \in 1 .. i :
              /\ x.atts[m] = Full(w, m)
              /\ PrefixOf(w.atts[m].name) # None => w.bound[PrefixOf(w.atts[m].name)] # 0

\* One more name is expanded.
LEMMA FullNext ==
    ASSUME NEW w, w \in Works, NEW i \in 1 .. Len(w.atts), NEW x,
           ExpandInv(w, i - 1, x), FullInv(w, i - 1, x)
    PROVE  FullInv(w, i, Expand(x, w, i))
<1> DEFINE r == Expand(x, w, i)
           S == {Full(w, m) : m \in 1 .. Len(w.atts)}
           p == PrefixOf(w.atts[i].name)
<1>1. CASE x.error # "NONE"
    BY <1>1 DEF Expand, FullInv
<1>2. CASE x.error = "NONE" /\ r.error = "NONE"
  <2>1. DOMAIN x = {"atts", "flag", "error", "table"}
      BY <1>2 DEF ExpandInv
  <2>2. /\ r.atts = Append(x.atts, Full(w, i))
        /\ p # None => w.bound[p] # 0
    <3> HIDE DEF r, p
    <3>1. r = Expand(x, w, i) /\ p = PrefixOf(w.atts[i].name)
        BY DEF r, p
    <3>2. /\ r.error = IF p = None THEN "NONE"
                       ELSE IF w.bound[p] = 0 THEN "UNBOUND_PREFIX"
                       ELSE IF Slot(x.table, Full(w, i).name).taken
                       THEN "DUPLICATE_ATTRIBUTE" ELSE "NONE"
          /\ r.error = "NONE" => r.atts = Append(x.atts, Full(w, i))
        BY <1>2, <2>1, <3>1, ExpandDoes
    <3> QED BY <1>2, <3>2
  <2>3. /\ x.atts \in Seq(S) /\ Len(x.atts) = i - 1
        /\ \A m \in 1 .. i - 1 :
              /\ x.atts[m] = Full(w, m)
              /\ PrefixOf(w.atts[m].name) # None => w.bound[PrefixOf(w.atts[m].name)] # 0
      BY <1>2 DEF FullInv
  <2>4. i \in Nat /\ Full(w, i) \in S /\ 0 < i
      BY DEF Works
  <2> HIDE DEF r, S
  <2>5. r.atts \in Seq(S) /\ Len(r.atts) = i /\ r.atts[i] = Full(w, i)
        /\ \A m \in 1 .. i - 1 : r.atts[m] = x.atts[m]
      BY <2>2, <2>3, <2>4
  <2>6. \A m \in 1 .. i : m = i \/ m \in 1 .. i - 1
      BY <2>4
  <2>7. FullInv(w, i, r)
      BY <2>2, <2>3, <2>5, <2>6 DEF FullInv, S
  <2> QED BY <2>7 DEF r
<1>3. CASE r.error # "NONE"
    BY <1>3 DEF FullInv
<1> QED BY <1>1, <1>2, <1>3

\* When all names are expanded.
LEMMA FullDone ==
    ASSUME NEW w, w \in Works
    PROVE  FullInv(w, Len(w.atts), ExpandAll(w))
<1> DEFINE n == Len(w.atts)
<1>1. n \in Nat
    BY DEF Works
<1>2. PICK f : /\ f[0] = ExpandFrom(w)
               /\ \A i \in 1 .. n : f[i] = Expand(f[i - 1], w, i)
               /\ ExpandAll(w) = f[n]
    BY <1>1, Expanding
<1> DEFINE T == {i \in 0 .. n : ExpandInv(w, i, f[i]) /\ FullInv(w, i, f[i])}
<1>3. 0 \in T
  <2>1. w.flag \in [AttributeNames -> 0 .. 2]
      BY DEF Works
  <2>2. /\ ExpandFrom(w).flag = w.flag /\ DOMAIN ExpandFrom(w) = {"atts", "flag", "error", "table"}
        /\ ExpandFrom(w).atts = <<>>
      BY DEF ExpandFrom
  <2>3. ExpandInv(w, 0, ExpandFrom(w))
      BY <2>1, <2>2 DEF ExpandInv
  <2>4. FullInv(w, 0, ExpandFrom(w))
    <3> DEFINE S == {Full(w, m) : m \in 1 .. Len(w.atts)}
    <3>1. <<>> \in Seq(S) /\ Len(<<>>) = 0
        OBVIOUS
    <3> QED BY <2>2, <3>1 DEF FullInv
  <2> QED BY <1>1, <1>2, <2>3, <2>4
<1>4. ASSUME NEW i \in 1 .. n, i - 1 \in T PROVE i \in T
  <2>1. ExpandInv(w, i - 1, f[i - 1]) /\ FullInv(w, i - 1, f[i - 1])
      BY <1>4
  <2>2. ExpandInv(w, i, f[i])
      BY <1>2, <2>1, ExpandNext
  <2>3. FullInv(w, i, f[i])
      BY <1>2, <2>1, FullNext
  <2>4. i \in 0 .. n
      BY <1>1
  <2> QED BY <2>2, <2>3, <2>4
<1>5. n \in T
  <2> HIDE DEF T
  <2>1. \A i \in 0 .. n : i \in T
      BY <1>1, <1>3, <1>4, Induction
  <2> QED BY <1>1, <2>1
<1> QED BY <1>2, <1>5

-----------------------------------------------------------------------------
(* The table of expanded names *)

\* Division with a remainder.
LEMMA Division ==
    ASSUME NEW a \in Nat, NEW b \in Nat, b > 0
    PROVE  \E q \in Nat, r \in 0 .. b - 1 : q = a \div b /\ r = a % b /\ a = b * q + r
<1>1. a = b * (a \div b) + (a % b)
    BY Z3
<1>2. a \div b \in Nat
    OBVIOUS
<1>3. a % b \in 0 .. b - 1
    OBVIOUS
<1> QED BY <1>1, <1>2, <1>3

\* A quotient is none of a smaller number.
LEMMA NoQuotient ==
    ASSUME NEW a \in Nat, NEW b \in Nat, b > 0
    PROVE  a \div b = 0 <=> a < b
<1>1. PICK q \in Nat, r \in 0 .. b - 1 : q = a \div b /\ r = a % b /\ a = b * q + r
    BY Division
<1>2. q > 0 => b * q >= b
    OBVIOUS
<1>3. q = 0 => b * q = 0
    OBVIOUS
<1> QED BY <1>1, <1>2, <1>3

\* Numbers with the same remainder are a multiple apart.
LEMMA SameRemainder ==
    ASSUME NEW a \in Nat, NEW b \in Nat, b > 0, NEW c \in Nat, c <= a, a % b = c % b
    PROVE  \E q \in Nat : a - c = b * q
<1>1. PICK x \in Nat, r \in 0 .. b - 1 : r = a % b /\ a = b * x + r
    BY Division
<1>2. PICK y \in Nat, s \in 0 .. b - 1 : s = c % b /\ c = b * y + s
    BY Division
<1>3. b * (x - y) = b * x - b * y
    OBVIOUS
<1>4. a - c = b * (x - y)
    BY <1>1, <1>2, <1>3
<1>5. x - y < 0 => b * (x - y) <= -b
    OBVIOUS
<1>6. x - y \in Nat
    BY <1>4, <1>5
<1> QED BY <1>4, <1>6

\* There are as many of the first powers of two as one likes, and only these.
LEMMA BitsUpTo ==
    ASSUME NEW n \in Nat
    PROVE  /\ \E g : g = [i \in 0 .. n |-> IF i = 0 THEN 1 ELSE 2 * g[i - 1]]
           /\ \A g, h : /\ g[0] = 1 /\ h[0] = 1
                        /\ \A i \in 1 .. n : g[i] = 2 * g[i - 1] /\ h[i] = 2 * h[i - 1]
                        => g[n] = h[n]
<1> DEFINE Def(g, k) == [i \in 0 .. k |-> IF i = 0 THEN 1 ELSE 2 * g[i - 1]]
           T == {k \in 0 .. n : \E g : g = Def(g, k)}
<1>1. 0 \in T
  <2> DEFINE g == [i \in 0 .. 0 |-> 1]
  <2>1. g = Def(g, 0)
      OBVIOUS
  <2> HIDE DEF g
  <2>2. \E h : h = Def(h, 0)
      BY <2>1, Zenon
  <2> HIDE DEF Def
  <2> QED BY <2>2
<1>2. ASSUME NEW k \in 1 .. n, k - 1 \in T
      PROVE  k \in T
  <2>1. PICK h : h = Def(h, k - 1)
      BY <1>2
  <2> DEFINE g == [i \in 0 .. k |-> IF i = k THEN 2 * h[k - 1] ELSE h[i]]
  <2>2. ASSUME NEW i \in 0 .. k PROVE g[i] = Def(g, k)[i]
    <3>1. CASE i = 0
        BY <3>1, <2>1
    <3>2. CASE i = k
        BY <3>2, g[k - 1] = h[k - 1], k - 1 \in 0 .. k
    <3>3. CASE i # 0 /\ i # k
        BY <3>3, <2>1, g[i - 1] = h[i - 1], i - 1 \in 0 .. k, i \in 0 .. k - 1
    <3> QED BY <3>1, <3>2, <3>3
  <2>3. g = Def(g, k)
      BY <2>2
  <2> HIDE DEF g
  <2>4. \E u : u = Def(u, k)
      BY <2>3, Zenon
  <2> HIDE DEF Def
  <2> QED BY <2>4
<1>3. \E g : g = Def(g, n)
  <2> HIDE DEF T
  <2>1. n \in T
      BY <1>1, <1>2, Induction
  <2> QED BY <2>1 DEF T
<1>4. ASSUME NEW g, NEW h, g[0] = 1, h[0] = 1,
             \A i \in 1 .. n : g[i] = 2 * g[i - 1] /\ h[i] = 2 * h[i - 1]
      PROVE  g[n] = h[n]
  <2> DEFINE U == {k \in 0 .. n : g[k] = h[k]}
  <2>1. 0 \in U
      BY <1>4
  <2>2. \A i \in 1 .. n : i - 1 \in U => i \in U
      BY <1>4
  <2> HIDE DEF U
  <2>3. n \in U
      BY <2>1, <2>2, Induction
  <2> QED BY <2>3 DEF U
<1> QED BY <1>3, <1>4

\* 1 << n is twice 1 << n - 1.
LEMMA BitDoubles ==
    /\ Bit[0] = 1
    /\ \A n \in Nat \ {0} : Bit[n] = 2 * Bit[n - 1]
<1> DEFINE Def(g, k) == [i \in 0 .. k |-> IF i = 0 THEN 1 ELSE 2 * g[i - 1]]
           H(k) == CHOOSE g : g = Def(g, k)
           B == [n \in Nat |-> H(n)[n]]
           R(g) == [n \in Nat |-> IF n = 0 THEN 1 ELSE 2 * g[n - 1]]
<1>1. ASSUME NEW n \in Nat PROVE H(n) = Def(H(n), n)
  <2>1. \E g : g = Def(g, n)
      BY BitsUpTo
  <2> HIDE DEF Def
  <2> QED BY <2>1
<1>2. ASSUME NEW n \in Nat PROVE /\ H(n)[0] = 1 
                                 /\ \A i \in 1 .. n : H(n)[i] = 2 * H(n)[i - 1]
  <2>1. H(n) = Def(H(n), n)
      BY <1>1
  <2> HIDE DEF H
  <2> QED BY <2>1
<1>3. ASSUME NEW n \in Nat \ {0} PROVE H(n)[n] = 2 * H(n - 1)[n - 1]
  <2>1. n - 1 \in Nat /\ n \in 1 .. n /\ n \in Nat
      OBVIOUS
  <2>2. H(n)[0] = 1 /\ H(n - 1)[0] = 1
      BY <1>2, <2>1
  <2>3. \A i \in 1 .. n - 1 : H(n)[i] = 2 * H(n)[i - 1] /\ H(n - 1)[i] = 2 * H(n - 1)[i - 1]
      BY <1>2, <2>1
  <2> HIDE DEF H
  <2>4. H(n)[n - 1] = H(n - 1)[n - 1]
      BY <2>1, <2>2, <2>3, BitsUpTo
  <2> QED BY <2>1, <2>4, <1>2
<1>4. B = R(B)
  <2>1. \A n \in Nat : n # 0 => B[n] = 2 * B[n - 1]
      BY <1>3
  <2>2. B[0] = 1
      BY <1>2
  <2> HIDE DEF H
  <2>3. \A n \in Nat : B[n] = R(B)[n]
      BY <2>1, <2>2
  <2> QED BY <2>3
<1> HIDE DEF B
<1>5. \E g : g = R(g)
    BY <1>4, Zenon
<1>6. Bit = R(Bit)
    BY <1>5, Zenon DEF Bit
<1>7. \A n \in Nat : Bit[n] = R(Bit)[n]
    BY <1>6
<1> QED BY <1>7

\* It is a number greater than n, and even but for n = 0.
LEMMA BitIs ==
    ASSUME NEW n \in Nat
    PROVE  Bit[n] \in Nat /\ Bit[n] > n /\ Bit[n] > 0
<1> DEFINE T == {k \in 0 .. n : Bit[k] \in Nat /\ Bit[k] > k}
<1>1. 0 \in T
    BY BitDoubles
<1>2. \A k \in 1 .. n : k - 1 \in T => k \in T
    BY BitDoubles
<1> HIDE DEF T
<1>3. n \in T
    BY <1>1, <1>2, Induction
<1> QED BY <1>3 DEF T

\* One of two factors of an even number is even.
LEMMA EvenFactor ==
    ASSUME NEW x \in Nat, NEW d \in Nat, d % 2 = 1, NEW c \in Nat, x * d = 2 * c
    PROVE  \E y \in Nat : x = 2 * y /\ y * d = c
<1>1. PICK q \in Nat, r \in 0 .. 1 : r = d % 2 /\ d = 2 * q + r
    BY Division
<1>2. PICK y \in Nat, s \in 0 .. 1 : s = x % 2 /\ x = 2 * y + s
    BY Division
<1>3. x * d = x * (2 * q + 1)
    BY <1>1
<1>4. x * (2 * q + 1) = 2 * (x * q) + x /\ x * q \in Int
    OBVIOUS
<1>5. 2 * c = 2 * (x * q) + 2 * y + s
    BY <1>2, <1>3, <1>4
<1>6. x = 2 * y
    BY <1>2, <1>4, <1>5
<1>7. (2 * y) * d = 2 * (y * d) /\ y * d \in Int
    OBVIOUS
<1>8. y * d = c
    BY <1>6, <1>7
<1> QED BY <1>6, <1>8

\* A power of two that divides a product with an odd number divides the other.
LEMMA OddDivides ==
    ASSUME NEW n \in Nat, NEW d \in Nat, d % 2 = 1,
           NEW x \in Nat, NEW c \in Nat, x * d = Bit[n] * c
    PROVE  \E y \in Nat : x = Bit[n] * y
<1> DEFINE Divides(k) == \A u, v \in Nat : u * d = Bit[k] * v => \E y \in Nat : u = Bit[k] * y
           T == {k \in 0 .. n : Divides(k)}
<1>1. 0 \in T
  <2>1. ASSUME NEW u \in Nat PROVE u = Bit[0] * u
      BY BitDoubles
  <2> QED BY <2>1
<1>2. ASSUME NEW k \in 1 .. n, k - 1 \in T PROVE k \in T
  <2>1. ASSUME NEW u \in Nat, NEW v \in Nat, u * d = Bit[k] * v
        PROVE  \E y \in Nat : u = Bit[k] * y
    <3>1. Bit[k] = 2 * Bit[k - 1] /\ Bit[k - 1] \in Nat /\ k \in Nat /\ k - 1 \in Nat
        BY BitDoubles, BitIs
    <3> DEFINE b == Bit[k - 1]
    <3> HIDE DEF b
    <3>2. b \in Nat /\ (2 * b) * v = 2 * (b * v) /\ b * v \in Nat
        BY <3>1 DEF b
    <3>3. u * d = 2 * (b * v)
        BY <2>1, <3>1, <3>2 DEF b
    <3>4. PICK y \in Nat : u = 2 * y /\ y * d = b * v
      <4>1. \A z \in Nat : u * d = 2 * z => \E y \in Nat : u = 2 * y /\ y * d = z
          BY EvenFactor
      <4> QED BY <3>2, <3>3, <4>1
    <3>5. PICK z \in Nat : y = b * z
        BY <1>2, <3>4 DEF b
    <3>6. (2 * b) * z = 2 * (b * z)
        BY <3>2
    <3> QED BY <3>1, <3>4, <3>5, <3>6 DEF b
  <2> QED BY <2>1
<1> HIDE DEF T
<1>3. n \in T
    BY <1>1, <1>2, Induction
<1> QED BY <1>3 DEF T

\* The step of a probe is odd, and less than the table is long.
LEMMA ProbeStepIsOdd ==
    ASSUME NEW h \in Nat, NEW power \in Nat, power >= 3
    PROVE  /\ ProbeStep(h, power) \in Nat /\ ProbeStep(h, power) % 2 = 1
           /\ ProbeStep(h, power) < Bit[power]
<1> DEFINE a == (h - (h % Bit[power])) \div Bit[power - 1]
           s == a % Bit[power - 2]
           o == IF s % 2 = 0 THEN s + 1 ELSE s
<1>1. /\ Bit[power] = 2 * Bit[power - 1] /\ Bit[power - 1] = 2 * Bit[power - 2]
      /\ Bit[power] \in Nat /\ Bit[power - 1] \in Nat /\ Bit[power - 2] \in Nat
      /\ Bit[power] > 0 /\ Bit[power - 1] > 0 /\ Bit[power - 2] > 0
  <2>1. power - 1 \in Nat \ {0} /\ power - 2 \in Nat /\ (power - 1) - 1 = power - 2
      OBVIOUS
  <2> QED BY <2>1, BitDoubles, BitIs
<1>2. h - (h % Bit[power]) \in Nat
  <2>1. PICK q \in Nat, r \in 0 .. Bit[power] - 1 :
           q = h \div Bit[power] /\ r = h % Bit[power] /\ h = Bit[power] * q + r
      BY <1>1, Division
  <2>2. Bit[power] * q \in Nat
      BY <1>1
  <2> QED BY <2>1, <2>2
<1>3. a \in Nat
    BY <1>1, <1>2, Division
<1>4. s \in 0 .. Bit[power - 2] - 1
    BY <1>1, <1>3
<1> HIDE DEF a, s
<1>5. o \in Nat /\ o % 2 = 1 /\ o <= Bit[power - 2]
    BY <1>1, <1>4
<1> HIDE DEF o
<1>6. o % 256 \in Nat /\ (o % 256) % 2 = 1 /\ o % 256 <= o
    BY <1>5
<1>7. ProbeStep(h, power) = o % 256
    BY DEF ProbeStep, o, s, a
<1> QED BY <1>1, <1>5, <1>6, <1>7

\* So that no place is probed twice: those that are probed are in the table.
LEMMA ProbesDiffer ==
    ASSUME NEW t, t.power \in Nat, t.power >= 3, NEW h \in Nat
    PROVE  /\ \A k \in Nat : Probe(t, h, k) \in 0 .. Bit[t.power] - 1
           /\ \A k, m \in 0 .. Bit[t.power] - 1 : Probe(t, h, k) = Probe(t, h, m) => k = m
<1> DEFINE b == Bit[t.power]
           s == b - ProbeStep(h, t.power)
<1>1. b \in Nat /\ b > 0 /\ \E c \in Nat : b = 2 * c
  <2>1. t.power \in Nat \ {0} /\ t.power - 1 \in Nat
      OBVIOUS
  <2> QED BY <2>1, BitDoubles, BitIs
<1>2. s \in Nat /\ s % 2 = 1
  <2>1. PICK c \in Nat : b = 2 * c
      BY <1>1
  <2>2. /\ ProbeStep(h, t.power) \in Nat /\ ProbeStep(h, t.power) % 2 = 1
        /\ ProbeStep(h, t.power) < b
      BY ProbeStepIsOdd
  <2> HIDE DEF b
  <2> QED BY <2>1, <2>2
<1>3. \A k : Probe(t, h, k) = (h + k * s) % b
    BY DEF Probe
<1> HIDE DEF b, s
<1>4. ASSUME NEW k \in Nat PROVE Probe(t, h, k) \in 0 .. b - 1
  <2>1. h + k * s \in Nat
      BY <1>2
  <2> QED BY <1>1, <1>3, <2>1
<1>5. ASSUME NEW k \in 0 .. b - 1, NEW m \in 0 .. b - 1, m < k, Probe(t, h, k) = Probe(t, h, m)
      PROVE  FALSE
  <2>1. /\ k * s \in Nat /\ m * s \in Nat /\ (k - m) * s = k * s - m * s
        /\ (k - m) \in Nat /\ (k - m) * s \in Nat
      BY <1>1, <1>2, <1>5
  <2>2. (h + k * s) % b = (h + m * s) % b
      BY <1>3, <1>5
  <2>3. PICK q \in Nat : (h + k * s) - (h + m * s) = b * q
    <3> DEFINE u == h + k * s
               v == h + m * s
    <3>1. u \in Nat /\ v \in Nat /\ v <= u
        BY <2>1
    <3>2. u % b = v % b
        BY <2>2
    <3> HIDE DEF u, v
    <3>3. \E q \in Nat : u - v = b * q
        BY <1>1, <3>1, <3>2, SameRemainder
    <3> QED BY <3>3 DEF u, v
  <2>4. (k - m) * s = b * q
      BY <2>1, <2>3
  <2>5. PICK y \in Nat : k - m = b * y
    <3> DEFINE d == k - m
    <3>1. d \in Nat /\ d * s = b * q
        BY <2>1, <2>4
    <3> HIDE DEF d
    <3>2. \A x, c \in Nat : x * s = b * c => \E y \in Nat : x = b * y
        BY <1>2, OddDivides DEF b
    <3> QED BY <3>1, <3>2 DEF d
  <2>6. y > 0 => b * y >= b
      BY <1>1
  <2>7. y = 0 => b * y = 0
      BY <1>1
  <2> QED BY <1>1, <1>5, <2>5, <2>6, <2>7
<1>6. ASSUME NEW k \in 0 .. b - 1, NEW m \in 0 .. b - 1, Probe(t, h, k) = Probe(t, h, m)
      PROVE  k = m
  <2>1. k < m \/ k = m \/ m < k
      BY <1>1
  <2> QED BY <1>5, <1>6, <2>1
<1> QED BY <1>4, <1>6 DEF b

\* The places in use, those on the way of a name, and the one that has it.
Places(t)     == 0 .. Bit[t.power] - 1
Used(t)       == {j \in Places(t) : t.slots[j].version = t.version}
Way(t, n, k)  == Probe(t, Hash[UriName(n)], k)
Holds(t, j, n) == /\ t.slots[j].hash = Hash[UriName(n)]
                  /\ t.slots[j].name = UriName(n)
Roomy(t) == /\ t.power \in Nat /\ t.power >= 3
            /\ IsFiniteSet(Used(t)) /\ Cardinality(Used(t)) < Bit[t.power]

\* On the way of a name there is a place that is not in use.
LEMMA FreePlace ==
    ASSUME NEW t, Roomy(t), NEW n, Hash[UriName(n)] \in Nat
    PROVE  \E k \in Places(t) : Way(t, n, k) \notin Used(t)
<1> SUFFICES ASSUME \A k \in Places(t) : Way(t, n, k) \in Used(t) PROVE FALSE
    OBVIOUS
<1> DEFINE f == [k \in Places(t) |-> Way(t, n, k)]
           b == Bit[t.power]
<1>1. b \in Nat /\ b > 0 /\ Places(t) = 0 .. b - 1
    BY BitIs DEF Roomy, Places
<1>2. \A k, m \in Places(t) : Way(t, n, k) = Way(t, n, m) => k = m
    BY ProbesDiffer DEF Roomy, Places, Way
<1>3. f \in Injection(Places(t), Used(t))
    BY <1>2 DEF Injection, IsInjective
<1>4. IsFiniteSet(Used(t)) /\ Cardinality(Used(t)) < b
    BY DEF Roomy
<1> HIDE DEF f, b
<1>5. Cardinality(Places(t)) <= Cardinality(Used(t))
    BY <1>3, <1>4, FS_Injection
<1>6. Cardinality(Places(t)) = b
    BY <1>1, FS_Interval
<1>7. Cardinality(Used(t)) \in Nat
    BY <1>4, FS_CardinalityType
<1> QED BY <1>1, <1>4, <1>5, <1>6, <1>7

\* The slot of a name is the first on its way that is free or has it.
LEMMA SlotIs ==
    ASSUME NEW t, Roomy(t), NEW n, Hash[UriName(n)] \in Nat
    PROVE  \E k \in Places(t) :
              /\ Slot(t, n).at = Way(t, n, k) /\ Way(t, n, k) \in Places(t)
              /\ Slot(t, n).taken <=> Way(t, n, k) \in Used(t)
              /\ Way(t, n, k) \in Used(t) => Holds(t, Way(t, n, k), n)
              /\ \A m \in 0 .. k - 1 : /\ m \in Places(t) /\ Way(t, n, m) \in Used(t)
                                       /\ ~Holds(t, Way(t, n, m), n)
<1> DEFINE h == Hash[UriName(n)]
           used(k) == t.slots[Probe(t, h, k)].version = t.version
           same(k) == /\ t.slots[Probe(t, h, k)].hash = h
                      /\ t.slots[Probe(t, h, k)].name = UriName(n)
           Stops(k) == /\ ~used(k) \/ same(k)
                       /\ \A m \in 0 .. k - 1 : used(m) /\ ~same(m)
           K == {k \in Places(t) : ~used(k) \/ same(k)}
           first == CHOOSE k \in 0 .. Bit[t.power] - 1 : Stops(k)
           b == Bit[t.power]
<1>1. b \in Nat /\ b > 0 /\ Places(t) = 0 .. b - 1
    BY BitIs DEF Roomy, Places
<1>2. \A k \in Places(t) : Way(t, n, k) = Probe(t, h, k) /\ Probe(t, h, k) \in Places(t)
  <2>1. \A k \in Nat : Probe(t, h, k) \in 0 .. Bit[t.power] - 1
      BY ProbesDiffer DEF Roomy
  <2> QED BY <1>1, <2>1 DEF Way, b
<1>3. \A k \in Places(t) : /\ Way(t, n, k) \in Used(t) <=> used(k)
                           /\ Holds(t, Way(t, n, k), n) <=> same(k)
    BY <1>2 DEF Used, Holds
<1> HIDE DEF b
<1>4. PICK k \in K : \A m \in K : k <= m
  <2>1. K # {}
      BY <1>3, FreePlace
  <2>2. K \in SUBSET Nat
    <3> HIDE DEF used, same
    <3> QED BY <1>1
  <2> HIDE DEF K
  <2> QED BY <2>1, <2>2, Least
<1>5. Stops(k)
  <2> HIDE DEF used, same
  <2>1. \A m \in 0 .. k - 1 : m \in Places(t) /\ m < k
      BY <1>1, <1>4
  <2>2. \A m \in 0 .. k - 1 : m \notin K
      BY <1>1, <1>4, <2>1
  <2> QED BY <1>4, <2>1, <2>2
<1>6. first \in Places(t) /\ Stops(first)
  <2> HIDE DEF Stops
  <2> QED BY <1>4, <1>5 DEF Places
<1>7. Slot(t, n) = [at |-> Probe(t, h, first), taken |-> used(first)]
    BY DEF Slot
<1> HIDE DEF first, used, same, h
<1>8. \A m \in 0 .. first - 1 : m \in Places(t)
    BY <1>1, <1>6
<1>9. Slot(t, n).at = Way(t, n, first) /\ Slot(t, n).taken = used(first)
    BY <1>2, <1>6, <1>7
<1> QED BY <1>2, <1>3, <1>6, <1>8, <1>9

\* The least power of two that is greater than n, and not less than that of the table.
LEMMA LeastPower ==
    ASSUME NEW n \in Nat, NEW p \in Nat
    PROVE  \E q \in p .. p + n : /\ n \div Bit[q] = 0
                                 /\ \A r \in p .. q - 1 : n \div Bit[r] # 0
<1> DEFINE K == {q \in p .. p + n : n \div Bit[q] = 0}
<1>1. p + n \in K
  <2>1. p + n \in Nat /\ Bit[p + n] \in Nat /\ Bit[p + n] > n /\ Bit[p + n] > 0
      BY BitIs
  <2> QED BY <2>1, NoQuotient
<1>2. K \in SUBSET Nat
    OBVIOUS
<1>3. PICK q \in K : \A r \in K : q <= r
  <2> HIDE DEF K
  <2> QED BY <1>1, <1>2, Least
<1> QED BY <1>3

\* The table that is taken for n names has more places, and is not smaller.
LEMMA PowerIs ==
    ASSUME TableInv, NEW n \in Nat \ {0}
    PROVE  /\ Power(n) \in Nat /\ Power(n) >= 3 /\ n < Bit[Power(n)]
<1> DEFINE p == table.power
<1>1. p \in Nat /\ (p = 0 \/ p >= 3)
    BY DEF TableInv, Tidy
<1>2. Bit[p] \in Nat /\ Bit[p] > 0 /\ Bit[0] = 1
    BY <1>1, BitIs, BitDoubles
<1>3. CASE (2 * n) \div Bit[p] = 0
  <2>1. Power(n) = p
      BY <1>3 DEF Power
  <2>2. 2 * n < Bit[p]
    <3> DEFINE b == Bit[p]
               m == 2 * n
    <3>1. m \in Nat /\ b \in Nat /\ b > 0 /\ m \div b = 0
        BY <1>2, <1>3
    <3> HIDE DEF b, m
    <3>2. m < b
        BY <3>1, NoQuotient
    <3> QED BY <3>2 DEF b, m
  <2> HIDE DEF p
  <2> QED BY <1>1, <1>2, <2>1, <2>2
<1>4. CASE (2 * n) \div Bit[p] # 0
  <2> DEFINE Least0(o) == /\ n \div Bit[o] = 0
                          /\ \A r \in p .. o - 1 : n \div Bit[r] # 0
             q == CHOOSE o \in p .. p + n : Least0(o)
  <2>1. Power(n) = IF q + 1 < 3 THEN 3 ELSE q + 1
      BY <1>4 DEF Power
  <2>2. q \in p .. p + n /\ Least0(q)
    <3>1. \E o \in p .. p + n : Least0(o)
        BY <1>1, LeastPower
    <3> HIDE DEF Least0
    <3> QED BY <3>1
  <2>3. q \in Nat /\ n \div Bit[q] = 0
      BY <1>1, <2>2
  <2> HIDE DEF q
  <2>4. n < Bit[q] /\ Bit[q] \in Nat
      BY <2>3, BitIs, NoQuotient
  <2>5. Bit[q + 1] = 2 * Bit[q]
      BY <2>3, BitDoubles, q + 1 \in Nat \ {0}, (q + 1) - 1 = q
  <2>6. Bit[1] = 2 /\ Bit[2] = 4 /\ Bit[3] = 8
    <3>1. Bit[1] = 2 * Bit[1 - 1] /\ Bit[2] = 2 * Bit[2 - 1] /\ Bit[3] = 2 * Bit[3 - 1]
        BY BitDoubles
    <3> QED BY <3>1, <1>2
  <2>7. CASE q + 1 < 3
    <3>1. q = 0 \/ q = 1
        BY <2>3, <2>7
    <3> QED BY <2>1, <2>4, <2>6, <2>7, <3>1, <1>2
  <2>8. CASE ~(q + 1 < 3)
      BY <2>1, <2>3, <2>4, <2>5, <2>8
  <2> QED BY <2>7, <2>8
<1> QED BY <1>3, <1>4

\* When a table is taken no place in it is in use.
LEMMA FreshIs ==
    ASSUME TableAssumption, TableInv, NEW n \in Nat \ {0}, NEW t, t = FreshTable(n)
    PROVE  /\ Tidy(t) /\ t.power \in Nat /\ t.power >= 3 /\ n < Bit[t.power]
           /\ Used(t) = {}
<1> DEFINE renews == Power(n) # table.power \/ table.version = 0
           version == IF renews THEN INIT_ATTS_VERSION ELSE table.version
           unused == [hash |-> 0, version |-> version, name |-> NoName]
           fresh == [j \in 0 .. Bit[Power(n)] - 1 |-> unused]
<1>1. t = [power |-> Power(n), version |-> version - 1,
           slots |-> IF renews THEN fresh ELSE table.slots]
    BY Zenon DEF FreshTable
<1>2. Power(n) \in Nat /\ Power(n) >= 3 /\ n < Bit[Power(n)]
    BY PowerIs
<1>3. version \in Nat \ {0}
    BY DEF TableAssumption, TableInv, Tidy
<1>4. /\ DOMAIN t.slots = 0 .. Bit[Power(n)] - 1
      /\ \A j \in DOMAIN t.slots : t.slots[j].version \in Nat /\ t.slots[j].version >= version
  <2>1. CASE renews
      BY <1>1, <1>3, <2>1
  <2>2. CASE ~renews
      BY <1>1, <1>2, <2>2 DEF TableInv, Tidy
  <2> QED BY <2>1, <2>2
<1> HIDE DEF version, renews
<1>5. t.power = Power(n) /\ t.version = version - 1 /\ DOMAIN t = {"power", "version", "slots"}
    BY <1>1
<1>6. Tidy(t)
    BY <1>2, <1>3, <1>4, <1>5 DEF Tidy
<1>7. Used(t) = {}
    BY <1>3, <1>4, <1>5 DEF Used, Places
<1> QED BY <1>2, <1>5, <1>6, <1>7

\* A name that was entered is found on its way.
Found(t, n) ==
    \E k \in Places(t) : /\ Way(t, n, k) \in Used(t) /\ Holds(t, Way(t, n, k), n)
                         /\ \A m \in 0 .. k - 1 : Way(t, n, m) \in Used(t)

\* The slot of a name is taken just when one of the same text was entered.
LEMMA TakenIs ==
    ASSUME NEW t, Roomy(t), NEW n, Hash[UriName(n)] \in Nat
    PROVE  /\ Slot(t, n).taken => \E j \in Used(t) : Holds(t, j, n)
           /\ \A o : UriName(o) = UriName(n) /\ Found(t, o) => Slot(t, n).taken
<1>1. PICK k \in Places(t) :
         /\ Slot(t, n).taken <=> Way(t, n, k) \in Used(t)
         /\ Way(t, n, k) \in Used(t) => Holds(t, Way(t, n, k), n)
         /\ \A m \in 0 .. k - 1 : Way(t, n, m) \in Used(t) /\ ~Holds(t, Way(t, n, m), n)
    BY SlotIs
<1>2. Slot(t, n).taken => \E j \in Used(t) : Holds(t, j, n)
    BY <1>1
<1>3. ASSUME NEW o, UriName(o) = UriName(n), Found(t, o)
      PROVE  Slot(t, n).taken
  <2>1. PICK l \in Places(t) : /\ Way(t, o, l) \in Used(t) /\ Holds(t, Way(t, o, l), o)
                               /\ \A m \in 0 .. l - 1 : Way(t, o, m) \in Used(t)
      BY <1>3 DEF Found
  <2>2. \A m : Way(t, o, m) = Way(t, n, m)
      BY <1>3 DEF Way
  <2>3. \A j : Holds(t, j, o) <=> Holds(t, j, n)
      BY <1>3 DEF Holds
  <2>4. k \in Nat /\ l \in Nat
      BY DEF Places
  <2>5. ~(l < k)
      BY <1>1, <2>1, <2>2, <2>3, <2>4, l < k => l \in 0 .. k - 1
  <2>6. k < l => Way(t, n, k) \in Used(t)
      BY <2>1, <2>2, <2>4, k < l => k \in 0 .. l - 1
  <2>7. k = l => Way(t, n, k) \in Used(t)
      BY <2>1, <2>2
  <2>8. Way(t, n, k) \in Used(t)
      BY <2>4, <2>5, <2>6, <2>7
  <2> QED BY <1>1, <2>8
<1> QED BY <1>2, <1>3

\* A name that is entered takes one more place, and the others keep theirs.
LEMMA EnteredIs ==
    ASSUME NEW t, Roomy(t), Tidy(t), NEW n, Hash[UriName(n)] \in Nat, ~Slot(t, n).taken,
           NEW r, r = Entered(t, n), NEW at, at = Slot(t, n).at
    PROVE  /\ Tidy(r) /\ r.power = t.power /\ Used(r) = Used(t) \cup {at} /\ at \notin Used(t)
           /\ Holds(r, at, n) /\ Found(r, n)
           /\ \A j \in Used(t) : \A o : Holds(r, j, o) <=> Holds(t, j, o)
           /\ \A o : Found(t, o) => Found(r, o)
<1>1. PICK k \in Places(t) :
         /\ at = Way(t, n, k) /\ at \in Places(t)
         /\ Slot(t, n).taken <=> Way(t, n, k) \in Used(t)
         /\ \A m \in 0 .. k - 1 : Way(t, n, m) \in Used(t)
    BY SlotIs
<1> DEFINE slot == [hash |-> Hash[UriName(n)], version |-> t.version, name |-> UriName(n)]
<1>2. DOMAIN t = {"power", "version", "slots"} /\ DOMAIN t.slots = Places(t)
    BY DEF Tidy, Roomy, Places
<1>3. r = [t EXCEPT !.slots = [t.slots EXCEPT ![at] = slot]]
    BY Zenon DEF Entered
<1>4. /\ r.power = t.power /\ r.version = t.version /\ DOMAIN r = DOMAIN t
      /\ r.slots = [t.slots EXCEPT ![at] = slot]
  <2> HIDE DEF slot
  <2> QED BY <1>2, <1>3
<1>5. /\ DOMAIN r.slots = DOMAIN t.slots /\ r.slots[at] = slot
      /\ \A j \in Places(t) : j # at => r.slots[j] = t.slots[j]
  <2> HIDE DEF slot
  <2> QED BY <1>1, <1>2, <1>4
<1>6. slot.version = t.version /\ slot.hash = Hash[UriName(n)] /\ slot.name = UriName(n)
    OBVIOUS
<1> HIDE DEF slot
<1>7. Tidy(r)
    BY <1>2, <1>4, <1>5, <1>6 DEF Tidy
<1>8. Places(r) = Places(t) /\ \A o, m : Way(r, o, m) = Way(t, o, m)
    BY <1>4 DEF Places, Way, Probe
<1>9. at \notin Used(t) /\ Used(r) = Used(t) \cup {at}
    BY <1>1, <1>4, <1>5, <1>6, <1>8 DEF Used
<1>10. Holds(r, at, n)
    BY <1>5, <1>6 DEF Holds
<1>11. \A j \in Used(t) : \A o : Holds(r, j, o) <=> Holds(t, j, o)
    BY <1>5, <1>9 DEF Holds, Used
<1>12. Found(r, n)
  <2>1. /\ k \in Places(r) /\ Way(r, n, k) \in Used(r) /\ Holds(r, Way(r, n, k), n)
        /\ \A m \in 0 .. k - 1 : Way(r, n, m) \in Used(r)
      BY <1>1, <1>8, <1>9, <1>10
  <2> QED BY <2>1 DEF Found
<1>13. ASSUME NEW o, Found(t, o) PROVE Found(r, o)
  <2>1. PICK l \in Places(t) : /\ Way(t, o, l) \in Used(t) /\ Holds(t, Way(t, o, l), o)
                               /\ \A m \in 0 .. l - 1 : Way(t, o, m) \in Used(t)
      BY <1>13 DEF Found
  <2>2. /\ l \in Places(r) /\ Way(r, o, l) \in Used(r) /\ Holds(r, Way(r, o, l), o)
        /\ \A m \in 0 .. l - 1 : Way(r, o, m) \in Used(r)
      BY <1>8, <1>9, <1>11, <2>1
  <2> QED BY <2>2 DEF Found
<1> QED BY <1>4, <1>7, <1>9, <1>10, <1>11, <1>12, <1>13

\* The attributes with a prefix, and what is entered of the first i of them.
Prefixed(w) == {m \in DOMAIN w.atts : PrefixOf(w.atts[m].name) # None}
UpTo(w, i)  == {m \in Prefixed(w) : m <= i}

EnteredInv(w, i, x) ==
    LET t == x.table IN
    x.error = "NONE" =>
        /\ Tidy(t)
        /\ Prefixed(w) # {} =>
             /\ t.power \in Nat /\ t.power >= 3 /\ Cardinality(Prefixed(w)) < Bit[t.power]
             /\ IsFiniteSet(Used(t)) /\ Cardinality(Used(t)) <= Cardinality(UpTo(w, i))
             /\ \A j \in Used(t) : \E m \in UpTo(w, i) : Holds(t, j, Full(w, m).name)
             /\ \A m \in UpTo(w, i) : Found(t, Full(w, m).name)
             /\ \A m, k \in UpTo(w, i) :
                   UriName(Full(w, m).name) = UriName(Full(w, k).name) => m = k

\* What an attribute is not expanded for.
Unbound(w, m) == m \in Prefixed(w) /\ w.bound[PrefixOf(w.atts[m].name)] = 0
Alike(w, m, k) ==
    /\ m \in Prefixed(w) /\ k \in Prefixed(w) /\ m # k
    /\ ~Unbound(w, m) /\ ~Unbound(w, k)
    /\ UriName(Full(w, m).name) = UriName(Full(w, k).name)
Erred(w, x) ==
    \/ x.error = "NONE"
    \/ x.error = "UNBOUND_PREFIX" /\ \E m \in DOMAIN w.atts : Unbound(w, m)
    \/ x.error = "DUPLICATE_ATTRIBUTE" /\ \E m, k \in DOMAIN w.atts : Alike(w, m, k)

\* A prefix that is bound is bound to a binding that there is.
BoundThere(w) == \A p \in PrefixNames : w.bound[p] # 0 => w.bound[p] \in DOMAIN w.bindings

\* The name that is entered, and its hash.
LEMMA NameHashed ==
    ASSUME AttributesAssumption, TableAssumption, TypeInv, NEW w, w \in Works, BoundThere(w),
           NEW m \in Prefixed(w), ~Unbound(w, m)
    PROVE  /\ Hash[UriName(Full(w, m).name)] \in Nat
           /\ PrefixOf(w.atts[m].name) \in PrefixNames
           /\ UriName(Full(w, m).name)
                 = <<w.bindings[w.bound[PrefixOf(w.atts[m].name)]].uri, w.atts[m].name.local>>
<1> DEFINE a == w.atts[m].name
           p == PrefixOf(a)
           b == w.bound[p]
<1>1. m \in DOMAIN w.atts /\ p # None /\ b # 0
    BY DEF Prefixed, Unbound
<1>2. a \in AttributeNames
  <2> DEFINE S == [name : AttributeNames, value : Values]
             s == w.atts
  <2>1. s \in Seq(S) /\ m \in DOMAIN s
      BY <1>1 DEF Works
  <2> HIDE DEF s, S
  <2>2. s[m] \in S
      BY <2>1
  <2> QED BY <2>2 DEF s, S
<1> HIDE DEF a
<1>3. p \in PrefixNames
  <2>1. a.prefix \in PrefixNames /\ (a.prefix = "xmlns" => a.local \in PrefixNames) /\ "" \in PrefixNames
      BY <1>2 DEF AttributesAssumption
  <2> QED BY <1>1, <2>1 DEF PrefixOf, IsXmlns
<1>4. b \in DOMAIN w.bindings
    BY <1>1, <1>3 DEF BoundThere
<1>5. w.bindings[b].uri \in Values
  <2>1. w.bindings \in Seq(Cells)
      BY DEF Works
  <2>2. w.bindings[b] \in Cells
      BY <1>4, <2>1
  <2> QED BY <2>2 DEF Cells
<1>6. Full(w, m).name = Expanded(w.bindings[b].uri, a.local, p)
    BY <1>1 DEF Full, a
<1>7. UriName(Full(w, m).name) = <<w.bindings[b].uri, a.local>>
  <2>1. \A u, l : Expanded(u, l, p).uri = u /\ Expanded(u, l, p).local = l
      BY DEF Expanded
  <2> QED BY <1>6, <2>1 DEF UriName
<1>8. Hash[<<w.bindings[b].uri, a.local>>] \in Nat
    BY <1>2, <1>5 DEF TableAssumption
<1> QED BY <1>3, <1>7, <1>8 DEF a

\* There are finitely many attributes with a prefix.
LEMMA PrefixedAre ==
    ASSUME NEW w, w \in Works, NEW i \in Nat
    PROVE  /\ IsFiniteSet(Prefixed(w)) /\ Cardinality(Prefixed(w)) \in Nat
           /\ IsFiniteSet(UpTo(w, i)) /\ Cardinality(UpTo(w, i)) \in Nat
           /\ Cardinality(UpTo(w, i)) <= Cardinality(Prefixed(w))
           /\ Cardinality(Prefixed(w)) = 0 <=> Prefixed(w) = {}
           /\ Prefixed(w) \subseteq 1 .. Len(w.atts)
<1>1. Prefixed(w) \in SUBSET (1 .. Len(w.atts)) /\ Len(w.atts) \in Nat
  <2> DEFINE s == w.atts
             S == [name : AttributeNames, value : Values]
  <2>1. s \in Seq(S)
      BY DEF Works
  <2> HIDE DEF s, S
  <2>2. DOMAIN s = 1 .. Len(s) /\ Len(s) \in Nat
      BY <2>1
  <2> QED BY <2>2 DEF s, Prefixed
<1>2. IsFiniteSet(1 .. Len(w.atts))
    BY <1>1, FS_Interval
<1>3. IsFiniteSet(Prefixed(w))
    BY <1>1, <1>2, FS_Subset
<1>4. UpTo(w, i) \in SUBSET Prefixed(w)
    BY DEF UpTo
<1>5. IsFiniteSet(UpTo(w, i)) /\ Cardinality(UpTo(w, i)) <= Cardinality(Prefixed(w))
    BY <1>3, <1>4, FS_Subset
<1> QED BY <1>1, <1>3, <1>5, FS_CardinalityType, FS_EmptySet

\* The table is taken before any name is entered.
LEMMA EnteredStart ==
    ASSUME TableAssumption, TableInv, NEW w, w \in Works
    PROVE  EnteredInv(w, 0, ExpandFrom(w))
<1> DEFINE x == ExpandFrom(w)
           n == Cardinality(Prefixed(w))
<1>1. x.table = IF n = 0 THEN table ELSE FreshTable(n)
    BY DEF ExpandFrom, Prefixed
<1>2. n \in Nat /\ (n = 0 <=> Prefixed(w) = {}) /\ Prefixed(w) \subseteq 1 .. Len(w.atts)
    BY PrefixedAre
<1> HIDE DEF x
<1>3. CASE n = 0
    BY <1>1, <1>2, <1>3 DEF EnteredInv, TableInv, x
<1>4. CASE n # 0
  <2>1. /\ Tidy(x.table) /\ x.table.power \in Nat /\ x.table.power >= 3 /\ n < Bit[x.table.power]
        /\ Used(x.table) = {}
      BY <1>1, <1>2, <1>4, FreshIs
  <2>2. UpTo(w, 0) = {}
      BY <1>2 DEF UpTo
  <2>3. IsFiniteSet({}) /\ Cardinality({}) = 0
      BY FS_EmptySet
  <2> QED BY <2>1, <2>2, <2>3 DEF EnteredInv, x
<1> QED BY <1>3, <1>4

\* While names are entered there is room for one more.
LEMMA RoomLeft ==
    ASSUME NEW w, w \in Works, NEW i \in Nat, NEW x, EnteredInv(w, i, x), x.error = "NONE",
           Prefixed(w) # {}
    PROVE  Roomy(x.table) /\ Tidy(x.table)
<1>1. /\ Tidy(x.table) /\ x.table.power \in Nat /\ x.table.power >= 3
      /\ Cardinality(Prefixed(w)) < Bit[x.table.power]
      /\ IsFiniteSet(Used(x.table)) /\ Cardinality(Used(x.table)) <= Cardinality(UpTo(w, i))
    BY DEF EnteredInv
<1>2. /\ Cardinality(UpTo(w, i)) <= Cardinality(Prefixed(w))
      /\ Cardinality(UpTo(w, i)) \in Nat /\ Cardinality(Prefixed(w)) \in Nat
    BY PrefixedAre
<1>3. Cardinality(Used(x.table)) \in Nat
    BY <1>1, FS_CardinalityType
<1>4. Bit[x.table.power] \in Nat
    BY <1>1, BitIs
<1>5. Cardinality(Used(x.table)) < Bit[x.table.power]
    BY <1>1, <1>2, <1>3, <1>4
<1> QED BY <1>1, <1>5 DEF Roomy

\* One more name is entered, unlike all before.
LEMMA EnteredNext ==
    ASSUME AttributesAssumption, TableAssumption, TypeInv, NEW w, w \in Works, BoundThere(w),
           NEW i \in 1 .. Len(w.atts), NEW x, ExpandInv(w, i - 1, x), EnteredInv(w, i - 1, x)
    PROVE  EnteredInv(w, i, Expand(x, w, i))
<1> DEFINE r == Expand(x, w, i)
           p == PrefixOf(w.atts[i].name)
           n == Full(w, i).name
           t == x.table
<1> SUFFICES ASSUME r.error = "NONE" PROVE EnteredInv(w, i, r)
    BY DEF EnteredInv
<1>1. x.error = "NONE"
    BY DEF Expand
<1>2. /\ r.error = IF p = None THEN "NONE"
                   ELSE IF w.bound[p] = 0 THEN "UNBOUND_PREFIX"
                   ELSE IF Slot(t, n).taken THEN "DUPLICATE_ATTRIBUTE" ELSE "NONE"
      /\ r.table = IF p = None THEN t ELSE Entered(t, n)
  <2>1. DOMAIN x = {"atts", "flag", "error", "table"}
      BY <1>1 DEF ExpandInv
  <2> HIDE DEF r, n, p
  <2> QED BY <1>1, <2>1, ExpandDoes DEF r, n, p
<1>3. i \in Nat /\ i - 1 \in Nat /\ i \in DOMAIN w.atts
  <2>1. i \in 1 .. Len(w.atts)
      OBVIOUS
  <2> DEFINE s == w.atts
             S == [name : AttributeNames, value : Values]
  <2>2. s \in Seq(S)
      BY DEF Works
  <2> HIDE DEF S
  <2>3. DOMAIN s = 1 .. Len(s) /\ Len(s) \in Nat
      BY <2>2
  <2> QED BY <2>1, <2>3
<1> HIDE DEF r, n
<1>0. \A m \in Prefixed(w) : m \in Nat /\ (m <= i <=> m <= i - 1 \/ m = i)
  <2>1. Prefixed(w) \subseteq 1 .. Len(w.atts)
      BY <1>3, PrefixedAre
  <2>2. \A m \in 1 .. Len(w.atts) : m \in Nat
      OBVIOUS
  <2> QED BY <1>3, <2>1, <2>2
<1>4. CASE p = None
  <2>1. i \notin Prefixed(w)
      BY <1>4 DEF Prefixed
  <2>2. UpTo(w, i) = UpTo(w, i - 1)
      BY <1>0, <1>3, <2>1 DEF UpTo
  <2> QED BY <1>1, <1>2, <1>4, <2>2 DEF EnteredInv
<1>5. CASE p # None
  <2>1. i \in Prefixed(w) /\ ~Unbound(w, i) /\ ~Slot(t, n).taken /\ r.table = Entered(t, n)
      BY <1>2, <1>3, <1>5 DEF Prefixed, Unbound
  <2>2. Roomy(t) /\ Tidy(t)
      BY <1>1, <1>3, <2>1, RoomLeft
  <2>3. Hash[UriName(n)] \in Nat
      BY <2>1, NameHashed DEF n
  <2> DEFINE at == Slot(t, n).at
             u == r.table
  <2>4. /\ Tidy(u) /\ u.power = t.power /\ Used(u) = Used(t) \cup {at} /\ at \notin Used(t)
        /\ Holds(u, at, n) /\ Found(u, n)
        /\ \A j \in Used(t) : \A o : Holds(u, j, o) <=> Holds(t, j, o)
        /\ \A o : Found(t, o) => Found(u, o)
      BY <2>1, <2>2, <2>3, EnteredIs
  <2> HIDE DEF at, u
  <2>5. /\ t.power \in Nat /\ t.power >= 3 /\ Cardinality(Prefixed(w)) < Bit[t.power]
        /\ IsFiniteSet(Used(t)) /\ Cardinality(Used(t)) <= Cardinality(UpTo(w, i - 1))
        /\ \A j \in Used(t) : \E m \in UpTo(w, i - 1) : Holds(t, j, Full(w, m).name)
        /\ \A m \in UpTo(w, i - 1) : Found(t, Full(w, m).name)
        /\ \A m, k \in UpTo(w, i - 1) :
              UriName(Full(w, m).name) = UriName(Full(w, k).name) => m = k
      BY <1>1, <2>1 DEF EnteredInv
  <2>6. UpTo(w, i) = UpTo(w, i - 1) \cup {i} /\ i \notin UpTo(w, i - 1)
    <3>1. \A m : m \in UpTo(w, i) <=> m \in UpTo(w, i - 1) \/ m = i
        BY <1>0, <2>1, i <= i, Zenon DEF UpTo
    <3>2. ~(i <= i - 1)
        BY <1>3
    <3>3. i \notin UpTo(w, i - 1)
        BY <3>2 DEF UpTo
    <3> QED BY <3>1, <3>3
  <2>7. IsFiniteSet(Used(u)) /\ Cardinality(Used(u)) <= Cardinality(UpTo(w, i))
    <3>1. IsFiniteSet(UpTo(w, i - 1))
        BY <1>3, PrefixedAre
    <3>2. Cardinality(UpTo(w, i)) = Cardinality(UpTo(w, i - 1)) + 1
        BY <2>6, <3>1, FS_AddElement
    <3>3. IsFiniteSet(Used(u)) /\ Cardinality(Used(u)) = Cardinality(Used(t)) + 1
        BY <2>4, <2>5, FS_AddElement
    <3>4. Cardinality(Used(t)) \in Nat /\ Cardinality(UpTo(w, i - 1)) \in Nat
        BY <1>3, <2>5, PrefixedAre, FS_CardinalityType
    <3> QED BY <2>5, <3>2, <3>3, <3>4
  <2>8. \A j \in Used(u) : \E m \in UpTo(w, i) : Holds(u, j, Full(w, m).name)
      BY <2>4, <2>5, <2>6 DEF n
  <2>9. \A m \in UpTo(w, i) : Found(u, Full(w, m).name)
      BY <2>4, <2>5, <2>6 DEF n
  <2>10. \A m \in UpTo(w, i - 1) : UriName(Full(w, m).name) # UriName(n)
      BY <2>1, <2>2, <2>3, <2>5, TakenIs
  <2>11. \A m, k \in UpTo(w, i) : UriName(Full(w, m).name) = UriName(Full(w, k).name) => m = k
      BY <2>5, <2>6, <2>10 DEF n
  <2> QED BY <2>4, <2>5, <2>7, <2>8, <2>9, <2>11 DEF EnteredInv, u
<1> QED BY <1>4, <1>5

\* And when one is refused, there is a reason.
LEMMA ErredNext ==
    ASSUME AttributesAssumption, TableAssumption, TypeInv, NEW w, w \in Works, BoundThere(w),
           NEW i \in 1 .. Len(w.atts), NEW x, ExpandInv(w, i - 1, x), EnteredInv(w, i - 1, x),
           FullInv(w, i - 1, x), Erred(w, x)
    PROVE  Erred(w, Expand(x, w, i))
<1> DEFINE r == Expand(x, w, i)
           p == PrefixOf(w.atts[i].name)
           n == Full(w, i).name
           t == x.table
<1>1. CASE x.error # "NONE"
    BY <1>1 DEF Expand
<1>2. CASE x.error = "NONE"
  <2>1. r.error = IF p = None THEN "NONE"
                  ELSE IF w.bound[p] = 0 THEN "UNBOUND_PREFIX"
                  ELSE IF Slot(t, n).taken THEN "DUPLICATE_ATTRIBUTE" ELSE "NONE"
    <3>1. DOMAIN x = {"atts", "flag", "error", "table"}
        BY <1>2 DEF ExpandInv
    <3> HIDE DEF r, n, p
    <3> QED BY <1>2, <3>1, ExpandDoes DEF r, n, p
  <2>2. i \in Nat /\ i - 1 \in Nat /\ i \in DOMAIN w.atts
    <3> DEFINE s == w.atts
               S == [name : AttributeNames, value : Values]
    <3>1. s \in Seq(S)
        BY DEF Works
    <3> HIDE DEF S
    <3>2. DOMAIN s = 1 .. Len(s) /\ Len(s) \in Nat
        BY <3>1
    <3> QED BY <3>2
  <2> HIDE DEF r, n
  <2>3. CASE p # None /\ w.bound[p] = 0
    <3>1. Unbound(w, i)
        BY <2>2, <2>3 DEF Unbound, Prefixed
    <3> QED BY <2>1, <2>2, <2>3, <3>1 DEF Erred, r
  <2>4. CASE p # None /\ w.bound[p] # 0 /\ Slot(t, n).taken
    <3>1. i \in Prefixed(w) /\ ~Unbound(w, i)
        BY <2>2, <2>4 DEF Unbound, Prefixed
    <3>2. Roomy(t)
        BY <1>2, <2>2, <3>1, RoomLeft
    <3>3. Hash[UriName(n)] \in Nat
        BY <3>1, NameHashed DEF n
    <3>4. PICK j \in Used(t) : Holds(t, j, n)
        BY <2>4, <3>2, <3>3, TakenIs
    <3>5. PICK m \in UpTo(w, i - 1) : Holds(t, j, Full(w, m).name)
        BY <1>2, <3>1 DEF EnteredInv
    <3>6. m \in Prefixed(w) /\ m # i /\ m \in DOMAIN w.atts /\ m \in 1 .. i - 1
        BY <2>2, PrefixedAre DEF UpTo, Prefixed
    <3>7. ~Unbound(w, m)
        BY <1>2, <3>6 DEF FullInv, Unbound, Prefixed
    <3>8. UriName(Full(w, m).name) = UriName(n)
        BY <3>4, <3>5 DEF Holds
    <3>9. Alike(w, m, i)
        BY <3>1, <3>6, <3>7, <3>8 DEF Alike, n
    <3> QED BY <2>1, <2>2, <2>4, <3>6, <3>9 DEF Erred, r
  <2>5. CASE p = None \/ (w.bound[p] # 0 /\ ~Slot(t, n).taken)
      BY <2>1, <2>5 DEF Erred, r
  <2> QED BY <2>3, <2>4, <2>5
<1> QED BY <1>1, <1>2

\* Before the first name is expanded.
LEMMA ExpandStart ==
    ASSUME NEW w, w \in Works
    PROVE  ExpandInv(w, 0, ExpandFrom(w)) /\ FullInv(w, 0, ExpandFrom(w))
<1>1. w.flag \in [AttributeNames -> 0 .. 2]
    BY DEF Works
<1>2. /\ ExpandFrom(w).flag = w.flag /\ DOMAIN ExpandFrom(w) = {"atts", "flag", "error", "table"}
      /\ ExpandFrom(w).atts = <<>>
    BY DEF ExpandFrom
<1>3. ExpandInv(w, 0, ExpandFrom(w))
    BY <1>1, <1>2 DEF ExpandInv
<1>4. FullInv(w, 0, ExpandFrom(w))
  <2> DEFINE S == {Full(w, m) : m \in 1 .. Len(w.atts)}
  <2>1. <<>> \in Seq(S) /\ Len(<<>>) = 0
      OBVIOUS
  <2> QED BY <1>2, <2>1 DEF FullInv
<1> QED BY <1>3, <1>4

\* What holds when all names are expanded, or one was refused.
LEMMA EnteredDone ==
    ASSUME AttributesAssumption, TableAssumption, TypeInv, TableInv, NEW w, w \in Works,
           BoundThere(w)
    PROVE  EnteredInv(w, Len(w.atts), ExpandAll(w)) /\ Erred(w, ExpandAll(w))
<1> DEFINE n == Len(w.atts)
<1>1. n \in Nat
    BY DEF Works
<1>2. PICK f : /\ f[0] = ExpandFrom(w)
               /\ \A i \in 1 .. n : f[i] = Expand(f[i - 1], w, i)
               /\ ExpandAll(w) = f[n]
    BY <1>1, Expanding
<1> DEFINE Good(i) == /\ ExpandInv(w, i, f[i]) /\ FullInv(w, i, f[i])
                      /\ EnteredInv(w, i, f[i]) /\ Erred(w, f[i])
           T == {i \in 0 .. n : Good(i)}
<1>3. 0 \in T
  <2>1. EnteredInv(w, 0, f[0])
      BY <1>2, EnteredStart
  <2>2. Erred(w, f[0])
      BY <1>2 DEF ExpandFrom, Erred
  <2>3. ExpandInv(w, 0, f[0]) /\ FullInv(w, 0, f[0])
      BY <1>2, ExpandStart
  <2> QED BY <1>1, <2>1, <2>2, <2>3
<1>4. ASSUME NEW i \in 1 .. n, i - 1 \in T PROVE i \in T
  <2>1. /\ ExpandInv(w, i - 1, f[i - 1]) /\ FullInv(w, i - 1, f[i - 1])
        /\ EnteredInv(w, i - 1, f[i - 1]) /\ Erred(w, f[i - 1])
      BY <1>4
  <2>2. ExpandInv(w, i, f[i]) /\ FullInv(w, i, f[i])
      BY <1>2, <2>1, ExpandNext, FullNext
  <2>3. EnteredInv(w, i, f[i]) /\ Erred(w, f[i])
      BY <1>2, <2>1, EnteredNext, ErredNext
  <2>4. i \in 0 .. n
      BY <1>1
  <2> QED BY <2>2, <2>3, <2>4
<1>5. n \in T
  <2> HIDE DEF T
  <2>1. \A i \in 0 .. n : i \in T
      BY <1>1, <1>3, <1>4, Induction
  <2> QED BY <1>1, <2>1
<1> QED BY <1>2, <1>5

-----------------------------------------------------------------------------
(* The ID *)

\* That there is no name is not the name of an attribute.
LEMMA NamesAreNames ==
    ASSUME AttributesAssumption
    PROVE  NoName \notin AttributeNames
<1>1. None \notin PrefixNames /\ \A a \in AttributeNames : a.prefix \in PrefixNames
    BY DEF AttributesAssumption
<1>2. NoName.prefix = None
    BY DEF NoName
<1> QED BY <1>1, <1>2

\* The least number of a set of declarations.
LEMMA LeastOf ==
    ASSUME NEW T \in SUBSET Nat, NEW m \in T, \A n \in T : m <= n
    PROVE  m = CHOOSE i \in T : \A j \in T : i <= j
<1> DEFINE c == CHOOSE i \in T : \A j \in T : i <= j
<1>1. c \in T /\ \A j \in T : c <= j
    OBVIOUS
<1>2. m <= c /\ c <= m /\ c \in Nat /\ m \in Nat
    BY <1>1
<1> HIDE DEF c
<1>3. m = c
    BY <1>2
<1> QED BY <1>3 DEF c

\* The ID of an element is an attribute that is declared for it, if any.
LEMMA IdIs ==
    ASSUME AttributesAssumption, TypeInv, NEW e \in ElementNames
    PROVE  /\ Ids(e) = {} => IdOf(e) = NoName
           /\ Ids(e) # {} => \E i \in Ids(e) : /\ \A j \in Ids(e) : i <= j
                                               /\ IdOf(e) = declared[i].att
                                               /\ IdOf(e) \in AttributeNames /\ IdOf(e) # NoName
                                               /\ ~IsXmlns(IdOf(e))
<1>1. Ids(e) \in SUBSET Nat /\ \A i \in DOMAIN declared : declared[i] \in Written
  <2>1. declared \in Seq(Written) /\ DOMAIN declared = 1 .. Len(declared) /\ Len(declared) \in Nat
      BY DEF TypeInv
  <2>2. Ids(e) \in SUBSET DOMAIN declared
      BY DEF Ids
  <2>3. \A i \in DOMAIN declared : declared[i] \in Written /\ i \in Nat
      BY <2>1, ElementOfSeq
  <2> QED BY <2>2, <2>3
<1>2. CASE Ids(e) = {}
    BY <1>2 DEF IdOf
<1>3. CASE Ids(e) # {}
  <2>1. PICK i \in Ids(e) : \A j \in Ids(e) : i <= j
      BY <1>1, <1>3, Least
  <2>2. i = CHOOSE k \in Ids(e) : \A j \in Ids(e) : k <= j
      BY <1>1, <2>1, LeastOf
  <2>3. IdOf(e) = declared[i].att
      BY <1>3, <2>2 DEF IdOf
  <2>4. i \in DOMAIN declared /\ ~IsXmlns(declared[i].att)
      BY DEF Ids
  <2>5. declared[i].att \in AttributeNames
      BY <1>1, <2>4 DEF AttributesAssumption
  <2> QED BY <1>3, <2>1, <2>3, <2>4, <2>5, NamesAreNames
<1> QED BY <1>2, <1>3

\* An attribute has an entry when it is declared.
LEMMA KnownIsDeclared ==
    ASSUME TypeInv, DeclaredInv, NEW e \in ElementNames, NEW a \in AttributeNames
    PROVE  (\E i \in DOMAIN defaultAtts[e] : defaultAtts[e][i].id = a)
              <=> \E i \in DOMAIN declared : Ours(declared[i], e, a)
<1>1. CASE Entries(e, a) = {}
  <2>1. ~\E i \in DOMAIN declared : Ours(declared[i], e, a)
      BY <1>1 DEF DeclaredInv, Recorded
  <2> QED BY <1>1, <2>1 DEF Entries
<1>2. CASE Entries(e, a) # {}
  <2>1. Entries(e, a) \in SUBSET Nat
      BY DefaultsOf DEF Entries
  <2>2. PICK i \in Entries(e, a) : \A j \in Entries(e, a) : i <= j
      BY <1>2, <2>1, Least
  <2>3. \E d \in DOMAIN declared : First(d, e, a)
      BY <2>2 DEF DeclaredInv, Recorded
  <2>4. \E d \in DOMAIN declared : Ours(declared[d], e, a)
      BY <2>3 DEF First
  <2> QED BY <1>2, <2>4 DEF Entries
<1> QED BY <1>1, <1>2

\* One more declaration, which may name the ID.
LEMMA DeclareNames ==
    ASSUME AttributesAssumption, TypeInv, DeclaredInv, IdInv,
           NEW d \in Written, Declare(d), setup' = setup
    PROVE  IdInv'
<1> DEFINE f == d.element
           a == d.att
           m == Len(declared) + 1
           isId == d.type = "ID" /\ d.value = None
           known == \E i \in DOMAIN defaultAtts[f] : defaultAtts[f][i].id = a
           names == isId /\ ~IsXmlns(a) /\ ~known
<1>1. f \in ElementNames /\ a \in AttributeNames
    BY DEF AttributesAssumption
<1>2. /\ declared' = Append(declared, d) /\ declared \in Seq(Written) /\ Len(declared) \in Nat
      /\ DOMAIN declared = 1 .. Len(declared) /\ DOMAIN declared' = 1 .. m /\ declared'[m] = d
      /\ \A i \in 1 .. Len(declared) : declared'[i] = declared[i]
  <2>1. declared' = Append(declared, d) /\ declared \in Seq(Written)
      BY DEF Declare, TypeInv
  <2> QED BY <2>1
<1>3. known <=> \E i \in DOMAIN declared : Ours(declared[i], f, a)
    BY <1>1, KnownIsDeclared
<1>4. idAtt' = IF names /\ idAtt[f] = NoName THEN [idAtt EXCEPT ![f] = a] ELSE idAtt
  <2>1. DefineAttribute(f, a, d.type = "CDATA", isId, d.value)
      BY DEF Declare
  <2>2. CASE (d.value # None \/ isId) /\ known
    <3>1. idAtt' = idAtt
      <4> HIDE DEF isId
      <4> QED BY <2>1, <2>2 DEF DefineAttribute
    <3>2. ~names
        BY <2>2
    <3> QED BY <3>1, <3>2
  <2>3. CASE ~((d.value # None \/ isId) /\ known)
    <3>1. idAtt' = IF isId /\ idAtt[f] = NoName /\ ~IsXmlns(a)
                   THEN [idAtt EXCEPT ![f] = a] ELSE idAtt
      <4> HIDE DEF isId
      <4> QED BY <2>1, <2>3 DEF DefineAttribute
    <3>2. isId => ~known
        BY <2>3
    <3> HIDE DEF isId, known
    <3> QED BY <3>1, <3>2
  <2> QED BY <2>2, <2>3
<1>5. (\A x : IsXmlns(x)' = IsXmlns(x)) /\ \A x, y, z : Ours(x, y, z)' = Ours(x, y, z)
    BY DEF IsXmlns, NS, Ours
<1> DEFINE id(i, e, ds) == /\ ds[i].element = e /\ ds[i].type = "ID" /\ ds[i].value = None
                           /\ ~IsXmlns(ds[i].att)
                           /\ \A j \in 1 .. i - 1 : ~Ours(ds[j], e, ds[i].att)
<1>6. ASSUME NEW e \in ElementNames
      PROVE  /\ Ids(e) = {i \in 1 .. Len(declared) : id(i, e, declared)}
             /\ Ids(e)' = {i \in 1 .. m : id(i, e, declared')}
  <2>1. Ids(e) = {i \in 1 .. Len(declared) : id(i, e, declared)}
      BY <1>2 DEF Ids
  <2>2. Ids(e)' = {i \in 1 .. m : id(i, e, declared')}
      BY <1>2, <1>5 DEF Ids
  <2> QED BY <2>1, <2>2
<1>7. ASSUME NEW e \in ElementNames, NEW i \in 1 .. Len(declared)
      PROVE  id(i, e, declared') <=> id(i, e, declared)
  <2>1. declared'[i] = declared[i] /\ \A j \in 1 .. i - 1 : declared'[j] = declared[j]
      BY <1>2
  <2> QED BY <2>1
<1>8. ASSUME NEW e \in ElementNames
      PROVE  id(m, e, declared') <=> e = f /\ names
  <2>1. \A j \in 1 .. m - 1 : declared'[j] = declared[j]
      BY <1>2
  <2>2. m - 1 = Len(declared)
      BY <1>2
  <2>3. (\A j \in 1 .. m - 1 : ~Ours(declared'[j], f, a)) <=> ~known
    <3> HIDE DEF known, m
    <3> QED BY <1>2, <1>3, <2>1, <2>2
  <2>4. declared'[m] = d
      BY <1>2
  <2> HIDE DEF known
  <2> QED BY <2>3, <2>4
<1> HIDE DEF id, names
<1>9. ASSUME NEW e \in ElementNames
      PROVE  Ids(e)' = IF e = f /\ names THEN Ids(e) \cup {m} ELSE Ids(e)
  <2>1. \A i \in 1 .. m : i = m \/ i \in 1 .. Len(declared)
      BY <1>2
  <2>2. \A i \in 1 .. Len(declared) : i \in 1 .. m
      BY <1>2
  <2>3. m \in 1 .. m
      BY <1>2
  <2> HIDE DEF m
  <2> QED BY <1>6, <1>7, <1>8, <2>1, <2>2, <2>3
<1>10. ASSUME NEW e \in ElementNames
       PROVE  /\ idAtt'[e] = IdOf(e)'
              /\ idAtt'[e] \in AttributeNames \cup {NoName}
  <2>1. idAtt \in [ElementNames -> AttributeNames \cup {NoName}] /\ idAtt[e] = IdOf(e)
      BY DEF IdInv
  <2>2. Ids(e) \in SUBSET (1 .. Len(declared))
      BY <1>6
  <2>3. CASE e = f /\ names /\ Ids(e) = {}
    <3>1. Ids(e)' = {m}
        BY <1>9, <2>3
    <3>2. IdOf(e)' = declared'[m].att
      <4>1. m \in Nat
          BY <1>2
      <4> HIDE DEF m
      <4>2. m = CHOOSE i \in {m} : \A j \in {m} : i <= j
          BY <4>1
      <4> QED BY <3>1, <4>2 DEF IdOf
    <3>3. idAtt[e] = NoName
        BY <2>1, <2>3, IdIs
    <3>4. idAtt'[e] = a
        BY <1>1, <1>4, <2>1, <2>3, <3>3
    <3> QED BY <1>1, <1>2, <3>2, <3>4
  <2>4. CASE e = f /\ names /\ Ids(e) # {}
    <3>1. PICK i \in Ids(e) : /\ \A j \in Ids(e) : i <= j
                              /\ IdOf(e) = declared[i].att /\ IdOf(e) # NoName
        BY <2>4, IdIs
    <3>2. idAtt' = idAtt
        BY <1>4, <2>1, <2>4, <3>1
    <3>3. Ids(e)' = Ids(e) \cup {m}
        BY <1>9, <2>4
    <3>4. i \in Ids(e)' /\ Ids(e)' \in SUBSET Nat /\ \A j \in Ids(e)' : i <= j
        BY <1>2, <2>2, <3>1, <3>3
    <3>5. i = CHOOSE k \in Ids(e)' : \A j \in Ids(e)' : k <= j
      <4> HIDE DEF m
      <4> DEFINE T == Ids(e)'
      <4>1. T \in SUBSET Nat /\ i \in T /\ \A j \in T : i <= j
          BY <3>4
      <4> HIDE DEF T
      <4>2. i = CHOOSE k \in T : \A j \in T : k <= j
          BY <4>1, LeastOf
      <4> QED BY <4>2 DEF T
    <3>6. IdOf(e)' = declared'[i].att
        BY <3>4, <3>5 DEF IdOf
    <3>7. declared'[i] = declared[i]
        BY <1>2, <2>2
    <3> QED BY <2>1, <3>1, <3>2, <3>6, <3>7
  <2>5. CASE ~(e = f /\ names)
    <3>1. Ids(e)' = Ids(e)
        BY <1>9, <2>5
    <3>2. \A i \in Ids(e) : declared'[i] = declared[i]
        BY <1>2, <2>2
    <3>3. IdOf(e)' = IdOf(e)
      <4>1. CASE Ids(e) = {}
          BY <3>1, <4>1 DEF IdOf
      <4>2. CASE Ids(e) # {}
        <5> DEFINE c == CHOOSE i \in Ids(e) : \A j \in Ids(e) : i <= j
        <5>1. \E i \in Ids(e) : \A j \in Ids(e) : i <= j
            BY <4>2, IdIs
        <5>2. c \in Ids(e)
            BY <5>1
        <5>3. IdOf(e) = declared[c].att
            BY <4>2 DEF IdOf
        <5>4. IdOf(e)' = declared'[c].att
            BY <3>1, <4>2 DEF IdOf
        <5> HIDE DEF c
        <5> QED BY <3>2, <5>2, <5>3, <5>4
      <4> QED BY <4>1, <4>2
    <3>4. idAtt'[e] = idAtt[e]
        BY <1>1, <1>4, <2>1, <2>5
    <3> QED BY <2>1, <3>3, <3>4
  <2> QED BY <2>3, <2>4, <2>5
<1>11. DOMAIN idAtt' = ElementNames
    BY <1>1, <1>4 DEF IdInv
<1>12. idAtt' \in [ElementNames -> AttributeNames \cup {NoName}]
  <2>1. idAtt' = [e \in ElementNames |-> idAtt'[e]]
    <3>1. idAtt \in [ElementNames -> AttributeNames \cup {NoName}]
        BY DEF IdInv
    <3> QED BY <1>1, <1>4, <3>1
  <2> QED BY <1>10, <2>1
<1> QED BY <1>10, <1>12 DEF IdInv

\* idAttIndex is that of the attribute of the ID, when it is written.
LEMMA IdIndexIs ==
    ASSUME AttributesAssumption, TypeInv, DeclaredInv, IdInv, NEW t \in Tags, NEW s,
           ScanInv(t, Len(t.atts), s), GivenInv(t, Len(t.atts), s), s.error = "NONE",
           NEW ids, ids = {i \in DOMAIN t.atts :
                              ~IsXmlns(t.atts[i].name) /\ t.atts[i].name = IdOf(t.name)}
    PROVE  IdAttIndex(t.name, s) = IF ids = {} THEN -1
                                   ELSE 2 * (Place(t, CHOOSE i \in ids : TRUE) - 1)
<1> DEFINE n == Len(t.atts)
           id == IdOf(t.name)
<1>1. /\ t.name \in ElementNames /\ DOMAIN t.atts = 1 .. n
      /\ \A i \in 1 .. n : t.atts[i].name \in AttributeNames
    BY AttsOf
<1>2. idAtt[t.name] = id
    BY <1>1 DEF IdInv
<1>3. id = NoName \/ (id \in AttributeNames /\ id # NoName /\ ~IsXmlns(id))
    BY <1>1, IdIs
<1>4. IdAttIndex(t.name, s) =
         IF id # NoName /\ s.flag[id] # 0
         THEN 2 * ((CHOOSE i \in DOMAIN s.atts : s.atts[i].name = id) - 1) ELSE -1
    BY <1>2 DEF IdAttIndex
<1> HIDE DEF id
<1>5. CASE id = NoName
  <2>1. ids = {}
      BY <1>1, <1>5, NamesAreNames DEF id
  <2> QED BY <1>4, <1>5, <2>1
<1>6. CASE id \in AttributeNames /\ id # NoName /\ ~IsXmlns(id)
  <2>1. s.flag[id] # 0 <=> \E j \in 1 .. n : t.atts[j].name = id
      BY <1>6 DEF ScanInv, Wrote
  <2>2. ids = {j \in 1 .. n : t.atts[j].name = id}
      BY <1>1, <1>6 DEF id
  <2>3. CASE ids = {}
      BY <1>4, <2>1, <2>2, <2>3
  <2>4. CASE ids # {}
    <3> DEFINE j == CHOOSE i \in ids : TRUE
               m == CHOOSE i \in DOMAIN s.atts : s.atts[i].name = id
    <3>1. j \in 1 .. n /\ t.atts[j].name = id
      <4>1. j \in ids
          BY <2>4
      <4> HIDE DEF j
      <4> QED BY <2>2, <4>1
    <3> HIDE DEF j
    <3>2. \A l \in 1 .. n : t.atts[l].name = id => l = j
        BY <3>1 DEF GivenInv
    <3>3. /\ Place(t, j) \in DOMAIN s.atts /\ s.atts[Place(t, j)] = Said(t, j)
        BY <1>6, <3>1 DEF GivenInv
    <3>4. s.atts[Place(t, j)].name = id
        BY <3>1, <3>3 DEF Said, Declaration
    <3>5. ASSUME NEW i \in DOMAIN s.atts, s.atts[i].name = id PROVE i = Place(t, j)
      <4>1. PICK l \in 1 .. n : ~IsXmlns(t.atts[l].name) /\ i = Place(t, l)
          BY DEF GivenInv
      <4>2. s.atts[i] = Said(t, l)
          BY <4>1 DEF GivenInv
      <4>3. t.atts[l].name = id
          BY <3>5, <4>2 DEF Said, Declaration
      <4> QED BY <3>2, <4>1, <4>3
    <3>6. m = Place(t, j)
        BY <3>3, <3>4, <3>5
    <3> HIDE DEF m
    <3>7. IdAttIndex(t.name, s) = 2 * (m - 1)
        BY <1>4, <1>6, <2>1, <3>1 DEF m
    <3> QED BY <2>4, <3>6, <3>7 DEF j
  <2> QED BY <2>3, <2>4
<1> QED BY <1>3, <1>5, <1>6

-----------------------------------------------------------------------------
(* What prefixes stand for within a tag *)

\* Every attribute of a tag has a value.
LEMMA WholeHasValues ==
    ASSUME AttributesAssumption, TypeInv, DeclaredInv, NEW t \in Tags, NEW x \in Whole(t)
    PROVE  x.value # None
<1>1. None \notin WrittenValues /\ None \notin Range(Tokenized)
    BY DEF AttributesAssumption
<1>2. CASE \E j \in 1 .. Len(t.atts) : x = Said(t, j)
  <2>1. PICK j \in 1 .. Len(t.atts) : x = Said(t, j)
      BY <1>2
  <2>2. j \in DOMAIN t.atts
      BY AttsOf
  <2>3. t.atts[j].value \in WrittenValues
      BY <2>2 DEF WrittenValues
  <2>4. \A c : Stored(t.atts[j].value, c) \in WrittenValues \cup Range(Tokenized)
      BY <2>3 DEF Stored, Range
  <2>5. x.value = Stored(t.atts[j].value, IsCdata(t.name, t.atts[j].name))
      BY <2>1 DEF Said, Declaration
  <2> QED BY <1>1, <2>4, <2>5
<1>3. CASE \E j \in 1 .. Len(defaultAtts[t.name]) : Supplies(t, j) /\ x = Filling(t, j)
    BY <1>3 DEF Supplies, Filling
<1> QED BY <1>2, <1>3, WholeIs

\* What a prefix stands for within the open tags is of a binding in use.
LEMMA StandsForUsed ==
    ASSUME AttributesAssumption, AInv, NEW p \in PrefixNames,
           NEW c, StandsFor(p, Len(tagStack), c), c # 0
    PROVE  /\ c \in Within(Len(tagStack)) /\ bindings[c].prefix = p
           /\ bindings[c].uri # None
<1>0. TypeInv /\ OwnerInv /\ TextInv /\ DeclaredInv
    BY DEF AInv
<1>1. PICK m \in Nat : m = Len(tagStack)
    BY <1>0, TagsOf
<1>2. CASE c = IF NS /\ p = "xml" THEN 1 ELSE 0
  <2>1. NS /\ p = "xml" /\ c = 1
      BY <1>2
  <2>2. bindings[1].prefix = "xml" /\ bindings[1].uri = "XML"
      BY <1>0, <2>1 DEF OwnerInv
  <2>3. 1 \in Within(m)
      BY <2>1 DEF Within, Root
  <2> QED BY <1>1, <2>1, <2>2, <2>3 DEF None
<1>3. CASE \E j \in 1 .. m : \E b \in Owned(j) : bindings[b].prefix = p /\ c = b
  <2>1. PICK j \in 1 .. m : c \in Owned(j) /\ bindings[c].prefix = p
      BY <1>3
  <2>2. c \in Within(m)
      BY <2>1 DEF Within
  <2>3. j \in DOMAIN tagStack /\ tagStack[j].tag \in Tags
      BY <1>0, <1>1, <2>1, TagsOf
  <2>4. <<bindings[c].attId, bindings[c].uri>> \in Declarations(tagStack[j].tag)
      BY <1>0, <2>1, <2>3 DEF TextInv, Text
  <2>5. PICK a \in Whole(tagStack[j].tag) : bindings[c].uri = a.value
      BY <2>4 DEF Declarations
  <2>6. a.value # None
      BY <1>0, <2>3, WholeHasValues
  <2> QED BY <1>1, <2>1, <2>2, <2>5, <2>6
<1>4. c = (IF NS /\ p = "xml" THEN 1 ELSE 0)
      \/ \E j \in 1 .. m : \E b \in Owned(j) : bindings[b].prefix = p /\ c = b
    BY <1>1 DEF StandsFor
<1> QED BY <1>2, <1>3, <1>4

\* The binding of a declaration, and what its prefix is bound to.
LEMMA WorkCell ==
    ASSUME NEW w, WorkInv(w), NEW i \in DOMAIN w.own
    PROVE  /\ Cell(w, i).prefix = PrefixOf(Cell(w, i).attId)
           /\ w.bound[Cell(w, i).prefix] = IF Cell(w, i).uri = "" THEN 0 ELSE w.own[i]
<1> HIDE DEF Cell
<1> QED BY DEF WorkInv

\* What p stands for, as w has it, and that the binding is one of its prefix.
Here(w, p) == IF w.bound[p] = 0 THEN None ELSE w.bindings[w.bound[p]].uri
Apt(w, p) == w.bound[p] # 0 => /\ w.bindings[w.bound[p]].uri # None
                               /\ w.bindings[w.bound[p]].prefix = p

\* While a tag is worked on, a prefix stands for what it does within the tags
\* around and this one.
LEMMA InScopeHere ==
    ASSUME AttributesAssumption, AInv, NEW t \in Tags, NEW w, WorkInv(w),
           Taken(w) = Declarations(t)
    PROVE  \A p \in PrefixNames : InScope(Append(Open, t), p) = Here(w, p) /\ Apt(w, p)
<1> SUFFICES ASSUME NEW p \in PrefixNames, NEW tags, tags = Append(Open, t)
             PROVE  InScope(tags, p) = Here(w, p) /\ Apt(w, p)
    OBVIOUS
<1> DEFINE declaring == {k \in DOMAIN tags : Declares(tags[k], p) # {}}
           innermost == CHOOSE k \in declaring : \A j \in declaring : j <= k
           uri == (CHOOSE a \in Declares(tags[innermost], p) : TRUE).value
<1>0. TypeInv /\ OwnerInv /\ ScopeInv /\ DeclaredInv
    BY DEF AInv
<1>1. PICK n \in Nat : n = Len(tagStack)
    BY <1>0, TagsOf
<1>2. /\ DOMAIN tags = 1 .. n + 1 /\ tags[n + 1] = t /\ DOMAIN Open = 1 .. n
      /\ \A k \in 1 .. n : tags[k] = Open[k]
  <2>1. DOMAIN tagStack = 1 .. n /\ \A k \in 1 .. n : tagStack[k].tag \in Tags
      BY <1>0, <1>1, TagsOf
  <2>2. Open \in [1 .. n -> Tags]
      BY <2>1 DEF Open
  <2>3. Open \in Seq(Tags) /\ Len(Open) = n
      BY <1>1, <2>2, SeqDef
  <2> HIDE DEF Open
  <2> QED BY <2>2, <2>3
<1>3. InScope(tags, p) = IF declaring = {} THEN IF NS /\ p = "xml" THEN "XML" ELSE None
                         ELSE IF uri = "" THEN None ELSE uri
    BY Zenon DEF InScope
<1>4. CASE Declares(t, p) # {}
  <2>1. n + 1 \in declaring /\ \A k \in declaring : k \in Nat /\ k <= n + 1
      BY <1>2, <1>4
  <2>2. innermost = n + 1
    <3> HIDE DEF declaring
    <3>1. innermost \in declaring /\ \A k \in declaring : k <= innermost
        BY <2>1
    <3>2. innermost \in Nat /\ n + 1 <= innermost /\ innermost <= n + 1
        BY <2>1, <3>1
    <3> HIDE DEF innermost
    <3> QED BY <3>2
  <2>3. PICK a \in Declares(t, p) : uri = a.value
    <3> HIDE DEF innermost
    <3> QED BY <1>2, <1>4, <2>2
  <2>4. a \in Whole(t) /\ IsXmlns(a.name) /\ PrefixOf(a.name) = p
      BY DEF Declares
  <2>5. <<a.name, a.value>> \in Taken(w)
      BY <2>4 DEF Declarations
  <2>6. PICK i \in DOMAIN w.own : Cell(w, i).attId = a.name /\ Cell(w, i).uri = a.value
      BY <2>5 DEF Taken
  <2>7. /\ Cell(w, i).prefix = p
        /\ w.bound[p] = IF a.value = "" THEN 0 ELSE w.own[i]
    <3>1. /\ Cell(w, i).prefix = PrefixOf(Cell(w, i).attId)
          /\ w.bound[Cell(w, i).prefix] = IF Cell(w, i).uri = "" THEN 0 ELSE w.own[i]
        BY WorkCell
    <3> QED BY <2>4, <2>6, <3>1
  <2>8. w.own[i] # 0 /\ w.bindings[w.own[i]].uri = a.value /\ w.bindings[w.own[i]].prefix = p
    <3>1. w.own[i] \in Range(w.own)
        BY DEF Range
    <3>2. w.own[i] # 0
        BY <1>0, <3>1, WorkedOn
    <3> QED BY <2>6, <2>7, <3>2 DEF Cell
  <2>9. a.value # None
      BY <1>0, <2>4, WholeHasValues
  <2>10. declaring # {}
      BY <2>1
  <2> HIDE DEF declaring, uri
  <2> QED BY <1>3, <2>3, <2>7, <2>8, <2>9, <2>10 DEF Here, Apt
<1>5. CASE Declares(t, p) = {}
  <2>1. ASSUME NEW i \in DOMAIN w.own, Cell(w, i).prefix = p PROVE FALSE
    <3>1. <<Cell(w, i).attId, Cell(w, i).uri>> \in Declarations(t)
        BY DEF Taken
    <3>2. PICK a \in Whole(t) : IsXmlns(a.name) /\ a.name = Cell(w, i).attId
        BY <3>1 DEF Declarations
    <3>3. PrefixOf(a.name) = p
      <4>1. Cell(w, i).prefix = PrefixOf(Cell(w, i).attId)
          BY WorkCell
      <4> QED BY <2>1, <3>2, <4>1
    <3> QED BY <1>5, <3>2, <3>3 DEF Declares
  <2>2. w.bound[p] = bound[p]
      BY <2>1 DEF WorkInv
  <2>3. StandsFor(p, Len(tagStack), bound[p])
      BY <1>0 DEF ScopeInv
  <2>4. InScope(Open, p) = IF bound[p] = 0 THEN None ELSE bindings[bound[p]].uri
      BY <2>3, StandsForUri
  <2>5. InScope(tags, p) = InScope(Open, p)
    <3> DEFINE before == {k \in DOMAIN Open : Declares(Open[k], p) # {}}
               c == CHOOSE k \in before : \A j \in before : j <= k
               u == (CHOOSE a \in Declares(Open[c], p) : TRUE).value
    <3>1. before = declaring
      <4>1. \A k \in 1 .. n + 1 : k \in 1 .. n \/ k = n + 1
          OBVIOUS
      <4>2. \A k \in 1 .. n : k \in 1 .. n + 1
          OBVIOUS
      <4> QED BY <1>2, <1>5, <4>1, <4>2
    <3>2. InScope(Open, p) = IF before = {} THEN IF NS /\ p = "xml" THEN "XML" ELSE None
                             ELSE IF u = "" THEN None ELSE u
        BY Zenon DEF InScope
    <3>3. c = innermost
        BY <3>1
    <3>4. CASE before = {}
      <4> HIDE DEF before, declaring, u, uri
      <4> QED BY <1>3, <3>1, <3>2, <3>4
    <3>5. CASE before # {}
      <4>1. before \subseteq 1 .. n
          BY <1>2
      <4>2. \E k \in before : \A j \in before : j <= k
        <5> DEFINE S == {k \in 0 .. n : n - k \in before}
        <5>1. S \in SUBSET Nat /\ S # {}
          <6>1. S \subseteq Nat
              OBVIOUS
          <6>2. PICK k \in before : k \in 1 .. n
            <7> HIDE DEF before
            <7> QED BY <3>5, <4>1
          <6>3. n - k \in 0 .. n /\ n - (n - k) = k
              BY <6>2
          <6>4. n - k \in S
            <7> HIDE DEF before
            <7> QED BY <6>2, <6>3
          <6> HIDE DEF S
          <6> QED BY <6>1, <6>4
        <5>2. PICK k \in S : \A j \in S : k <= j
          <6> HIDE DEF S
          <6> QED BY <5>1, Least
        <5>3. n - k \in before /\ k \in 0 .. n
            OBVIOUS
        <5>4. ASSUME NEW j \in before PROVE j <= n - k
          <6>1. j \in 1 .. n
              BY <4>1
          <6>2. n - j \in S
            <7> HIDE DEF before
            <7> QED BY <6>1, n - j \in 0 .. n, n - (n - j) = j
          <6> HIDE DEF S
          <6> QED BY <5>2, <5>3, <6>1, <6>2
        <5> QED BY <5>3, <5>4
      <4>3. c \in before
          BY <4>2
      <4>4. Open[c] = tags[innermost]
        <5> HIDE DEF c, innermost, before
        <5> QED BY <1>2, <3>3, <4>1, <4>3
      <4>5. u = uri
        <5> HIDE DEF c, innermost
        <5> QED BY <4>4
      <4> HIDE DEF before, declaring, u, uri
      <4> QED BY <1>3, <3>1, <3>2, <3>5, <4>5
    <3> QED BY <3>4, <3>5
  <2>6. bound[p] # 0 => /\ w.bindings[bound[p]] = bindings[bound[p]]
                        /\ bindings[bound[p]].prefix = p /\ bindings[bound[p]].uri # None
    <3> SUFFICES ASSUME bound[p] # 0
                 PROVE  /\ w.bindings[bound[p]] = bindings[bound[p]]
                        /\ bindings[bound[p]].prefix = p /\ bindings[bound[p]].uri # None
        OBVIOUS
    <3>1. /\ bound[p] \in Within(n) /\ bindings[bound[p]].prefix = p
          /\ bindings[bound[p]].uri # None
        BY <1>1, <2>3, StandsForUsed
    <3>2. n \in 0 .. Len(tagStack)
        BY <1>1
    <3>3. w.bindings[bound[p]] = bindings[bound[p]]
        BY <1>0, <3>1, <3>2, WorkedOn
    <3> QED BY <3>1, <3>3
  <2> QED BY <2>2, <2>4, <2>5, <2>6 DEF Here, Apt
<1> QED BY <1>4, <1>5 DEF Here, Apt

\* Which holds of the work on a tag.
LEMMA BoundIs ==
    ASSUME AttributesAssumption, AInv, NEW w, WorkInv(w)
    PROVE  BoundThere(w)
<1> SUFFICES ASSUME NEW p \in PrefixNames, w.bound[p] # 0
             PROVE  w.bound[p] \in DOMAIN w.bindings
    BY DEF BoundThere
<1>1. CASE \E i \in DOMAIN w.own : Cell(w, i).prefix = p
  <2>1. PICK i \in DOMAIN w.own : Cell(w, i).prefix = p
      BY <1>1
  <2>2. w.bound[p] = w.own[i]
      BY <2>1, WorkCell
  <2>3. w.own[i] \in DOMAIN w.bindings
      BY DEF WorkInv
  <2> QED BY <2>2, <2>3
<1>2. CASE \A i \in DOMAIN w.own : Cell(w, i).prefix # p
  <2>1. w.bound[p] = bound[p]
      BY <1>2 DEF WorkInv
  <2>2. StandsFor(p, Len(tagStack), bound[p]) /\ TypeInv /\ OwnerInv
      BY DEF AInv, ScopeInv
  <2>3. bound[p] \in Within(Len(tagStack))
      BY <2>1, <2>2, StandsForUsed
  <2>4. Len(tagStack) \in 0 .. Len(tagStack)
      BY <2>2, TagsOf
  <2>5. bound[p] \in DOMAIN w.bindings
      BY <2>2, <2>3, <2>4, WorkedOn
  <2> QED BY <2>1, <2>5
<1> QED BY <1>1, <1>2

-----------------------------------------------------------------------------
(* What is told of a start tag *)

\* An attribute under the name it is told with.
Fully(tags, a) == [name |-> Meaning(tags, a.name), value |-> a.value]

\* AttributesAsDeclared, of an event and the tags around it.
AsDeclared(ev, tags) ==
    LET t == ev.tag
        told == {a \in Whole(t) : ~IsXmlns(a.name)}
        given == {i \in DOMAIN t.atts : ~IsXmlns(t.atts[i].name)}
        ids == {i \in given : t.atts[i].name = IdOf(t.name)}
    IN /\ ev.name = ElementMeaning(tags, t.name)
       /\ ev.nSpecified = Place(t, Len(t.atts))
       /\ Len(ev.atts) = Cardinality(told)
       /\ Range(ev.atts) = {Fully(tags, a) : a \in told}
       /\ \A i \in given :
             ev.atts[Place(t, i)] =
                Fully(tags, Attribute(t.name, t.atts[i].name, t.atts[i].value))
       /\ ev.idAttIndex = IF ids = {} THEN -1
                          ELSE 2 * (Place(t, CHOOSE i \in ids : TRUE) - 1)

\* Said of the event there is.
DeclaredOf ==
    \A ev, tags : ev = event /\ tags = Around =>
        (ev.type \in {"start", "empty"} => AsDeclared(ev, tags))

\* The property is that, said of the event and the tags around.
LEMMA DeclaredIs == AttributesAsDeclared <=> DeclaredOf
<1>1. AttributesAsDeclared <=> (event.type \in {"start", "empty"} => AsDeclared(event, Around))
    BY Zenon DEF AttributesAsDeclared, AsDeclared, Fully
<1> QED BY <1>1 DEF DeclaredOf

\* The ID of an element is the same when its declarations are.
LEMMA IdOfStays ==
    ASSUME declared' = declared, NEW e, Ids(e)' = Ids(e)
    PROVE  IdOf(e)' = IdOf(e)
<1> DEFINE c == CHOOSE i \in Ids(e) : \A j \in Ids(e) : i <= j
<1>1. c = c'
  BY Zenon
<1>2. IdOf(e) = IF Ids(e) = {} THEN NoName ELSE declared[c].att
  BY Zenon DEF IdOf
<1>3. IdOf(e)' = IF Ids(e)' = {} THEN NoName ELSE declared'[c'].att
  BY Zenon DEF IdOf, NoName, None
<1> HIDE DEF c
<1> QED BY <1>1, <1>2, <1>3

\* A prefix stands for the same when the tags declare the same.
LEMMA InScopeStays ==
    ASSUME setup' = setup, \A t, q : Declares(t, q)' = Declares(t, q), NEW tags, NEW p
    PROVE  InScope(tags, p)' = InScope(tags, p)
<1> DEFINE D == {k \in DOMAIN tags : Declares(tags[k], p) # {}}
           c == CHOOSE k \in D : \A j \in D : j <= k
           u == CHOOSE a \in Declares(tags[c], p) : TRUE
<1>1. InScope(tags, p) = IF D = {} THEN IF NS /\ p = "xml" THEN "XML" ELSE None
                         ELSE IF u.value = "" THEN None ELSE u.value
   BY Zenon DEF InScope
<1>2. InScope(tags, p)' = IF D' = {} THEN IF NS' /\ p = "xml" THEN "XML" ELSE None
                         ELSE IF u'.value = "" THEN None ELSE u'.value
   BY Zenon DEF InScope, None
<1>3. D' = D
  OBVIOUS
<1>4. c' = c
  <2> HIDE DEF D
  <2> QED BY <1>3, Zenon
<1>5. u' = u
  <2>1. Declares(tags[c], p)' = Declares(tags[c], p)
     <3> HIDE DEF c
     <3> QED BY <1>4
  <2> HIDE DEF c
  <2> QED BY <2>1, Zenon
<1> HIDE DEF D, c, u
<1>6. PICK x : x = u.value OBVIOUS
<1>7. u'.value = x BY <1>5, <1>6
<1>8. \A y : InScope(tags, p) = y => InScope(tags, p)' = y
  <2>2. CASE D = {}
    <3>1. InScope(tags, p) = IF NS /\ p = "xml" THEN "XML" ELSE None
       BY <1>1, <2>2, Zenon
    <3>2. InScope(tags, p)' = IF NS /\ p = "xml" THEN "XML" ELSE None
       BY <1>2, <1>3, <2>2, setup' = setup, Zenon DEF NS
    <3> QED BY <3>1, <3>2
  <2>3. CASE D # {}
    <3>1. InScope(tags, p) = IF x = "" THEN None ELSE x
       BY <1>1, <1>6, <2>3, Zenon
    <3>2. InScope(tags, p)' = IF x = "" THEN None ELSE x
       BY <1>2, <1>3, <1>7, <2>3, Zenon
    <3> QED BY <3>1, <3>2
  <2> QED BY <2>2, <2>3
<1> QED BY <1>8

\* The declarations say of an event what they said.
LEMMA DeclaredForAll ==
    ASSUME setup' = setup, declared' = declared
    PROVE  \A ev, tags : AsDeclared(ev, tags) => AsDeclared(ev, tags)'
<1>1. NS' = NS
    BY DEF NS
<1>2. /\ \A a : IsXmlns(a)' = IsXmlns(a)
      /\ \A a : PrefixOf(a)' = PrefixOf(a)
    BY SaidForAll
<1>3. \A e, a : Binds(e, a)' = Binds(e, a)
    BY DEF Binds, Ours
<1>4. \A e, a, v : Attribute(e, a, v)' = Attribute(e, a, v)
    BY <1>3 DEF Attribute
<1>5. \A t : Specified(t)' = Specified(t)
    BY <1>4 DEF Specified
<1>6. \A t : Whole(t)' = Whole(t)
    BY <1>3, <1>5 DEF Whole
<1>7. \A t, p : Declares(t, p)' = Declares(t, p)
    BY <1>2, <1>6 DEF Declares
<1>8. \A tags, p : InScope(tags, p)' = InScope(tags, p)
    BY <1>7, InScopeStays
<1>9. \A tags, a : Meaning(tags, a)' = Meaning(tags, a)
    BY <1>2, <1>8 DEF Meaning, Plain, Expanded
<1>10. \A tags, e : ElementMeaning(tags, e)' = ElementMeaning(tags, e)
  <2>1. \A e : ElementPrefix(e)' = ElementPrefix(e)
      BY <1>1 DEF ElementPrefix, None
  <2>2. \A n : Plain(n)' = Plain(n)
      BY DEF Plain, None
  <2>3. \A u, l, p : Expanded(u, l, p)' = Expanded(u, l, p)
      BY DEF Expanded
  <2> QED BY <1>1, <1>8, <2>1, <2>2, <2>3 DEF ElementMeaning
<1>11. \A t, i : Place(t, i)' = Place(t, i)
    BY <1>2 DEF Place
<1>12. \A e : Ids(e)' = Ids(e)
    BY <1>2 DEF Ids, Ours
<1>13. \A e : IdOf(e)' = IdOf(e)
    BY <1>12, IdOfStays
<1> SUFFICES ASSUME NEW ev, NEW tags, AsDeclared(ev, tags)
             PROVE  AsDeclared(ev, tags)'
    OBVIOUS
<1> DEFINE t == ev.tag
           told == {a \in Whole(t) : ~IsXmlns(a.name)}
           given == {i \in DOMAIN t.atts : ~IsXmlns(t.atts[i].name)}
           ids == {i \in given : t.atts[i].name = IdOf(t.name)}
           first == CHOOSE i \in ids : TRUE
<1>14. told' = told /\ given' = given
    BY <1>2, <1>6
<1>15. ids' = ids
  <2> HIDE DEF given
  <2> QED BY <1>13, <1>14
<1>16. first' = first
  <2> HIDE DEF ids
  <2> QED BY <1>15, Zenon
<1>17. \A a : Fully(tags, a)' = Fully(tags, a)
    BY <1>9 DEF Fully
<1>18. /\ ev.name = ElementMeaning(tags, t.name)
       /\ ev.nSpecified = Place(t, Len(t.atts))
       /\ Len(ev.atts) = Cardinality(told)
       /\ Range(ev.atts) = {Fully(tags, a) : a \in told}
       /\ \A i \in given :
             ev.atts[Place(t, i)] =
                Fully(tags, Attribute(t.name, t.atts[i].name, t.atts[i].value))
       /\ ev.idAttIndex = IF ids = {} THEN -1 ELSE 2 * (Place(t, first) - 1)
    BY Zenon DEF AsDeclared
<1>19. /\ ev.name = ElementMeaning(tags, t.name)'
       /\ ev.nSpecified = Place(t, Len(t.atts))'
    BY <1>10, <1>11, <1>18
<1>20. /\ Len(ev.atts) = Cardinality(told')
       /\ Range(ev.atts) = {Fully(tags, a)' : a \in told'}
  <2> HIDE DEF told
  <2> QED BY <1>14, <1>17, <1>18
<1>21. ASSUME NEW i \in given'
       PROVE  ev.atts[Place(t, i)'] =
                 Fully(tags, Attribute(t.name, t.atts[i].name, t.atts[i].value))'
  <2>1. PICK x : x = Attribute(t.name, t.atts[i].name, t.atts[i].value)
      OBVIOUS
  <2>2. x = Attribute(t.name, t.atts[i].name, t.atts[i].value)'
      BY <1>4, <2>1
  <2> HIDE DEF given, t
  <2>3. i \in given
      BY <1>14
  <2>4. ev.atts[Place(t, i)] = Fully(tags, x)
      BY <1>18, <2>1, <2>3
  <2>5. Place(t, i)' = Place(t, i) /\ Fully(tags, x)' = Fully(tags, x)
      BY <1>11, <1>17
  <2> QED BY <2>2, <2>4, <2>5
<1>22. ev.idAttIndex = IF ids' = {} THEN -1 ELSE 2 * (Place(t, first)' - 1)
  <2> HIDE DEF ids, first, t
  <2> QED BY <1>11, <1>15, <1>16, <1>18
<1> QED BY <1>19, <1>20, <1>21, <1>22, Zenon DEF AsDeclared

\* An attribute whose prefix is bound is told under the name it means.
LEMMA MeantHere ==
    ASSUME AttributesAssumption, AInv, NEW t \in Tags, NEW w, WorkInv(w),
           Taken(w) = Declarations(t), NEW tags, tags = Append(Open, t),
           NEW m \in DOMAIN w.atts, ~IsXmlns(w.atts[m].name),
           PrefixOf(w.atts[m].name) # None => w.bound[PrefixOf(w.atts[m].name)] # 0
    PROVE  Full(w, m) = Fully(tags, w.atts[m])
<1> DEFINE a == w.atts[m].name
           p == PrefixOf(a)
<1>1. a \in AttributeNames
  <2>1. w.atts \in Seq([name : AttributeNames, value : Values])
      BY DEF WorkInv, Works
  <2>2. w.atts[m] \in [name : AttributeNames, value : Values]
    <3>1. m \in 1 .. Len(w.atts)
        BY <2>1
    <3> QED BY <2>1, <3>1, ElementOfSeq
  <2> QED BY <2>2
<1>2. CASE p = None
    BY <1>2 DEF Full, Fully, Meaning
<1>3. CASE p # None
  <2>1. p \in PrefixNames
      BY <1>1, <1>3 DEF PrefixOf, AttributesAssumption
  <2>2. InScope(tags, p) = w.bindings[w.bound[p]].uri
    <3>1. InScope(tags, p) = IF w.bound[p] = 0 THEN None ELSE w.bindings[w.bound[p]].uri
      <4> HIDE DEF p
      <4> QED BY <2>1, InScopeHere DEF Here
    <3> QED BY <1>3, <3>1
  <2> HIDE DEF p
  <2>3. Meaning(tags, a) = Expanded(w.bindings[w.bound[p]].uri, a.local, p)
      BY <1>3, <2>2 DEF Meaning, p
  <2> QED BY <1>3, <2>3 DEF Full, Fully, p
<1> QED BY <1>2, <1>3

\* And so is the element.
LEMMA ElementMeantHere ==
    ASSUME AttributesAssumption, AInv, NEW t \in Tags, NEW w, WorkInv(w),
           Taken(w) = Declarations(t), NEW tags, tags = Append(Open, t),
           NEW b, b = ElementBinding(t.name, w),
           ~(ElementPrefix(t.name) # None /\ b = 0)
    PROVE  ElementMeaning(tags, t.name) =
              IF b = 0 THEN Plain(t.name) ELSE WriteName(w.bindings, b, t.name)[b].last
<1> DEFINE e == t.name
           p == IF ElementPrefix(e) = None THEN "" ELSE ElementPrefix(e)
<1>1. e \in ElementNames
    BY AttsOf
<1>2. CASE ~NS
    BY <1>2 DEF ElementMeaning, ElementBinding
<1>3. CASE NS
  <2>1. p \in PrefixNames
      BY <1>1 DEF ElementPrefix, AttributesAssumption
  <2>2. b = w.bound[p]
      BY <1>3 DEF ElementBinding
  <2> HIDE DEF p
  <2>3. /\ InScope(tags, p) = IF b = 0 THEN None ELSE w.bindings[b].uri
        /\ b # 0 => w.bindings[b].uri # None /\ w.bindings[b].prefix = p
    <3>1. /\ InScope(tags, p) = IF w.bound[p] = 0 THEN None ELSE w.bindings[w.bound[p]].uri
          /\ w.bound[p] # 0 => /\ w.bindings[w.bound[p]].uri # None
                               /\ w.bindings[w.bound[p]].prefix = p
        BY <2>1, InScopeHere DEF Here, Apt
    <3> QED BY <2>2, <3>1
  <2>4. ElementMeaning(tags, e) = IF InScope(tags, p) = None THEN Plain(e)
                                  ELSE Expanded(InScope(tags, p), e.local, p)
      BY <1>3, Zenon DEF ElementMeaning, p
  <2>5. CASE b = 0
      BY <2>3, <2>4, <2>5
  <2>6. CASE b # 0
    <3>1. b \in DOMAIN w.bindings
      <4>1. b \in Within(Len(tagStack)) \cup Range(w.own)
          BY <1>1, <2>6, NameBinding
      <4>2. Len(tagStack) \in 0 .. Len(tagStack)
          BY TagsOf DEF AInv
      <4> QED BY <4>1, <4>2, WorkedOn DEF AInv
    <3>2. w.bindings \in Seq(Cells)
        BY WorkedOn DEF AInv
    <3>3. WriteName(w.bindings, b, e)[b].last
             = Expanded(w.bindings[b].uri, e.local, w.bindings[b].prefix)
        BY <1>1, <3>1, <3>2, NameWritten DEF AInv
    <3> QED BY <2>3, <2>4, <2>6, <3>3
  <2> QED BY <2>5, <2>6
<1> QED BY <1>2, <1>3

\* A start tag is told as it is declared.
LEMMA StartTagTells ==
    ASSUME AttributesAssumption, AInv, IdInv, NEW t \in Tags, NEW empty \in BOOLEAN,
           StartTag(t, empty), NEW ev, ev = event', NEW tags, tags = Append(Open, t)
    PROVE  \/ ev.type = "error"
           \/ ev.type = (IF empty THEN "empty" ELSE "start") /\ ev.tag = t /\ AsDeclared(ev, tags)
              /\ code' = "NONE"
<1>0. TypeInv /\ FlagInv /\ DeclaredInv /\ OwnerInv
    BY DEF AInv
<1> DEFINE s == Scanned(t)
           w == Completed(t, s)
           x == ExpandAll(w)
           b == ElementBinding(t.name, w)
           unbound == ElementPrefix(t.name) # None /\ b = 0
           error == IF w.error # "NONE" THEN w.error
                    ELSE IF x.error # "NONE" THEN x.error
                    ELSE IF unbound THEN "UNBOUND_PREFIX" ELSE "NONE"
           cells == IF b = 0 THEN w.bindings ELSE WriteName(w.bindings, b, t.name)
           name  == IF b = 0 THEN Plain(t.name) ELSE cells[b].last
           told == [type |-> IF empty THEN "empty" ELSE "start", tag |-> t,
                    name |-> name, atts |-> x.atts, scopes |-> w.scopes,
                    nSpecified |-> Len(s.atts), idAttIndex |-> IdAttIndex(t.name, s)]
<1>1. CASE error # "NONE"
  <2>1. event' = [type |-> "error", tag |-> t]
      BY <1>1, Zenon DEF StartTag
  <2> QED BY <2>1
<1>2. CASE error = "NONE"
  <2>1. w.error = "NONE" /\ x.error = "NONE" /\ ~unbound
    <3> HIDE DEF w, x, unbound
    <3> QED BY <1>2
  <2>2. event' = told
      BY <1>2, Zenon DEF StartTag
  <2>23. code' = code /\ code = "NONE"
      BY <1>2, Zenon DEF StartTag
  <2>3. /\ ev.type = (IF empty THEN "empty" ELSE "start") /\ ev.tag = t /\ ev.name = name
        /\ ev.atts = x.atts
        /\ ev.nSpecified = Len(s.atts) /\ ev.idAttIndex = IdAttIndex(t.name, s)
    <3> HIDE DEF s, x, w, name
    <3> QED BY <2>2
  <2> HIDE DEF told, error
  <2>4. /\ ScanInv(t, Len(t.atts), s) /\ GivenInv(t, Len(t.atts), s)
        /\ AddedInv(t, Len(defaultAtts[t.name]), s, w)
        /\ DefaultInv(t, Len(defaultAtts[t.name]), w)
      BY <1>0, ScanDone, GivenDone, AddedDone, DefaultDone
  <2> HIDE DEF s
  <2>5. WorkInv(w) /\ Taken(w) = Declarations(t)
    <3> HIDE DEF w
    <3> QED BY <1>0, <2>1, <2>4, TakenIsWhole, SMTT(30) DEF DefaultInv
  <2>6. FullInv(w, Len(w.atts), x)
      BY <2>5, FullDone DEF WorkInv
  <2>7. name = ElementMeaning(tags, t.name)
    <3> HIDE DEF w
    <3>1. ElementMeaning(tags, t.name) =
              IF b = 0 THEN Plain(t.name) ELSE WriteName(w.bindings, b, t.name)[b].last
        BY <2>1, <2>5, ElementMeantHere
    <3> HIDE DEF b
    <3> QED BY <3>1
  <2> HIDE DEF w, x, b, name, unbound
  <2>8. s.error = "NONE"
      BY <2>1, <2>4 DEF AddedInv
  <2>9. /\ Len(s.atts) = Place(t, Len(t.atts))
        /\ \A j \in 1 .. Len(t.atts) : ~IsXmlns(t.atts[j].name) =>
              Place(t, j) \in DOMAIN s.atts /\ s.atts[Place(t, j)] = Said(t, j)
      BY <2>4, <2>8 DEF GivenInv
  <2>10. /\ \A m \in DOMAIN s.atts : m \in DOMAIN w.atts /\ w.atts[m] = s.atts[m]
         /\ \A m, k \in DOMAIN w.atts : w.atts[m].name = w.atts[k].name => m = k
      BY <2>1, <2>4 DEF AddedInv
  <2>11. /\ \A m \in DOMAIN w.atts : w.atts[m] \in Told(t)
         /\ \A a \in Told(t) : \E m \in DOMAIN w.atts : w.atts[m] = a
    <3>1. GivesAll(w, t)
        BY <1>0, <2>1, <2>4, GivenIsTold
    <3> QED BY <3>1 DEF GivesAll
  <2>12. PICK n \in Nat : n = Len(w.atts) /\ DOMAIN w.atts = 1 .. n
    <3>1. w.atts \in Seq([name : AttributeNames, value : Values])
        BY <2>5 DEF WorkInv, Works
    <3> QED BY <3>1
  <2>13. /\ Len(x.atts) = n /\ DOMAIN x.atts = 1 .. n
         /\ \A m \in 1 .. n : x.atts[m] = Full(w, m)
         /\ \A m \in 1 .. n : PrefixOf(w.atts[m].name) # None
                                 => w.bound[PrefixOf(w.atts[m].name)] # 0
    <3>1. /\ x.atts \in Seq({Full(w, m) : m \in 1 .. Len(w.atts)}) /\ Len(x.atts) = n
          /\ \A m \in 1 .. n :
              /\ x.atts[m] = Full(w, m)
              /\ PrefixOf(w.atts[m].name) # None => w.bound[PrefixOf(w.atts[m].name)] # 0
        BY <2>1, <2>6, <2>12 DEF FullInv
    <3> QED BY <3>1
  <2>14. \A m \in 1 .. n : x.atts[m] = Fully(tags, w.atts[m])
    <3> SUFFICES ASSUME NEW m \in 1 .. n PROVE x.atts[m] = Fully(tags, w.atts[m])
        OBVIOUS
    <3>1. m \in DOMAIN w.atts /\ ~IsXmlns(w.atts[m].name)
        BY <2>11, <2>12 DEF Told
    <3>2. Full(w, m) = Fully(tags, w.atts[m])
        BY <2>5, <2>13, <3>1, MeantHere
    <3> QED BY <2>13, <3>2
  <2>15. Cardinality(Told(t)) = n
    <3>1. OneToOne(w.atts, n, Told(t))
        BY <2>10, <2>11, <2>12 DEF OneToOne
    <3> QED BY <3>1, AsManyAsTold
  <2>16. Range(x.atts) = {Fully(tags, a) : a \in Told(t)}
    <3>1. Range(x.atts) = {x.atts[m] : m \in 1 .. n}
        BY <2>13 DEF Range
    <3>2. \A m \in 1 .. n : x.atts[m] \in {Fully(tags, a) : a \in Told(t)}
        BY <2>11, <2>12, <2>14
    <3>3. \A a \in Told(t) : Fully(tags, a) \in {x.atts[m] : m \in 1 .. n}
        BY <2>11, <2>12, <2>14
    <3> QED BY <3>1, <3>2, <3>3
  <2> DEFINE given == {i \in DOMAIN t.atts : ~IsXmlns(t.atts[i].name)}
             ids == {i \in given : t.atts[i].name = IdOf(t.name)}
             these == {i \in DOMAIN t.atts :
                         ~IsXmlns(t.atts[i].name) /\ t.atts[i].name = IdOf(t.name)}
  <2>17. ASSUME NEW i \in given
         PROVE  x.atts[Place(t, i)] =
                   Fully(tags, Attribute(t.name, t.atts[i].name, t.atts[i].value))
    <3>1. i \in DOMAIN t.atts /\ i \in 1 .. Len(t.atts) /\ ~IsXmlns(t.atts[i].name)
        BY AttsOf
    <3>2. Said(t, i) = Attribute(t.name, t.atts[i].name, t.atts[i].value)
        BY <1>0, <3>1, SaidIsAttribute
    <3>3. Place(t, i) \in 1 .. n /\ w.atts[Place(t, i)] = Said(t, i)
        BY <2>9, <2>10, <2>12, <3>1
    <3> QED BY <2>14, <3>2, <3>3
  <2>18. these = ids
      OBVIOUS
  <2>19. IdAttIndex(t.name, s) = IF these = {} THEN -1
                                 ELSE 2 * (Place(t, CHOOSE i \in these : TRUE) - 1)
    <3> HIDE DEF these
    <3>1. PICK S : S = these
        OBVIOUS
    <3>2. IdAttIndex(t.name, s) = IF S = {} THEN -1
                                  ELSE 2 * (Place(t, CHOOSE i \in S : TRUE) - 1)
        BY <1>0, <2>4, <2>8, <3>1, IdIndexIs DEF these
    <3> QED BY <3>1, <3>2
  <2>20. IdAttIndex(t.name, s) = IF ids = {} THEN -1
                                 ELSE 2 * (Place(t, CHOOSE i \in ids : TRUE) - 1)
    <3> HIDE DEF these, ids
    <3> QED BY <2>18, <2>19
  <2>21. Told(t) = {a \in Whole(t) : ~IsXmlns(a.name)}
      BY DEF Told
  <2>22. AsDeclared(ev, tags)
    <3>1. /\ ev.name = ElementMeaning(tags, t.name)
          /\ ev.nSpecified = Place(t, Len(t.atts))
          /\ Len(ev.atts) = Cardinality(Told(t))
          /\ Range(ev.atts) = {Fully(tags, a) : a \in Told(t)}
          /\ \A i \in given :
                ev.atts[Place(t, i)] =
                   Fully(tags, Attribute(t.name, t.atts[i].name, t.atts[i].value))
          /\ ev.idAttIndex = IF ids = {} THEN -1
                             ELSE 2 * (Place(t, CHOOSE i \in ids : TRUE) - 1)
      <4> HIDE DEF given, ids
      <4> QED BY <2>3, <2>7, <2>9, <2>13, <2>15, <2>16, <2>17, <2>20
    <3> QED BY <2>3, <2>21, <3>1, Zenon DEF AsDeclared
  <2> QED BY <2>3, <2>22, <2>23
<1> QED BY <1>1, <1>2

-----------------------------------------------------------------------------
(* Why a start tag is refused *)

NamespaceErrors == {"UNDECLARING_PREFIX", "RESERVED_PREFIX_XMLNS", "RESERVED_PREFIX_XML",
                    "RESERVED_NAMESPACE_URI"}

\* The parts of Wrong.
Twice(t) == \E i, j \in DOMAIN t.atts : i < j /\ t.atts[i].name = t.atts[j].name
Others(t) == {a \in Whole(t) : ~IsXmlns(a.name) /\ PrefixOf(a.name) # None}
Same(tags, a, b) ==
    /\ a.name.local = b.name.local
    /\ InScope(tags, PrefixOf(a.name)) = InScope(tags, PrefixOf(b.name))
Clash(t, tags) == \E a, b \in Others(t) : a.name # b.name /\ Same(tags, a, b)
BadOne(t) == \E a \in Whole(t) : BadNamespace(a)
Nameless(t, tags) ==
    \/ \E a \in Others(t) : InScope(tags, PrefixOf(a.name)) = None
    \/ /\ ElementPrefix(t.name) # None
       /\ InScope(tags, ElementPrefix(t.name)) = None

\* They are what there is of it.
LEMMA WrongIs ==
    ASSUME NEW t, NEW tags
    PROVE  Wrong(t, tags) = (IF Twice(t) \/ Clash(t, tags) THEN {"DUPLICATE_ATTRIBUTE"} ELSE {})
                            \cup (IF BadOne(t) THEN NamespaceErrors ELSE {})
                            \cup (IF Nameless(t, tags) THEN {"UNBOUND_PREFIX"} ELSE {})
<1> QED BY Zenon DEF Wrong, Twice, Clash, Others, Same, BadOne, Nameless, NamespaceErrors

\* addBinding refuses just the declarations that are bad.
LEMMA ReservedIs ==
    ASSUME NEW a
    PROVE  /\ Reserved(PrefixOf(a.name), a.value) \in NamespaceErrors \cup {"NONE"}
           /\ IsXmlns(a.name) =>
                (Reserved(PrefixOf(a.name), a.value) # "NONE" <=> BadNamespace(a))
<1> DEFINE p == PrefixOf(a.name)
           u == a.value
<1>1. BadNamespace(a) <=> /\ IsXmlns(a.name)
                          /\ \/ p = "xmlns" \/ u = "XMLNS"
                             \/ (p = "xml") # (u = "XML")
                             \/ p # "" /\ u = ""
    BY DEF BadNamespace
<1> HIDE DEF p, u
<1>2. Reserved(p, u) \in {"UNDECLARING_PREFIX", "RESERVED_PREFIX_XMLNS", "RESERVED_PREFIX_XML",
                          "RESERVED_NAMESPACE_URI", "NONE"}
    BY Zenon DEF Reserved
<1>3. CASE \/ p = "xmlns" \/ u = "XMLNS"
           \/ (p = "xml") # (u = "XML")
           \/ p # "" /\ u = ""
  <2>1. Reserved(p, u) # "NONE"
    <3>1. \/ u = "" /\ p # ""
          \/ p = "xmlns"
          \/ p = "xml" /\ u # "XML"
          \/ p # "xml" /\ u = "XML"
          \/ u = "XMLNS"
        BY <1>3
    <3> QED BY <3>1, Zenon DEF Reserved
  <2> QED BY <1>1, <1>2, <1>3, <2>1 DEF p, u, NamespaceErrors
<1>4. CASE ~(\/ p = "xmlns" \/ u = "XMLNS"
             \/ (p = "xml") # (u = "XML")
             \/ p # "" /\ u = "")
  <2>1. Reserved(p, u) = "NONE"
    <3>1. /\ ~(u = "" /\ p # "") /\ p # "xmlns" /\ ~(p = "xml" /\ u # "XML")
          /\ ~(p # "xml" /\ u = "XML") /\ u # "XMLNS"
        BY <1>4
    <3> QED BY <3>1, Zenon DEF Reserved
  <2> QED BY <1>1, <1>4, <2>1 DEF p, u, NamespaceErrors
<1> QED BY <1>3, <1>4

\* What it refuses it refuses with that error.
LEMMA AddBindingErrs ==
    ASSUME NEW w, w \in Works, NEW att, NEW uri
    PROVE  AddBinding(w, att, uri).error = Reserved(PrefixOf(att), uri)
<1>1. CASE Reserved(PrefixOf(att), uri) = "NONE"
    BY <1>1, AddBindingGives
<1>2. CASE Reserved(PrefixOf(att), uri) # "NONE"
  <2>1. AddBinding(w, att, uri) = [w EXCEPT !.error = Reserved(PrefixOf(att), uri)]
      BY <1>2 DEF AddBinding, Fail
  <2> QED BY <2>1 DEF Works
<1> QED BY <1>1, <1>2

\* Why the list of t is refused before the names are expanded.
Spoilt(t, c) == \/ c = "NONE"
                \/ c = "DUPLICATE_ATTRIBUTE" /\ Twice(t)
                \/ c \in NamespaceErrors /\ BadOne(t)

\* One more attribute that is written.
LEMMA SpoiltByWritten ==
    ASSUME AttributesAssumption, TypeInv, DeclaredInv,
           NEW t \in Tags, NEW i \in 1 .. Len(t.atts), NEW w,
           ScanInv(t, i - 1, w), Spoilt(t, w.error),
           NEW r, r = Specify(w, t.name, t.atts[i])
    PROVE  Spoilt(t, r.error)
<1> DEFINE att == t.atts[i]
           value == Stored(att.value, IsCdata(t.name, att.name))
           marked == [w EXCEPT !.flag[att.name] = 1]
<1>1. CASE w.error # "NONE"
    BY <1>1 DEF Specify
<1>2. CASE w.error = "NONE"
  <2>0. /\ i \in Nat /\ 0 < i /\ i \in DOMAIN t.atts /\ att.name \in AttributeNames
        /\ \A j \in 1 .. i - 1 : j \in DOMAIN t.atts /\ j < i
      BY AttsOf
  <2>1. w \in Works /\ \A a \in AttributeNames : w.flag[a] # 0 <=> Wrote(t, a, i - 1)
      BY <1>2 DEF ScanInv, WorkInv
  <2>2. CASE w.flag[att.name] # 0
    <3>1. PICK j \in 1 .. i - 1 : t.atts[j].name = att.name
        BY <2>0, <2>1, <2>2 DEF Wrote
    <3>2. Twice(t)
        BY <2>0, <3>1 DEF Twice
    <3>3. r = [w EXCEPT !.error = "DUPLICATE_ATTRIBUTE"]
        BY <1>2, <2>2, Zenon DEF Specify, Fail
    <3>4. r.error = "DUPLICATE_ATTRIBUTE"
        BY <2>1, <3>3 DEF Works
    <3> QED BY <3>2, <3>4 DEF Spoilt
  <2>3. CASE w.flag[att.name] = 0 /\ IsXmlns(att.name)
    <3>1. r = AddBinding(marked, att.name, value)
        BY <1>2, <2>3, Zenon DEF Specify
    <3>2. marked \in Works
      <4>1. marked = [w EXCEPT !.flag = [w.flag EXCEPT ![att.name] = 1]]
          BY <2>1
      <4>2. [w.flag EXCEPT ![att.name] = 1] \in [AttributeNames -> 0 .. 2]
          BY <2>1, 1 \in 0 .. 2 DEF Works
      <4> HIDE DEF marked
      <4> QED BY <2>1, <4>1, <4>2 DEF Works
    <3> HIDE DEF marked
    <3>3. r.error = Reserved(PrefixOf(att.name), value)
        BY <3>1, <3>2, AddBindingErrs
    <3>4. Said(t, i) = [name |-> att.name, value |-> value] /\ Said(t, i) \in Whole(t)
        BY WholeIs DEF Said, Declaration
    <3>5. r.error = Reserved(PrefixOf(Said(t, i).name), Said(t, i).value) /\ IsXmlns(Said(t, i).name)
      <4> HIDE DEF att, value
      <4> QED BY <2>3, <3>3, <3>4
    <3>6. r.error \in NamespaceErrors \cup {"NONE"} /\ (r.error # "NONE" <=> BadNamespace(Said(t, i)))
        BY <3>5, ReservedIs
    <3> QED BY <3>4, <3>6 DEF Spoilt, BadOne
  <2>4. CASE w.flag[att.name] = 0 /\ ~IsXmlns(att.name)
    <3>1. r = Give(w, att.name, value)
        BY <1>2, <2>4, Zenon DEF Specify
    <3>2. r.error = w.error
        BY <2>1, <3>1 DEF Give, Works
    <3> QED BY <1>2, <3>2 DEF Spoilt
  <2> QED BY <2>2, <2>3, <2>4
<1> QED BY <1>1, <1>2

\* One more default.
LEMMA SpoiltByDefault ==
    ASSUME AttributesAssumption, TypeInv, DeclaredInv,
           NEW t \in Tags, NEW i \in 1 .. Len(defaultAtts[t.name]), NEW w,
           DefaultInv(t, i - 1, w), Spoilt(t, w.error),
           NEW r, r = Default(w, defaultAtts[t.name][i])
    PROVE  Spoilt(t, r.error)
<1> DEFINE da == defaultAtts[t.name][i]
           n == Len(t.atts)
<1>1. CASE w.error # "NONE" \/ w.flag[da.id] # 0 \/ da.value = None
    BY <1>1, Zenon DEF Default
<1>2. CASE w.error = "NONE" /\ w.flag[da.id] = 0 /\ da.value # None
  <2>0. da.id \in AttributeNames
    <3>1. t.name \in ElementNames
        BY AttsOf
    <3> QED BY <3>1, DefaultsOf
  <2>1. w \in Works /\ \A a \in AttributeNames : Wrote(t, a, n) => w.flag[a] # 0
      BY <1>2 DEF DefaultInv, WorkInv
  <2>2. CASE IsXmlns(da.id)
    <3>1. r = AddBinding(w, da.id, da.value)
        BY <1>2, <2>2, Zenon DEF Default
    <3>2. r.error = Reserved(PrefixOf(da.id), da.value)
        BY <2>1, <3>1, AddBindingErrs
    <3>3. Supplies(t, i)
        BY <1>2, <2>0, <2>1 DEF Supplies
    <3>4. Filling(t, i) = [name |-> da.id, value |-> da.value] /\ Filling(t, i) \in Whole(t)
        BY <3>3, WholeIs DEF Filling
    <3>5. r.error = Reserved(PrefixOf(Filling(t, i).name), Filling(t, i).value)
          /\ IsXmlns(Filling(t, i).name)
      <4> HIDE DEF da
      <4> QED BY <2>2, <3>2, <3>4
    <3>6. r.error \in NamespaceErrors \cup {"NONE"} /\ (r.error # "NONE" <=> BadNamespace(Filling(t, i)))
        BY <3>5, ReservedIs
    <3> QED BY <3>4, <3>6 DEF Spoilt, BadOne
  <2>3. CASE ~IsXmlns(da.id)
    <3>1. r = Give(w, da.id, da.value)
        BY <1>2, <2>3, Zenon DEF Default
    <3>2. r.error = w.error
        BY <2>1, <3>1 DEF Give, Works
    <3> QED BY <1>2, <3>2 DEF Spoilt
  <2> QED BY <2>2, <2>3
<1> QED BY <1>1, <1>2

\* When all that is written and all defaults were looked at.
LEMMA SpoiltDone ==
    ASSUME AttributesAssumption, TypeInv, FlagInv, OwnerInv, DeclaredInv, NEW t \in Tags
    PROVE  Spoilt(t, Completed(t, Scanned(t)).error)
<1> DEFINE n == Len(t.atts)
           d == Len(defaultAtts[t.name])
           s == Scanned(t)
<1>1. n \in Nat /\ d \in Nat
    BY AttsOf, DefaultsOf
<1>2. Spoilt(t, s.error)
  <2>1. PICK f : /\ f[0] = Work
                 /\ \A i \in 1 .. n : f[i] = Specify(f[i - 1], t.name, t.atts[i])
                 /\ s = f[n]
      BY <1>1, Scanning
  <2> DEFINE T == {i \in 0 .. n : ScanInv(t, i, f[i]) /\ Spoilt(t, f[i].error)}
  <2>2. 0 \in T
    <3>1. Work.error = "NONE"
        BY DEF Work
    <3>2. Spoilt(t, f[0].error)
        BY <2>1, <3>1 DEF Spoilt
    <3> QED BY <1>1, <2>1, <3>2, ScanStart
  <2>3. ASSUME NEW i \in 1 .. n, i - 1 \in T PROVE i \in T
    <3>1. ScanInv(t, i - 1, f[i - 1]) /\ Spoilt(t, f[i - 1].error)
        BY <2>3
    <3>2. ScanInv(t, i, f[i])
        BY <2>1, <3>1, ScanNext
    <3>3. Spoilt(t, f[i].error)
        BY <2>1, <3>1, SpoiltByWritten
    <3>4. i \in 0 .. n
        BY <1>1
    <3> QED BY <3>2, <3>3, <3>4
  <2>4. n \in T
    <3> HIDE DEF T
    <3>1. \A i \in 0 .. n : i \in T
        BY <1>1, <2>2, <2>3, Induction
    <3> QED BY <1>1, <3>1
  <2> QED BY <2>1, <2>4
<1>3. DefaultInv(t, 0, s)
    BY ScanDone, DefaultStart
<1> HIDE DEF s
<1>4. PICK f : /\ f[0] = s
               /\ \A i \in 1 .. d : f[i] = Default(f[i - 1], defaultAtts[t.name][i])
               /\ Completed(t, s) = f[d]
    BY <1>1, Completing
<1> DEFINE T == {i \in 0 .. d : DefaultInv(t, i, f[i]) /\ Spoilt(t, f[i].error)}
<1>5. 0 \in T
    BY <1>1, <1>2, <1>3, <1>4
<1>6. ASSUME NEW i \in 1 .. d, i - 1 \in T PROVE i \in T
  <2>1. DefaultInv(t, i - 1, f[i - 1]) /\ Spoilt(t, f[i - 1].error)
      BY <1>6
  <2>2. DefaultInv(t, i, f[i])
      BY <1>4, <2>1, DefaultNext
  <2>3. Spoilt(t, f[i].error)
      BY <1>4, <2>1, SpoiltByDefault
  <2>4. i \in 0 .. d
      BY <1>1
  <2> QED BY <2>2, <2>3, <2>4
<1>7. d \in T
  <2> HIDE DEF T
  <2>1. \A i \in 0 .. d : i \in T
      BY <1>1, <1>5, <1>6, Induction
  <2> QED BY <1>1, <2>1
<1> QED BY <1>4, <1>7 DEF s

\* What is wrong with a tag is the same when its declarations are.
LEMMA WrongStays ==
    ASSUME setup' = setup, declared' = declared
    PROVE  \A t, tags : Wrong(t, tags)' = Wrong(t, tags)
<1>1. NS' = NS
    BY DEF NS
<1>2. /\ \A a : IsXmlns(a)' = IsXmlns(a)
      /\ \A a : PrefixOf(a)' = PrefixOf(a)
    BY SaidForAll
<1>3. \A e, a : Binds(e, a)' = Binds(e, a)
    BY DEF Binds, Ours
<1>4. \A e, a, v : Attribute(e, a, v)' = Attribute(e, a, v)
    BY <1>3 DEF Attribute
<1>5. \A t : Specified(t)' = Specified(t)
    BY <1>4 DEF Specified
<1>6. \A t : Whole(t)' = Whole(t)
    BY <1>3, <1>5 DEF Whole
<1>7. \A t, p : Declares(t, p)' = Declares(t, p)
    BY <1>2, <1>6 DEF Declares
<1>8. \A tags, p : InScope(tags, p)' = InScope(tags, p)
    BY <1>7, InScopeStays
<1>9. \A e : ElementPrefix(e)' = ElementPrefix(e)
    BY <1>1 DEF ElementPrefix, None
<1> SUFFICES ASSUME NEW t, NEW tags PROVE Wrong(t, tags)' = Wrong(t, tags)
    OBVIOUS
<1>10. Others(t)' = Others(t)
    BY <1>2, <1>6 DEF Others, None
<1>11. \A a, b : Same(tags, a, b)' <=> Same(tags, a, b)
    BY <1>2, <1>8 DEF Same
<1>12. Clash(t, tags)' <=> Clash(t, tags)
    BY <1>10, <1>11 DEF Clash
<1>13. \A a : BadNamespace(a)' <=> BadNamespace(a)
    BY <1>2 DEF BadNamespace
<1>14. BadOne(t)' <=> BadOne(t)
    BY <1>6, <1>13 DEF BadOne
<1>15. Nameless(t, tags)' <=> Nameless(t, tags)
    BY <1>2, <1>8, <1>9, <1>10 DEF Nameless, None
<1>16. Twice(t)' <=> Twice(t)
    BY DEF Twice
<1>17. Wrong(t, tags)' =
          (IF Twice(t)' \/ Clash(t, tags)' THEN {"DUPLICATE_ATTRIBUTE"} ELSE {})
            \cup (IF BadOne(t)' THEN NamespaceErrors ELSE {})
            \cup (IF Nameless(t, tags)' THEN {"UNBOUND_PREFIX"} ELSE {})
    BY Zenon DEF Wrong, Twice, Clash, Others, Same, BadOne, Nameless, NamespaceErrors, None
<1> QED BY <1>12, <1>14, <1>15, <1>16, <1>17, WrongIs

\* Nothing is wrong with a tag of which none of that is so.
LEMMA NothingWrong ==
    ASSUME NEW t, NEW tags, ~Twice(t), ~Clash(t, tags), ~BadOne(t), ~Nameless(t, tags)
    PROVE  Wrong(t, tags) = {}
<1> QED BY WrongIs

\* The prefix of an attribute that is given.
LEMMA PrefixGiven ==
    ASSUME AttributesAssumption, NEW w, w \in Works, NEW m \in Prefixed(w)
    PROVE  PrefixOf(w.atts[m].name) \in PrefixNames
<1> DEFINE a == w.atts[m].name
           s == w.atts
           S == [name : AttributeNames, value : Values]
<1>1. m \in DOMAIN s /\ PrefixOf(a) # None
    BY DEF Prefixed
<1>2. a \in AttributeNames
  <2>1. s \in Seq(S)
      BY DEF Works
  <2> HIDE DEF s, S
  <2>2. s[m] \in S
      BY <1>1, <2>1
  <2> QED BY <2>2 DEF s, S
<1> HIDE DEF a
<1>3. a.prefix \in PrefixNames /\ (a.prefix = "xmlns" => a.local \in PrefixNames) /\ "" \in PrefixNames
    BY <1>2 DEF AttributesAssumption
<1> QED BY <1>1, <1>3 DEF PrefixOf, IsXmlns, a

\* The work on t when nothing was wrong before its names are expanded.
Ready(t, w) ==
    /\ WorkInv(w) /\ Taken(w) = Declarations(t) /\ GivesAll(w, t)
    /\ \A m, k \in DOMAIN w.atts : w.atts[m].name = w.atts[k].name => m = k

\* What the prefix of an attribute stands for is what the tags say.
LEMMA OtherGiven ==
    ASSUME AttributesAssumption, AInv, NEW t \in Tags, NEW w, Ready(t, w),
           NEW tags, tags = Append(Open, t), NEW m \in Prefixed(w)
    PROVE  /\ w.atts[m] \in Others(t)
           /\ InScope(tags, PrefixOf(w.atts[m].name)) = Here(w, PrefixOf(w.atts[m].name))
           /\ Apt(w, PrefixOf(w.atts[m].name))
<1>1. w \in Works
    BY DEF Ready, WorkInv
<1>2. \A p \in PrefixNames : InScope(tags, p) = Here(w, p) /\ Apt(w, p)
    BY InScopeHere DEF Ready
<1>3. PrefixOf(w.atts[m].name) \in PrefixNames
    BY <1>1, PrefixGiven
<1>4. w.atts[m] \in Others(t)
    BY DEF Ready, GivesAll, Told, Others, Prefixed
<1> QED BY <1>2, <1>3, <1>4

\* All of them are given.
LEMMA OthersGiven ==
    ASSUME NEW t, NEW w, Ready(t, w), NEW a \in Others(t)
    PROVE  \E m \in Prefixed(w) : w.atts[m] = a
<1> QED BY DEF Ready, GivesAll, Told, Others, Prefixed

\* A name that is refused is wrong.
LEMMA RefusedIsWrong ==
    ASSUME AttributesAssumption, TableAssumption, AInv, NEW t \in Tags, NEW w, Ready(t, w),
           NEW tags, tags = Append(Open, t), NEW x, Erred(w, x), x.error # "NONE"
    PROVE  x.error \in Wrong(t, tags)
<1>1. TypeInv /\ w \in Works /\ BoundThere(w)
    BY BoundIs DEF AInv, Ready, WorkInv
<1>2. CASE x.error = "UNBOUND_PREFIX" /\ \E m \in DOMAIN w.atts : Unbound(w, m)
  <2>1. PICK m \in Prefixed(w) : w.bound[PrefixOf(w.atts[m].name)] = 0
      BY <1>2 DEF Unbound
  <2>2. w.atts[m] \in Others(t) /\ InScope(tags, PrefixOf(w.atts[m].name)) = None
    <3>1. /\ w.atts[m] \in Others(t)
          /\ InScope(tags, PrefixOf(w.atts[m].name)) = Here(w, PrefixOf(w.atts[m].name))
        BY OtherGiven
    <3> QED BY <2>1, <3>1 DEF Here
  <2>3. Nameless(t, tags)
      BY <2>2 DEF Nameless
  <2> QED BY <1>2, <2>3, WrongIs
<1>3. CASE x.error = "DUPLICATE_ATTRIBUTE" /\ \E m, k \in DOMAIN w.atts : Alike(w, m, k)
  <2>1. PICK m, k \in DOMAIN w.atts : Alike(w, m, k)
      BY <1>3
  <2>2. /\ m \in Prefixed(w) /\ k \in Prefixed(w) /\ m # k
        /\ ~Unbound(w, m) /\ ~Unbound(w, k)
        /\ UriName(Full(w, m).name) = UriName(Full(w, k).name)
      BY <2>1 DEF Alike
  <2> DEFINE p == PrefixOf(w.atts[m].name)
             q == PrefixOf(w.atts[k].name)
  <2>3. /\ UriName(Full(w, m).name) = <<w.bindings[w.bound[p]].uri, w.atts[m].name.local>>
        /\ UriName(Full(w, k).name) = <<w.bindings[w.bound[q]].uri, w.atts[k].name.local>>
      BY <1>1, <2>2, NameHashed
  <2>4. w.bound[p] # 0 /\ w.bound[q] # 0
      BY <2>2 DEF Unbound
  <2>5. /\ w.atts[m] \in Others(t) /\ InScope(tags, p) = Here(w, p)
        /\ w.atts[k] \in Others(t) /\ InScope(tags, q) = Here(w, q)
    <3>1. w.atts[m] \in Others(t) /\ InScope(tags, p) = Here(w, p)
        BY <2>2, OtherGiven
    <3>2. w.atts[k] \in Others(t) /\ InScope(tags, q) = Here(w, q)
        BY <2>2, OtherGiven
    <3> QED BY <3>1, <3>2
  <2> HIDE DEF p, q
  <2>6. /\ w.bindings[w.bound[p]].uri = w.bindings[w.bound[q]].uri
        /\ w.atts[m].name.local = w.atts[k].name.local
    <3>1. PICK u, v : u = w.bindings[w.bound[p]].uri /\ v = w.atts[m].name.local
        OBVIOUS
    <3>2. PICK y, z : y = w.bindings[w.bound[q]].uri /\ z = w.atts[k].name.local
        OBVIOUS
    <3>3. <<u, v>> = <<y, z>>
        BY <2>2, <2>3, <3>1, <3>2
    <3> QED BY <3>1, <3>2, <3>3
  <2>7. Same(tags, w.atts[m], w.atts[k])
      BY <2>4, <2>5, <2>6 DEF Same, Here, p, q
  <2>8. w.atts[m].name # w.atts[k].name
      BY <2>2 DEF Ready, Prefixed
  <2>9. Clash(t, tags)
      BY <2>5, <2>7, <2>8 DEF Clash
  <2> QED BY <1>3, <2>9, WrongIs
<1> QED BY <1>2, <1>3 DEF Erred

\* When no name is refused, all are in a namespace and no two are the same.
LEMMA NoneRefused ==
    ASSUME AttributesAssumption, TableAssumption, AInv, NEW t \in Tags, NEW w, Ready(t, w),
           NEW tags, tags = Append(Open, t), NEW x, x.error = "NONE",
           FullInv(w, Len(w.atts), x), EnteredInv(w, Len(w.atts), x)
    PROVE  /\ ~Clash(t, tags)
           /\ \A a \in Others(t) : InScope(tags, PrefixOf(a.name)) # None
<1>1. TypeInv /\ w \in Works /\ BoundThere(w)
    BY BoundIs DEF AInv, Ready, WorkInv
<1>2. Prefixed(w) \subseteq 1 .. Len(w.atts) /\ UpTo(w, Len(w.atts)) = Prefixed(w)
  <2>1. Prefixed(w) \subseteq 1 .. Len(w.atts)
      BY <1>1, PrefixedAre, 0 \in Nat
  <2>2. \A m \in 1 .. Len(w.atts) : m <= Len(w.atts)
      OBVIOUS
  <2> QED BY <2>1, <2>2 DEF UpTo
<1>3. \A m \in Prefixed(w) : ~Unbound(w, m) /\ w.bound[PrefixOf(w.atts[m].name)] # 0
    BY <1>2 DEF FullInv, Unbound, Prefixed
<1>4. \A m, k \in Prefixed(w) : UriName(Full(w, m).name) = UriName(Full(w, k).name) => m = k
    BY <1>2 DEF EnteredInv
<1>5. ASSUME NEW a \in Others(t) PROVE InScope(tags, PrefixOf(a.name)) # None
  <2>1. PICK m \in Prefixed(w) : w.atts[m] = a
      BY OthersGiven
  <2> DEFINE p == PrefixOf(a.name)
  <2>2. w.bound[p] # 0
      BY <1>3, <2>1
  <2>3. InScope(tags, p) = Here(w, p) /\ Apt(w, p)
    <3>1. /\ InScope(tags, PrefixOf(w.atts[m].name)) = Here(w, PrefixOf(w.atts[m].name))
          /\ Apt(w, PrefixOf(w.atts[m].name))
        BY OtherGiven
    <3> QED BY <2>1, <3>1
  <2> HIDE DEF p
  <2> QED BY <2>2, <2>3 DEF Here, Apt, p
<1>6. ASSUME NEW a \in Others(t), NEW b \in Others(t), a.name # b.name, Same(tags, a, b)
      PROVE  FALSE
  <2>1. PICK m \in Prefixed(w) : w.atts[m] = a
      BY OthersGiven
  <2>2. PICK k \in Prefixed(w) : w.atts[k] = b
      BY OthersGiven
  <2> DEFINE p == PrefixOf(a.name)
             q == PrefixOf(b.name)
  <2>3. InScope(tags, p) = Here(w, p) /\ InScope(tags, q) = Here(w, q)
    <3>1. InScope(tags, PrefixOf(w.atts[m].name)) = Here(w, PrefixOf(w.atts[m].name))
        BY OtherGiven
    <3>2. InScope(tags, PrefixOf(w.atts[k].name)) = Here(w, PrefixOf(w.atts[k].name))
        BY OtherGiven
    <3> QED BY <2>1, <2>2, <3>1, <3>2
  <2>4. w.bound[p] # 0 /\ w.bound[q] # 0
      BY <1>3, <2>1, <2>2
  <2>5. /\ UriName(Full(w, m).name) = <<w.bindings[w.bound[p]].uri, a.name.local>>
        /\ UriName(Full(w, k).name) = <<w.bindings[w.bound[q]].uri, b.name.local>>
      BY <1>1, <1>3, <2>1, <2>2, NameHashed
  <2>6. a.name.local = b.name.local /\ InScope(tags, p) = InScope(tags, q)
      BY <1>6 DEF Same
  <2> HIDE DEF p, q
  <2>7. w.bindings[w.bound[p]].uri = w.bindings[w.bound[q]].uri
      BY <2>3, <2>4, <2>6 DEF Here
  <2>8. m = k
      BY <1>4, <2>5, <2>6, <2>7
  <2> QED BY <1>6, <2>1, <2>2, <2>8
<1> QED BY <1>5, <1>6 DEF Clash

\* The prefix of an element stands for a namespace when it is bound.
LEMMA ElementBound ==
    ASSUME AttributesAssumption, AInv, NEW t \in Tags, NEW w, Ready(t, w),
           NEW tags, tags = Append(Open, t), ElementPrefix(t.name) # None
    PROVE  ElementBinding(t.name, w) = 0 <=> InScope(tags, ElementPrefix(t.name)) = None
<1> DEFINE p == ElementPrefix(t.name)
<1>1. t.name \in ElementNames
    BY AttsOf
<1>2. NS /\ p = t.name.prefix /\ p # ""
    BY DEF ElementPrefix
<1>3. p \in PrefixNames
    BY <1>1, <1>2 DEF AttributesAssumption
<1>4. ElementBinding(t.name, w) = w.bound[p]
    BY <1>2 DEF ElementBinding
<1> HIDE DEF p
<1>5. InScope(tags, p) = Here(w, p) /\ Apt(w, p)
    BY <1>3, InScopeHere DEF Ready
<1> QED BY <1>4, <1>5 DEF Here, Apt, p

\* A tag whose work went through is written without a duplicate, and declares
\* no namespace that it may not.
LEMMA NoneBad ==
    ASSUME AttributesAssumption, TypeInv, DeclaredInv, NEW t \in Tags, NEW s, NEW w,
           GivenInv(t, Len(t.atts), s), AddedInv(t, Len(defaultAtts[t.name]), s, w), w.error = "NONE"
    PROVE  ~Twice(t) /\ ~BadOne(t)
<1> DEFINE n == Len(t.atts)
           d == Len(defaultAtts[t.name])
<1>1. s.error = "NONE"
    BY DEF AddedInv
<1>2. DOMAIN t.atts = 1 .. n /\ n \in Nat
    BY AttsOf
<1>3. ~Twice(t)
  <2>1. \A j, k \in 1 .. n : t.atts[j].name = t.atts[k].name => j = k
      BY <1>1 DEF GivenInv
  <2>2. \A j, k \in 1 .. n : j < k => j # k
      OBVIOUS
  <2> QED BY <1>2, <2>1, <2>2 DEF Twice
<1>4. ASSUME NEW a \in Whole(t), BadNamespace(a) PROVE FALSE
  <2>1. IsXmlns(a.name) /\ Reserved(PrefixOf(a.name), a.value) # "NONE"
    <3>1. IsXmlns(a.name)
        BY <1>4, Zenon DEF BadNamespace
    <3> QED BY <1>4, <3>1, ReservedIs
  <2>2. CASE \E j \in 1 .. n : a = Said(t, j)
    <3>1. PICK j \in 1 .. n : a = Said(t, j)
        BY <2>2
    <3>2. a.name = t.atts[j].name
        BY <1>2, <3>1, SaidIsAttribute
    <3>3. Reserved(PrefixOf(t.atts[j].name), Said(t, j).value) = "NONE"
        BY <1>1, <2>1, <3>2 DEF GivenInv
    <3> QED BY <2>1, <3>1, <3>2, <3>3
  <2>3. CASE \E j \in 1 .. d : Supplies(t, j) /\ a = Filling(t, j)
    <3>1. PICK j \in 1 .. d : Supplies(t, j) /\ a = Filling(t, j)
        BY <2>3
    <3>2. /\ a.name = defaultAtts[t.name][j].id /\ a.value = defaultAtts[t.name][j].value
          /\ Addition(t, j)[1] = defaultAtts[t.name][j].id
          /\ Addition(t, j)[2] = defaultAtts[t.name][j].value
        BY <3>1 DEF Filling, Addition
    <3>3. Adds(t, j)
        BY <2>1, <3>1, <3>2 DEF Adds, Supplies
    <3>4. Reserved(PrefixOf(Addition(t, j)[1]), Addition(t, j)[2]) = "NONE"
        BY <3>3 DEF AddedInv
    <3> QED BY <2>1, <3>2, <3>4
  <2> QED BY <1>4, <2>2, <2>3, WholeIs
<1> QED BY <1>3, <1>4 DEF BadOne

\* Then its names can be expanded.
LEMMA ReadyIs ==
    ASSUME AttributesAssumption, TypeInv, DeclaredInv, FlagInv, OwnerInv,
           NEW t \in Tags, NEW s, NEW w,
           GivenInv(t, Len(t.atts), s), AddedInv(t, Len(defaultAtts[t.name]), s, w),
           DefaultInv(t, Len(defaultAtts[t.name]), w), w.error = "NONE"
    PROVE  Ready(t, w)
<1>1. WorkInv(w)
    BY DEF DefaultInv
<1>2. Taken(w) = Declarations(t)
    BY TakenIsWhole, SMTT(30) DEF DefaultInv
<1>3. GivesAll(w, t)
    BY GivenIsTold
<1>4. \A m, k \in DOMAIN w.atts : w.atts[m].name = w.atts[k].name => m = k
    BY DEF AddedInv
<1> QED BY <1>1, <1>2, <1>3, <1>4 DEF Ready

\* A start tag is refused when something is wrong with it, and only then.
LEMMA StartTagJudged ==
    ASSUME AttributesAssumption, TableAssumption, AInv, TableInv,
           NEW t \in Tags, NEW empty \in BOOLEAN,
           StartTag(t, empty), NEW ev, ev = event', NEW tags, tags = Append(Open, t)
    PROVE  \/ /\ ev.type = "error" /\ ev.tag = t /\ code' \in Wrong(t, tags)
              /\ table' = table /\ tagStack' = tagStack
           \/ /\ ev.type = (IF empty THEN "empty" ELSE "start") /\ ev.tag = t
              /\ code' = "NONE" /\ Wrong(t, tags) = {} /\ Tidy(table')
<1>0. TypeInv /\ FlagInv /\ DeclaredInv /\ OwnerInv
    BY DEF AInv
<1> DEFINE s == Scanned(t)
           w == Completed(t, s)
           x == ExpandAll(w)
           b == ElementBinding(t.name, w)
           unbound == ElementPrefix(t.name) # None /\ b = 0
           error == IF w.error # "NONE" THEN w.error
                    ELSE IF x.error # "NONE" THEN x.error
                    ELSE IF unbound THEN "UNBOUND_PREFIX" ELSE "NONE"
           cells == IF b = 0 THEN w.bindings ELSE WriteName(w.bindings, b, t.name)
           name  == IF b = 0 THEN Plain(t.name) ELSE cells[b].last
           told == [type |-> IF empty THEN "empty" ELSE "start", tag |-> t,
                    name |-> name, atts |-> x.atts, scopes |-> w.scopes,
                    nSpecified |-> Len(s.atts), idAttIndex |-> IdAttIndex(t.name, s)]
<1>1. /\ ScanInv(t, Len(t.atts), s) /\ GivenInv(t, Len(t.atts), s)
      /\ AddedInv(t, Len(defaultAtts[t.name]), s, w)
      /\ DefaultInv(t, Len(defaultAtts[t.name]), w)
      /\ Spoilt(t, w.error)
    BY <1>0, ScanDone, GivenDone, AddedDone, DefaultDone, SpoiltDone
<1>2. CASE error # "NONE"
  <2>1. /\ event' = [type |-> "error", tag |-> t] /\ code' = error
        /\ table' = table /\ tagStack' = tagStack
      BY <1>2, Zenon DEF StartTag
  <2> HIDE DEF s
  <2>2. CASE w.error # "NONE"
    <3>1. error = w.error
        BY <2>2
    <3> HIDE DEF error, w
    <3>2. error \in Wrong(t, tags)
        BY <1>1, <1>2, <3>1, WrongIs DEF Spoilt, NamespaceErrors
    <3> QED BY <2>1, <3>2
  <2>3. CASE w.error = "NONE"
    <3>1. Ready(t, w)
        BY <1>0, <1>1, <2>3, ReadyIs
    <3> HIDE DEF w
    <3>2. CASE x.error # "NONE"
      <4>1. Erred(w, x)
          BY <1>0, <3>1, BoundIs, EnteredDone DEF Ready, WorkInv
      <4>2. error = x.error
        <5> HIDE DEF x
        <5> QED BY <2>3, <3>2
      <4> HIDE DEF error, x
      <4>3. error \in Wrong(t, tags)
          BY <3>1, <3>2, <4>1, <4>2, RefusedIsWrong
      <4> QED BY <2>1, <4>3
    <3>3. CASE x.error = "NONE"
      <4>1. error = "UNBOUND_PREFIX" /\ unbound
        <5> HIDE DEF x, unbound
        <5> QED BY <1>2, <2>3, <3>3
      <4> HIDE DEF error, x
      <4>2. Nameless(t, tags)
          BY <3>1, <4>1, ElementBound DEF Nameless
      <4>3. error \in Wrong(t, tags)
          BY <4>1, <4>2, WrongIs
      <4> QED BY <2>1, <4>3
    <3> QED BY <3>2, <3>3
  <2> QED BY <2>2, <2>3
<1>3. CASE error = "NONE"
  <2>1. w.error = "NONE" /\ x.error = "NONE" /\ ~unbound
    <3> HIDE DEF w, x, unbound
    <3> QED BY <1>3
  <2>2. event' = told /\ code' = code /\ code = "NONE" /\ table' = x.table
      BY <1>3, Zenon DEF StartTag
  <2>3. ev.type = (IF empty THEN "empty" ELSE "start") /\ ev.tag = t
    <3> HIDE DEF s, x, w, name
    <3> QED BY <2>2
  <2> HIDE DEF told, error, s
  <2>4. Ready(t, w)
      BY <1>0, <1>1, <2>1, ReadyIs
  <2>5. ~Twice(t) /\ ~BadOne(t)
      BY <1>0, <1>1, <2>1, NoneBad
  <2> HIDE DEF w
  <2>6. BoundThere(w) /\ w \in Works
      BY <2>4, BoundIs DEF Ready, WorkInv
  <2>7. FullInv(w, Len(w.atts), x)
      BY <2>6, FullDone
  <2>8. EnteredInv(w, Len(w.atts), x)
      BY <1>0, <2>6, EnteredDone
  <2> HIDE DEF x
  <2>9. ~Clash(t, tags) /\ \A a \in Others(t) : InScope(tags, PrefixOf(a.name)) # None
      BY <2>1, <2>4, <2>7, <2>8, NoneRefused
  <2>10. ~Nameless(t, tags)
      BY <2>1, <2>4, <2>9, ElementBound DEF Nameless
  <2>11. Wrong(t, tags) = {}
      BY <2>5, <2>9, <2>10, NothingWrong
  <2>12. Tidy(x.table)
      BY <2>1, <2>8 DEF EnteredInv
  <2> QED BY <2>2, <2>3, <2>11, <2>12
<1> QED BY <1>2, <1>3

-----------------------------------------------------------------------------
(* Every step *)

\* Around a tag that was told are the tags that were open before, and itself.
LEMMA AroundIs ==
    ASSUME AttributesAssumption, AInv, NEW t \in Tags, NEW empty \in BOOLEAN,
           StartTag(t, empty), setup' = setup, code' = "NONE",
           event'.type = (IF empty THEN "empty" ELSE "start"), event'.tag = t
    PROVE  Around' = Append(Open, t)
<1>0. TypeInv
    BY DEF AInv
<1>1. PICK w, b, name, tags :
        /\ Begun(t, w, b, name, tags)
        /\ IF empty THEN PopsAtOnce(w, tags) ELSE Pushes(t, w, b, name, tags)
    BY StartTagDoes DEF Stopped
<1>2. PICK n \in Nat : n = Len(tagStack) /\ DOMAIN tagStack = 1 .. n
    BY <1>0, TagsOf
<1>3. /\ tags \in Seq(OpenTags) /\ Len(tags) = n
      /\ \A k \in 1 .. n : tags[k].tag = tagStack[k].tag
    BY <1>1, <1>2 DEF Begun
<1>4. DOMAIN tags = 1 .. n
    BY <1>3
<1>5. [k \in DOMAIN tags |-> tags[k].tag] = Open
    BY <1>2, <1>3, <1>4 DEF Open
<1>6. CASE empty
  <2>1. tagStack' = tags
      BY <1>1, <1>6 DEF PopsAtOnce
  <2>2. Open' = [k \in DOMAIN tags |-> tags[k].tag]
      BY <2>1 DEF Open
  <2>3. Around' = Append(Open', t)
      BY <1>6 DEF Around
  <2> QED BY <1>5, <2>2, <2>3
<1>7. CASE ~empty
  <2>1. PICK r : /\ r = [tag |-> t, own |-> w.own, started |-> name,
                         str |-> IF b = 0 THEN OwnBuffer ELSE <<b, bindings'[b].block>>]
                 /\ tagStack' = Append(tags, r)
      BY <1>1, <1>7 DEF Pushes
  <2>2. r.tag = t
      BY <2>1
  <2>3. /\ DOMAIN tagStack' = 1 .. n + 1 /\ tagStack'[n + 1] = r
        /\ \A k \in 1 .. n : tagStack'[k] = tags[k]
      BY <1>3, <1>4, <2>1
  <2>4. Open' = [k \in 1 .. n + 1 |-> IF k = n + 1 THEN t ELSE tagStack[k].tag]
      BY <1>3, <2>2, <2>3 DEF Open
  <2>5. Append(Open, t) = [k \in 1 .. n + 1 |-> IF k = n + 1 THEN t ELSE tagStack[k].tag]
    <3>1. \A k \in 1 .. n : tagStack[k].tag \in Tags
        BY <1>0, <1>2, TagsOf
    <3>2. Open \in [1 .. n -> Tags] /\ \A k \in 1 .. n : Open[k] = tagStack[k].tag
        BY <1>2, <3>1 DEF Open
    <3>3. Open \in Seq(Tags) /\ Len(Open) = n
        BY <3>2, SeqDef
    <3>4. /\ Append(Open, t) \in Seq(Tags) /\ Len(Append(Open, t)) = n + 1
          /\ \A k \in 1 .. n + 1 :
                Append(Open, t)[k] = IF k = n + 1 THEN t ELSE Open[k]
        BY <3>3
    <3>5. Append(Open, t) \in [1 .. n + 1 -> Tags]
      <4> DEFINE A == Append(Open, t)
      <4> HIDE DEF A
      <4>1. A \in Seq(Tags) /\ Len(A) = n + 1
          BY <3>4 DEF A
      <4>2. A \in [1 .. n + 1 -> Tags]
          BY <4>1, LenProperties
      <4> QED BY <4>2 DEF A
    <3>6. \A k \in 1 .. n + 1 : Append(Open, t)[k] = IF k = n + 1 THEN t ELSE tagStack[k].tag
        BY <3>2, <3>4
    <3> DEFINE A == Append(Open, t)
    <3> HIDE DEF A
    <3> QED BY <3>5, <3>6 DEF A
  <2>6. Around' = Open'
      BY <1>7 DEF Around
  <2> QED BY <2>4, <2>5, <2>6
<1> QED BY <1>6, <1>7

\* What is told of the event after a step.
LEMMA DeclaredNext ==
    ASSUME NEW ev, NEW tags, ev = event', tags = Around',
           ev.type \in {"start", "empty"} => AsDeclared(ev, tags)'
    PROVE  DeclaredOf'
<1> QED BY DEF DeclaredOf

ToldInv == IdInv /\ QuietInv /\ AttributesAsDeclared

\* And so is what is recorded of it.
LEMMA IdsStay ==
    ASSUME setup' = setup, declared' = declared, idAtt' = idAtt, IdInv
    PROVE  IdInv'
<1>1. \A a : IsXmlns(a)' = IsXmlns(a)
    BY SaidForAll
<1>2. \A e : Ids(e)' = Ids(e)
    BY <1>1 DEF Ids, Ours
<1>3. \A e : IdOf(e)' = IdOf(e)
    BY <1>2, IdOfStays
<1> QED BY <1>3 DEF IdInv, NoName, None

\* A start tag is told as declared, and leaves the declarations alone.
LEMMA StartTagToldAs ==
    ASSUME AttributesAssumption, AInv, IdInv, NEW t \in Tags, NEW empty \in BOOLEAN,
           StartTag(t, empty), setup' = setup
    PROVE  IdInv' /\ QuietInv' /\ DeclaredOf'
<1>0. /\ opened' = opened + 1 /\ declared' = declared
      /\ idAtt' = idAtt
    BY Zenon DEF StartTag
<1>1. opened \in Nat
    BY DEF AInv, TypeInv
<1>2. QuietInv'
    BY <1>0, <1>1 DEF QuietInv
<1>3. IdInv'
    BY <1>0, IdsStay
<1>4. PICK ev, tags, after : ev = event' /\ tags = Append(Open, t) /\ after = Around'
    OBVIOUS
<1>5. \/ ev.type = "error"
      \/ /\ ev.type = (IF empty THEN "empty" ELSE "start") /\ ev.tag = t
         /\ AsDeclared(ev, tags) /\ code' = "NONE"
    BY <1>4, StartTagTells
<1>6. CASE ev.type = "error"
  <2>1. ~(ev.type \in {"start", "empty"})
      BY <1>6
  <2> QED BY <1>2, <1>3, <1>4, <2>1, DeclaredNext
<1>7. CASE /\ ev.type = (IF empty THEN "empty" ELSE "start") /\ ev.tag = t
           /\ AsDeclared(ev, tags) /\ code' = "NONE"
  <2>1. after = tags
      BY <1>4, <1>7, AroundIs
  <2>2. AsDeclared(ev, tags)'
      BY <1>0, <1>7, DeclaredForAll
  <2>3. DeclaredOf'
      BY <1>4, <2>1, <2>2, DeclaredNext
  <2> QED BY <1>2, <1>3, <2>3
<1> QED BY <1>5, <1>6, <1>7

\* So does every other step.
LEMMA OthersTellNothing ==
    ASSUME AttributesAssumption, AInv, ToldInv, setup' = setup,
           \/ \E d \in Written : Declare(d)
           \/ EndTag
           \/ UNCHANGED <<setup, avars>>
    PROVE  IdInv' /\ QuietInv' /\ DeclaredOf'
<1>0. TypeInv /\ DeclaredInv /\ IdInv /\ QuietInv /\ AttributesAsDeclared
    BY DEF AInv, ToldInv
<1>1. PICK ev, tags : ev = event' /\ tags = Around'
    OBVIOUS
<1>2. ASSUME NEW d \in Written, Declare(d) PROVE IdInv' /\ QuietInv' /\ DeclaredOf'
  <2>1. opened = 0 /\ opened' = opened /\ event' = event
      BY <1>2 DEF Declare
  <2>2. event' = Silence
      BY <1>0, <2>1 DEF QuietInv
  <2>3. IdInv'
      BY <1>0, <1>2, DeclareNames
  <2>4. QuietInv'
      BY <2>2 DEF QuietInv, Silence
  <2>5. ~(ev.type \in {"start", "empty"})
      BY <1>1, <2>2 DEF Silence
  <2> QED BY <1>1, <2>3, <2>4, <2>5, DeclaredNext
<1>3. CASE EndTag
  <2>1. /\ tagStack # <<>> /\ opened' = opened /\ declared' = declared /\ idAtt' = idAtt
        /\ event'.type = "end"
      BY <1>3, Zenon DEF EndTag
  <2>2. IdInv'
      BY <1>0, <2>1, IdsStay
  <2>3. QuietInv'
      BY <1>0, <2>1 DEF DeclaredInv, QuietInv
  <2>4. ~(ev.type \in {"start", "empty"})
      BY <1>1, <2>1
  <2> QED BY <1>1, <2>2, <2>3, <2>4, DeclaredNext
<1>4. CASE UNCHANGED <<setup, avars>>
  <2>1. /\ opened' = opened /\ declared' = declared /\ idAtt' = idAtt
        /\ event' = event /\ tagStack' = tagStack
      BY <1>4 DEF avars
  <2>2. IdInv'
      BY <1>0, <2>1, IdsStay
  <2>3. QuietInv'
      BY <1>0, <2>1 DEF QuietInv
  <2>4. Around' = Around
      BY <2>1 DEF Around, Open
  <2>5. DeclaredOf
      BY <1>0, DeclaredIs
  <2>6. ev = event /\ tags = Around
      BY <1>1, <2>1, <2>4
  <2>7. ev.type \in {"start", "empty"} => AsDeclared(ev, tags)
      BY <2>5, <2>6 DEF DeclaredOf
  <2>8. ev.type \in {"start", "empty"} => AsDeclared(ev, tags)'
      BY <2>1, <2>7, DeclaredForAll
  <2> QED BY <1>1, <2>2, <2>3, <2>8, DeclaredNext
<1> QED BY <1>2, <1>3, <1>4

\* RefusedRightly, of an event, an error, the open tags and those around it.
Judged(ev, c, open, tags) ==
    /\ ev.type = "error" => c \in Wrong(ev.tag, Append(open, ev.tag))
    /\ ev.type \in {"start", "empty"} => Wrong(ev.tag, tags) = {}

\* Said of those there are.
JudgedOf ==
    \A ev, c, open, tags : ev = event /\ c = code /\ open = Open /\ tags = Around =>
        Judged(ev, c, open, tags)

\* The property is that.
LEMMA JudgedIs == RefusedRightly <=> JudgedOf
<1>1. RefusedRightly <=> Judged(event, code, Open, Around)
    BY Zenon DEF RefusedRightly, Judged
<1> QED BY <1>1 DEF JudgedOf

\* The declarations say of an event what they said.
LEMMA JudgedForAll ==
    ASSUME setup' = setup, declared' = declared, NEW ev, NEW c, NEW open, NEW tags,
           Judged(ev, c, open, tags)
    PROVE  Judged(ev, c, open, tags)'
<1>1. \A t, ts : Wrong(t, ts)' = Wrong(t, ts)
    BY WrongStays
<1> QED BY <1>1 DEF Judged

\* What is told of the event after a step.
LEMMA JudgedNext ==
    ASSUME NEW ev, NEW c, NEW open, NEW tags,
           ev = event', c = code', open = Open', tags = Around',
           Judged(ev, c, open, tags)'
    PROVE  JudgedOf'
<1> QED BY DEF JudgedOf

\* Nor is anything told of the other events.
LEMMA QuietlyJudged ==
    ASSUME ~(event'.type \in {"error", "start", "empty"})
    PROVE  JudgedOf'
<1>1. PICK ev, c, open, tags : ev = event' /\ c = code' /\ open = Open' /\ tags = Around'
    OBVIOUS
<1>2. Judged(ev, c, open, tags)'
    BY <1>1 DEF Judged
<1> QED BY <1>1, <1>2, JudgedNext

\* A start tag is refused rightly, and the table is left tidy.
LEMMA StartTagRefused ==
    ASSUME AttributesAssumption, TableAssumption, AInv, TableInv,
           NEW t \in Tags, NEW empty \in BOOLEAN, StartTag(t, empty), setup' = setup
    PROVE  TableInv' /\ QuietInv' /\ JudgedOf'
<1>0. opened' = opened + 1 /\ declared' = declared
    BY Zenon DEF StartTag
<1>1. opened \in Nat
    BY DEF AInv, TypeInv
<1>2. QuietInv'
    BY <1>0, <1>1 DEF QuietInv
<1>3. PICK ev, c, open, before, tags, after :
          /\ ev = event' /\ c = code' /\ open = Open' /\ before = Open
          /\ tags = Append(Open, t) /\ after = Around'
    OBVIOUS
<1>4. \/ /\ ev.type = "error" /\ ev.tag = t /\ c \in Wrong(t, tags)
         /\ table' = table /\ tagStack' = tagStack
      \/ /\ ev.type = (IF empty THEN "empty" ELSE "start") /\ ev.tag = t
         /\ code' = "NONE" /\ Wrong(t, tags) = {} /\ Tidy(table')
    BY <1>3, StartTagJudged
<1>5. CASE /\ ev.type = "error" /\ ev.tag = t /\ c \in Wrong(t, tags)
           /\ table' = table /\ tagStack' = tagStack
  <2>1. open = before
      BY <1>3, <1>5 DEF Open
  <2>2. Judged(ev, c, open, after)
      BY <1>3, <1>5, <2>1 DEF Judged
  <2>3. JudgedOf'
    <3>1. Judged(ev, c, open, after)'
        BY <1>0, <2>2, JudgedForAll
    <3> QED BY <1>3, <3>1, JudgedNext
  <2>4. TableInv'
      BY <1>5 DEF TableInv, Tidy
  <2> QED BY <1>2, <2>3, <2>4
<1>6. CASE /\ ev.type = (IF empty THEN "empty" ELSE "start") /\ ev.tag = t
           /\ code' = "NONE" /\ Wrong(t, tags) = {} /\ Tidy(table')
  <2>1. after = tags
      BY <1>3, <1>6, AroundIs
  <2>2. Judged(ev, c, open, after)
      BY <1>6, <2>1 DEF Judged
  <2>3. JudgedOf'
    <3>1. Judged(ev, c, open, after)'
        BY <1>0, <2>2, JudgedForAll
    <3> QED BY <1>3, <3>1, JudgedNext
  <2>4. TableInv'
      BY <1>6 DEF TableInv, Tidy
  <2> QED BY <1>2, <2>3, <2>4
<1> QED BY <1>4, <1>5, <1>6

\* The other steps refuse nothing, and do not use the table.
LEMMA OthersRefuseNothing ==
    ASSUME AInv, TableInv, QuietInv, JudgedOf, setup' = setup,
           \/ \E d \in Written : Declare(d)
           \/ EndTag
           \/ UNCHANGED <<setup, avars>>
    PROVE  TableInv' /\ QuietInv' /\ JudgedOf'
<1>0. table' = table
    BY Zenon DEF Declare, EndTag, avars
<1>1. TableInv'
    BY <1>0 DEF TableInv, Tidy
<1>2. ASSUME NEW d \in Written, Declare(d) PROVE QuietInv' /\ JudgedOf'
  <2>1. event' = Silence
      BY <1>2 DEF Declare, QuietInv
  <2>2. ~(event'.type \in {"error", "start", "empty"})
      BY <2>1 DEF Silence
  <2> QED BY <2>1, <2>2, QuietlyJudged DEF QuietInv, Silence
<1>3. CASE EndTag
  <2>1. tagStack # <<>> /\ opened' = opened /\ event'.type = "end"
      BY <1>3, Zenon DEF EndTag
  <2>2. QuietInv'
      BY <2>1 DEF AInv, DeclaredInv, QuietInv
  <2>3. ~(event'.type \in {"error", "start", "empty"})
      BY <2>1
  <2> QED BY <1>1, <2>2, <2>3, QuietlyJudged
<1>4. CASE UNCHANGED <<setup, avars>>
  <2>1. /\ opened' = opened /\ declared' = declared /\ event' = event
        /\ code' = code /\ tagStack' = tagStack
      BY <1>4 DEF avars
  <2>2. QuietInv'
      BY <2>1 DEF QuietInv, Silence
  <2>3. PICK ev, c, open, tags : ev = event' /\ c = code' /\ open = Open' /\ tags = Around'
      OBVIOUS
  <2>4. ev = event /\ c = code /\ open = Open /\ tags = Around
      BY <2>1, <2>3 DEF Open, Around
  <2>5. Judged(ev, c, open, tags)
      BY <2>4 DEF JudgedOf
  <2>6. Judged(ev, c, open, tags)'
      BY <2>1, <2>5, JudgedForAll
  <2> QED BY <1>1, <2>2, <2>3, <2>6, JudgedNext
<1> QED BY <1>1, <1>2, <1>3, <1>4

-----------------------------------------------------------------------------
(* The theorems *)

\* The inductive invariant of the attributes: who has which binding, what each
\* prefix is bound to and hides, and where the names of open elements stand.
THEOREM AttributesInvariant == Spec => [](AInv /\ EndsAsItBegan)
<1>1. Init => AInv /\ EndsAsItBegan
  <2>1. Init => AInv
      BY AttributesAssumption, InitHolds
  <2>2. Init => EndsAsItBegan
      BY DEF Init, Silence, EndsAsItBegan
  <2> QED BY <2>1, <2>2
<1>2. AInv /\ EndsAsItBegan /\ [Next]_<<setup, avars>> => AInv' /\ EndsAsItBegan'
  <2> SUFFICES ASSUME AInv, EndsAsItBegan, [Next]_<<setup, avars>>
               PROVE  AInv' /\ EndsAsItBegan'
      OBVIOUS
  <2>1. ASSUME NEW d \in Written, Declare(d), setup' = setup
        PROVE  AInv' /\ EndsAsItBegan'
    <3>1. AInv'
        BY <2>1, AttributesAssumption, DeclareKeeps
    <3>2. event' = event
        BY <2>1 DEF Declare
    <3> QED BY <3>1, <3>2 DEF EndsAsItBegan
  <2>2. ASSUME NEW t \in Tags, NEW empty \in BOOLEAN, StartTag(t, empty), setup' = setup
        PROVE  AInv' /\ EndsAsItBegan'
      BY <2>2, AttributesAssumption, StartTagKeeps
  <2>3. ASSUME EndTag, setup' = setup
        PROVE  AInv' /\ EndsAsItBegan'
      BY <2>3, AttributesAssumption, EndTagKeeps
  <2>4. ASSUME UNCHANGED <<setup, avars>>
        PROVE  AInv' /\ EndsAsItBegan'
    <3>1. AInv'
        BY <2>4, StillKeeps DEF avars
    <3>2. event' = event
        BY <2>4 DEF avars
    <3> QED BY <3>1, <3>2 DEF EndsAsItBegan
  <2> QED BY <2>1, <2>2, <2>3, <2>4 DEF Next
<1> QED BY <1>1, <1>2, PTL DEF Spec

\* An element ends under the name it began with: endElementHandler is given the
\* name startElementHandler was, whatever was written over it in between.
THEOREM EndsAsItBeganHolds == Spec => []EndsAsItBegan
<1>1. AInv /\ EndsAsItBegan => EndsAsItBegan
    OBVIOUS
<1> QED BY <1>1, AttributesInvariant, PTL

\* Between two calls of storeAtts each prefix stands for what the innermost open
\* element that declares it says, and no attribute is marked as seen.
THEOREM NothingLeftBehindHolds == Spec => []NothingLeftBehind
<1>1. AInv /\ EndsAsItBegan => NothingLeftBehind
    BY NothingIsLeft
<1> QED BY <1>1, AttributesInvariant, PTL

\* A start tag is told as the declarations and the open tags have it: every
\* attribute that is written at its place, normalized by its type, and the default
\* of every other, under the names of the namespaces in scope, with nSpecifiedAtts
\* and idAttIndex where they should be (storeAtts, defineAttribute).
THEOREM AttributesAsDeclaredHolds == Spec => []AttributesAsDeclared
<1>1. Init => IdInv /\ QuietInv /\ DeclaredOf
  <2> SUFFICES ASSUME Init PROVE IdInv /\ QuietInv /\ DeclaredOf
      OBVIOUS
  <2>1. event = Silence /\ declared = <<>> /\ idAtt = [e \in ElementNames |-> NoName]
      BY DEF Init
  <2>2. QuietInv
      BY <2>1 DEF QuietInv
  <2>3. \A e : IdOf(e) = NoName
      BY <2>1 DEF IdOf, Ids
  <2>4. IdInv
      BY <2>1, <2>3 DEF IdInv
  <2>5. DeclaredOf
      BY <2>1 DEF DeclaredOf, Silence
  <2> QED BY <2>2, <2>4, <2>5
<1>2. AInv /\ ToldInv /\ [Next]_<<setup, avars>> => IdInv' /\ QuietInv' /\ DeclaredOf'
  <2> SUFFICES ASSUME AInv, ToldInv, [Next]_<<setup, avars>>
               PROVE  IdInv' /\ QuietInv' /\ DeclaredOf'
      OBVIOUS
  <2>1. ASSUME NEW t \in Tags, NEW empty \in BOOLEAN, StartTag(t, empty), setup' = setup
        PROVE  IdInv' /\ QuietInv' /\ DeclaredOf'
      BY <2>1, AttributesAssumption, StartTagToldAs DEF ToldInv
  <2>2. ASSUME \/ \E d \in Written : Declare(d)
               \/ EndTag
               \/ UNCHANGED <<setup, avars>>,
               setup' = setup
        PROVE  IdInv' /\ QuietInv' /\ DeclaredOf'
      BY <2>2, AttributesAssumption, OthersTellNothing
  <2> QED BY <2>1, <2>2 DEF Next
<1>3. ToldInv <=> IdInv /\ QuietInv /\ DeclaredOf
    BY DeclaredIs DEF ToldInv
<1>4. ToldInv => AttributesAsDeclared
    BY DEF ToldInv
<1> QED BY <1>1, <1>2, <1>3, <1>4, AttributesInvariant, PTL DEF Spec

\* A start tag is refused just when something is wrong with it, whatever the
\* hashes of names and however often the versions of the table wrapped: storeAtts
\* finds every duplicate among the expanded names and none that is not there, and
\* addBinding and storeAtts refuse the declarations and prefixes that they should.
THEOREM RefusedRightlyHolds == Spec => []RefusedRightly
<1>1. Init => TableInv /\ QuietInv /\ JudgedOf
  <2> SUFFICES ASSUME Init PROVE TableInv /\ QuietInv /\ JudgedOf
      OBVIOUS
  <2>1. event = Silence /\ table = [power |-> 0, version |-> 0, slots |-> <<>>]
      BY DEF Init
  <2>2. TableInv
      BY <2>1 DEF TableInv, Tidy
  <2>3. QuietInv /\ JudgedOf
      BY <2>1 DEF QuietInv, JudgedOf, Judged, Silence
  <2> QED BY <2>2, <2>3
<1>2. AInv /\ TableInv /\ QuietInv /\ JudgedOf /\ [Next]_<<setup, avars>>
         => TableInv' /\ QuietInv' /\ JudgedOf'
  <2> SUFFICES ASSUME AInv, TableInv, QuietInv, JudgedOf, [Next]_<<setup, avars>>
               PROVE  TableInv' /\ QuietInv' /\ JudgedOf'
      OBVIOUS
  <2>1. ASSUME NEW t \in Tags, NEW empty \in BOOLEAN, StartTag(t, empty), setup' = setup
        PROVE  TableInv' /\ QuietInv' /\ JudgedOf'
      BY <2>1, AttributesAssumption, TableAssumption, StartTagRefused
  <2>2. ASSUME \/ \E d \in Written : Declare(d)
               \/ EndTag
               \/ UNCHANGED <<setup, avars>>,
               setup' = setup
        PROVE  TableInv' /\ QuietInv' /\ JudgedOf'
      BY <2>2, OthersRefuseNothing
  <2> QED BY <2>1, <2>2 DEF Next
<1>3. JudgedOf => RefusedRightly
    BY JudgedIs
<1>4. AInv /\ EndsAsItBegan => AInv
    OBVIOUS
<1> QED BY <1>1, <1>2, <1>3, <1>4, AttributesInvariant, PTL DEF Spec

================================================================================
