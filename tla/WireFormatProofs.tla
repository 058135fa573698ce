-------------------------- MODULE WireFormatProofs --------------------------
(***************************************************************************)
(* Nothing is misread on the wire, whatever a coordinator holds and within *)
(* whatever limits.                                                        *)
(***************************************************************************)
EXTENDS WireFormat, TLAPS

\* Iteration and induction, as they are used for the algorithms on a graph.
Rounds == INSTANCE StepGraphProofs

----------------------------------------------------------------------------
\* Layouts that match

Fields(layout) == {layout[i] : i \in 1 .. Len(layout)}

IsField(f) ==
  f = [type |-> f.type, path |-> f.path, under |-> f.under, lo |-> f.lo, hi |-> f.hi]

Layout(layout) ==
  layout \in Seq(Fields(layout)) /\ \A f \in Fields(layout) : IsField(f)

Form(item) == <<item.type, item.path, item.under>>

\* What a field is an item of stands before it, and is itself an item of
\* nothing else.
Nested(layout) ==
  \A i \in 1 .. Len(layout) : \A p \in layout[i].under :
    \E j \in 1 .. i - 1 :
      /\ layout[j].type \in Repeats
      /\ layout[j].path = p
      /\ layout[j].under \subseteq layout[i].under

\* What is written and what is read differ only in the bounds.
Matches(out, in) ==
  /\ Layout(out) /\ Layout(in)
  /\ Len(in) = Len(out)
  /\ \A i \in 1 .. Len(out) : Form(in[i]) = Form(out[i])
  /\ Nested(out)

LEMMA LayoutIs ==
  ASSUME NEW S, NEW a \in Seq(S), \A f \in S : IsField(f)
  PROVE  Layout(a)
BY DEF Layout, Fields

LEMMA JoinedIs ==
  ASSUME NEW a, NEW b, Layout(a), Layout(b)
  PROVE  /\ Layout(a \o b)
         /\ Len(a) \in Nat /\ Len(b) \in Nat
         /\ Len(a \o b) = Len(a) + Len(b)
         /\ \A i \in 1 .. Len(a) : (a \o b)[i] = a[i]
         /\ \A i \in 1 .. Len(b) : (a \o b)[Len(a) + i] = b[i]
         /\ \A i \in 1 .. Len(a \o b) : i <= Len(a) \/ i - Len(a) \in 1 .. Len(b)
<1> DEFINE S == Fields(a) \cup Fields(b)
<1>1. a \in Seq(S) /\ b \in Seq(S)
  BY DEF Layout
<1>4. \A f \in S : IsField(f)
  BY DEF Layout
<1> HIDE DEF S
<1>2. a \o b \in Seq(S)
  BY <1>1
<1>3. Layout(a \o b)
  BY <1>2, <1>4, LayoutIs
<1> QED
  BY <1>1, <1>3

LEMMA JoinedNested ==
  ASSUME NEW a, NEW b, Layout(a), Layout(b), Nested(a), Nested(b)
  PROVE  Nested(a \o b)
<1> DEFINE c == a \o b
<1>1. /\ Layout(c) /\ Len(c) = Len(a) + Len(b)
      /\ \A i \in 1 .. Len(a) : c[i] = a[i]
      /\ \A i \in 1 .. Len(b) : c[Len(a) + i] = b[i]
      /\ Len(a) \in Nat /\ Len(b) \in Nat
  BY JoinedIs
<1> HIDE DEF c
<1> SUFFICES ASSUME NEW i \in 1 .. Len(c), NEW p \in c[i].under
             PROVE  \E j \in 1 .. i - 1 :
                      /\ c[j].type \in Repeats
                      /\ c[j].path = p
                      /\ c[j].under \subseteq c[i].under
  BY DEF Nested, c
<1>2. CASE i <= Len(a)
  <2>1. i \in 1 .. Len(a) /\ c[i] = a[i]
    BY <1>1, <1>2
  <2>2. PICK j \in 1 .. i - 1 : /\ a[j].type \in Repeats
                                /\ a[j].path = p
                                /\ a[j].under \subseteq a[i].under
    BY <2>1 DEF Nested
  <2>3. c[j] = a[j]
    BY <1>1, <1>2, <2>1
  <2> QED
    BY <2>1, <2>2, <2>3
<1>3. CASE i > Len(a)
  <2> DEFINE k == i - Len(a)
  <2>1. k \in 1 .. Len(b) /\ c[i] = b[k]
    BY <1>1, <1>3
  <2>2. PICK j \in 1 .. k - 1 : /\ b[j].type \in Repeats
                                /\ b[j].path = p
                                /\ b[j].under \subseteq b[k].under
    BY <2>1 DEF Nested
  <2>3. Len(a) + j \in 1 .. i - 1 /\ c[Len(a) + j] = b[j]
    BY <1>1, <2>1
  <2> QED
    BY <2>1, <2>2, <2>3
<1> QED
  BY <1>1, <1>2, <1>3

LEMMA JoinedMatch ==
  \A a, b, c, d : Matches(a, b) /\ Matches(c, d) => Matches(a \o c, b \o d)
<1> SUFFICES ASSUME NEW a, NEW b, NEW c, NEW d, Matches(a, b), Matches(c, d)
             PROVE  Matches(a \o c, b \o d)
  OBVIOUS
<1>1. /\ Layout(a) /\ Layout(b) /\ Layout(c) /\ Layout(d)
      /\ Len(a) = Len(b) /\ Len(c) = Len(d) /\ Nested(a) /\ Nested(c)
      /\ \A i \in 1 .. Len(a) : Form(b[i]) = Form(a[i])
      /\ \A i \in 1 .. Len(c) : Form(d[i]) = Form(c[i])
  BY DEF Matches
<1>2. Nested(a \o c)
  BY <1>1, JoinedNested
<1>3. ASSUME NEW i \in 1 .. Len(a \o c)
      PROVE  Form((b \o d)[i]) = Form((a \o c)[i])
  <2>1. CASE i <= Len(a)
    BY <1>1, <2>1, JoinedIs
  <2>2. CASE ~(i <= Len(a))
    <3>1. i - Len(a) \in 1 .. Len(c) /\ i = Len(a) + (i - Len(a))
      BY <1>1, <2>2, JoinedIs
    <3>2. /\ (a \o c)[i] = c[i - Len(a)]
          /\ (b \o d)[i] = d[i - Len(a)]
      BY <1>1, <3>1, JoinedIs
    <3> QED
      BY <1>1, <3>1, <3>2
  <2> QED
    BY <2>1, <2>2
<1>4. /\ Layout(a \o c) /\ Layout(b \o d)
      /\ Len(b \o d) = Len(a \o c)
  BY <1>1, JoinedIs
<1>5. \A i \in 1 .. Len(a \o c) : Form((b \o d)[i]) = Form((a \o c)[i])
  BY <1>3
<1> QED
  BY ONLY <1>2, <1>4, <1>5 DEF Matches

----------------------------------------------------------------------------
\* The fields

LEMMA ItemIs ==
  ASSUME NEW type, NEW name, NEW lo, NEW hi
  PROVE  /\ Layout(Item(type, name, lo, hi))
         /\ Len(Item(type, name, lo, hi)) = 1
         /\ Item(type, name, lo, hi)[1].type = type
         /\ Item(type, name, lo, hi)[1].path = <<name>>
         /\ Item(type, name, lo, hi)[1].under = {}
<1> DEFINE f == [type |-> type, path |-> <<name>>, under |-> {}, lo |-> lo, hi |-> hi]
<1>1. IsField(f) /\ f.type = type /\ f.path = <<name>> /\ f.under = {}
  BY DEF IsField
<1>2. Item(type, name, lo, hi) = <<f>>
  BY DEF Item
<1> HIDE DEF f
<1>3. <<f>> \in Seq({f}) /\ Len(<<f>>) = 1 /\ <<f>>[1] = f
  OBVIOUS
<1>4. Layout(<<f>>)
  BY <1>1, <1>3, LayoutIs
<1> QED
  BY <1>1, <1>2, <1>3, <1>4

LEMMA ItemsMatch ==
  \A type, name, lo, hi, low, high :
    Matches(Item(type, name, lo, hi), Item(type, name, low, high))
<1> SUFFICES ASSUME NEW type, NEW name, NEW lo, NEW hi, NEW low, NEW high
             PROVE  Matches(Item(type, name, lo, hi), Item(type, name, low, high))
  OBVIOUS
<1> DEFINE a == Item(type, name, lo, hi)
           b == Item(type, name, low, high)
<1>1. /\ Layout(a) /\ Len(a) = 1
      /\ a[1].type = type /\ a[1].path = <<name>> /\ a[1].under = {}
  BY ItemIs
<1>2. /\ Layout(b) /\ Len(b) = 1
      /\ b[1].type = type /\ b[1].path = <<name>> /\ b[1].under = {}
  BY ItemIs
<1> HIDE DEF a, b
<1>3. Form(a[1]) = Form(b[1]) /\ a[1].under = {}
  BY <1>1, <1>2 DEF Form
<1>4. \A i \in 1 .. Len(a) : i = 1
  BY <1>1
<1>5. Nested(a)
  BY <1>3, <1>4 DEF Nested
<1>6. \A i \in 1 .. Len(a) : Form(b[i]) = Form(a[i])
  BY <1>3, <1>4
<1>7. Matches(a, b)
  BY <1>1, <1>2, <1>5, <1>6 DEF Matches
<1> QED
  BY <1>7 DEF a, b

LEMMA FieldsMatch ==
  \A name :
    /\ Matches(Id(name), Id(name)) /\ Matches(Gen(name), Gen(name))
    /\ Matches(Word(name), Word(name)) /\ Matches(Flag(name), Flag(name))
    /\ Matches(Hash(name), Hash(name))
BY ItemsMatch DEF Id, Gen, Word, Flag, Hash

LEMMA NumbersMatch ==
  \A name, lo, hi, low, high :
    /\ Matches(Enum(name, lo, hi), Enum(name, low, high))
    /\ Matches(Text(name, lo, hi), Text(name, low, high))
    /\ Matches(Stamp(name, lo), Stamp(name, low))
BY ItemsMatch DEF Enum, Text, Stamp

----------------------------------------------------------------------------
\* Parts and lists

LEMMA FieldIs ==
  ASSUME NEW a, Layout(a), NEW i \in 1 .. Len(a)
  PROVE  IsField(a[i])
BY DEF Layout, Fields

Under(name, paths) == {Behind(name, p) : p \in paths}

LEMMA UnderIs ==
  \A name, S, T :
    /\ \A q \in Under(name, S) : \E p \in S : q = Behind(name, p)
    /\ S \subseteq T => Under(name, S) \subseteq Under(name, T)
BY DEF Under

LEMMA PartIs ==
  ASSUME NEW name, NEW a, Layout(a)
  PROVE  /\ Layout(Within(name, a)) /\ Len(Within(name, a)) = Len(a)
         /\ Layout(ItemsOf(name, a)) /\ Len(ItemsOf(name, a)) = Len(a)
         /\ \A i \in 1 .. Len(a) :
              /\ Within(name, a)[i].type = a[i].type
              /\ Within(name, a)[i].path = Behind(name, a[i].path)
              /\ Within(name, a)[i].under = Under(name, a[i].under)
              /\ ItemsOf(name, a)[i].type = a[i].type
              /\ ItemsOf(name, a)[i].path = Behind(name, a[i].path)
              /\ ItemsOf(name, a)[i].under
                   = Under(name, a[i].under) \cup {<<name>>}
<1> DEFINE part == Within(name, a)
           items == ItemsOf(name, a)
<1>1. DOMAIN a = 1 .. Len(a) /\ Len(a) \in Nat
  BY DEF Layout
<1>2. ASSUME NEW i \in 1 .. Len(a)
      PROVE  /\ IsField(part[i]) /\ part[i].type = a[i].type
             /\ part[i].path = Behind(name, a[i].path)
             /\ part[i].under = Under(name, a[i].under)
  <2>1. part[i] = [a[i] EXCEPT !.path = Behind(name, @),
                               !.under = Under(name, @)]
    BY <1>1 DEF Within, Under
  <2>2. IsField(a[i])
    BY FieldIs
  <2> QED
    BY <2>1, <2>2 DEF IsField
<1>3. ASSUME NEW i \in 1 .. Len(a)
      PROVE  /\ IsField(items[i]) /\ items[i].type = a[i].type
             /\ items[i].path = Behind(name, a[i].path)
             /\ items[i].under = Under(name, a[i].under) \cup {<<name>>}
  <2>1. items[i] = [part[i] EXCEPT !.under = @ \cup {<<name>>}]
    BY <1>1 DEF ItemsOf
  <2> HIDE DEF items, part
  <2>2. /\ IsField(part[i]) /\ part[i].type = a[i].type
        /\ part[i].path = Behind(name, a[i].path)
        /\ part[i].under = Under(name, a[i].under)
    BY <1>2
  <2> QED
    BY <2>1, <2>2 DEF IsField
<1>4. part \in Seq(Fields(part)) /\ Len(part) = Len(a)
  <2>1. part = [i \in 1 .. Len(a) |-> part[i]]
    BY <1>1 DEF Within
  <2> HIDE DEF part
  <2>2. part \in [1 .. Len(a) -> {part[i] : i \in 1 .. Len(a)}]
    BY <2>1
  <2> QED
    BY <1>1, <2>2 DEF Fields
<1>5. items \in Seq(Fields(items)) /\ Len(items) = Len(a)
  <2>1. items = [i \in 1 .. Len(a) |-> items[i]]
    BY <1>1 DEF ItemsOf
  <2> HIDE DEF items
  <2>2. items \in [1 .. Len(a) -> {items[i] : i \in 1 .. Len(a)}]
    BY <2>1
  <2> QED
    BY <1>1, <2>2 DEF Fields
<1> HIDE DEF part, items
<1>6. Layout(part) /\ Layout(items)
  BY <1>2, <1>3, <1>4, <1>5 DEF Layout, Fields
<1>7. /\ \A i \in 1 .. Len(a) :
           /\ part[i].type = a[i].type
           /\ part[i].path = Behind(name, a[i].path)
           /\ part[i].under = Under(name, a[i].under)
      /\ \A i \in 1 .. Len(a) :
           /\ items[i].type = a[i].type
           /\ items[i].path = Behind(name, a[i].path)
           /\ items[i].under = Under(name, a[i].under) \cup {<<name>>}
  BY <1>2, <1>3
<1> QED
  BY <1>4, <1>5, <1>6, <1>7 DEF part, items

LEMMA WithinMatches ==
  \A name, a, b : Matches(a, b) => Matches(Within(name, a), Within(name, b))
<1> SUFFICES ASSUME NEW name, NEW a, NEW b, Matches(a, b)
             PROVE  Matches(Within(name, a), Within(name, b))
  OBVIOUS
<1> DEFINE c == Within(name, a)
           d == Within(name, b)
<1>1. /\ Layout(a) /\ Layout(b) /\ Len(b) = Len(a) /\ Nested(a)
      /\ \A i \in 1 .. Len(a) : Form(b[i]) = Form(a[i])
  BY DEF Matches
<1>2. /\ Layout(c) /\ Layout(d) /\ Len(c) = Len(a) /\ Len(d) = Len(a)
      /\ \A i \in 1 .. Len(a) :
           /\ c[i].type = a[i].type /\ d[i].type = b[i].type
           /\ c[i].path = Behind(name, a[i].path) /\ d[i].path = Behind(name, b[i].path)
           /\ c[i].under = Under(name, a[i].under)
           /\ d[i].under = Under(name, b[i].under)
  BY <1>1, PartIs
<1> HIDE DEF c, d
<1>3. \A i \in 1 .. Len(c) : Form(d[i]) = Form(c[i])
  BY <1>1, <1>2 DEF Form
<1>4. ASSUME NEW i \in 1 .. Len(c), NEW q \in c[i].under
      PROVE  \E j \in 1 .. i - 1 : /\ c[j].type \in Repeats
                                   /\ c[j].path = q
                                   /\ c[j].under \subseteq c[i].under
  <2>1. PICK p \in a[i].under : q = Behind(name, p)
    BY <1>2, UnderIs
  <2>2. PICK j \in 1 .. i - 1 : /\ a[j].type \in Repeats
                                /\ a[j].path = p
                                /\ a[j].under \subseteq a[i].under
    BY <1>1, <1>2 DEF Nested
  <2>3. j \in 1 .. Len(a)
    BY <1>2
  <2>4. c[j].under \subseteq c[i].under
    BY <1>2, <2>2, <2>3, UnderIs
  <2> QED
    BY <1>2, <2>1, <2>2, <2>3, <2>4
<1>5. Nested(c)
  BY <1>4 DEF Nested
<1>6. Matches(c, d)
  BY <1>2, <1>3, <1>5 DEF Matches
<1> QED
  BY <1>6 DEF c, d

\* A list, or an optional part: a number and the items under it.
LEMMA RepeatsMatch ==
  ASSUME NEW type \in Repeats, NEW name, NEW a, NEW b, Matches(a, b),
         NEW lo, NEW hi, NEW low, NEW high
  PROVE  Matches(Item(type, name, lo, hi) \o ItemsOf(name, a),
                 Item(type, name, low, high) \o ItemsOf(name, b))
<1> DEFINE head == Item(type, name, lo, hi)
           tail == Item(type, name, low, high)
           c == ItemsOf(name, a)
           d == ItemsOf(name, b)
           all == head \o c
           same == tail \o d
<1>1. /\ Layout(a) /\ Layout(b) /\ Len(b) = Len(a) /\ Nested(a)
      /\ \A i \in 1 .. Len(a) : Form(b[i]) = Form(a[i])
  BY DEF Matches
<1>2. /\ Layout(c) /\ Layout(d) /\ Len(c) = Len(a) /\ Len(d) = Len(a)
      /\ \A i \in 1 .. Len(a) :
           /\ c[i].type = a[i].type /\ d[i].type = b[i].type
           /\ c[i].path = Behind(name, a[i].path) /\ d[i].path = Behind(name, b[i].path)
           /\ c[i].under = Under(name, a[i].under) \cup {<<name>>}
           /\ d[i].under = Under(name, b[i].under) \cup {<<name>>}
  BY <1>1, PartIs
<1>3. /\ Layout(head) /\ Layout(tail) /\ Len(head) = 1 /\ Len(tail) = 1
      /\ head[1].type = type /\ head[1].path = <<name>> /\ head[1].under = {}
      /\ Form(tail[1]) = Form(head[1])
  <2>1. /\ Layout(head) /\ Len(head) = 1
        /\ head[1].type = type /\ head[1].path = <<name>> /\ head[1].under = {}
    BY ItemIs
  <2>2. /\ Layout(tail) /\ Len(tail) = 1
        /\ tail[1].type = type /\ tail[1].path = <<name>> /\ tail[1].under = {}
    BY ItemIs
  <2> HIDE DEF head, tail
  <2> QED
    BY <2>1, <2>2 DEF Form
<1> HIDE DEF c, d, head, tail
<1>4. /\ Layout(all) /\ Len(a) \in Nat /\ Len(all) = Len(a) + 1
      /\ all[1] = head[1] /\ \A i \in 1 .. Len(a) : all[1 + i] = c[i]
      /\ \A i \in 1 .. Len(all) : i = 1 \/ i - 1 \in 1 .. Len(a)
  <2>1. /\ Layout(all) /\ Len(head) \in Nat /\ Len(c) \in Nat
        /\ Len(all) = Len(head) + Len(c)
        /\ \A i \in 1 .. Len(head) : all[i] = head[i]
        /\ \A i \in 1 .. Len(c) : all[Len(head) + i] = c[i]
    <3>1. Layout(head) /\ Layout(c)
      BY <1>2, <1>3
    <3> QED
      BY ONLY <3>1, JoinedIs
  <2> HIDE DEF all
  <2>2. /\ Len(a) \in Nat /\ Len(all) = Len(a) + 1
        /\ \A i \in 1 .. Len(a) : all[1 + i] = c[i]
        /\ \A i \in 1 .. Len(all) : i = 1 \/ i - 1 \in 1 .. Len(a)
    BY <1>2, <1>3, <2>1
  <2>3. all[1] = head[1]
    BY <1>3, <2>1
  <2> QED
    BY <2>1, <2>2, <2>3
<1>5. /\ Layout(same) /\ Len(same) = Len(a) + 1
      /\ same[1] = tail[1] /\ \A i \in 1 .. Len(a) : same[1 + i] = d[i]
  <2>1. /\ Layout(same) /\ Len(tail) \in Nat /\ Len(d) \in Nat
        /\ Len(same) = Len(tail) + Len(d)
        /\ \A i \in 1 .. Len(tail) : same[i] = tail[i]
        /\ \A i \in 1 .. Len(d) : same[Len(tail) + i] = d[i]
    <3>1. Layout(tail) /\ Layout(d)
      BY <1>2, <1>3
    <3> QED
      BY ONLY <3>1, JoinedIs
  <2> HIDE DEF same
  <2>2. Len(same) = Len(a) + 1 /\ \A i \in 1 .. Len(a) : same[1 + i] = d[i]
    BY <1>2, <1>3, <1>4, <2>1
  <2>3. same[1] = tail[1]
    BY <1>3, <2>1
  <2> QED
    BY <2>1, <2>2, <2>3
<1> HIDE DEF all, same
<1>6. \A i \in 1 .. Len(a) : Form(d[i]) = Form(c[i])
  BY <1>1, <1>2 DEF Form
<1>7. ASSUME NEW i \in 1 .. Len(all)
      PROVE  Form(same[i]) = Form(all[i])
  <2>1. CASE i = 1
    BY <1>3, <1>4, <1>5, <2>1
  <2>2. CASE i - 1 \in 1 .. Len(a)
    <3>1. all[i] = c[i - 1] /\ same[i] = d[i - 1]
      <4>1. i = 1 + (i - 1)
        OBVIOUS
      <4> QED
        BY <1>4, <1>5, <2>2, <4>1
    <3> QED
      BY <1>6, <2>2, <3>1
  <2> QED
    BY <1>4, <2>1, <2>2
<1>8. ASSUME NEW i \in 1 .. Len(all), NEW q \in all[i].under
      PROVE  \E j \in 1 .. i - 1 : /\ all[j].type \in Repeats
                                   /\ all[j].path = q
                                   /\ all[j].under \subseteq all[i].under
  <2> DEFINE k == i - 1
  <2>1. k \in 1 .. Len(a) /\ all[i] = c[k]
    <3>1. i # 1
      BY <1>3, <1>4
    <3>2. i = 1 + k /\ k \in 1 .. Len(a)
      BY <1>4, <3>1
    <3> QED
      BY <1>4, <3>2
  <2>2. CASE q = <<name>>
    <3>1. 1 \in 1 .. i - 1
      BY <2>1
    <3> QED
      BY <1>3, <1>4, <2>2, <3>1
  <2>3. CASE q # <<name>>
    <3>1. PICK p \in a[k].under : q = Behind(name, p)
      BY <1>2, <2>1, <2>3, UnderIs
    <3>2. PICK j \in 1 .. k - 1 : /\ a[j].type \in Repeats
                                  /\ a[j].path = p
                                  /\ a[j].under \subseteq a[k].under
      BY <1>1, <2>1 DEF Nested
    <3>3. j \in 1 .. Len(a) /\ 1 + j \in 1 .. i - 1 /\ all[1 + j] = c[j]
      BY <1>4, <2>1
    <3>4. c[j].under \subseteq c[k].under /\ c[j].path = q /\ c[j].type \in Repeats
      <4>1. Under(name, a[j].under) \subseteq Under(name, a[k].under)
        BY <3>2, UnderIs
      <4>2. c[j].under \subseteq c[k].under
        BY <1>2, <2>1, <3>3, <4>1
      <4> QED
        BY <1>2, <3>1, <3>2, <3>3, <4>2
    <3> QED
      BY <2>1, <3>3, <3>4
  <2> QED
    BY <2>2, <2>3
<1>9. Nested(all)
  BY <1>8 DEF Nested
<1>10. Matches(all, same)
  BY <1>4, <1>5, <1>7, <1>9 DEF Matches
<1> QED
  BY <1>10 DEF all, same, head, tail, c, d

LEMMA ListsMatch ==
  \A name, a, b, hi, high : Matches(a, b) => Matches(List(name, a, hi), List(name, b, high))
BY RepeatsMatch DEF List, Repeats

LEMMA OptionsMatch ==
  \A name, a, b : Matches(a, b) => Matches(Maybe(name, a), Maybe(name, b))
BY RepeatsMatch DEF Maybe, Repeats

----------------------------------------------------------------------------
\* Each body

LEMMA ConditionsMatches == Matches(ConditionsOut, ConditionsIn)
BY JoinedMatch, FieldsMatch, NumbersMatch, ListsMatch
   DEF ConditionsOut, ConditionsIn

LEMMA PolicyMatches == Matches(PolicyOut, PolicyIn)
BY JoinedMatch, FieldsMatch, NumbersMatch
   DEF PolicyOut, PolicyIn

LEMMA SummaryMatches == Matches(SummaryOut, SummaryIn)
BY JoinedMatch, FieldsMatch, NumbersMatch
   DEF SummaryOut, SummaryIn

LEMMA BindingMatches == Matches(BindingOut, BindingIn)
BY JoinedMatch, FieldsMatch, NumbersMatch
   DEF BindingOut, BindingIn

LEMMA LegalityMatches == Matches(LegalityOut, LegalityIn)
BY JoinedMatch, FieldsMatch, NumbersMatch
   DEF LegalityOut, LegalityIn

LEMMA KeyMatches == Matches(KeyOut, KeyIn)
BY JoinedMatch, FieldsMatch, NumbersMatch
   DEF KeyOut, KeyIn

LEMMA SpecMatches == Matches(SpecOut, SpecIn)
BY JoinedMatch, FieldsMatch, NumbersMatch, KeyMatches, ListsMatch
   DEF SpecOut, SpecIn

LEMMA ScopeMatches == Matches(ScopeOut, ScopeIn)
BY JoinedMatch, FieldsMatch, NumbersMatch
   DEF ScopeOut, ScopeIn

LEMMA RegistrationMatches == Matches(RegistrationOut, RegistrationIn)
BY JoinedMatch, FieldsMatch, NumbersMatch, WithinMatches, ScopeMatches
   DEF RegistrationOut, RegistrationIn

LEMMA PlanRequestMatches == Matches(PlanRequestOut, PlanRequestIn)
BY JoinedMatch, FieldsMatch, NumbersMatch, WithinMatches, ListsMatch, BindingMatches,
   PolicyMatches, SpecMatches
   DEF PlanRequestOut, PlanRequestIn

LEMMA ResultMatches == Matches(ResultOut, ResultIn)
BY JoinedMatch, FieldsMatch, NumbersMatch, ConditionsMatches
   DEF ResultOut, ResultIn

LEMMA StepSnapshotMatches == Matches(StepSnapshotOut, StepSnapshotIn)
BY JoinedMatch, FieldsMatch, NumbersMatch, WithinMatches, ListsMatch, KeyMatches
   DEF StepSnapshotOut, StepSnapshotIn

LEMMA SnapshotMatches == Matches(SnapshotOut, SnapshotIn)
BY JoinedMatch, FieldsMatch, NumbersMatch, WithinMatches, ListsMatch, PolicyMatches,
   BindingMatches, StepSnapshotMatches
   DEF SnapshotOut, SnapshotIn

LEMMA EntryMatches == Matches(EntryOut, EntryIn)
BY JoinedMatch, FieldsMatch, NumbersMatch
   DEF EntryOut, EntryIn

LEMMA DiffMatches == Matches(DiffOut, DiffIn)
BY JoinedMatch, FieldsMatch, NumbersMatch, ListsMatch, EntryMatches
   DEF DiffOut, DiffIn

LEMMA EvidenceMatches == Matches(EvidenceOut, EvidenceIn)
BY JoinedMatch, FieldsMatch, NumbersMatch
   DEF EvidenceOut, EvidenceIn

LEMMA DispatchMatches == Matches(DispatchOut, DispatchIn)
BY JoinedMatch, FieldsMatch, NumbersMatch, OptionsMatch, SpecMatches, ConditionsMatches
   DEF DispatchOut, DispatchIn

LEMMA ReadyStepMatches == Matches(ReadyStepOut, ReadyStepIn)
BY JoinedMatch, FieldsMatch, NumbersMatch, WithinMatches, KeyMatches, SpecMatches
   DEF ReadyStepOut, ReadyStepIn

LEMMA NoticeMatches == Matches(NoticeOut, NoticeIn)
BY JoinedMatch, FieldsMatch, NumbersMatch, ConditionsMatches
   DEF NoticeOut, NoticeIn

LEMMA HelloMatches == Matches(HelloOut, HelloIn)
BY JoinedMatch, FieldsMatch, NumbersMatch
   DEF HelloOut, HelloIn

LEMMA PlanListMatches == Matches(PlanListOut, PlanListIn)
BY JoinedMatch, FieldsMatch, NumbersMatch, ListsMatch, SummaryMatches
   DEF PlanListOut, PlanListIn

LEMMA ReadyListMatches == Matches(ReadyListOut, ReadyListIn)
BY JoinedMatch, FieldsMatch, NumbersMatch, ListsMatch, ReadyStepMatches
   DEF ReadyListOut, ReadyListIn

LEMMA PlanQueryMatches == Matches(PlanQueryOut, PlanQueryIn)
BY JoinedMatch, FieldsMatch, NumbersMatch, WithinMatches, SummaryMatches
   DEF PlanQueryOut, PlanQueryIn

LEMMA SnapshotBodyMatches == Matches(SnapshotBodyOut, SnapshotBodyIn)
BY JoinedMatch, FieldsMatch, NumbersMatch, WithinMatches, SnapshotMatches
   DEF SnapshotBodyOut, SnapshotBodyIn

LEMMA DiffRequestMatches == Matches(DiffRequestOut, DiffRequestIn)
BY JoinedMatch, FieldsMatch, NumbersMatch
   DEF DiffRequestOut, DiffRequestIn

LEMMA DiffBodyMatches == Matches(DiffBodyOut, DiffBodyIn)
BY JoinedMatch, FieldsMatch, NumbersMatch, WithinMatches, DiffMatches
   DEF DiffBodyOut, DiffBodyIn

LEMMA PolicyListMatches == Matches(PolicyListOut, PolicyListIn)
BY JoinedMatch, FieldsMatch, NumbersMatch, ListsMatch, PolicyMatches
   DEF PolicyListOut, PolicyListIn

LEMMA ExplainRequestMatches == Matches(ExplainRequestOut, ExplainRequestIn)
BY JoinedMatch, FieldsMatch, NumbersMatch
   DEF ExplainRequestOut, ExplainRequestIn

LEMMA ExplainResponseMatches == Matches(ExplainResponseOut, ExplainResponseIn)
BY JoinedMatch, FieldsMatch, NumbersMatch, ConditionsMatches
   DEF ExplainResponseOut, ExplainResponseIn

LEMMA FailMatches == Matches(FailOut, FailIn)
BY JoinedMatch, FieldsMatch, NumbersMatch
   DEF FailOut, FailIn

LEMMA ReconcileMatches == Matches(ReconcileOut, ReconcileIn)
BY JoinedMatch, FieldsMatch, NumbersMatch
   DEF ReconcileOut, ReconcileIn

LEMMA PauseMatches == Matches(PauseOut, PauseIn)
BY JoinedMatch, FieldsMatch, NumbersMatch
   DEF PauseOut, PauseIn

LEMMA DispatchStepMatches == Matches(DispatchStepOut, DispatchStepIn)
BY JoinedMatch, FieldsMatch, NumbersMatch
   DEF DispatchStepOut, DispatchStepIn

LEMMA RouteChangeMatches == Matches(RouteChangeOut, RouteChangeIn)
BY JoinedMatch, FieldsMatch, NumbersMatch, WithinMatches, BindingMatches
   DEF RouteChangeOut, RouteChangeIn

LEMMA PathChangeMatches == Matches(PathChangeOut, PathChangeIn)
BY JoinedMatch, FieldsMatch, NumbersMatch, WithinMatches, LegalityMatches
   DEF PathChangeOut, PathChangeIn

LEMMA EpochChangeMatches == Matches(EpochChangeOut, EpochChangeIn)
BY JoinedMatch, FieldsMatch, NumbersMatch
   DEF EpochChangeOut, EpochChangeIn

LEMMA ErrorMatches == Matches(ErrorOut, ErrorIn)
BY JoinedMatch, FieldsMatch, NumbersMatch
   DEF ErrorOut, ErrorIn
----------------------------------------------------------------------------
\* The encoder

\* What is written after the first fields.
LEMMA WritingIs ==
  ASSUME NEW layout, Layout(layout), NEW shape
  PROVE  LET W == Writing(layout, shape)
         IN /\ W[0] = <<>>
            /\ \A i \in 1 .. Len(layout) : W[i] = Write(shape, W[i - 1], layout[i])
            /\ \A i \in 0 .. Len(layout) :
                 W[i] \in Seq({Token(shape, layout[j]) : j \in 1 .. Len(layout)})
<1> DEFINE N == Len(layout)
           T == {Token(shape, layout[j]) : j \in 1 .. N}
           D == Seq(T)
           a == <<>>
           G == [z \in Nat \X D |->
                   IF z[1] \in 1 .. N THEN Write(shape, z[2], layout[z[1]]) ELSE a]
<1>1. N \in Nat
  BY DEF Layout
<1> HIDE DEF N
<1>2. a \in D
  OBVIOUS
<1>3. ASSUME NEW i \in 1 .. N, NEW s \in D
      PROVE  Write(shape, s, layout[i]) \in D
  <2>1. Token(shape, layout[i]) \in T
    OBVIOUS
  <2> HIDE DEF T
  <2> QED
    BY <2>1 DEF Write
<1> HIDE DEF D, a
<1>4. G \in [Nat \X D -> D]
  BY <1>2, <1>3
<1>5. \A i \in 1 .. N, s \in D : G[<<i, s>>] = Write(shape, s, layout[i])
  BY <1>1
<1> HIDE DEF G
<1>6. PICK f : Rounds!Iterates(f, N, D, a, G)
  BY <1>1, <1>2, <1>4, Rounds!Iteration
<1>7. f = [i \in 0 .. N |-> IF i = 0 THEN a ELSE Write(shape, f[i - 1], layout[i])]
  <2>1. /\ f \in [0 .. N -> D] /\ f[0] = a
        /\ \A i \in 1 .. N : f[i] = G[<<i, f[i - 1]>>]
    BY <1>6 DEF Rounds!Iterates
  <2>2. ASSUME NEW i \in 1 .. N
        PROVE  f[i] = Write(shape, f[i - 1], layout[i])
    <3>1. f[i - 1] \in D
      BY <1>1, <2>1
    <3> QED
      BY <1>5, <2>1, <3>1
  <2> QED
    BY <1>1, <2>1, <2>2
<1> DEFINE W == Writing(layout, shape)
<1>8. W = [i \in 0 .. N |-> IF i = 0 THEN a ELSE Write(shape, W[i - 1], layout[i])]
  BY <1>7 DEF Writing, N, a
<1> HIDE DEF W
<1>9. W[0] = a /\ \A i \in 1 .. N : W[i] = Write(shape, W[i - 1], layout[i])
  BY <1>1, <1>8
<1> DEFINE S == {i \in 0 .. N : W[i] \in D}
<1>10. 0 \in S
  BY <1>1, <1>2, <1>9
<1>11. \A i \in 1 .. N : i - 1 \in S => i \in S
  BY <1>1, <1>3, <1>9
<1> HIDE DEF S
<1>12. 0 .. N \subseteq S
  BY <1>1, <1>10, <1>11, Rounds!BoundedInduction
<1>13. \A i \in 0 .. N : W[i] \in D
  BY <1>12 DEF S
<1> QED
  BY <1>9, <1>13 DEF a, D, W, N

\* What was written stays, and others are written behind it.
LEMMA WrittenStays ==
  ASSUME NEW layout, Layout(layout), NEW shape, NEW i \in 0 .. Len(layout)
  PROVE  LET W == Writing(layout, shape)
             all == Encoded(layout, shape)
         IN /\ Len(all) \in Nat /\ Len(W[i]) \in 0 .. Len(all)
            /\ \A k \in 1 .. Len(W[i]) : all[k] = W[i][k]
<1> DEFINE N == Len(layout)
           W == Writing(layout, shape)
           T == {Token(shape, layout[j]) : j \in 1 .. N}
           D == Seq(T)
           Begins(s, t) == Len(s) <= Len(t) /\ \A k \in 1 .. Len(s) : t[k] = s[k]
           S == {j \in 0 .. N : \A h \in 0 .. j : Begins(W[h], W[j])}
<1>1. N \in Nat
  BY DEF Layout
<1>2. /\ W[0] = <<>>
      /\ \A j \in 1 .. N : W[j] = Write(shape, W[j - 1], layout[j])
      /\ \A j \in 0 .. N : W[j] \in D
  BY WritingIs
<1> HIDE DEF W, N
<1>3. \A j \in 0 .. N : Len(W[j]) \in Nat
  BY <1>2
<1>4. 0 \in S
  BY <1>1, <1>3
<1>5. ASSUME NEW j \in 1 .. N, j - 1 \in S
      PROVE  j \in S
  <2> SUFFICES ASSUME NEW h \in 0 .. j
               PROVE  Begins(W[h], W[j])
    BY <1>1
  <2>1. j - 1 \in 0 .. N /\ j \in 0 .. N /\ W[j - 1] \in D /\ W[j] \in D
    <3>1. j - 1 \in 0 .. N /\ j \in 0 .. N
      BY <1>1
    <3> HIDE DEF D
    <3> QED
      BY <1>2, <3>1
  <2>2. CASE h = j
    BY <1>3, <2>1, <2>2
  <2>3. CASE h # j
    <3>1. h \in 0 .. j - 1 /\ h \in 0 .. N
      BY <1>1, <2>3
    <3>2. Begins(W[h], W[j - 1])
      BY <1>5, <3>1
    <3>3. Begins(W[j - 1], W[j])
      <4>1. CASE Sent(shape, layout[j])
        <5> DEFINE t == Token(shape, layout[j])
        <5>1. t \in T
          BY DEF N
        <5>2. W[j] = Append(W[j - 1], t)
          BY <1>2, <4>1 DEF Write
        <5> HIDE DEF t, T
        <5> QED
          BY <2>1, <5>1, <5>2
      <4>2. CASE ~Sent(shape, layout[j])
        <5>1. W[j] = W[j - 1]
          BY <1>2, <4>2 DEF Write
        <5> QED
          BY <1>3, <2>1, <5>1
      <4> QED
        BY <4>1, <4>2
    <3>4. Len(W[h]) \in Nat /\ Len(W[j - 1]) \in Nat /\ Len(W[j]) \in Nat
      BY <1>3, <2>1, <3>1
    <3> HIDE DEF W
    <3>5. Len(W[h]) <= Len(W[j])
      <4>1. \A x, y, z \in Nat : x <= y /\ y <= z => x <= z
        OBVIOUS
      <4> QED
        BY <3>2, <3>3, <3>4, <4>1, Zenon
    <3>6. ASSUME NEW k \in 1 .. Len(W[h])
          PROVE  W[j][k] = W[h][k]
      <4>1. k \in 1 .. Len(W[j - 1])
        BY <3>2, <3>4
      <4> QED
        BY <3>2, <3>3, <4>1
    <3> QED
      BY <3>5, <3>6
  <2> QED
    BY <2>2, <2>3
<1> HIDE DEF S
<1>6. 0 .. N \subseteq S
  BY <1>1, <1>4, <1>5, Rounds!BoundedInduction
<1>7. N \in S /\ i \in 0 .. N /\ N \in 0 .. N
  BY <1>1, <1>6 DEF N
<1>8. Begins(W[i], W[N])
  BY <1>7 DEF S
<1>9. Encoded(layout, shape) = W[N]
  BY DEF Encoded, W, N
<1>10. Len(W[i]) \in Nat /\ Len(W[N]) \in Nat
  BY <1>3, <1>7
<1> QED
  BY <1>8, <1>9, <1>10 DEF W

----------------------------------------------------------------------------
\* The decoder

LEMMA DecodingIs ==
  ASSUME NEW layout, Layout(layout), NEW tokens
  PROVE  LET R == Decoding(layout, tokens)
         IN /\ R[0] = Start
            /\ \A i \in 1 .. Len(layout) : R[i] = Read(tokens, R[i - 1], layout[i])
<1> DEFINE N == Len(layout)
           P == {layout[j].path : j \in 1 .. N}
           Q == {tokens[k].of : k \in Nat}
           D == [ok : BOOLEAN, offset : Nat, filled : SUBSET P, got : SUBSET (P \X Q)]
           a == Start
           G == [z \in Nat \X D |->
                   IF z[1] \in 1 .. N THEN Read(tokens, z[2], layout[z[1]]) ELSE a]
<1>1. N \in Nat
  BY DEF Layout
<1> HIDE DEF N
<1>2. a \in D /\ Refused \in D
  BY DEF Start, Refused
<1>3. ASSUME NEW i \in 1 .. N, NEW s \in D
      PROVE  Read(tokens, s, layout[i]) \in D
  <2> DEFINE token == tokens[s.offset + 1]
             more == IF layout[i].type \in Repeats /\ token.number > 0
                     THEN s.filled \cup {layout[i].path} ELSE s.filled
             next == [ok |-> TRUE, offset |-> s.offset + 1, filled |-> more,
                      got |-> s.got \cup {<<layout[i].path, token.of>>}]
  <2>1. layout[i].path \in P /\ s.offset + 1 \in Nat /\ token.of \in Q
    OBVIOUS
  <2>2. more \in SUBSET P /\ s.got \cup {<<layout[i].path, token.of>>} \in SUBSET (P \X Q)
    <3> HIDE DEF token, P, Q
    <3> QED
      BY <2>1
  <2>3. next \in D
    <3> HIDE DEF P, Q, token, more
    <3> QED
      BY <2>1, <2>2
  <2>4. Read(tokens, s, layout[i]) \in {s, Refused, next}
    BY DEF Read
  <2> HIDE DEF next, D
  <2> QED
    BY <1>2, <2>3, <2>4
<1> HIDE DEF D, a
<1>4. G \in [Nat \X D -> D]
  BY <1>2, <1>3
<1>5. \A i \in 1 .. N, s \in D : G[<<i, s>>] = Read(tokens, s, layout[i])
  BY <1>1
<1> HIDE DEF G
<1>6. PICK f : Rounds!Iterates(f, N, D, a, G)
  BY <1>1, <1>2, <1>4, Rounds!Iteration
<1>7. f = [i \in 0 .. N |-> IF i = 0 THEN a ELSE Read(tokens, f[i - 1], layout[i])]
  <2>1. /\ f \in [0 .. N -> D] /\ f[0] = a
        /\ \A i \in 1 .. N : f[i] = G[<<i, f[i - 1]>>]
    BY <1>6 DEF Rounds!Iterates
  <2>2. ASSUME NEW i \in 1 .. N
        PROVE  f[i] = Read(tokens, f[i - 1], layout[i])
    <3>1. f[i - 1] \in D
      BY <1>1, <2>1
    <3> QED
      BY <1>5, <2>1, <3>1
  <2> QED
    BY <1>1, <2>1, <2>2
<1> DEFINE R == Decoding(layout, tokens)
<1>8. R = [i \in 0 .. N |-> IF i = 0 THEN a ELSE Read(tokens, R[i - 1], layout[i])]
  BY <1>7 DEF Decoding, N, a
<1> HIDE DEF R
<1>9. R[0] = a /\ \A i \in 1 .. N : R[i] = Read(tokens, R[i - 1], layout[i])
  BY <1>1, <1>8
<1> QED
  BY <1>9 DEF a, R, N

----------------------------------------------------------------------------
\* The decoder reads what the encoder wrote

\* Of the first n fields: those written, whether their numbers are accepted,
\* and the lists and optional parts that have items.
Kept(out, in, shape, n) ==
  \A i \in 1 .. n : Sent(shape, out[i]) =>
    NumberOf(shape, out[i]) \in in[i].lo .. in[i].hi

Holds(out, shape, n) ==
  {out[i].path : i \in {j \in 1 .. n : /\ out[j].type \in Repeats
                                       /\ Sent(shape, out[j])
                                       /\ Count(shape, out[j].path) > 0}}

Straight(tokens) == {<<path, path>> : path \in Paths(tokens)}

\* After n fields the decoder has refused the body, for a number, or it stands
\* where the encoder stood and has taken each field for itself.
Follows(out, in, shape, n) ==
  LET state == Decoding(in, Encoded(out, shape))[n]
      tokens == Writing(out, shape)[n]
  IN IF Kept(out, in, shape, n)
     THEN state = [ok |-> TRUE, offset |-> Len(tokens), filled |-> Holds(out, shape, n),
                   got |-> Straight(tokens)]
     ELSE ~state.ok

\* A field is read exactly if it was written.
LEMMA ReadIfSent ==
  ASSUME NEW out, NEW in, Matches(out, in), NEW shape, NEW i \in 1 .. Len(out)
  PROVE  in[i].under \subseteq Holds(out, shape, i - 1) <=> Sent(shape, out[i])
<1>1. Form(in[i]) = Form(out[i]) /\ Nested(out) /\ Len(out) \in Nat
  BY DEF Matches, Layout
<1>2. in[i].under = out[i].under
  BY <1>1 DEF Form
<1>3. ASSUME out[i].under \subseteq Holds(out, shape, i - 1)
      PROVE  Sent(shape, out[i])
  <2> SUFFICES ASSUME NEW p \in out[i].under
               PROVE  Count(shape, p) > 0
    BY DEF Sent
  <2>1. p \in Holds(out, shape, i - 1)
    BY <1>3
  <2> QED
    BY <2>1 DEF Holds
<1>4. ASSUME Sent(shape, out[i]), NEW p \in out[i].under
      PROVE  p \in Holds(out, shape, i - 1)
  <2>1. PICK j \in 1 .. i - 1 : /\ out[j].type \in Repeats
                                /\ out[j].path = p
                                /\ out[j].under \subseteq out[i].under
    BY <1>1 DEF Nested
  <2>2. Sent(shape, out[j])
    BY <1>4, <2>1 DEF Sent
  <2>3. Count(shape, out[j].path) > 0
    BY <1>4, <2>1 DEF Sent
  <2> QED
    BY <2>1, <2>2, <2>3 DEF Holds
<1> QED
  BY <1>2, <1>3, <1>4

\* One more field.
LEMMA KeptOneMore ==
  ASSUME NEW out, NEW in, NEW shape, NEW n \in Nat \ {0}
  PROVE  Kept(out, in, shape, n)
           <=> /\ Kept(out, in, shape, n - 1)
               /\ Sent(shape, out[n]) => NumberOf(shape, out[n]) \in in[n].lo .. in[n].hi
<1>1. /\ n \in 1 .. n /\ 1 .. n - 1 \subseteq 1 .. n
      /\ \A i \in 1 .. n : i = n \/ i \in 1 .. n - 1
  OBVIOUS
<1> DEFINE Good(i) == Sent(shape, out[i]) => NumberOf(shape, out[i]) \in in[i].lo .. in[i].hi
<1> HIDE DEF Good
<1>2. (\A i \in 1 .. n : Good(i)) <=> (\A i \in 1 .. n - 1 : Good(i)) /\ Good(n)
  BY <1>1
<1> QED
  BY <1>2 DEF Kept, Good

LEMMA HoldsOneMore ==
  ASSUME NEW out, NEW shape, NEW n \in Nat \ {0}
  PROVE  Holds(out, shape, n)
           = IF /\ out[n].type \in Repeats /\ Sent(shape, out[n])
                /\ Count(shape, out[n].path) > 0
             THEN Holds(out, shape, n - 1) \cup {out[n].path}
             ELSE Holds(out, shape, n - 1)
<1>1. /\ n \in 1 .. n /\ 1 .. n - 1 \subseteq 1 .. n
      /\ \A i \in 1 .. n : i = n \/ i \in 1 .. n - 1
  OBVIOUS
<1> DEFINE Has(i) == /\ out[i].type \in Repeats /\ Sent(shape, out[i])
                     /\ Count(shape, out[i].path) > 0
<1>2. \A m : Holds(out, shape, m) = {out[i].path : i \in {j \in 1 .. m : Has(j)}}
  BY DEF Holds
<1> HIDE DEF Has
<1>3. CASE Has(n)
  <2>1. Holds(out, shape, n) = Holds(out, shape, n - 1) \cup {out[n].path}
    BY <1>1, <1>2, <1>3
  <2> QED
    BY <1>3, <2>1 DEF Has
<1>4. CASE ~Has(n)
  <2>1. Holds(out, shape, n) = Holds(out, shape, n - 1)
    BY <1>1, <1>2, <1>4
  <2> QED
    BY <1>4, <2>1 DEF Has
<1> QED
  BY <1>3, <1>4

LEMMA StraightOneMore ==
  ASSUME NEW T, NEW tokens \in Seq(T), NEW token \in T
  PROVE  Straight(Append(tokens, token)) = Straight(tokens) \cup {<<token.of, token.of>>}
<1> DEFINE more == Append(tokens, token)
<1>1. /\ Len(tokens) \in Nat /\ DOMAIN tokens = 1 .. Len(tokens)
      /\ DOMAIN more = 1 .. Len(tokens) + 1
      /\ more[Len(tokens) + 1] = token
      /\ \A k \in 1 .. Len(tokens) : more[k] = tokens[k]
  OBVIOUS
<1> HIDE DEF more
<1>2. /\ DOMAIN more = DOMAIN tokens \cup {Len(tokens) + 1}
      /\ \A k \in DOMAIN tokens : more[k] = tokens[k]
  BY <1>1
<1>3. Paths(more) = Paths(tokens) \cup {token.of}
  BY <1>1, <1>2 DEF Paths
<1> QED
  BY <1>3 DEF Straight, more

LEMMA FollowsOneMore ==
  ASSUME NEW out, NEW in, Matches(out, in), NEW shape, NEW n \in 1 .. Len(out),
         Follows(out, in, shape, n - 1)
  PROVE  Follows(out, in, shape, n)
<1> DEFINE W == Writing(out, shape)
           all == Encoded(out, shape)
           R == Decoding(in, all)
           T == {Token(shape, out[j]) : j \in 1 .. Len(out)}
<1>1. /\ Layout(out) /\ Layout(in) /\ Len(in) = Len(out) /\ Len(out) \in Nat
      /\ in[n].type = out[n].type /\ in[n].path = out[n].path
      /\ n \in Nat \ {0} /\ n - 1 \in 0 .. Len(out) /\ n \in 0 .. Len(out)
  BY DEF Matches, Layout, Form
<1>2. /\ W[n] = Write(shape, W[n - 1], out[n]) /\ W[n - 1] \in Seq(T) /\ W[n] \in Seq(T)
      /\ R[n] = Read(all, R[n - 1], in[n])
  <2>1. W[n] = Write(shape, W[n - 1], out[n]) /\ W[n - 1] \in Seq(T) /\ W[n] \in Seq(T)
    <3>1. /\ \A i \in 1 .. Len(out) : W[i] = Write(shape, W[i - 1], out[i])
          /\ \A i \in 0 .. Len(out) : W[i] \in Seq(T)
      <4>1. Layout(out)
        BY <1>1
      <4> QED
        BY ONLY <4>1, WritingIs
    <3> HIDE DEF T, W
    <3> QED
      BY <1>1, <3>1
  <2>2. R[n] = Read(all, R[n - 1], in[n])
    BY <1>1, DecodingIs
  <2> QED
    BY <2>1, <2>2
<1>3. /\ Len(all) \in Nat /\ Len(W[n]) \in 0 .. Len(all)
      /\ \A k \in 1 .. Len(W[n]) : all[k] = W[n][k]
  BY <1>1, WrittenStays
<1>4. IF Kept(out, in, shape, n - 1)
      THEN R[n - 1] = [ok |-> TRUE, offset |-> Len(W[n - 1]),
                       filled |-> Holds(out, shape, n - 1), got |-> Straight(W[n - 1])]
      ELSE ~R[n - 1].ok
  BY DEF Follows
<1>5. SUFFICES IF Kept(out, in, shape, n)
               THEN R[n] = [ok |-> TRUE, offset |-> Len(W[n]),
                            filled |-> Holds(out, shape, n), got |-> Straight(W[n])]
               ELSE ~R[n].ok
  BY DEF Follows
<1>6. Token(shape, out[n]) \in T
  OBVIOUS
<1>7. in[n].under \subseteq Holds(out, shape, n - 1) <=> Sent(shape, out[n])
  BY ReadIfSent
<1> HIDE DEF W, R, all, T
<1>8. CASE ~Kept(out, in, shape, n - 1)
  <2>1. ~Kept(out, in, shape, n)
    BY <1>1, <1>8, KeptOneMore
  <2>2. R[n] = R[n - 1]
    BY <1>2, <1>4, <1>8 DEF Read
  <2> QED
    BY <1>4, <1>8, <2>1, <2>2
<1>9. CASE Kept(out, in, shape, n - 1) /\ ~Sent(shape, out[n])
  <2>1. Kept(out, in, shape, n)
    BY <1>1, <1>9, KeptOneMore
  <2>2. R[n] = R[n - 1]
    BY <1>2, <1>4, <1>7, <1>9 DEF Read
  <2>3. W[n] = W[n - 1]
    BY <1>2, <1>9 DEF Write
  <2>4. Holds(out, shape, n) = Holds(out, shape, n - 1)
    BY <1>1, <1>9, HoldsOneMore
  <2> QED
    BY <1>4, <1>9, <2>1, <2>2, <2>3, <2>4
<1>10. CASE Kept(out, in, shape, n - 1) /\ Sent(shape, out[n])
  <2> DEFINE s == R[n - 1]
             token == Token(shape, out[n])
  <2>1. /\ s.ok /\ s.offset = Len(W[n - 1])
        /\ s.filled = Holds(out, shape, n - 1) /\ s.got = Straight(W[n - 1])
    BY <1>4, <1>10
  <2>2. /\ token.type = in[n].type /\ token.of = in[n].path
        /\ token.number = NumberOf(shape, out[n])
    BY <1>1 DEF Token
  <2> HIDE DEF token
  <2>3. W[n] = Append(W[n - 1], token)
    BY <1>2, <1>10 DEF Write, token
  <2>4. /\ Len(W[n - 1]) \in Nat /\ Len(W[n]) = Len(W[n - 1]) + 1
        /\ W[n][Len(W[n - 1]) + 1] = token
    BY <1>2, <1>6, <2>3 DEF token
  <2>5. all[s.offset + 1] = token /\ s.offset # Len(all)
    <3>1. Len(W[n - 1]) + 1 \in 1 .. Len(W[n]) /\ Len(W[n - 1]) # Len(all)
      BY <1>3, <2>4
    <3> QED
      BY <1>3, <2>1, <2>4, <3>1
  <2>6. CASE token.number \notin in[n].lo .. in[n].hi
    <3>1. R[n] = Refused
      BY <1>2, <1>7, <1>10, <2>1, <2>5, <2>6 DEF Read
    <3>2. ~Kept(out, in, shape, n)
      BY <1>1, <1>10, <2>2, <2>6, KeptOneMore
    <3> QED
      BY <3>1, <3>2 DEF Refused
  <2>7. CASE token.number \in in[n].lo .. in[n].hi
    <3>1. R[n] = [ok |-> TRUE, offset |-> s.offset + 1,
                  filled |-> IF in[n].type \in Repeats /\ token.number > 0
                             THEN s.filled \cup {in[n].path} ELSE s.filled,
                  got |-> s.got \cup {<<in[n].path, token.of>>}]
      BY <1>2, <1>7, <1>10, <2>1, <2>2, <2>5, <2>7 DEF Read
    <3>2. Kept(out, in, shape, n)
      BY <1>1, <1>10, <2>2, <2>7, KeptOneMore
    <3>3. Straight(W[n]) = s.got \cup {<<in[n].path, token.of>>}
      <4>1. Straight(W[n]) = Straight(W[n - 1]) \cup {<<token.of, token.of>>}
        BY <1>2, <1>6, <2>3, StraightOneMore DEF token
      <4> QED
        BY <2>1, <2>2, <4>1
    <3>4. Holds(out, shape, n)
            = IF in[n].type \in Repeats /\ token.number > 0
              THEN s.filled \cup {in[n].path} ELSE s.filled
      <4>1. CASE out[n].type \in Repeats
        <5>1. token.number = Count(shape, out[n].path)
          BY <2>2, <4>1 DEF NumberOf, Repeats, Numbers
        <5> QED
          BY <1>1, <1>10, <2>1, <4>1, <5>1, HoldsOneMore
      <4>2. CASE out[n].type \notin Repeats
        BY <1>1, <1>10, <2>1, <4>2, HoldsOneMore
      <4> QED
        BY <4>1, <4>2
    <3>5. s.offset + 1 = Len(W[n])
      BY <2>1, <2>4
    <3> QED
      BY <3>1, <3>2, <3>3, <3>4, <3>5
  <2> QED
    BY <2>6, <2>7
<1> QED
  BY <1>8, <1>9, <1>10

LEMMA Followed ==
  ASSUME NEW out, NEW in, Matches(out, in), NEW shape
  PROVE  Follows(out, in, shape, Len(out))
<1> DEFINE N == Len(out)
           S == {n \in 0 .. N : Follows(out, in, shape, n)}
<1>1. N \in Nat /\ Layout(out) /\ Layout(in)
  BY DEF Matches, Layout
<1>2. Follows(out, in, shape, 0)
  <2>1. Writing(out, shape)[0] = <<>> /\ Decoding(in, Encoded(out, shape))[0] = Start
    BY <1>1, WritingIs, DecodingIs
  <2>2. 1 .. 0 = {} /\ Len(<<>>) = 0 /\ DOMAIN <<>> = {}
    OBVIOUS
  <2>3. Kept(out, in, shape, 0) /\ Holds(out, shape, 0) = {}
    BY <2>2 DEF Kept, Holds
  <2>4. Straight(<<>>) = {}
    BY <2>2 DEF Straight, Paths
  <2> QED
    BY <2>1, <2>2, <2>3, <2>4 DEF Follows, Start
<1>3. \A n \in 1 .. N : n - 1 \in S => n \in S
  BY <1>1, FollowsOneMore
<1>4. 0 \in S
  BY <1>1, <1>2
<1> HIDE DEF S
<1>5. 0 .. N \subseteq S
  BY <1>1, <1>3, <1>4, Rounds!BoundedInduction
<1>6. N \in S
  BY <1>1, <1>5
<1> QED
  BY <1>6 DEF S

\* What arrives whole is accepted exactly if each number that was written is
\* within the decoder's bounds, and then each field is taken for itself.
LEMMA RoundTrip ==
  ASSUME NEW out, NEW in, Matches(out, in), NEW shape
  PROVE  LET tokens == Encoded(out, shape)
             reading == Decoded(in, tokens)
         IN /\ reading.ok <=> Kept(out, in, shape, Len(out))
            /\ reading.ok => reading.got = Straight(tokens)
<1> DEFINE N == Len(out)
           tokens == Encoded(out, shape)
           all == Decoding(in, tokens)[N]
<1>1. Len(in) = N /\ N \in Nat /\ Layout(out)
  BY DEF Matches, Layout
<1>2. tokens = Writing(out, shape)[N]
  BY DEF Encoded
<1>3. IF Kept(out, in, shape, N)
      THEN all = [ok |-> TRUE, offset |-> Len(tokens), filled |-> Holds(out, shape, N),
                  got |-> Straight(tokens)]
      ELSE ~all.ok
  BY <1>2, Followed DEF Follows
<1>4. Decoded(in, tokens) = IF Len(tokens) = all.offset THEN all ELSE Refused
  BY <1>1 DEF Decoded
<1> HIDE DEF N, tokens, all
<1>5. CASE Kept(out, in, shape, N)
  BY <1>3, <1>4, <1>5 DEF N, tokens
<1>6. CASE ~Kept(out, in, shape, N)
  <2>1. ~Decoded(in, tokens).ok
    BY <1>3, <1>4, <1>6 DEF Refused
  <2> QED
    BY <1>6, <2>1 DEF N, tokens
<1> QED
  BY <1>5, <1>6

----------------------------------------------------------------------------
\* The messages

LEMMA EmptyMatches == Matches(<<>>, <<>>)
<1>1. <<>> \in Seq({}) /\ Len(<<>>) = 0 /\ 1 .. 0 = {}
  OBVIOUS
<1>2. Layout(<<>>)
  BY <1>1, LayoutIs
<1> QED
  BY <1>1, <1>2 DEF Matches, Nested

LEMMA RequestsMatch ==
  ASSUME NEW message
  PROVE  Matches(RequestOut(message), RequestIn(message))
BY EmptyMatches, RegistrationMatches, PolicyMatches, PlanRequestMatches, EvidenceMatches,
   FailMatches, ReconcileMatches, PauseMatches, DispatchStepMatches, DiffRequestMatches,
   ExplainRequestMatches, RouteChangeMatches, PathChangeMatches, EpochChangeMatches,
   FieldsMatch
   DEF RequestOut, RequestIn

LEMMA AnswersMatch ==
  ASSUME NEW message \in Messages \cup {"ERROR"}
  PROVE  Matches(AnswerOut(message), AnswerIn(message))
<1>1. CASE message \in Mutations
  BY <1>1, ResultMatches DEF AnswerOut, AnswerIn, Mutations, Notices
<1>2. CASE message \in Notices
  BY <1>2, NoticeMatches DEF AnswerOut, AnswerIn, Mutations, Notices
<1>3. CASE message \in Queries \cup {"ERROR"}
  <2>1. message \notin Mutations \cup Notices
    BY <1>3 DEF Queries, Mutations, Notices
  <2> QED
    BY <1>3, <2>1, HelloMatches, PlanQueryMatches, PlanListMatches, ReadyListMatches,
       DispatchMatches, SnapshotBodyMatches, DiffBodyMatches, ExplainResponseMatches,
       PolicyListMatches, ErrorMatches
       DEF AnswerOut, AnswerIn, Queries
<1> QED
  BY <1>1, <1>2, <1>3 DEF Messages

\* A body that arrives whole, request or answer, is refused exactly for a
\* number that the decoder does not accept: its fields are never out of step.
THEOREM RefusedForItsNumbers ==
  /\ \A message \in Messages : \A shape :
       Decoded(RequestIn(message), Encoded(RequestOut(message), shape)).ok
         <=> Kept(RequestOut(message), RequestIn(message), shape,
                  Len(RequestOut(message)))
  /\ \A message \in Messages \cup {"ERROR"} : \A shape :
       Decoded(AnswerIn(message), Encoded(AnswerOut(message), shape)).ok
         <=> Kept(AnswerOut(message), AnswerIn(message), shape,
                  Len(AnswerOut(message)))
BY RequestsMatch, AnswersMatch, RoundTrip

\* Nothing is wrong with a body that is taken for what it is.
LEMMA NothingWrong ==
  ASSUME NEW body, NEW in,
         Matches(IF body.reply THEN AnswerOut(body.message) ELSE RequestOut(body.message), in),
         Reading(in, body).ok
  PROVE  Wrong(Reading(in, body), body, body.message) = {}
<1> DEFINE out == IF body.reply THEN AnswerOut(body.message) ELSE RequestOut(body.message)
           tokens == Encoded(out, body.shape)
           reading == Decoded(in, tokens)
<1>1. Payload(body) = tokens /\ Reading(in, body) = reading
  BY DEF Reading, Payload
<1> HIDE DEF out
<1>2. reading.got = Straight(tokens)
  BY <1>1, RoundTrip DEF out
<1> HIDE DEF reading, tokens
<1>3. {pair \in reading.got : pair[1] # pair[2]} = {}
  BY <1>2 DEF Straight
<1>4. Paths(tokens) \ {pair[1] : pair \in reading.got} = {}
  <2> SUFFICES ASSUME NEW path \in Paths(tokens)
               PROVE  path \in {pair[1] : pair \in reading.got}
    OBVIOUS
  <2>1. <<path, path>> \in reading.got /\ <<path, path>>[1] = path
    BY <1>2 DEF Straight
  <2> QED
    BY <2>1
<1> QED
  BY <1>1, <1>3, <1>4 DEF Wrong

----------------------------------------------------------------------------
\* The exchange

LEMMA SealedIs ==
  ASSUME NEW body
  PROVE  /\ IsFrame(Sealed(body)) /\ Sealed(body).intact
         /\ Sealed(body).message = body.message
BY DEF Sealed, IsFrame

LEMMA HarmedIs ==
  ASSUME NEW f, IsFrame(f), NEW h \in Harmed(f)
  PROVE  IsFrame(h) /\ ~h.intact
BY DEF Harmed, IsFrame

LEMMA WholeIsIntact ==
  ASSUME NEW f, Defect(f) = "NONE"
  PROVE  f.intact
BY DEF Defect

LEMMA BodyIs ==
  ASSUME NEW message, NEW reply, NEW shape, NEW w
  PROVE  Body(message, reply, shape, w).message = message
         /\ Body(message, reply, shape, w).reply = reply
BY DEF Body

\* What the coordinator replies with is carried as it was sealed.
LEMMA Replied ==
  ASSUME InductiveInvariant, stage = "request", UNCHANGED harmed, differs' = {},
         NEW body, body.message \in Messages \cup {"ERROR"}, body.reply = TRUE,
         harmed => body.message = "ERROR", Reply(body)
  PROVE  InductiveInvariant'
<1>1. verdict = "none"
  BY DEF InductiveInvariant
<1>2. CASE Fits(body)
  BY <1>1, <1>2, SealedIs
     DEF Reply, InductiveInvariant, NothingIsMisread, Carries
<1>3. CASE ~Fits(body)
  <2>1. stage' = "end" /\ frame' = NoFrame /\ verdict' = "closed"
    BY <1>3 DEF Reply
  <2> QED
    BY <2>1 DEF InductiveInvariant, NothingIsMisread, IsFrame, NoFrame
<1> QED
  BY <1>2, <1>3

THEOREM Starts == Init => InductiveInvariant
BY DEF Init, InductiveInvariant, NothingIsMisread, IsFrame, NoFrame

LEMMA AskStep ==
  ASSUME InductiveInvariant, Ask
  PROVE  InductiveInvariant'
<1>1. PICK message, shape :
        message \in Messages /\
        LET body == Body(message, FALSE, shape, world) IN
        /\ request' = body
        /\ IF Fits(body)
           THEN stage' = "request" /\ frame' = Sealed(body) /\ UNCHANGED verdict
           ELSE stage' = "end" /\ verdict' = "unsent" /\ UNCHANGED frame
  BY DEF Ask
<1> DEFINE body == Body(message, FALSE, shape, world)
<1>2. body.message = message /\ body.reply = FALSE
  BY BodyIs
<1> HIDE DEF body
<1>3. /\ differs = {} /\ ~harmed /\ verdict = "none" /\ IsFrame(frame)
      /\ UNCHANGED <<harmed, differs>>
  BY DEF Ask, InductiveInvariant, NothingIsMisread
<1>4. CASE Fits(body)
  <2>1. request' = body /\ stage' = "request" /\ frame' = Sealed(body) /\ verdict' = "none"
    BY <1>1, <1>3, <1>4 DEF body
  <2> QED
    BY <1>1, <1>2, <1>3, <2>1, SealedIs DEF InductiveInvariant, NothingIsMisread, Carries
<1>5. CASE ~Fits(body)
  <2>1. stage' = "end" /\ verdict' = "unsent" /\ UNCHANGED frame
    BY <1>1, <1>5 DEF body
  <2> QED
    BY <1>3, <2>1 DEF InductiveInvariant, NothingIsMisread
<1> QED
  BY <1>4, <1>5

LEMMA HarmStep ==
  ASSUME InductiveInvariant, Harm
  PROVE  InductiveInvariant'
<1>1. /\ frame' \in Harmed(frame) /\ harmed' = TRUE /\ stage \in {"request", "answer"}
      /\ UNCHANGED <<world, stage, request, answer, differs, verdict>>
  BY DEF Harm
<1>2. IsFrame(frame') /\ ~frame'.intact
  BY <1>1, HarmedIs DEF InductiveInvariant
<1> QED
  BY <1>1, <1>2 DEF InductiveInvariant, NothingIsMisread, Carries

LEMMA RefuseFrameStep ==
  ASSUME InductiveInvariant, RefuseFrame
  PROVE  InductiveInvariant'
<1>1. /\ stage = "request" /\ UNCHANGED <<harmed, differs>> /\ differs = {}
  BY DEF RefuseFrame, InductiveInvariant, NothingIsMisread
<1>2. CASE Defect(frame) = "PEER_TIMEOUT"
  <2>1. stage' = "end" /\ verdict' = "closed" /\ frame' = NoFrame
    BY <1>2 DEF RefuseFrame
  <2> QED
    BY <1>1, <2>1 DEF InductiveInvariant, NothingIsMisread, IsFrame, NoFrame
<1>3. CASE Defect(frame) # "PEER_TIMEOUT"
  <2> DEFINE body == Body("ERROR", TRUE, [detail |-> 16], world)
  <2>1. Reply(body)
    BY <1>3 DEF RefuseFrame
  <2>2. body.message = "ERROR" /\ body.reply = TRUE
    BY DEF Body
  <2> HIDE DEF body
  <2> QED
    BY <1>1, <2>1, <2>2, Replied
<1> QED
  BY <1>2, <1>3

LEMMA ServeStep ==
  ASSUME InductiveInvariant, Serve
  PROVE  InductiveInvariant'
<1> DEFINE as == frame.message
           reading == Reading(RequestIn(as), request)
<1>1. /\ stage = "request" /\ UNCHANGED harmed /\ differs = {} /\ frame.intact
      /\ request.message = as /\ as \in Messages /\ request.reply = FALSE /\ ~harmed
  BY WholeIsIntact DEF Serve, InductiveInvariant, NothingIsMisread, Carries
<1>2. \A message, shape :
        /\ Body(message, TRUE, shape, world).message = message
        /\ Body(message, TRUE, shape, world).reply = TRUE
  BY BodyIs
<1>3. CASE ~reading.ok
  <2>1. Reply(Body(Malformed(as).message, TRUE, Malformed(as).shape, world)) /\ UNCHANGED differs
    BY <1>3 DEF Serve
  <2>2. Malformed(as).message \in Messages \cup {"ERROR"}
    BY <1>1 DEF Malformed
  <2> QED
    BY <1>1, <1>2, <2>1, <2>2, Replied
<1>4. CASE reading.ok
  <2>1. differs' = Wrong(reading, request, as)
    BY <1>4 DEF Serve
  <2>2. Matches(RequestOut(request.message), RequestIn(as))
    BY <1>1, RequestsMatch
  <2>3. differs' = {}
    BY <1>1, <1>4, <2>1, <2>2, NothingWrong
  <2>4. PICK message, shape :
          /\ message \in Messages \cup {"ERROR"}
          /\ Reply(Body(message, TRUE, shape, world))
    BY <1>1, <1>4 DEF Serve
  <2> QED
    BY <1>1, <1>2, <2>3, <2>4, Replied
<1> QED
  BY <1>3, <1>4

LEMMA HearStep ==
  ASSUME InductiveInvariant, Hear
  PROVE  InductiveInvariant'
<1> DEFINE as == frame.message
           reading == Reading(AnswerIn(as), answer)
<1>1. /\ stage = "answer" /\ stage' = "end" /\ frame' = NoFrame
      /\ UNCHANGED harmed /\ differs = {}
  BY DEF Hear, InductiveInvariant, NothingIsMisread
<1>2. SUFFICES NothingIsMisread'
  BY <1>1 DEF InductiveInvariant, IsFrame, NoFrame
<1>3. CASE Defect(frame) # "NONE" \/ as = "ERROR" \/ as # request.message \/ ~reading.ok
  <2>1. differs' = differs /\ verdict' # "understood"
    BY <1>3 DEF Hear
  <2> QED
    BY <1>1, <2>1 DEF NothingIsMisread
<1>4. CASE Defect(frame) = "NONE" /\ as # "ERROR" /\ as = request.message /\ reading.ok
  <2>1. differs' = Wrong(reading, answer, as)
    BY <1>4 DEF Hear
  <2>2. frame.intact
    BY <1>4, WholeIsIntact
  <2>3. answer.message = as /\ answer.reply = TRUE /\ as \in Messages \cup {"ERROR"} /\ ~harmed
    BY <1>1, <1>4, <2>2 DEF InductiveInvariant, Carries
  <2>4. Matches(AnswerOut(answer.message), AnswerIn(as))
    BY <2>3, AnswersMatch
  <2>5. differs' = {}
    BY <1>4, <2>1, <2>3, <2>4, NothingWrong
  <2> QED
    BY <1>1, <2>3, <2>5 DEF NothingIsMisread
<1> QED
  BY <1>3, <1>4

LEMMA AgainStep ==
  ASSUME InductiveInvariant, Again
  PROVE  InductiveInvariant'
BY DEF Again, InductiveInvariant, NothingIsMisread, IsFrame, NoFrame

LEMMA IdleStep ==
  ASSUME InductiveInvariant, UNCHANGED vars
  PROVE  InductiveInvariant'
BY DEF vars, InductiveInvariant, NothingIsMisread, Carries

LEMMA InductiveStep == InductiveInvariant /\ [Next]_vars => InductiveInvariant'
BY AskStep, HarmStep, RefuseFrameStep, ServeStep, HearStep, AgainStep, IdleStep DEF Next

\* Whatever a coordinator holds, and within whatever limits: what the
\* coordinator acts on and what a client reports is what the other one wrote.
THEOREM NothingMisread == Spec => []NothingIsMisread
<1>1. InductiveInvariant => NothingIsMisread
  BY DEF InductiveInvariant
<1> QED
  BY <1>1, Starts, InductiveStep, PTL DEF Spec

=============================================================================
