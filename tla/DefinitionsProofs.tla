------------------------- MODULE DefinitionsProofs -------------------------
(***************************************************************************)
(* The shell's tables of names and the tags of named bytes, for any        *)
(* constants, names and values and any number of tags.                     *)
(*                                                                         *)
(* Every tag in use for a value is at most the one counted for it, so the  *)
(* next one is new: that is the invariant.  It rests on the constants,     *)
(* whose highest tags the counts start from.                               *)
(***************************************************************************)
EXTENDS Definitions, WellFoundedInduction, TLAPS

\* What the constants are, taken apart.
LEMMA ConstantsFit ==
    /\ Values \subseteq 0 .. 255
    /\ MAX_TAG \in 0 .. 255
    /\ \A n \in DOMAIN Constants :
            \/ Constants[n] = Pair
            \/ \E v \in 0 .. 255, t \in 0 .. MAX_TAG : Constants[n] = NewByte(v, t)
    /\ Names \cap (DOMAIN Constants \cup {"it"}) = {}
    /\ "it" \notin DOMAIN Constants
BY DefinitionsAssumption DEF ConstantsAreElements

\* A constant that is no cell is a byte with a tag.
LEMMA ConstantForms ==
    \A n \in DOMAIN Constants : Constants[n] # Pair =>
        \E v \in 0 .. 255, t \in 0 .. MAX_TAG : Constants[n] = NewByte(v, t)
<1>1. \A n \in DOMAIN Constants :
          \/ Constants[n] = Pair
          \/ \E v \in 0 .. 255, t \in 0 .. MAX_TAG : Constants[n] = NewByte(v, t)
  BY ConstantsFit, Zenon
<1>2. QED
  BY <1>1, Zenon

\* A byte is its value and its tag.
LEMMA ByteParts ==
    ASSUME NEW v \in 0 .. 255, NEW t \in 0 .. 255
    PROVE  /\ NewByte(v, t) \in Nat
           /\ IsByte(NewByte(v, t))
           /\ ByteValue(NewByte(v, t)) = v
           /\ ByteTag(NewByte(v, t)) = t
BY DEF NewByte, IsByte, ByteValue, ByteTag, UNDEF

\* A set of tags with 0 in it has a highest one.
LEMMA HighestTag ==
    ASSUME NEW tags \in SUBSET (0 .. 255), 0 \in tags
    PROVE  \E t \in tags : \A u \in tags : u <= t
<1> DEFINE bounds == {b \in Nat : \A u \in tags : u <= b}
           less == OpToRel(<, Nat)
<1>1. 255 \in bounds /\ bounds \subseteq Nat
  OBVIOUS
<1>2. PICK b \in bounds : \A c \in bounds : ~(<<c, b>> \in less)
  <2>1. IsWellFoundedOn(less, Nat)
    BY NatLessThanWellFounded, Zenon
  <2>2. bounds # {}
    BY <1>1, Zenon
  <2> HIDE DEF bounds, less
  <2>3. QED
    BY <1>1, <2>1, <2>2, WFMin, ZenonT(40)
<1>3. \A c \in bounds : ~(c < b)
  BY <1>1, <1>2, Zenon DEF OpToRel
<1>4. b \in tags
  <2>1. SUFFICES ASSUME b \notin tags PROVE FALSE
    OBVIOUS
  <2>2. b \in Nat /\ b # 0 /\ \A u \in tags : u \in Nat /\ u <= b /\ u # b
    BY <2>1
  <2>3. b - 1 \in bounds /\ b - 1 < b
    BY <2>2
  <2> HIDE DEF bounds
  <2>4. QED
    BY <2>3, <1>3
<1>5. QED
  BY <1>4

\* What a name can stand for: a cell, or a byte of a counted value.
LEMMA ElementParts ==
    /\ Counted \subseteq 0 .. 255
    /\ Pair \in Elements /\ ~IsByte(Pair)
    /\ \A v \in Counted, t \in 0 .. MAX_TAG :
           /\ NewByte(v, t) \in Elements
           /\ IsByte(NewByte(v, t))
           /\ ByteValue(NewByte(v, t)) = v
           /\ ByteTag(NewByte(v, t)) = t
    /\ \A e \in Elements : IsByte(e) =>
           /\ ByteValue(e) \in Counted
           /\ ByteTag(e) \in 0 .. MAX_TAG
           /\ e = NewByte(ByteValue(e), ByteTag(e))
<1>1. ASSUME NEW n \in DOMAIN Constants, IsByte(Constants[n])
      PROVE  ByteValue(Constants[n]) \in 0 .. 255
  <2>0. ~IsByte(Pair)
    BY DEF IsByte, Pair, UNDEF
  <2>1. PICK v \in 0 .. 255, t \in 0 .. MAX_TAG : Constants[n] = NewByte(v, t)
    BY <1>1, <2>0, ConstantForms, Zenon
  <2>2. t \in 0 .. 255
    <3>1. MAX_TAG \in 0 .. 255
      BY ConstantsFit
    <3>2. QED
      BY <3>1
  <2>3. ByteValue(NewByte(v, t)) = v
    BY <2>2, ByteParts, Zenon
  <2>4. QED
    BY <2>1, <2>3
<1>2. Counted \subseteq 0 .. 255
  <2>1. \A n \in Tagged : ByteValue(Constants[n]) \in 0 .. 255
    BY <1>1, Zenon DEF Tagged
  <2>2. Values \subseteq 0 .. 255
    BY ConstantsFit, Zenon
  <2>3. QED
    BY <2>1, <2>2, ZenonT(40) DEF Counted
<1>3. ~IsByte(Pair)
  BY DEF IsByte, Pair, UNDEF
<1>4. ASSUME NEW v \in Counted, NEW t \in 0 .. MAX_TAG
      PROVE  /\ NewByte(v, t) \in Elements
             /\ IsByte(NewByte(v, t))
             /\ ByteValue(NewByte(v, t)) = v
             /\ ByteTag(NewByte(v, t)) = t
  <2>1. MAX_TAG \in 0 .. 255
    BY ConstantsFit
  <2>2. v \in 0 .. 255 /\ t \in 0 .. 255
    BY <1>2, <2>1
  <2>3. NewByte(v, t) \in Elements
    BY DEF Elements
  <2>4. QED
    BY <2>2, <2>3, ByteParts, ZenonT(40)
<1>5. ASSUME NEW e \in Elements, IsByte(e)
      PROVE  /\ ByteValue(e) \in Counted
             /\ ByteTag(e) \in 0 .. MAX_TAG
             /\ e = NewByte(ByteValue(e), ByteTag(e))
  <2>1. PICK v \in Counted, t \in 0 .. MAX_TAG : e = NewByte(v, t)
    BY <1>3, <1>5 DEF Elements
  <2>2. QED
    BY <2>1, <1>4
<1>6. QED
  BY <1>2, <1>3, <1>4, <1>5 DEF Elements

\* A constant's tag is counted.
LEMMA ConstantTags ==
    /\ \A n \in DOMAIN Constants : Constants[n] \in Elements
    /\ \A v \in Counted : ConstantTag(v) \in 0 .. MAX_TAG
    /\ \A n \in DOMAIN Constants : IsByte(Constants[n]) =>
           ByteTag(Constants[n]) <= ConstantTag(ByteValue(Constants[n]))
<1>1. ASSUME NEW n \in DOMAIN Constants, Constants[n] # Pair
      PROVE  /\ IsByte(Constants[n])
             /\ ByteTag(Constants[n]) \in 0 .. MAX_TAG
             /\ Constants[n] \in Elements
  <2>1. PICK v \in 0 .. 255, t \in 0 .. MAX_TAG : Constants[n] = NewByte(v, t)
    BY <1>1, ConstantForms, Zenon
  <2>2. MAX_TAG \in 0 .. 255
    BY ConstantsFit
  <2>3. t \in 0 .. 255
    BY <2>2
  <2>4. /\ IsByte(Constants[n])
        /\ ByteValue(Constants[n]) = v
        /\ ByteTag(Constants[n]) = t
    <3>1. IsByte(NewByte(v, t)) /\ ByteValue(NewByte(v, t)) = v /\ ByteTag(NewByte(v, t)) = t
      BY <2>3, ByteParts, ZenonT(40)
    <3>2. QED
      BY <2>1, <3>1, Zenon
  <2>5. v \in Counted
    BY <2>4 DEF Counted, Tagged
  <2>6. QED
    BY <2>1, <2>4, <2>5 DEF Elements
<1>2. ASSUME NEW v
      PROVE  /\ ConstantTag(v) \in 0 .. MAX_TAG
             /\ \A n \in Tagged : ByteValue(Constants[n]) = v => ByteTag(Constants[n]) <= ConstantTag(v)
  <2> DEFINE tags == {0} \cup {ByteTag(Constants[n]) : n \in {m \in Tagged : ByteValue(Constants[m]) = v}}
  <2>1. \A n \in Tagged : ByteTag(Constants[n]) \in 0 .. MAX_TAG
    BY <1>1, ElementParts DEF Tagged
  <2>2. tags \in SUBSET (0 .. MAX_TAG) /\ 0 \in tags /\ MAX_TAG \in 0 .. 255
    BY <2>1, ConstantsFit
  <2>3. tags \in SUBSET (0 .. 255)
    <3>1. 0 .. MAX_TAG \subseteq 0 .. 255
      BY <2>2
    <3>2. QED
      BY <2>2, <3>1, ZenonT(40)
  <2>4. ConstantTag(v) = CHOOSE t \in tags : \A u \in tags : u <= t
    BY DEF ConstantTag
  <2> HIDE DEF tags
  <2>5. ConstantTag(v) \in tags /\ \A u \in tags : u <= ConstantTag(v)
    BY <2>2, <2>3, <2>4, HighestTag, ZenonT(40)
  <2>6. \A n \in Tagged : ByteValue(Constants[n]) = v => ByteTag(Constants[n]) \in tags
    BY DEF tags
  <2>7. QED
    BY <2>2, <2>5, <2>6
<1>3. QED
  BY <1>1, <1>2, ElementParts DEF Tagged

-----------------------------------------------------------------------------
Table(defs) ==
    /\ DOMAIN Constants \subseteq DOMAIN defs
    /\ DOMAIN defs \subseteq Names \cup {"it"} \cup DOMAIN Constants
    /\ \A n \in DOMAIN defs : defs[n] \in Elements

LEMMA DefinedTable ==
    ASSUME NEW defs, Table(defs),
           NEW n \in Names \cup {"it"} \cup DOMAIN Constants, NEW e \in Elements
    PROVE  Table(Defined(defs, n, e))
BY DEF Table, Defined

LEMMA TypeParts ==
    TypeOK <=> /\ Table(defns_no_it)
               /\ Table(defns_with_it)
               /\ byte_counts \in [Counted -> 0 .. MAX_TAG]
BY DEF TypeOK, Table

\* :def gives a name to a cell, to a byte with a new tag, or to a byte without
\* one when the tags of its value have run out.
DefinesPair(n) ==
    /\ defns_no_it' = Defined(defns_no_it, n, Pair)
    /\ defns_with_it' = Defined(defns_with_it, n, Pair)
    /\ UNCHANGED byte_counts

DefinesTagged(n, v) ==
    /\ byte_counts[v] < MAX_TAG
    /\ byte_counts' = [byte_counts EXCEPT ![v] = @ + 1]
    /\ defns_no_it' = Defined(defns_no_it, n, TaggedByte(v))
    /\ defns_with_it' = Defined(defns_with_it, n, TaggedByte(v))

DefinesUntagged(n, v) ==
    /\ byte_counts[v] = MAX_TAG
    /\ defns_with_it' = Defined(defns_with_it, n, NewByte(v, 0))
    /\ UNCHANGED <<byte_counts, defns_no_it>>

LEMMA DefCases ==
    ASSUME TypeOK,
           NEW n \in Names \cup {"it"} \cup DOMAIN Constants, NEW e \in Readable,
           Def(n, e)
    PROVE  /\ n \notin DOMAIN Constants
           /\ \/ DefinesPair(n)
              \/ \E v \in Counted : DefinesTagged(n, v)
              \/ \E v \in Counted : DefinesUntagged(n, v)
<1>1. n \notin DOMAIN Constants
  BY DEF Def, MayDefine
<1>2. e \in Elements
  <2>1. CASE \E v \in Values : e = NewByte(v, 0)
    <3>1. Values \subseteq Counted /\ MAX_TAG \in 0 .. 255
      BY ConstantsFit DEF Counted
    <3>2. 0 \in 0 .. MAX_TAG
      BY <3>1
    <3>3. QED
      BY <2>1, <3>1, <3>2, ElementParts
  <2>2. CASE e = Pair
    BY <2>2, ElementParts
  <2>3. CASE \E m \in DOMAIN defns_with_it : e = defns_with_it[m]
    BY <2>3, TypeParts DEF Table
  <2>4. QED
    BY <2>1, <2>2, <2>3 DEF Readable
<1>3. CASE ~IsByte(e)
  <2>1. e = Pair
    BY <1>2, <1>3, ElementParts DEF Elements
  <2>2. QED
    BY <1>1, <1>3, <2>1 DEF Def, DefinesPair
<1>4. CASE IsByte(e)
  <2> DEFINE v == ByteValue(e)
  <2>1. v \in Counted
    BY <1>2, <1>4, ElementParts
  <2>2. byte_counts[v] \in 0 .. MAX_TAG /\ MAX_TAG \in 0 .. 255
    BY <2>1, TypeParts, ConstantsFit
  <2>3. CASE HasTag(v)
    <3>1. DefinesTagged(n, v)
      BY <1>4, <2>3 DEF Def, DefinesTagged, HasTag
    <3>2. QED
      BY <1>1, <2>1, <3>1
  <2>4. CASE ~HasTag(v)
    <3>1. byte_counts[v] = MAX_TAG
      BY <2>2, <2>4 DEF HasTag
    <3>2. DefinesUntagged(n, v)
      BY <1>4, <2>4, <3>1 DEF Def, DefinesUntagged
    <3>3. QED
      BY <1>1, <2>1, <3>2
  <2>5. QED
    BY <2>3, <2>4
<1>5. QED
  BY <1>3, <1>4

\* The tag given by :def is in range and its byte is an element.
LEMMA TaggedParts ==
    ASSUME TypeOK, NEW v \in Counted, byte_counts[v] < MAX_TAG
    PROVE  /\ byte_counts[v] \in Nat
           /\ byte_counts[v] + 1 \in 0 .. MAX_TAG
           /\ TaggedByte(v) \in Elements
           /\ IsByte(TaggedByte(v))
           /\ ByteValue(TaggedByte(v)) = v
           /\ ByteTag(TaggedByte(v)) = byte_counts[v] + 1
<1>1. byte_counts[v] \in 0 .. MAX_TAG /\ MAX_TAG \in 0 .. 255
  BY TypeParts, ConstantsFit
<1>2. byte_counts[v] + 1 \in 0 .. MAX_TAG
  BY <1>1
<1>3. QED
  BY <1>1, <1>2, ElementParts DEF TaggedByte

LEMMA UntaggedParts ==
    ASSUME NEW v \in Counted
    PROVE  /\ NewByte(v, 0) \in Elements
           /\ IsByte(NewByte(v, 0))
           /\ ByteValue(NewByte(v, 0)) = v
           /\ ByteTag(NewByte(v, 0)) = 0
<1>1. 0 \in 0 .. MAX_TAG
  <2>1. MAX_TAG \in 0 .. 255
    BY ConstantsFit
  <2>2. QED
    BY <2>1
<1>2. QED
  BY <1>1, ElementParts

\* What an operator returns is an element.
LEMMA ResultsAreElements ==
    ASSUME TypeOK
    PROVE  Results \subseteq Elements
<1>1. ASSUME NEW v \in Counted, NEW t \in 0 .. byte_counts[v]
      PROVE  NewByte(v, t) \in Elements
  <2>1. byte_counts[v] \in 0 .. MAX_TAG /\ MAX_TAG \in 0 .. 255
    BY TypeParts, ConstantsFit
  <2>2. t \in 0 .. MAX_TAG
    BY <2>1
  <2>3. QED
    BY <2>2, ElementParts
<1>2. QED
  BY <1>1, ElementParts DEF Results

\* The tables start as the constants and the counts as their highest tags.
LEMMA TypeInit == Init => TypeOK
<1> SUFFICES ASSUME Init PROVE TypeOK
  OBVIOUS
<1>1. Table(defns_no_it) /\ Table(defns_with_it)
  BY ConstantTags DEF Init, Table
<1>2. byte_counts \in [Counted -> 0 .. MAX_TAG]
  BY ConstantTags DEF Init
<1>3. QED
  BY <1>1, <1>2, TypeParts

LEMMA TypeStep ==
    ASSUME TypeOK, [Next]_defns
    PROVE  TypeOK'
<1>1. ASSUME NEW n \in Names \cup {"it"} \cup DOMAIN Constants, NEW e \in Readable, Def(n, e)
      PROVE  TypeOK'
  <2>1. CASE DefinesPair(n)
    BY <2>1, TypeParts, DefinedTable, ElementParts, ZenonT(40) DEF DefinesPair, TypeOK, Table
  <2>2. ASSUME NEW v \in Counted, DefinesTagged(n, v)
        PROVE  TypeOK'
    <3>1. TaggedByte(v) \in Elements /\ byte_counts[v] + 1 \in 0 .. MAX_TAG
      BY <2>2, TaggedParts DEF DefinesTagged
    <3>2. Table(defns_no_it') /\ Table(defns_with_it')
      BY <2>2, <3>1, TypeParts, DefinedTable DEF DefinesTagged
    <3>3. byte_counts' \in [Counted -> 0 .. MAX_TAG]
      BY <2>2, <3>1, TypeParts DEF DefinesTagged
    <3>4. QED
      BY <3>2, <3>3 DEF TypeOK, Table
  <2>3. ASSUME NEW v \in Counted, DefinesUntagged(n, v)
        PROVE  TypeOK'
    <3>1. Table(defns_with_it')
      BY <2>3, TypeParts, DefinedTable, UntaggedParts DEF DefinesUntagged
    <3>2. QED
      BY <2>3, <3>1 DEF DefinesUntagged, TypeOK, Table
  <2>4. QED
    BY <1>1, <2>1, <2>2, <2>3, DefCases
<1>2. ASSUME NEW e \in Results, SetIt(e)
      PROVE  TypeOK'
  <2>1. Table(defns_with_it')
    BY <1>2, TypeParts, DefinedTable, ResultsAreElements DEF SetIt
  <2>2. QED
    BY <1>2, <2>1 DEF SetIt, TypeOK, Table
<1>3. CASE UNCHANGED defns
  BY <1>3 DEF defns, TypeOK
<1>4. QED
  BY <1>1, <1>2, <1>3 DEF Next

\* Every variable of the tables keeps its type, and no count passes MAX_TAG.
THEOREM TypeCorrect == Spec => []TypeOK
<1>1. QED
  BY TypeInit, TypeStep, PTL DEF Spec

-----------------------------------------------------------------------------
\* No tag shown by a name is above the one counted for its value.
TagsCounted ==
    \A n \in DOMAIN defns_no_it :
        IsByte(defns_no_it[n]) =>
            ByteTag(defns_no_it[n]) <= byte_counts[ByteValue(defns_no_it[n])]

TagsInv == TypeOK /\ TagsCounted /\ TagsAreUnique

LEMMA TagsInit == Init => TagsInv
<1> SUFFICES ASSUME Init PROVE TagsInv
  OBVIOUS
<1>1. TagsCounted
  <2>1. ASSUME NEW n \in DOMAIN Constants, IsByte(Constants[n])
        PROVE  byte_counts[ByteValue(Constants[n])] = ConstantTag(ByteValue(Constants[n]))
    BY <2>1, ConstantTags, ElementParts DEF Init
  <2>2. QED
    BY <2>1, ConstantTags DEF Init, TagsCounted
<1>2. TagsAreUnique
  BY DEF Init, TagsAreUnique
<1>3. QED
  BY <1>1, <1>2, TypeInit DEF TagsInv

LEMMA TagsStep ==
    ASSUME TagsInv, [Next]_defns
    PROVE  TagsInv'
<1>1. TypeOK /\ TypeOK'
  BY TypeStep DEF TagsInv
<1>2. ASSUME NEW n \in Names \cup {"it"} \cup DOMAIN Constants, NEW e \in Readable, Def(n, e)
      PROVE  TagsCounted' /\ TagsAreUnique'
  <2>1. CASE DefinesPair(n)
    <3>1. /\ DOMAIN defns_no_it' = DOMAIN defns_no_it \cup {n}
          /\ defns_no_it'[n] = Pair
          /\ \A m \in DOMAIN defns_no_it : m # n => defns_no_it'[m] = defns_no_it[m]
          /\ byte_counts' = byte_counts
      BY <2>1 DEF DefinesPair, Defined
    <3>2. QED
      BY <3>1, ElementParts DEF TagsInv, TagsCounted, TagsAreUnique
  <2>2. ASSUME NEW v \in Counted, DefinesTagged(n, v)
        PROVE  TagsCounted' /\ TagsAreUnique'
    <3> DEFINE x == TaggedByte(v)
    <3>1. /\ byte_counts[v] \in Nat
          /\ IsByte(x) /\ ByteValue(x) = v /\ ByteTag(x) = byte_counts[v] + 1
      BY <1>1, <2>2, TaggedParts DEF DefinesTagged
    <3>2. /\ DOMAIN defns_no_it' = DOMAIN defns_no_it \cup {n}
          /\ defns_no_it'[n] = x
          /\ \A m \in DOMAIN defns_no_it : m # n => defns_no_it'[m] = defns_no_it[m]
      BY <2>2 DEF DefinesTagged, Defined
    <3>3. /\ byte_counts'[v] = byte_counts[v] + 1
          /\ \A w \in Counted : w # v => byte_counts'[w] = byte_counts[w]
      BY <1>1, <2>2, TypeParts DEF DefinesTagged
    <3> HIDE DEF x
    <3>4. ASSUME NEW m \in DOMAIN defns_no_it, IsByte(defns_no_it[m])
          PROVE  /\ ByteValue(defns_no_it[m]) \in Counted
                 /\ ByteTag(defns_no_it[m]) \in Nat
                 /\ ByteTag(defns_no_it[m]) <= byte_counts[ByteValue(defns_no_it[m])]
      <4>1. defns_no_it[m] \in Elements
        BY <1>1, TypeParts DEF Table
      <4>2. /\ ByteValue(defns_no_it[m]) \in Counted
            /\ ByteTag(defns_no_it[m]) \in 0 .. MAX_TAG
        BY <3>4, <4>1, ElementParts
      <4>3. ByteTag(defns_no_it[m]) <= byte_counts[ByteValue(defns_no_it[m])]
        BY <3>4 DEF TagsInv, TagsCounted
      <4>4. QED
        BY <4>2, <4>3
    <3>5. \A m \in DOMAIN defns_no_it : defns_no_it[m] # x
      BY <3>1, <3>4
    <3>6. TagsAreUnique'
      BY <3>2, <3>5, DefCases, <1>1, <1>2 DEF TagsInv, TagsAreUnique
    <3>7. TagsCounted'
      <4> SUFFICES ASSUME NEW m \in DOMAIN defns_no_it', IsByte(defns_no_it'[m])
                   PROVE  ByteTag(defns_no_it'[m]) <= byte_counts'[ByteValue(defns_no_it'[m])]
        BY DEF TagsCounted
      <4>1. CASE m = n
        BY <3>1, <3>2, <3>3, <4>1
      <4>2. CASE m # n
        <5> DEFINE w == ByteValue(defns_no_it[m])
        <5>1. defns_no_it'[m] = defns_no_it[m] /\ m \in DOMAIN defns_no_it
          BY <3>2, <4>2
        <5>2. /\ w \in Counted
              /\ ByteTag(defns_no_it[m]) \in Nat
              /\ ByteTag(defns_no_it[m]) <= byte_counts[w]
          BY <3>4, <5>1
        <5>3. CASE w = v
          BY <3>1, <3>3, <5>1, <5>2, <5>3
        <5>4. CASE w # v
          BY <3>3, <5>1, <5>2, <5>4
        <5>5. QED
          BY <5>3, <5>4
      <4>3. QED
        BY <4>1, <4>2
    <3>8. QED
      BY <3>6, <3>7
  <2>3. ASSUME NEW v \in Counted, DefinesUntagged(n, v)
        PROVE  TagsCounted' /\ TagsAreUnique'
    BY <2>3 DEF DefinesUntagged, TagsInv, TagsCounted, TagsAreUnique
  <2>4. QED
    BY <1>1, <1>2, <2>1, <2>2, <2>3, DefCases
<1>3. ASSUME NEW e \in Results, SetIt(e)
      PROVE  TagsCounted' /\ TagsAreUnique'
  BY <1>3 DEF SetIt, TagsInv, TagsCounted, TagsAreUnique
<1>4. CASE UNCHANGED defns
  BY <1>4 DEF defns, TagsInv, TypeOK, TagsCounted, TagsAreUnique
<1>5. QED
  BY <1>1, <1>2, <1>3, <1>4 DEF Next, TagsInv

\* :names on shows a byte by one name only: no two names, of which one is not a
\* constant, show the same byte, whatever is defined in whatever order and also
\* after tags have run out.
THEOREM NamedBytesAreDistinct == Spec => []TagsAreUnique
<1>1. TagsInv => TagsAreUnique
  BY DEF TagsInv
<1>2. QED
  BY <1>1, TagsInit, TagsStep, PTL DEF Spec

-----------------------------------------------------------------------------
NamesInv == TypeOK /\ NamesAgree

\* The name n shows what it stands for, or is a byte whose tags have run out.
Agrees(n) ==
    \/ n \in DOMAIN defns_no_it /\ defns_no_it[n] = defns_with_it[n]
    \/ LET e == defns_with_it[n]
       IN  IsByte(e) /\ ByteTag(e) = 0 /\ byte_counts[ByteValue(e)] = MAX_TAG

LEMMA NamesInit == Init => NamesInv
BY TypeInit DEF Init, NamesInv, NamesAgree

LEMMA NamesStep ==
    ASSUME NamesInv, [Next]_defns
    PROVE  NamesInv'
<1>1. /\ TypeOK /\ TypeOK'
      /\ \A n \in DOMAIN Constants : defns_with_it[n] = Constants[n]
      /\ \A n \in DOMAIN defns_with_it \ {"it"} : Agrees(n)
      /\ DOMAIN Constants \subseteq DOMAIN defns_with_it
      /\ "it" \notin DOMAIN Constants
  BY TypeStep, TypeParts, ConstantsFit DEF NamesInv, NamesAgree, Agrees, Table
<1>2. SUFFICES /\ \A n \in DOMAIN Constants : defns_with_it'[n] = Constants[n]
               /\ \A n \in DOMAIN defns_with_it' \ {"it"} : Agrees(n)'
  BY <1>1 DEF NamesInv, NamesAgree, Agrees
<1>3. ASSUME NEW n \in Names \cup {"it"} \cup DOMAIN Constants, NEW e \in Readable, Def(n, e)
      PROVE  /\ \A m \in DOMAIN Constants : defns_with_it'[m] = Constants[m]
             /\ \A m \in DOMAIN defns_with_it' \ {"it"} : Agrees(m)'
  <2>0. n \notin DOMAIN Constants
    BY <1>1, <1>3, DefCases
  <2>1. CASE DefinesPair(n)
    <3>1. /\ \A d \in {defns_no_it, defns_with_it} :
                  \A m \in DOMAIN d : m # n => Defined(d, n, Pair)[m] = d[m]
          /\ \A d \in {defns_no_it, defns_with_it} :
                  DOMAIN Defined(d, n, Pair) = DOMAIN d \cup {n} /\ Defined(d, n, Pair)[n] = Pair
      BY DEF Defined
    <3>2. QED
      BY <1>1, <2>0, <2>1, <3>1 DEF DefinesPair, Agrees
  <2>2. ASSUME NEW v \in Counted, DefinesTagged(n, v)
        PROVE  /\ \A m \in DOMAIN Constants : defns_with_it'[m] = Constants[m]
               /\ \A m \in DOMAIN defns_with_it' \ {"it"} : Agrees(m)'
    <3>1. /\ DOMAIN defns_no_it' = DOMAIN defns_no_it \cup {n}
          /\ DOMAIN defns_with_it' = DOMAIN defns_with_it \cup {n}
          /\ defns_no_it'[n] = defns_with_it'[n]
          /\ \A m \in DOMAIN defns_no_it : m # n => defns_no_it'[m] = defns_no_it[m]
          /\ \A m \in DOMAIN defns_with_it : m # n => defns_with_it'[m] = defns_with_it[m]
      BY <2>2 DEF DefinesTagged, Defined
    <3>2. ASSUME NEW m \in DOMAIN defns_with_it \ {"it"}, m # n
          PROVE  Agrees(m)'
      <4>1. CASE m \in DOMAIN defns_no_it /\ defns_no_it[m] = defns_with_it[m]
        BY <3>1, <3>2, <4>1 DEF Agrees
      <4>2. CASE /\ IsByte(defns_with_it[m]) /\ ByteTag(defns_with_it[m]) = 0
                 /\ byte_counts[ByteValue(defns_with_it[m])] = MAX_TAG
        <5>1. defns_with_it[m] \in Elements /\ byte_counts[v] \in Nat
          BY <1>1, <2>2, TypeParts, TaggedParts DEF Table, DefinesTagged
        <5>2. ByteValue(defns_with_it[m]) \in Counted /\ ByteValue(defns_with_it[m]) # v
          <6>1. ~(MAX_TAG < MAX_TAG)
            <7>1. MAX_TAG \in 0 .. 255
              BY ConstantsFit
            <7>2. QED
              BY <7>1
          <6>2. QED
            BY <2>2, <4>2, <5>1, <6>1, ElementParts DEF DefinesTagged
        <5>3. byte_counts'[ByteValue(defns_with_it[m])] = MAX_TAG
          BY <1>1, <2>2, <4>2, <5>2, TypeParts DEF DefinesTagged
        <5>4. QED
          BY <3>1, <3>2, <4>2, <5>3 DEF Agrees
      <4>3. QED
        BY <1>1, <4>1, <4>2 DEF Agrees
    <3>3. n # "it" => Agrees(n)'
      BY <3>1 DEF Agrees
    <3>4. QED
      BY <1>1, <2>0, <3>1, <3>2, <3>3
  <2>3. ASSUME NEW v \in Counted, DefinesUntagged(n, v)
        PROVE  /\ \A m \in DOMAIN Constants : defns_with_it'[m] = Constants[m]
               /\ \A m \in DOMAIN defns_with_it' \ {"it"} : Agrees(m)'
    <3>1. /\ defns_no_it' = defns_no_it /\ byte_counts' = byte_counts
          /\ byte_counts[v] = MAX_TAG
          /\ DOMAIN defns_with_it' = DOMAIN defns_with_it \cup {n}
          /\ defns_with_it'[n] = NewByte(v, 0)
          /\ \A m \in DOMAIN defns_with_it : m # n => defns_with_it'[m] = defns_with_it[m]
      BY <2>3 DEF DefinesUntagged, Defined
    <3>2. /\ IsByte(NewByte(v, 0))
          /\ ByteValue(NewByte(v, 0)) = v
          /\ ByteTag(NewByte(v, 0)) = 0
      BY UntaggedParts
    <3>3. Agrees(n)'
      BY <3>1, <3>2 DEF Agrees
    <3>4. \A m \in DOMAIN defns_with_it \ {"it"} : m # n => Agrees(m)'
      BY <1>1, <3>1 DEF Agrees
    <3>5. QED
      BY <1>1, <2>0, <3>1, <3>3, <3>4
  <2>4. QED
    BY <1>1, <1>3, <2>1, <2>2, <2>3, DefCases
<1>4. ASSUME NEW e \in Results, SetIt(e)
      PROVE  /\ \A m \in DOMAIN Constants : defns_with_it'[m] = Constants[m]
             /\ \A m \in DOMAIN defns_with_it' \ {"it"} : Agrees(m)'
  <2>1. /\ DOMAIN defns_with_it' = DOMAIN defns_with_it \cup {"it"}
        /\ \A m \in DOMAIN defns_with_it : m # "it" => defns_with_it'[m] = defns_with_it[m]
        /\ defns_no_it' = defns_no_it /\ byte_counts' = byte_counts
    BY <1>4 DEF SetIt, Defined
  <2>2. QED
    BY <1>1, <2>1 DEF Agrees
<1>5. CASE UNCHANGED defns
  BY <1>1, <1>5 DEF defns, Agrees
<1>6. QED
  BY <1>3, <1>4, <1>5 DEF Next

\* A name stands for what it shows, but for a byte whose tags have run out, and
\* the constants keep their elements, whatever is defined in whatever order.
THEOREM TablesAgree == Spec => []NamesAgree
<1>1. NamesInv => NamesAgree
  BY DEF NamesInv
<1>2. QED
  BY <1>1, NamesInit, NamesStep, PTL DEF Spec
=============================================================================
