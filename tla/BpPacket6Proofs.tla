--------------------------- MODULE BpPacket6Proofs ---------------------------
(***************************************************************************)
(* The setters of a version 6 header keep out of each other's way, for     *)
(* every endpoint id, flag and number and every sequence of calls; and     *)
(* what is made of the header, the packet and the signal on the wire is    *)
(* read back as it was written.                                            *)
(***************************************************************************)
EXTENDS BpPacket6, SequenceTheorems, NumberLemmas, TLAPS

(* Min takes the least element of a set that has one.                      *)
LEMMA MinIsLeast ==
  ASSUME NEW S \in SUBSET Nat, S # {}
  PROVE  Min(S) \in S /\ \A k \in S : Min(S) <= k
<1>1. \E m \in S : \A k \in S : m <= k
  BY LeastElement
<1> QED BY <1>1 DEF Min

(* A URI is its two parts with a colon between them.                       *)
LEMMA PartsOfUri ==
  ASSUME NEW uri \in Text, HasParts(uri)
  PROVE  /\ FromUri(uri).uri = uri
         /\ Scheme(FromUri(uri)) \in Text /\ Ssp(FromUri(uri)) \in Text
         /\ Scheme(FromUri(uri)) # <<>> /\ Ssp(FromUri(uri)) # <<>>
         /\ Scheme(FromUri(uri)) \o <<Colon>> \o Ssp(FromUri(uri)) = uri
<1> DEFINE at == Min(Colons(uri))
           n == Len(uri)
           eid == FromUri(uri)
           first == SubSeq(uri, 1, at - 1)
           second == SubSeq(uri, at + 1, n)
<1>1. n \in Nat /\ \A k \in 1..n : uri[k] \in Character
  BY DEF Text
<1>2. Colons(uri) # {} /\ at \in 2..(MaxComponent + 1) /\ at + 1 <= n
  BY DEF HasParts
<1>3. Colons(uri) \in SUBSET Nat /\ Colons(uri) \subseteq 1..n
  BY DEF Colons, Text
<1>4. at \in Colons(uri) /\ at \in 1..n /\ uri[at] = Colon
  <2>1. at \in Colons(uri)
    BY <1>2, <1>3, MinIsLeast
  <2> QED BY <1>3, <2>1 DEF Colons
<1>5. MaxComponent = 1023
  BY DEF MaxComponent
<1> HIDE DEF at, n
<1>6. /\ first \in Text /\ Len(first) = at - 1
      /\ \A i \in 1..(at - 1) : first[i] = uri[i]
  BY <1>1, <1>2, <1>4, <1>5 DEF Text
<1>7. /\ second \in Text /\ Len(second) = n - at
      /\ \A i \in 1..(n - at) : second[i] = uri[at + i]
  BY <1>1, <1>2, <1>4, <1>5 DEF Text
<1>8. first # <<>> /\ second # <<>>
  <2> HIDE DEF first, second
  <2> QED BY <1>1, <1>2, <1>4, <1>5, <1>6, <1>7
<1>9. eid = Parsed(uri, first, second)
  BY <1>2 DEF FromUri, at, n
<1>10. eid.uri = uri /\ eid.schemeLength = at - 1
  <2>1. Min({Len(first), MaxComponent}) = at - 1
    <3>1. Len(first) \in Nat /\ Len(first) <= MaxComponent /\ Len(first) = at - 1
      BY <1>2, <1>4, <1>5, <1>6, <1>1
    <3> DEFINE S == {Len(first), MaxComponent}
    <3>2. Min(S) \in S /\ \A k \in S : Min(S) <= k
      <4>1. S \in SUBSET Nat /\ S # {}
        <5> HIDE DEF first
        <5> QED BY <1>5, <3>1
      <4> HIDE DEF S
      <4> QED BY <4>1, MinIsLeast
    <3> HIDE DEF first
    <3>3. Min(S) = at - 1 \/ Min(S) = MaxComponent
      BY <3>1, <3>2
    <3>4. Min(S) <= at - 1 /\ Min(S) <= MaxComponent
      BY <3>1, <3>2
    <3>5. at - 1 \in Nat /\ at - 1 <= MaxComponent
      BY <3>1
    <3> HIDE DEF S
    <3> QED BY <1>5, <3>3, <3>4, <3>5 DEF S
  <2> HIDE DEF first, second, eid
  <2> QED BY <1>8, <1>9, <2>1 DEF Parsed
<1>11. Scheme(eid) = first
  <2>1. Min({at - 1, n}) = at - 1
    <3> DEFINE S == {at - 1, n}
    <3>1. S \in SUBSET Nat /\ S # {} /\ at - 1 \in S /\ at - 1 < n
      BY <1>1, <1>2, <1>4
    <3>2. Min(S) \in S /\ \A k \in S : Min(S) <= k
      <4> HIDE DEF S
      <4> QED BY <3>1, MinIsLeast
    <3>3. Min(S) = at - 1 \/ Min(S) = n
      BY <3>2
    <3>4. Min(S) <= at - 1
      BY <3>1, <3>2
    <3> HIDE DEF S
    <3> QED BY <1>1, <1>4, <3>1, <3>3, <3>4 DEF S
  <2> HIDE DEF eid
  <2> QED BY <1>10, <2>1 DEF Scheme, n
<1>12. Ssp(eid) = second
  <2>1. eid.schemeLength + 2 = at + 1
    BY <1>1, <1>4, <1>10
  <2> HIDE DEF eid
  <2> QED BY <1>10, <2>1 DEF Ssp, n
<1>13. first \o <<Colon>> \o second = uri
  <2> HIDE DEF first, second
  <2>1. <<Colon>> \in Text /\ Len(<<Colon>>) = 1 /\ <<Colon>>[1] = Colon
    BY DEF Colon, Character, Text
  <2> DEFINE head == first \o <<Colon>>
             all == head \o second
  <2>2. /\ head \in Text /\ Len(head) = at
        /\ \A i \in 1..at : head[i] = uri[i]
    <3>1. head \in Text /\ Len(head) = at
      BY <1>1, <1>4, <1>6, <2>1 DEF Text
    <3>2. ASSUME NEW i \in 1..at PROVE head[i] = uri[i]
      <4>1. CASE i = at
        BY <1>1, <1>4, <1>6, <2>1, <4>1 DEF Text
      <4>2. CASE i # at
        BY <1>1, <1>4, <1>6, <2>1, <4>2 DEF Text
      <4> QED BY <4>1, <4>2
    <3> QED BY <3>1, <3>2
  <2> HIDE DEF head
  <2>3. all \in Text /\ Len(all) = n
    BY <1>1, <1>4, <1>7, <2>2 DEF Text
  <2>4. ASSUME NEW i \in 1..n PROVE all[i] = uri[i]
    <3>1. CASE i <= at
      BY <1>1, <1>4, <1>7, <2>2, <3>1 DEF Text
    <3>2. CASE i > at
      <4>1. i - at \in 1..(n - at) /\ at + (i - at) = i
        BY <1>1, <1>4, <3>2
      <4>2. all[i] = second[i - at]
        BY <1>1, <1>4, <1>7, <2>2, <3>2 DEF Text
      <4> QED BY <1>7, <4>1, <4>2
    <3>3. i <= at \/ i > at
      BY <1>1, <1>4
    <3> QED BY <3>1, <3>2, <3>3, Zenon
  <2> HIDE DEF all
  <2>5. all = uri
    <3>1. all \in Seq(Character) /\ uri \in Seq(Character) /\ Len(all) = Len(uri)
      BY <2>3 DEF Text, n
    <3>2. \A i \in 1..Len(all) : all[i] = uri[i]
      BY <2>3, <2>4
    <3> QED BY <3>1, <3>2, SeqEqual
  <2> QED BY <2>5 DEF all, head
<1> QED BY <1>6, <1>7, <1>8, <1>10, <1>11, <1>12, <1>13
----------------------------------------------------------------------------
(* A name stands in a dictionary behind offset o, with its zero behind it. *)
IsNameAt(d, o, name) ==
  /\ o \in Nat /\ o + Len(name) + 1 <= Len(d)
  /\ \A k \in 1..Len(name) : d[o + k] = name[k]
  /\ d[o + Len(name) + 1] = 0

Dictionaries == Seq(Byte)

(* A name is made of bytes, and none of them is zero.                      *)
LEMMA TextType == Text \subseteq Dictionaries /\ \A t \in Text : \A k \in 1..Len(t) : t[k] # 0
<1>1. Character \subseteq Byte /\ 0 \notin Character
  BY DEF Character, Byte
<1>2. Text \subseteq Dictionaries
  BY <1>1, SeqMonotonic DEF Text, Dictionaries
<1>3. \A t \in Text : \A k \in 1..Len(t) : t[k] \in Character
  BY DEF Text
<1> QED BY <1>1, <1>2, <1>3

(* NameAt reads the name that stands there: the first zero ends it.        *)
LEMMA NameIsRead ==
  ASSUME NEW d \in Dictionaries, NEW o, NEW name \in Text, IsNameAt(d, o, name)
  PROVE  NameAt(d, o) = name
<1> DEFINE len == Len(name)
           zeros == {k \in (o + 1)..Len(d) : d[k] = 0}
           got == SubSeq(d, o + 1, o + len)
<1>1. len \in Nat /\ o \in Nat /\ Len(d) \in Nat /\ o + len + 1 <= Len(d)
  BY DEF IsNameAt, Text, Dictionaries
<1>2. /\ \A k \in 1..len : d[o + k] = name[k] /\ name[k] # 0 /\ name[k] \in Character
      /\ d[o + len + 1] = 0
  BY TextType DEF IsNameAt, Text
<1> HIDE DEF len
<1>3. zeros \in SUBSET Nat /\ o + len + 1 \in zeros
  BY <1>1, <1>2
<1>4. Min(zeros) \in zeros /\ \A k \in zeros : Min(zeros) <= k
  <2> HIDE DEF zeros
  <2> QED BY <1>3, MinIsLeast
<1>5. Min(zeros) = o + len + 1
  <2> DEFINE m == Min(zeros)
  <2>1. m \in (o + 1)..Len(d) /\ d[m] = 0 /\ m <= o + len + 1
    BY <1>3, <1>4
  <2> HIDE DEF m
  <2>2. ASSUME m # o + len + 1 PROVE FALSE
    <3>1. m - o \in 1..len /\ o + (m - o) = m
      BY <1>1, <2>1, <2>2
    <3>2. d[o + (m - o)] # 0
      BY <1>2, <3>1
    <3> QED BY <2>1, <3>1, <3>2
  <2> QED BY <2>2 DEF m
<1>6. NameAt(d, o) = got
  <2>1. Min(zeros) - 1 = o + len
    BY <1>1, <1>5
  <2> QED BY <2>1, Zenon DEF NameAt
<1>7. got \in Text /\ Len(got) = len /\ \A k \in 1..len : got[k] = name[k]
  <2>1. \A i \in (o + 1)..(o + len) : d[i] \in Character
    <3> SUFFICES ASSUME NEW i \in (o + 1)..(o + len) PROVE d[i] \in Character
      OBVIOUS
    <3>1. i - o \in 1..len /\ o + (i - o) = i
      BY <1>1
    <3>2. d[o + (i - o)] \in Character
      BY <1>2, <3>1
    <3> QED BY <3>1, <3>2
  <2>2. o + 1 \in Int /\ o + len \in Int /\ (o + len) - (o + 1) + 1 = len
    BY <1>1
  <2>3. /\ got \in Seq(Character)
        /\ Len(got) = IF o + 1 <= o + len THEN (o + len) - (o + 1) + 1 ELSE 0
        /\ \A i \in 1..((o + len) - (o + 1) + 1) : got[i] = d[o + 1 + i - 1]
    <3> HIDE DEF got
    <3> QED BY <2>1, <2>2, SubSeqProperties DEF got
  <2>4. \A i \in 1..len : o + 1 + i - 1 = o + i
    BY <1>1
  <2> HIDE DEF got
  <2>5. Len(got) = len
    BY <1>1, <2>3
  <2> QED BY <1>2, <2>2, <2>3, <2>4, <2>5 DEF Text
<1> QED
  <2> HIDE DEF got, zeros
  <2>1. got \in Seq(Character) /\ name \in Seq(Character) /\ Len(got) = Len(name)
    BY <1>7 DEF Text, len
  <2>2. \A k \in 1..Len(got) : got[k] = name[k]
    BY <1>7
  <2> QED BY <1>6, <2>1, <2>2, SeqEqual

(* What is appended leaves the names before it where they are.             *)
LEMMA NameStays ==
  ASSUME NEW d \in Dictionaries, NEW e \in Dictionaries, NEW o, NEW name \in Text,
         IsNameAt(d, o, name)
  PROVE  IsNameAt(d \o e, o, name)
<1>1. Len(name) \in Nat /\ o \in Nat /\ o + Len(name) + 1 <= Len(d)
  BY DEF IsNameAt, Text
<1>2. /\ Len(d) \in Nat /\ Len(e) \in Nat /\ Len(d \o e) = Len(d) + Len(e)
      /\ \A i \in 1..Len(d) : (d \o e)[i] = d[i]
  BY DEF Dictionaries
<1>3. \A k \in 1..Len(name) : (d \o e)[o + k] = name[k]
  <2> SUFFICES ASSUME NEW k \in 1..Len(name) PROVE (d \o e)[o + k] = name[k]
    OBVIOUS
  <2>1. o + k \in 1..Len(d) /\ d[o + k] = name[k]
    BY <1>1, <1>2 DEF IsNameAt
  <2> QED BY <1>2, <2>1
<1>4. (d \o e)[o + Len(name) + 1] = 0
  <2>1. o + Len(name) + 1 \in 1..Len(d) /\ d[o + Len(name) + 1] = 0
    BY <1>1, <1>2 DEF IsNameAt
  <2> QED BY <1>2, <2>1
<1> QED BY <1>1, <1>2, <1>3, <1>4 DEF IsNameAt

(* A name that is appended with a zero stands behind the old end.          *)
LEMMA NameIsAppended ==
  ASSUME NEW d \in Dictionaries, NEW name \in Text
  PROVE  /\ d \o name \o <<0>> \in Dictionaries
         /\ Len(d \o name \o <<0>>) = Len(d) + Len(name) + 1
         /\ IsNameAt(d \o name \o <<0>>, Len(d), name)
<1> DEFINE both == d \o name
           zero == <<0>>
           all == both \o zero
<1>1. name \in Dictionaries /\ zero \in Dictionaries /\ Len(zero) = 1 /\ zero[1] = 0
  BY TextType DEF Dictionaries, Byte
<1>2. /\ both \in Dictionaries /\ Len(both) = Len(d) + Len(name)
      /\ \A i \in 1..Len(d) + Len(name) :
           both[i] = IF i <= Len(d) THEN d[i] ELSE name[i - Len(d)]
  BY <1>1, ConcatProperties DEF Dictionaries
<1> HIDE DEF both, zero
<1>3. /\ all \in Dictionaries /\ Len(all) = Len(both) + 1
      /\ \A i \in 1..Len(both) + 1 :
           all[i] = IF i <= Len(both) THEN both[i] ELSE zero[i - Len(both)]
  <2>0. both \in Seq(Byte) /\ zero \in Seq(Byte)
    BY <1>1, <1>2 DEF Dictionaries
  <2>1. /\ all \in Seq(Byte) /\ Len(all) = Len(both) + Len(zero)
        /\ \A i \in 1..Len(both) + Len(zero) :
             all[i] = IF i <= Len(both) THEN both[i] ELSE zero[i - Len(both)]
    BY <2>0, ConcatProperties
  <2> HIDE DEF all
  <2> QED BY <1>1, <2>1 DEF Dictionaries
<1> HIDE DEF all
<1>4. Len(d) \in Nat /\ Len(name) \in Nat
  BY <1>1 DEF Dictionaries
<1>5. \A k \in 1..Len(name) : all[Len(d) + k] = name[k]
  <2> SUFFICES ASSUME NEW k \in 1..Len(name) PROVE all[Len(d) + k] = name[k]
    OBVIOUS
  <2>1. /\ Len(d) + k \in 1..Len(d) + Len(name) /\ ~(Len(d) + k <= Len(d))
        /\ Len(d) + k - Len(d) = k
    BY <1>4
  <2>2. both[Len(d) + k] = name[k]
    BY <1>2, <2>1
  <2>3. Len(d) + k \in 1..Len(both) + 1 /\ Len(d) + k <= Len(both)
    BY <1>2, <1>4, <2>1
  <2> QED BY <1>3, <2>2, <2>3
<1>6. all[Len(d) + Len(name) + 1] = 0
  <2>1. /\ Len(both) + 1 \in 1..Len(both) + 1 /\ ~(Len(both) + 1 <= Len(both))
        /\ Len(both) + 1 - Len(both) = 1 /\ Len(both) + 1 = Len(d) + Len(name) + 1
    BY <1>2, <1>4
  <2> QED BY <1>1, <1>3, <2>1
<1>7. Len(all) = Len(d) + Len(name) + 1
  BY <1>2, <1>3
<1> QED BY <1>3, <1>4, <1>5, <1>6, <1>7 DEF IsNameAt, all, both, zero
----------------------------------------------------------------------------
Known == {FromUri(uri) : uri \in Uris \cup {DtnNone}}

HeaderType ==
  [flags : SUBSET Bits, offset : [Roles -> Nat \X Nat], number : [Numbers -> Nat],
   lifetime : Nat, dictionary : Dictionaries]

(* The header holds an endpoint id for a role.                             *)
Shows(h, r, eid) ==
  /\ IsNameAt(h.dictionary, h.offset[r][1], Scheme(eid))
  /\ IsNameAt(h.dictionary, h.offset[r][2], Ssp(eid))

(* The default endpoint id has two parts as well.                          *)
LEMMA DefaultHasParts == DtnNone \in Text /\ HasParts(DtnNone)
<1>1. DtnNone \in Text
  BY DEF DtnNone, Text, Character
<1>2. Len(DtnNone) = 8 /\ Colons(DtnNone) = {4}
  <2>1. Len(DtnNone) = 8 /\ DOMAIN DtnNone = 1..8
    BY DEF DtnNone
  <2>2. /\ DtnNone[1] = 100 /\ DtnNone[2] = 116 /\ DtnNone[3] = 110 /\ DtnNone[4] = 58
        /\ DtnNone[5] = 110 /\ DtnNone[6] = 111 /\ DtnNone[7] = 110 /\ DtnNone[8] = 101
    BY DEF DtnNone
  <2> QED BY <2>1, <2>2 DEF Colons, Colon
<1>3. Min({4}) = 4
  <2>1. {4} \in SUBSET Nat /\ {4} # {}
    OBVIOUS
  <2> QED BY <2>1, MinIsLeast
<1> QED BY <1>1, <1>2, <1>3 DEF HasParts, MaxComponent

(* What is known of an endpoint id that a caller may set.                  *)
LEMMA KnownParts ==
  ASSUME Proper, NEW eid \in Known
  PROVE  /\ Scheme(eid) \in Text /\ Ssp(eid) \in Text
         /\ Scheme(eid) \o <<Colon>> \o Ssp(eid) = eid.uri
<1>1. PICK uri \in Uris \cup {DtnNone} : eid = FromUri(uri)
  BY DEF Known
<1>2. uri \in Text /\ HasParts(uri)
  BY DefaultHasParts, HeaderAssumption DEF Proper
<1> QED BY <1>1, <1>2, PartsOfUri

(* A getter answers with the endpoint id that the header holds.            *)
LEMMA ShownIsRead ==
  ASSUME Proper, NEW h \in HeaderType, NEW r \in Roles, NEW eid \in Known, Shows(h, r, eid)
  PROVE  Same(GetEid(h, r), eid)
<1>1. h.dictionary \in Dictionaries
  BY DEF HeaderType
<1>2. /\ NameAt(h.dictionary, h.offset[r][1]) = Scheme(eid)
      /\ NameAt(h.dictionary, h.offset[r][2]) = Ssp(eid)
  BY <1>1, KnownParts, NameIsRead DEF Shows
<1>3. GetEid(h, r).uri = Scheme(eid) \o <<Colon>> \o Ssp(eid)
  BY <1>2, Zenon DEF GetEid, FromComponents, Parsed
<1> QED BY <1>3, KnownParts DEF Same

(* A setter of an endpoint id leaves what the header holds for the others. *)
LEMMA SetEidEffect ==
  ASSUME Proper, NEW h \in HeaderType, NEW role \in Roles, NEW eid \in Known
  PROVE  /\ SetEid(h, role, eid) \in HeaderType
         /\ SetEid(h, role, eid).flags = h.flags
         /\ Shows(SetEid(h, role, eid), role, eid)
         /\ \A r \in Roles \ {role} : \A e \in Known :
              Shows(h, r, e) => Shows(SetEid(h, role, eid), r, e)
<1> DEFINE s == Scheme(eid)
           p == Ssp(eid)
           d == h.dictionary
           d1 == d \o s \o <<0>>
           d2 == d1 \o p \o <<0>>
           o == <<Len(d), Len(d) + Len(s) + 1>>
           new == SetEid(h, role, eid)
<1>1. s \in Text /\ p \in Text
  BY KnownParts
<1>2. d \in Dictionaries /\ h.offset \in [Roles -> Nat \X Nat] /\ Len(d) \in Nat
  BY DEF HeaderType, Dictionaries
<1>3. new = [h EXCEPT !.offset[role] = o, !.dictionary = d2]
  BY Zenon DEF SetEid
<1> HIDE DEF s, p, d
<1>4. d1 \in Dictionaries /\ Len(d1) = Len(d) + Len(s) + 1 /\ IsNameAt(d1, Len(d), s)
  BY <1>1, <1>2, NameIsAppended
<1> HIDE DEF d1
<1>5. d2 \in Dictionaries /\ IsNameAt(d2, Len(d1), p)
  BY <1>1, <1>4, NameIsAppended
<1> DEFINE zero == <<0>>
<1>6. zero \in Dictionaries /\ p \in Dictionaries /\ s \in Dictionaries
  BY <1>1, TextType DEF Dictionaries, Byte
<1>7. ASSUME NEW n, NEW name \in Text, IsNameAt(d1, n, name)
      PROVE  IsNameAt(d2, n, name)
  <2> HIDE DEF zero
  <2>1. d1 \o p \in Dictionaries
    BY <1>4, <1>6 DEF Dictionaries
  <2>2. IsNameAt(d1 \o p, n, name)
    BY <1>4, <1>6, <1>7, NameStays
  <2>3. IsNameAt(d1 \o p \o zero, n, name)
    BY <1>6, <2>1, <2>2, NameStays
  <2> QED BY <2>3 DEF zero
<1>8. ASSUME NEW n, NEW name \in Text, IsNameAt(d, n, name)
      PROVE  IsNameAt(d2, n, name)
  <2> HIDE DEF zero, d2
  <2>1. d \o s \in Dictionaries
    BY <1>2, <1>6 DEF Dictionaries
  <2>2. IsNameAt(d \o s, n, name)
    BY <1>2, <1>6, <1>8, NameStays
  <2>3. IsNameAt(d \o s \o zero, n, name)
    BY <1>6, <2>1, <2>2, NameStays
  <2>4. IsNameAt(d1, n, name)
    BY <2>3 DEF d1, zero
  <2> QED BY <1>7, <2>4
<1> HIDE DEF d2, zero
<1>9. o \in Nat \X Nat /\ o[1] = Len(d) /\ o[2] = Len(d1)
  <2>1. Len(s) \in Nat
    BY <1>1 DEF Text
  <2> QED BY <1>2, <1>4, <2>1
<1> HIDE DEF o, new
<1>10. /\ new \in HeaderType /\ new.flags = h.flags /\ new.dictionary = d2
       /\ new.offset[role] = o
       /\ \A r \in Roles \ {role} : new.offset[r] = h.offset[r]
  BY <1>2, <1>3, <1>5, <1>9 DEF HeaderType
<1>11. Shows(new, role, eid)
  <2>1. IsNameAt(d2, o[1], s) /\ IsNameAt(d2, o[2], p)
    BY <1>1, <1>4, <1>5, <1>7, <1>9
  <2> QED BY <1>10, <2>1 DEF Shows, s, p
<1>12. ASSUME NEW r \in Roles \ {role}, NEW e \in Known, Shows(h, r, e)
       PROVE  Shows(new, r, e)
  <2>1. Scheme(e) \in Text /\ Ssp(e) \in Text
    BY KnownParts
  <2>2. IsNameAt(d, h.offset[r][1], Scheme(e)) /\ IsNameAt(d, h.offset[r][2], Ssp(e))
    BY <1>12 DEF Shows, d
  <2>3. IsNameAt(d2, h.offset[r][1], Scheme(e)) /\ IsNameAt(d2, h.offset[r][2], Ssp(e))
    BY <1>8, <2>1, <2>2
  <2> QED BY <1>10, <2>3 DEF Shows
<1> QED BY <1>10, <1>11, <1>12 DEF new
----------------------------------------------------------------------------
AskedType == [flag : [Flags -> BOOLEAN], eid : [Roles -> Known], priorities : SUBSET Priorities]

(* The bits between the flags hold what any priority has set.              *)
BitsAsked(priorities) == UNION {SetPriority({}, pri) : pri \in priorities}
PriorityHeld == header.flags \cap (PriorityBits \ Flags) = BitsAsked(asked.priorities)

SetterInv ==
  /\ header \in HeaderType
  /\ asked \in AskedType
  /\ FlagsAreAsSet
  /\ PriorityHeld
  /\ \A r \in Roles : Shows(header, r, asked.eid[r])

(* A priority sets bits of the mask, between the flags.                    *)
LEMMA PriorityBitsSet ==
  ASSUME Proper
  PROVE  /\ BUNDLE_PRIORITY \subseteq PriorityBits /\ PriorityBits \subseteq Bits
         /\ Flags \subseteq Bits /\ Flags \cap PriorityBits \subseteq {14}
         /\ \A pri \in Priorities : SetPriority({}, pri) \subseteq PriorityBits \ Flags
         /\ \A flags, pri : SetPriority(flags, pri) = flags \cup SetPriority({}, pri)
<1>1. BUNDLE_PRIORITY \subseteq PriorityBits
  BY DEF BUNDLE_PRIORITY, BitsOf, PriorityBits
<1>2. PriorityBits \subseteq Bits /\ 14 \in Bits
  BY DEF PriorityBits, Bits
<1>3. Flags \subseteq Bits /\ Flags \cap PriorityBits \subseteq {14}
  BY <1>2, HeaderAssumption
<1>4. \A flags, pri : SetPriority(flags, pri) = flags \cup SetPriority({}, pri)
  BY DEF SetPriority
<1> QED BY <1>1, <1>2, <1>3, <1>4 DEF Proper

(* Flags agree with what was asked as truth values, if equivalently.       *)
LEMMA FlagsEquivalent ==
  ASSUME NEW flags, NEW flag \in [Flags -> BOOLEAN]
  PROVE  (\A b \in Flags : (b \in flags) = flag[b]) <=> \A b \in Flags : b \in flags <=> flag[b]
<1>1. \A b \in Flags : flag[b] \in BOOLEAN
  OBVIOUS
<1>2. ASSUME NEW b \in Flags
      PROVE  ((b \in flags) = flag[b]) <=> (b \in flags <=> flag[b])
  <2>1. CASE flag[b] = TRUE
    BY <2>1
  <2>2. CASE flag[b] = FALSE
    BY <2>2
  <2> QED BY <1>1, <2>1, <2>2
<1> QED BY <1>2, Zenon

(* The header that the constructor makes has the invariant.                *)
LEMMA SetterInit == ASSUME Proper PROVE Init => SetterInv
<1> SUFFICES ASSUME Init PROVE SetterInv
  OBVIOUS
<1> DEFINE h1 == SetEid(NewHeader, "src", defaultEid)
           h2 == SetEid(h1, "dst", defaultEid)
           h3 == SetEid(h2, "report", defaultEid)
           h4 == SetEid(h3, "cust", defaultEid)
<1>1. defaultEid \in Known
  BY DEF Known, defaultEid
<1>2. NewHeader \in HeaderType /\ NewHeader.flags = {}
  BY DEF NewHeader, HeaderType, Dictionaries
<1>3. Roles = {"dst", "src", "report", "cust"}
  BY DEF Roles
<1>4. h1 \in HeaderType /\ h1.flags = {} /\ Shows(h1, "src", defaultEid)
  <2> HIDE DEF h1
  <2> QED BY <1>1, <1>2, <1>3, SetEidEffect DEF h1
<1> HIDE DEF h1
<1>5. /\ h2 \in HeaderType /\ h2.flags = {} /\ Shows(h2, "dst", defaultEid)
      /\ Shows(h2, "src", defaultEid)
  BY <1>1, <1>3, <1>4, SetEidEffect
<1> HIDE DEF h2
<1>6. /\ h3 \in HeaderType /\ h3.flags = {} /\ Shows(h3, "report", defaultEid)
      /\ Shows(h3, "src", defaultEid) /\ Shows(h3, "dst", defaultEid)
  BY <1>1, <1>3, <1>5, SetEidEffect
<1> HIDE DEF h3
<1>7. /\ h4 \in HeaderType /\ h4.flags = {} /\ Shows(h4, "cust", defaultEid)
      /\ Shows(h4, "src", defaultEid) /\ Shows(h4, "dst", defaultEid)
      /\ Shows(h4, "report", defaultEid)
  BY <1>1, <1>3, <1>6, SetEidEffect
<1>8. header = h4
  BY DEF Init, h1, h2, h3
<1> HIDE DEF h4
<1>9. asked = [flag |-> [b \in Flags |-> FALSE], eid |-> [r \in Roles |-> defaultEid],
               priorities |-> {}]
  BY DEF Init
<1>10. asked \in AskedType
  BY <1>1, <1>9 DEF AskedType
<1>11. FlagsAreAsSet
  <2>1. asked.flag \in [Flags -> BOOLEAN] /\ \A f \in Flags : asked.flag[f] = FALSE
    BY <1>9
  <2>2. \A f \in Flags : f \in header.flags <=> asked.flag[f]
    BY <1>7, <1>8, <2>1
  <2> QED BY <2>1, <2>2, FlagsEquivalent DEF FlagsAreAsSet
<1>12. PriorityHeld
  BY <1>7, <1>8, <1>9 DEF PriorityHeld, BitsAsked
<1>13. \A r \in Roles : Shows(header, r, asked.eid[r])
  BY <1>3, <1>7, <1>8, <1>9
<1> QED BY <1>7, <1>8, <1>10, <1>11, <1>12, <1>13 DEF SetterInv

(* What a further priority adds to the bits of those before it.            *)
LEMMA BitsAskedGrow ==
  ASSUME NEW priorities, NEW pri
  PROVE  BitsAsked(priorities \cup {pri}) = BitsAsked(priorities) \cup SetPriority({}, pri)
<1> DEFINE old == BitsAsked(priorities)
           all == BitsAsked(priorities \cup {pri})
           new == SetPriority({}, pri)
<1>1. \A x : x \in all <=> \E q \in priorities \cup {pri} : x \in SetPriority({}, q)
  BY Zenon DEF BitsAsked
<1>2. \A x : x \in old <=> \E q \in priorities : x \in SetPriority({}, q)
  BY Zenon DEF BitsAsked
<1> HIDE DEF old, all
<1>3. \A x : x \in all <=> x \in old \/ x \in new
  BY <1>1, <1>2, Zenon
<1> HIDE DEF new
<1>4. all = old \cup new
  BY <1>3
<1> QED BY <1>4, Zenon DEF all, old, new

(* Each setter preserves the invariant.                                    *)
LEMMA SetterNext == ASSUME Proper PROVE SetterInv /\ [Next]_vars => SetterInv'
<1> SUFFICES ASSUME SetterInv, [Next]_vars
             PROVE  SetterInv'
  OBVIOUS
<1>1. CASE UNCHANGED vars
  BY <1>1 DEF vars, SetterInv, FlagsAreAsSet, PriorityHeld, Shows, IsNameAt
<1>2. ASSUME NEW b \in Flags, NEW value \in BOOLEAN, AskFlag(b, value)
      PROVE  SetterInv'
  <2> DEFINE flags == SetFlag(header.flags, b, value)
  <2>1. /\ header' = [header EXCEPT !.flags = flags]
        /\ asked' = [asked EXCEPT !.flag[b] = value]
    BY <1>2 DEF AskFlag
  <2>2. flags \in SUBSET Bits /\ \A x : x # b => (x \in flags <=> x \in header.flags)
    BY PriorityBitsSet DEF SetterInv, HeaderType, SetFlag
  <2>3. b \in flags <=> value
    BY DEF SetFlag
  <2> HIDE DEF flags
  <2>4. /\ header' \in HeaderType /\ header'.flags = flags
        /\ header'.dictionary = header.dictionary /\ header'.offset = header.offset
    BY <2>1, <2>2 DEF SetterInv, HeaderType
  <2>5. /\ asked' \in AskedType /\ asked'.flag = [asked.flag EXCEPT ![b] = value]
        /\ asked'.eid = asked.eid /\ asked'.priorities = asked.priorities
    BY <2>1 DEF SetterInv, AskedType
  <2>6. ASSUME NEW f \in Flags PROVE f \in header'.flags <=> asked'.flag[f]
    <3>1. asked.flag \in [Flags -> BOOLEAN]
      BY DEF SetterInv, AskedType
    <3>2. f \in header.flags <=> asked.flag[f]
      BY <3>1, FlagsEquivalent DEF SetterInv, FlagsAreAsSet
    <3>3. CASE f = b
      <4>1. asked'.flag[f] = value
        BY <2>5, <3>1, <3>3
      <4> QED BY <2>3, <2>4, <3>3, <4>1
    <3>4. CASE f # b
      <4>1. asked'.flag[f] = asked.flag[f]
        BY <2>5, <3>1, <3>4
      <4> QED BY <2>2, <2>4, <3>2, <3>4, <4>1
    <3> QED BY <3>3, <3>4
  <2>7. FlagsAreAsSet'
    <3>1. asked'.flag \in [Flags -> BOOLEAN]
      BY <2>5 DEF AskedType
    <3> QED BY <2>6, <3>1, FlagsEquivalent DEF FlagsAreAsSet
  <2>8. PriorityHeld'
    <3>1. header'.flags \cap (PriorityBits \ Flags) = header.flags \cap (PriorityBits \ Flags)
      BY <2>2, <2>4
    <3> QED BY <2>5, <3>1 DEF SetterInv, PriorityHeld
  <2>9. \A r \in Roles : Shows(header, r, asked.eid[r])'
    BY <2>4, <2>5 DEF SetterInv, Shows, IsNameAt
  <2> QED BY <2>4, <2>5, <2>7, <2>8, <2>9 DEF SetterInv
<1>3. ASSUME NEW pri \in Priorities, AskPriority(pri)
      PROVE  SetterInv'
  <2> DEFINE flags == SetPriority(header.flags, pri)
             bits == SetPriority({}, pri)
  <2>1. /\ header' = [header EXCEPT !.flags = flags]
        /\ asked' = [asked EXCEPT !.priorities = @ \cup {pri}]
    BY <1>3 DEF AskPriority
  <2>2. flags = header.flags \cup bits /\ bits \subseteq PriorityBits \ Flags
    BY PriorityBitsSet
  <2> HIDE DEF flags
  <2>3. /\ header' \in HeaderType /\ header'.flags = header.flags \cup bits
        /\ header'.dictionary = header.dictionary /\ header'.offset = header.offset
    BY <2>1, <2>2, PriorityBitsSet DEF SetterInv, HeaderType
  <2>4. /\ asked' \in AskedType /\ asked'.flag = asked.flag
        /\ asked'.eid = asked.eid /\ asked'.priorities = asked.priorities \cup {pri}
    BY <2>1 DEF SetterInv, AskedType
  <2>5. FlagsAreAsSet'
    <3>1. \A f \in Flags : f \in header'.flags <=> f \in header.flags
      BY <2>2, <2>3
    <3>2. \A f \in Flags : (f \in header'.flags) = (f \in header.flags)
      BY <3>1
    <3> QED BY <2>4, <3>2 DEF SetterInv, FlagsAreAsSet
  <2>6. PriorityHeld'
    <3>1. header'.flags \cap (PriorityBits \ Flags) =
            (header.flags \cap (PriorityBits \ Flags)) \cup bits
      BY <2>2, <2>3
    <3>2. BitsAsked(asked.priorities \cup {pri}) = BitsAsked(asked.priorities) \cup bits
      BY BitsAskedGrow
    <3> HIDE DEF bits
    <3> QED BY <2>4, <3>1, <3>2 DEF SetterInv, PriorityHeld
  <2>7. \A r \in Roles : Shows(header, r, asked.eid[r])'
    BY <2>3, <2>4 DEF SetterInv, Shows, IsNameAt
  <2> QED BY <2>3, <2>4, <2>5, <2>6, <2>7 DEF SetterInv
<1>4. ASSUME NEW role \in Roles, NEW uri \in Uris, AskEid(role, FromUri(uri))
      PROVE  SetterInv'
  <2> DEFINE eid == FromUri(uri)
             new == SetEid(header, role, eid)
  <2>1. eid \in Known
    BY DEF Known
  <2>2. header' = new /\ asked' = [asked EXCEPT !.eid[role] = eid]
    BY <1>4 DEF AskEid
  <2>3. header \in HeaderType
    BY DEF SetterInv
  <2> HIDE DEF eid
  <2>4. /\ new \in HeaderType /\ new.flags = header.flags /\ Shows(new, role, eid)
        /\ \A r \in Roles \ {role} : \A e \in Known : Shows(header, r, e) => Shows(new, r, e)
    <3> HIDE DEF new
    <3> QED BY <2>1, <2>3, SetEidEffect DEF new
  <2> HIDE DEF new
  <2>5. /\ asked' \in AskedType /\ asked'.flag = asked.flag
        /\ asked'.eid = [asked.eid EXCEPT ![role] = eid] /\ asked'.priorities = asked.priorities
        /\ asked.eid \in [Roles -> Known]
    BY <2>1, <2>2 DEF SetterInv, AskedType
  <2>6. FlagsAreAsSet'
    BY <2>2, <2>4, <2>5 DEF SetterInv, FlagsAreAsSet
  <2>7. PriorityHeld'
    BY <2>2, <2>4, <2>5 DEF SetterInv, PriorityHeld
  <2>8. ASSUME NEW r \in Roles PROVE Shows(new, r, asked'.eid[r])
    <3>1. CASE r = role
      BY <2>4, <2>5, <3>1
    <3>2. CASE r # role
      <4>1. asked'.eid[r] = asked.eid[r] /\ asked.eid[r] \in Known
        BY <2>5, <3>2
      <4>2. Shows(header, r, asked.eid[r])
        BY DEF SetterInv
      <4> QED BY <2>4, <3>2, <4>1, <4>2
    <3> QED BY <3>1, <3>2
  <2>9. \A r \in Roles : Shows(header', r, asked'.eid[r])
    BY <2>2, <2>8
  <2> QED BY <2>2, <2>4, <2>5, <2>6, <2>7, <2>9 DEF SetterInv
<1>5. ASSUME NEW n \in Numbers, NEW value \in Values, SetNumber(n, value)
      PROVE  SetterInv'
  <2>0. value \in Nat
    BY HeaderAssumption
  <2>1. header' = [header EXCEPT !.number[n] = value] /\ asked' = asked
    BY <1>5 DEF SetNumber
  <2>2. /\ header' \in HeaderType /\ header'.flags = header.flags
        /\ header'.dictionary = header.dictionary /\ header'.offset = header.offset
    BY <2>0, <2>1 DEF SetterInv, HeaderType
  <2> QED BY <2>1, <2>2 DEF SetterInv, FlagsAreAsSet, PriorityHeld, Shows, IsNameAt
<1>6. ASSUME NEW lifetime \in Lifetimes, SetLifeTime(lifetime)
      PROVE  SetterInv'
  <2>1. header' = [header EXCEPT !.lifetime = lifetime] /\ asked' = asked /\ lifetime \in Nat
    BY <1>6, HeaderAssumption DEF SetLifeTime
  <2>2. /\ header' \in HeaderType /\ header'.flags = header.flags
        /\ header'.dictionary = header.dictionary /\ header'.offset = header.offset
    BY <2>1 DEF SetterInv, HeaderType
  <2> QED BY <2>1, <2>2 DEF SetterInv, FlagsAreAsSet, PriorityHeld, Shows, IsNameAt
<1> QED BY <1>1, <1>2, <1>3, <1>4, <1>5, <1>6 DEF Next

(* Every packet belongs to a run of the header.                            *)
LEMMA PacketHasHeader == PacketSpec => Spec
<1>1. PacketInit => Init
  BY DEF PacketInit
<1>2. [PacketNext]_<<header, asked, blockFlags>> => [Next]_vars
  BY DEF PacketNext, SetBlockFlag, vars
<1> QED BY <1>1, <1>2, PTL DEF PacketSpec, Spec

(* The inductive invariant of the setters.                                 *)
THEOREM SetterInvariant ==
  ASSUME Proper PROVE PacketSpec => []SetterInv
<1>1. Init => SetterInv
  BY SetterInit
<1>2. SetterInv /\ [Next]_vars => SetterInv'
  BY SetterNext
<1> QED BY <1>1, <1>2, PacketHasHeader, PTL DEF Spec

(* No setter of a flag, of the priority or of anything else changes a flag *)
(* that it was not asked for (BpHeader::SetIsFragment and the like).       *)
THEOREM FlagsAsSet ==
  ASSUME Proper PROVE PacketSpec => []FlagsAreAsSet
<1>1. SetterInv => FlagsAreAsSet
  BY DEF SetterInv
<1> QED BY <1>1, SetterInvariant, PTL

(* The getters of the four endpoint ids answer what was last set, whatever *)
(* the dictionary holds of earlier and of other ones.                      *)
THEOREM EidsAsSet ==
  ASSUME Proper PROVE PacketSpec => []EidsAreAsSet
<1>1. SetterInv => EidsAreAsSet
  <2> SUFFICES ASSUME SetterInv, NEW r \in Roles
               PROVE  Same(GetEid(header, r), asked.eid[r])
    BY DEF EidsAreAsSet
  <2>1. asked.eid[r] \in Known /\ header \in HeaderType /\ Shows(header, r, asked.eid[r])
    BY DEF SetterInv, AskedType
  <2> QED BY <2>1, ShownIsRead
<1> QED BY <1>1, SetterInvariant, PTL

(* A priority that is the only one set, with no report of reception asked  *)
(* for, is read back, whatever flags lie around its bits (SetPriority).    *)
THEOREM PriorityAsSet ==
  ASSUME Proper PROVE PacketSpec => []PriorityIsAsSet
<1>1. SetterInv => PriorityIsAsSet
  <2> SUFFICES ASSUME SetterInv, NEW pri \in Priorities, asked.priorities = {pri},
                      14 \notin header.flags
               PROVE  Priority(header.flags) = pri
    BY DEF PriorityIsAsSet
  <2> DEFINE bits == SetPriority({}, pri)
             read == {b - 7 : b \in header.flags \cap BUNDLE_PRIORITY}
  <2>1. header.flags \cap (PriorityBits \ Flags) = bits
    BY DEF SetterInv, PriorityHeld, BitsAsked
  <2>2. bits \subseteq BUNDLE_PRIORITY
    BY DEF Proper
  <2>3. header.flags \cap BUNDLE_PRIORITY = bits
    <3> HIDE DEF bits
    <3> QED BY <2>1, <2>2, PriorityBitsSet
  <2>4. bits = {b + 7 : b \in BitsOf(pri, 0..7)}
    BY DEF SetPriority
  <2>5. read = BitsOf(pri, 0..7)
    <3>1. BitsOf(pri, 0..7) \subseteq Int
      BY DEF BitsOf
    <3> HIDE DEF bits
    <3>2. read = {b - 7 : b \in {c + 7 : c \in BitsOf(pri, 0..7)}}
      BY <2>3, <2>4
    <3>3. \A x : x \in {b - 7 : b \in {c + 7 : c \in BitsOf(pri, 0..7)}}
                   <=> x \in BitsOf(pri, 0..7)
      <4> DEFINE S == BitsOf(pri, 0..7)
      <4> HIDE DEF S
      <4>1. S \subseteq Int
        BY <3>1 DEF S
      <4>2. ASSUME NEW c \in S PROVE c = (c + 7) - 7 /\ c + 7 \in {c2 + 7 : c2 \in S}
        BY <4>1
      <4>3. ASSUME NEW x, x \in {b - 7 : b \in {c + 7 : c \in S}} PROVE x \in S
        <5>1. PICK c \in S : x = (c + 7) - 7
          BY <4>3
        <5> QED BY <4>2, <5>1
      <4>4. ASSUME NEW x \in S PROVE x \in {b - 7 : b \in {c + 7 : c \in S}}
        BY <4>2
      <4> QED BY <4>3, <4>4, Zenon DEF S
    <3> HIDE DEF read
    <3> QED BY <3>2, <3>3
  <2>6. Priority(header.flags) = NumberOf(read)
    BY Zenon DEF Priority
  <2>7. NumberOf(BitsOf(pri, 0..7)) = pri
    <3>1. pri \in 0..255
      <4>1. pri \in Byte
        BY HeaderAssumption
      <4> QED BY <4>1 DEF Byte
    <3> QED BY <3>1, ByteIsBits
  <2> QED BY <2>5, <2>6, <2>7, Zenon
<1> QED BY <1>1, SetterInvariant, PTL

----------------------------------------------------------------------------
(* What a receiver makes of the bytes.                                     *)
LEMMA SameFormat ==
  /\ \A val : Encode(val) = Sdnv!Encode(val)
  /\ \A b, i : Decode(b, i) = Sdnv!Decode(b, i) /\ Behind(b, i) = Sdnv!Behind(b, i)
<1>1. Carried = Sdnv!Carried  BY Zenon DEF Carried, Sdnv!Carried
<1>2. ASSUME NEW val PROVE Encode(val) = Sdnv!Encode(val)
  BY <1>1, Zenon DEF Encode, Sdnv!Encode
<1>3. ASSUME NEW b, NEW i PROVE Behind(b, i) = Sdnv!Behind(b, i)
  BY Zenon DEF Behind, Sdnv!Behind, LastByte, Sdnv!LastByte
<1>4. ASSUME NEW b, NEW i PROVE Decode(b, i) = Sdnv!Decode(b, i)
  BY Zenon DEF Decode, Sdnv!Decode, LastByte, Sdnv!LastByte
<1> QED BY <1>2, <1>3, <1>4

(* Numbers are encoded one behind the other.                               *)
LEMMA EncodedLaidOut ==
  ASSUME NEW nums \in Seq(Nat)
  PROVE  IsLaidOut(nums, Encoded(nums), SdnvCode) /\ Encoded(nums) \in Octets
<1> DEFINE Is(f) == f = [k \in 0..Len(nums) |-> IF k = 0 THEN <<>> ELSE f[k - 1] \o Encode(nums[k])]
           upTo == CHOOSE f : Is(f)
<1>1. Encoded(nums) = upTo[Len(nums)]  BY Zenon DEF Encoded
<1>2. \A k \in 0..Len(nums) : k # 0 => Encode(nums[k]) = SdnvCode[nums[k]]
  BY SameFormat DEF SdnvCode
<1>3. ASSUME NEW f PROVE Is(f) <=> IsJoined(f, nums, SdnvCode)
  <2>1. [k \in 0..Len(nums) |-> IF k = 0 THEN <<>> ELSE f[k - 1] \o Encode(nums[k])]
        = [k \in 0..Len(nums) |-> IF k = 0 THEN <<>> ELSE f[k - 1] \o SdnvCode[nums[k]]]
    BY <1>2, Zenon
  <2> QED BY <2>1, Zenon DEF IsJoined
<1>4. IsCode(SdnvCode) /\ nums \in Seq(DOMAIN SdnvCode)  BY SdnvIsCode
<1> HIDE DEF Is
<1>5. \E f : Is(f)
  <2>1. \E f : IsJoined(f, nums, SdnvCode)  BY <1>4, JoinedExists
  <2> QED BY <1>3, <2>1
<1>6. Is(upTo)  BY <1>5, Zenon
<1> HIDE DEF upTo
<1>7. IsLaidOut(nums, upTo[Len(nums)], SdnvCode)
  <2>1. IsJoined(upTo, nums, SdnvCode)  BY <1>3, <1>6
  <2> QED BY <1>4, <2>1, JoinedLaidOut
<1>8. IsLaidOut(nums, Encoded(nums), SdnvCode)  BY <1>1, <1>7
<1> QED BY <1>8 DEF IsLaidOut, Layout

(* The fields of a header are numbers: which one stands where.             *)
LEMMA FieldsAre ==
  ASSUME NEW h \in HeaderType
  PROVE  /\ Fields(h) \in Seq(Nat) /\ Len(Fields(h)) = 14
         /\ Fields(h)[1] = NumberOf(h.flags) /\ Fields(h)[2] = h.number["blockLength"]
         /\ Fields(h)[3] = h.offset["dst"][1] /\ Fields(h)[4] = h.offset["dst"][2]
         /\ Fields(h)[5] = h.offset["src"][1] /\ Fields(h)[6] = h.offset["src"][2]
         /\ Fields(h)[7] = h.offset["report"][1] /\ Fields(h)[8] = h.offset["report"][2]
         /\ Fields(h)[9] = h.offset["cust"][1] /\ Fields(h)[10] = h.offset["cust"][2]
         /\ Fields(h)[11] = h.number["createTimestamp"]
         /\ Fields(h)[12] = h.number["timestampSeqNum"]
         /\ Fields(h)[13] = h.lifetime \div Second /\ Fields(h)[14] = Len(h.dictionary)
<1> DEFINE o == h.offset
           m == NumberOf(h.flags)
           l == h.lifetime \div Second
           d == Len(h.dictionary)
<1>1. m \in Nat
  <2>1. h.flags \in SUBSET Bits /\ Bits \in SUBSET (0..(Width - 1))
    BY DEF HeaderType, Bits, Width
  <2> QED BY <2>1, BitsRead
<1>2. l \in Nat
  <2>1. h.lifetime \in Nat /\ Second \in Nat \ {0}  BY HeaderAssumption DEF HeaderType
  <2> QED BY <2>1
<1>3. d \in Nat  BY DEF HeaderType, Dictionaries
<1>4. /\ o["dst"] \in Nat \X Nat /\ o["src"] \in Nat \X Nat
      /\ o["report"] \in Nat \X Nat /\ o["cust"] \in Nat \X Nat
  BY DEF HeaderType, Roles
<1>5. /\ h.number["blockLength"] \in Nat /\ h.number["createTimestamp"] \in Nat
      /\ h.number["timestampSeqNum"] \in Nat
  BY DEF HeaderType, Numbers
<1>6. Fields(h) = <<m, h.number["blockLength"],
        o["dst"][1], o["dst"][2], o["src"][1], o["src"][2],
        o["report"][1], o["report"][2], o["cust"][1], o["cust"][2],
        h.number["createTimestamp"], h.number["timestampSeqNum"], l, d>>
  BY Zenon DEF Fields
<1> HIDE DEF m, l, d
<1>7. Fields(h) \in Seq(Nat)
  BY <1>1, <1>2, <1>3, <1>4, <1>5, <1>6
<1>8. Len(Fields(h)) = 14  BY <1>6
<1> QED BY <1>6, <1>7, <1>8 DEF m, l, d

(* A dictionary is a sequence of bytes like any other.                     *)
LEMMA DictionariesAre == Dictionaries = Octets
BY DEF Dictionaries, Octets, Byte, Octet

(* The numbers behind the dictionary.                                      *)
FragmentFields(h) == <<h.number["fragOffset"], h.number["aduLength"]>>

(* A serialized header is its version, its numbers, its dictionary and two *)
(* more numbers.                                                           *)
LEMMA SerializedParts ==
  ASSUME NEW h \in HeaderType
  PROVE  /\ Serialize(h) \in Octets
         /\ Serialize(h) = ((<<Version>> \o Encoded(Fields(h))) \o h.dictionary)
                             \o Encoded(FragmentFields(h))
         /\ <<Version>> \in Octets /\ Encoded(Fields(h)) \in Octets /\ h.dictionary \in Octets
         /\ FragmentFields(h) \in Seq(Nat) /\ Encoded(FragmentFields(h)) \in Octets
         /\ <<Version>> \o Encoded(Fields(h)) \in Octets
         /\ (<<Version>> \o Encoded(Fields(h))) \o h.dictionary \in Octets
         /\ Len(Serialize(h)) = 1 + Len(Encoded(Fields(h))) + Len(h.dictionary)
                                  + Len(Encoded(FragmentFields(h)))
<1> DEFINE a == <<Version>>
           e == Encoded(Fields(h))
           d == h.dictionary
           g == Encoded(FragmentFields(h))
<1>1. a \in Octets /\ Len(a) = 1  BY DEF Octets, Octet, Version
<1>2. e \in Octets
  <2>1. Fields(h) \in Seq(Nat)  BY FieldsAre
  <2> QED BY <2>1, EncodedLaidOut
<1>3. d \in Octets  BY DictionariesAre DEF HeaderType
<1>4. FragmentFields(h) \in Seq(Nat)
  <2>1. h.number["fragOffset"] \in Nat /\ h.number["aduLength"] \in Nat  BY DEF HeaderType, Numbers
  <2> QED BY <2>1 DEF FragmentFields
<1>5. g \in Octets  BY <1>4, EncodedLaidOut
<1>6. Serialize(h) = ((a \o e) \o d) \o g  BY Zenon DEF Serialize, FragmentFields
<1> HIDE DEF a, e, d, g
<1>7. a \o e \in Octets /\ Len(a \o e) = 1 + Len(e) /\ Len(e) \in Nat
  <2>1. a \o e \in Octets /\ Len(a \o e) = Len(a) + Len(e) /\ Len(e) \in Nat
    BY <1>1, <1>2, OctetsConcat
  <2> QED BY <1>1, <2>1
<1>8. (a \o e) \o d \in Octets /\ Len((a \o e) \o d) = 1 + Len(e) + Len(d)
  <2>1. (a \o e) \o d \in Octets /\ Len((a \o e) \o d) = Len(a \o e) + Len(d)
    BY <1>3, <1>7, OctetsConcat
  <2> QED BY <1>7, <2>1
<1>9. ((a \o e) \o d) \o g \in Octets /\ Len(((a \o e) \o d) \o g) = 1 + Len(e) + Len(d) + Len(g)
  <2>1. /\ ((a \o e) \o d) \o g \in Octets
        /\ Len(((a \o e) \o d) \o g) = Len((a \o e) \o d) + Len(g)
    BY <1>5, <1>8, OctetsConcat
  <2> QED BY <1>8, <2>1
<1> QED BY <1>1, <1>2, <1>3, <1>4, <1>5, <1>6, <1>7, <1>8, <1>9 DEF a, e, d, g

(* The time that is sent in seconds.                                       *)
LEMMA CutToSeconds ==
  ASSUME NEW l \in Nat, NEW s \in Nat \ {0} PROVE (l \div s) * s = l - (l % s)
OBVIOUS

(* The header as it is received.                                           *)
Arriving(h) == [h EXCEPT !.lifetime = @ - (@ % Second)]

(* The numbers before the dictionary stand where Begin has them.           *)
LEMMA FieldsStand ==
  ASSUME NEW b \in Octets, NEW nums \in Seq(Nat), Len(nums) = FieldCount, NEW bytes,
         IsLaidOut(nums, bytes, SdnvCode), HasAt(b, 2, bytes)
  PROVE  /\ \A k \in 1..FieldCount : Decode(b, Begin(b)[k]) = nums[k]
         /\ Begin(b)[FieldCount + 1] = 2 + Len(bytes)
<1> DEFINE n == FieldCount
           at == Begin(b)
<1>1. n \in Nat /\ 2 \in Nat  BY DEF FieldCount
<1>2. at = Walk(b, 2, n + 1)
  BY Zenon DEF Begin, Walk, IsWalk, Behind, LastByte, Sdnv!Behind, Sdnv!LastByte
<1> HIDE DEF at, n
<1>3. n = Len(nums)  BY DEF n
<1>4. /\ \A k \in 1..n : Sdnv!Decode(b, Walk(b, 2, n + 1)[k]) = nums[k]
      /\ Walk(b, 2, n + 1)[n + 1] = 2 + Len(bytes)
  BY <1>1, <1>3, SdnvWalk
<1>5. (\A k \in 1..n : Sdnv!Decode(b, at[k]) = nums[k]) /\ at[n + 1] = 2 + Len(bytes)
  BY <1>2, <1>4, Zenon
<1> QED BY <1>5, SameFormat, Zenon DEF at, n

(* What stands where in a packet that begins with a header.                *)
LEMMA HeaderPositions ==
  ASSUME NEW h \in HeaderType, NEW b \in Octets, HasAt(b, 1, Serialize(h))
  PROVE  /\ \A k \in 1..FieldCount : Decode(b, Begin(b)[k]) = Fields(h)[k]
         /\ BehindNames(b) = Begin(b)[15] + Len(h.dictionary)
         /\ SubSeq(b, Begin(b)[15], BehindNames(b) - 1) = h.dictionary
         /\ Decode(b, BehindNames(b)) = h.number["fragOffset"]
         /\ Decode(b, Behind(b, BehindNames(b))) = h.number["aduLength"]
         /\ SizeRead(b) = Len(Serialize(h))
<1> DEFINE a == <<Version>>
           e == Encoded(Fields(h))
           d == h.dictionary
           g == Encoded(FragmentFields(h))
           at == Begin(b)
           le == Len(e)
           ld == Len(d)
           lg == Len(g)
           n == FieldCount
<1>1. /\ a \in Octets /\ Len(a) = 1 /\ e \in Octets /\ d \in Octets /\ g \in Octets
      /\ a \o e \in Octets /\ (a \o e) \o d \in Octets
      /\ Serialize(h) = ((a \o e) \o d) \o g /\ Len(Serialize(h)) = 1 + le + ld + lg
      /\ FragmentFields(h) \in Seq(Nat)
  BY SerializedParts
<1>2. Fields(h) \in Seq(Nat) /\ Len(Fields(h)) = 14 /\ Fields(h)[14] = ld  BY FieldsAre
<1>3. n = 14 /\ n \in Nat  BY DEF FieldCount
<1>4. IsLaidOut(Fields(h), e, SdnvCode)  BY <1>2, EncodedLaidOut
<1>5. IsLaidOut(FragmentFields(h), g, SdnvCode)  BY <1>1, EncodedLaidOut
<1> HIDE DEF a, e, d, g, at, n
<1>7. le \in Nat /\ ld \in Nat /\ lg \in Nat  BY <1>1, OctetsAre
<1>8. HasAt(b, 1, (a \o e) \o d) /\ HasAt(b, 1 + Len((a \o e) \o d), g)
  BY <1>1, HasAtParts
<1>9. HasAt(b, 1, a \o e) /\ HasAt(b, 1 + Len(a \o e), d)  BY <1>1, <1>8, HasAtParts
<1>10. HasAt(b, 1 + Len(a), e)  BY <1>1, <1>9, HasAtParts
<1>11. Len(a \o e) = 1 + le /\ Len((a \o e) \o d) = 1 + le + ld
  <2>1. Len(a \o e) = Len(a) + Len(e) /\ Len((a \o e) \o d) = Len(a \o e) + Len(d)
    BY <1>1, OctetsConcat
  <2> QED BY <1>1, <2>1
<1> HIDE DEF le, ld, lg
<1>12. HasAt(b, 2, e) /\ HasAt(b, 2 + le, d) /\ HasAt(b, 2 + le + ld, g)
  <2>1. 1 + 1 = 2 /\ 1 + (1 + le) = 2 + le /\ 1 + (1 + le + ld) = 2 + le + ld  BY <1>7
  <2> QED BY <1>1, <1>8, <1>9, <1>10, <1>11, <2>1
<1>13. Len(Fields(h)) = n  BY <1>2, <1>3
<1>14. (\A k \in 1..n : Decode(b, at[k]) = Fields(h)[k]) /\ at[n + 1] = 2 + le
  BY <1>1, <1>2, <1>4, <1>12, <1>13, FieldsStand DEF at, n, le
<1>15. at[15] = 2 + le /\ Decode(b, at[14]) = ld
  <2>1. n + 1 = 15 /\ 14 \in 1..n  BY <1>3
  <2> QED BY <1>2, <1>14, <2>1
<1>16. BehindNames(b) = 2 + le + ld
  <2>1. BehindNames(b) = at[n + 1] + Decode(b, at[n])  BY Zenon DEF BehindNames, at, n
  <2> QED BY <1>3, <1>14, <1>15, <2>1
<1>17. SubSeq(b, at[15], BehindNames(b) - 1) = d
  <2>1. SubSeq(b, 2 + le, (2 + le) + Len(d) - 1) = d  BY <1>1, <1>12, HasAtCut
  <2>2. ld = Len(d)  BY DEF ld
  <2>3. BehindNames(b) - 1 = (2 + le) + Len(d) - 1  BY <1>7, <1>16, <2>2
  <2> QED BY <1>15, <2>1, <2>3
<1>18. /\ Decode(b, 2 + le + ld) = h.number["fragOffset"]
       /\ Decode(b, Behind(b, 2 + le + ld)) = h.number["aduLength"]
       /\ Behind(b, Behind(b, 2 + le + ld)) = 2 + le + ld + lg
  <2> DEFINE i == 2 + le + ld
             x == h.number["fragOffset"]
             y == h.number["aduLength"]
  <2>1. PICK starts : Layout(starts, FragmentFields(h), g, SdnvCode)  BY <1>5 DEF IsLaidOut
  <2>2. FragmentFields(h) = <<x, y>>  BY DEF FragmentFields
  <2> HIDE DEF x, y
  <2>3. Len(FragmentFields(h)) = 2 /\ FragmentFields(h)[1] = x /\ FragmentFields(h)[2] = y
    BY <2>2
  <2>4. x \in Nat /\ y \in Nat
    <3>1. \A k \in 1..Len(FragmentFields(h)) : FragmentFields(h)[k] \in Nat  BY <1>1
    <3>2. 1 \in 1..Len(FragmentFields(h)) /\ 2 \in 1..Len(FragmentFields(h))  BY <2>3
    <3> QED BY <2>3, <3>1, <3>2
  <2>5. SdnvCode[x] = Sdnv!Encode(x) /\ SdnvCode[y] = Sdnv!Encode(y)  BY <2>4 DEF SdnvCode
  <2>6. i \in Nat /\ HasAt(b, i, g)  BY <1>7, <1>12
  <2> HIDE DEF i
  <2>7. starts[1] = 1 /\ starts[3] = lg + 1
    BY <2>1, <2>3 DEF Layout, lg
  <2>8. /\ HasAt(b, i + starts[1] - 1, SdnvCode[x])
        /\ i + starts[1 + 1] - 1 = (i + starts[1] - 1) + Len(SdnvCode[x])
    <3>1. 1 \in 1..Len(FragmentFields(h))  BY <2>3
    <3>2. /\ HasAt(b, i + starts[1] - 1, SdnvCode[FragmentFields(h)[1]])
          /\ i + starts[1 + 1] - 1 = (i + starts[1] - 1) + Len(SdnvCode[FragmentFields(h)[1]])
      BY <2>1, <2>6, <3>1, SdnvIsCode, LaidOutAt
    <3> QED BY <2>3, <3>2
  <2>9. /\ HasAt(b, i + starts[2] - 1, SdnvCode[y])
        /\ i + starts[2 + 1] - 1 = (i + starts[2] - 1) + Len(SdnvCode[y])
    <3>1. 2 \in 1..Len(FragmentFields(h))  BY <2>3
    <3>2. /\ HasAt(b, i + starts[2] - 1, SdnvCode[FragmentFields(h)[2]])
          /\ i + starts[2 + 1] - 1 = (i + starts[2] - 1) + Len(SdnvCode[FragmentFields(h)[2]])
      BY <2>1, <2>6, <3>1, SdnvIsCode, LaidOutAt
    <3> QED BY <2>3, <3>2
  <2> DEFINE j == i + starts[2] - 1
  <2>10. i + starts[1] - 1 = i /\ 1 + 1 = 2 /\ 2 + 1 = 3 /\ i + starts[3] - 1 = i + lg
    BY <1>7, <2>6, <2>7
  <2>11. j = i + Len(SdnvCode[x]) /\ i + lg = j + Len(SdnvCode[y])
    BY <2>8, <2>9, <2>10
  <2> HIDE DEF j
  <2>12. Sdnv!Decode(b, i) = x /\ Sdnv!Behind(b, i) = j
    BY <2>4, <2>5, <2>8, <2>10, <2>11, SdnvDecodes
  <2>13. Sdnv!Decode(b, j) = y /\ Sdnv!Behind(b, j) = i + lg
    <3>1. HasAt(b, j, Sdnv!Encode(y))  BY <2>5, <2>9 DEF j
    <3> QED BY <2>4, <2>5, <2>11, <3>1, SdnvDecodes
  <2> QED BY <2>12, <2>13, SameFormat DEF i, x, y
<1>19. SizeRead(b) = Len(Serialize(h))
  <2>1. SizeRead(b) = Behind(b, Behind(b, BehindNames(b))) - 1  BY Zenon DEF SizeRead
  <2>2. Behind(b, Behind(b, BehindNames(b))) = 2 + le + ld + lg  BY <1>16, <1>18
  <2>3. SizeRead(b) = (2 + le + ld + lg) - 1  BY <2>1, <2>2, Zenon
  <2>4. Len(Serialize(h)) = 1 + le + ld + lg  BY <1>1 DEF le, ld, lg
  <2> QED BY <1>7, <2>3, <2>4
<1> QED BY <1>14, <1>15, <1>16, <1>17, <1>18, <1>19 DEF at, d, ld, n

(* A header is read as it was written, wherever the buffer goes on to.     *)
LEMMA HeaderDecoded ==
  ASSUME NEW h \in HeaderType, NEW b \in Octets, HasAt(b, 1, Serialize(h))
  PROVE  Deserialize(b) = Arriving(h) /\ SizeRead(b) = Len(Serialize(h))
<1> DEFINE at == Begin(b)
           field(k) == Decode(b, at[k])
           f == Fields(h)
           frag == BehindNames(b)
           off == [r \in Roles |-> <<field(OffsetField(r)), field(OffsetField(r) + 1)>>]
           num == [n \in Numbers |->
                    CASE n = "blockLength" -> field(2)
                      [] n = "createTimestamp" -> field(11) [] n = "timestampSeqNum" -> field(12)
                      [] n = "fragOffset" -> Decode(b, frag)
                      [] n = "aduLength" -> Decode(b, Behind(b, frag))]
<1>1. /\ \A k \in 1..14 : field(k) = f[k]
      /\ SubSeq(b, at[15], frag - 1) = h.dictionary
      /\ Decode(b, frag) = h.number["fragOffset"]
      /\ Decode(b, Behind(b, frag)) = h.number["aduLength"]
      /\ SizeRead(b) = Len(Serialize(h))
  <2>1. FieldCount = 14  BY DEF FieldCount
  <2> QED BY <2>1, HeaderPositions
<1>2. Deserialize(b) = [flags |-> BitsOf(field(1), Bits), offset |-> off, number |-> num,
                        lifetime |-> field(13) * Second,
                        dictionary |-> SubSeq(b, at[15], frag - 1)]
  BY Zenon DEF Deserialize
<1> HIDE DEF field, f, at, frag
<1>3. BitsOf(field(1), Bits) = h.flags
  <2>1. Bits \in SUBSET (0..(Width - 1)) /\ h.flags \in SUBSET Bits
    BY DEF HeaderType, Bits, Width
  <2>2. f[1] = NumberOf(h.flags)  BY FieldsAre DEF f
  <2>3. field(1) = f[1]  BY <1>1
  <2> QED BY <2>1, <2>2, <2>3, BitsRead
<1>4. off = h.offset
  <2>1. h.offset \in [Roles -> Nat \X Nat]  BY DEF HeaderType
  <2>2. ASSUME NEW r \in Roles
        PROVE  field(OffsetField(r)) = h.offset[r][1] /\ field(OffsetField(r) + 1) = h.offset[r][2]
    <3>1. /\ f[3] = h.offset["dst"][1] /\ f[4] = h.offset["dst"][2]
          /\ f[5] = h.offset["src"][1] /\ f[6] = h.offset["src"][2]
          /\ f[7] = h.offset["report"][1] /\ f[8] = h.offset["report"][2]
          /\ f[9] = h.offset["cust"][1] /\ f[10] = h.offset["cust"][2]
      BY FieldsAre DEF f
    <3>2. /\ field(3) = f[3] /\ field(4) = f[4] /\ field(5) = f[5] /\ field(6) = f[6]
          /\ field(7) = f[7] /\ field(8) = f[8] /\ field(9) = f[9] /\ field(10) = f[10]
      BY <1>1
    <3>3. CASE r = "dst"
      <4>1. OffsetField(r) = 3 /\ OffsetField(r) + 1 = 4  BY <3>3 DEF OffsetField
      <4> QED BY <3>1, <3>2, <3>3, <4>1
    <3>4. CASE r = "src"
      <4>1. OffsetField(r) = 5 /\ OffsetField(r) + 1 = 6  BY <3>4 DEF OffsetField
      <4> QED BY <3>1, <3>2, <3>4, <4>1
    <3>5. CASE r = "report"
      <4>1. OffsetField(r) = 7 /\ OffsetField(r) + 1 = 8  BY <3>5 DEF OffsetField
      <4> QED BY <3>1, <3>2, <3>5, <4>1
    <3>6. CASE r = "cust"
      <4>1. OffsetField(r) = 9 /\ OffsetField(r) + 1 = 10  BY <3>6 DEF OffsetField
      <4> QED BY <3>1, <3>2, <3>6, <4>1
    <3> QED BY <3>3, <3>4, <3>5, <3>6 DEF Roles
  <2>3. \A r \in Roles : h.offset[r] = <<h.offset[r][1], h.offset[r][2]>>  BY <2>1
  <2>4. \A r \in Roles : off[r] = h.offset[r]  BY <2>2, <2>3
  <2>5. off = [r \in Roles |-> off[r]] /\ h.offset = [r \in Roles |-> h.offset[r]]
    BY <2>1
  <2> HIDE DEF off
  <2> QED BY <2>4, <2>5, Zenon
<1>5. num = h.number
  <2>1. h.number \in [Numbers -> Nat]  BY DEF HeaderType
  <2>2. /\ field(2) = h.number["blockLength"] /\ field(11) = h.number["createTimestamp"]
        /\ field(12) = h.number["timestampSeqNum"]
    <3>1. field(2) = f[2] /\ field(11) = f[11] /\ field(12) = f[12]  BY <1>1
    <3> QED BY <3>1, FieldsAre DEF f
  <2>3. ASSUME NEW n \in Numbers PROVE num[n] = h.number[n]
    BY <1>1, <2>2 DEF Numbers
  <2>4. h.number = [n \in Numbers |-> h.number[n]]  BY <2>1
  <2>5. num = [n \in Numbers |-> num[n]]
    <3> DEFINE value(n) == CASE n = "blockLength" -> field(2)
                             [] n = "createTimestamp" -> field(11)
                             [] n = "timestampSeqNum" -> field(12)
                             [] n = "fragOffset" -> Decode(b, frag)
                             [] n = "aduLength" -> Decode(b, Behind(b, frag))
    <3>1. num = [n \in Numbers |-> value(n)]  OBVIOUS
    <3> HIDE DEF value, num
    <3> QED BY <3>1
  <2> HIDE DEF num
  <2> QED BY <2>3, <2>4, <2>5, Zenon
<1>6. field(13) * Second = h.lifetime - (h.lifetime % Second)
  <2>1. field(13) = f[13]  BY <1>1
  <2>2. f[13] = h.lifetime \div Second  BY FieldsAre DEF f
  <2>3. h.lifetime \in Nat /\ Second \in Nat \ {0}  BY HeaderAssumption DEF HeaderType
  <2> QED BY <2>1, <2>2, <2>3, CutToSeconds
<1> HIDE DEF off, num
<1>7. Arriving(h) = [flags |-> h.flags, offset |-> h.offset, number |-> h.number,
                     lifetime |-> h.lifetime - (h.lifetime % Second),
                     dictionary |-> h.dictionary]
  BY DEF Arriving, HeaderType
<1>8. Deserialize(b) = Arriving(h)  BY <1>1, <1>2, <1>3, <1>4, <1>5, <1>6, <1>7, Zenon
<1> QED BY <1>1, <1>8

(* The parts of an endpoint id are text, even if the URI has only one.     *)
LEMMA PartsAreText ==
  ASSUME NEW uri \in Text PROVE Scheme(FromUri(uri)) \in Text /\ Ssp(FromUri(uri)) \in Text
<1> DEFINE eid == FromUri(uri)
           n == Len(uri)
           l == eid.schemeLength
<1>1. eid.uri = uri /\ l \in Nat
  <2>1. ASSUME NEW s, NEW p, s = <<>> \/ p = <<>> \/ Len(s) \in Nat
        PROVE  Parsed(uri, s, p).uri = uri /\ Parsed(uri, s, p).schemeLength \in Nat
    <3>1. CASE s = <<>> \/ p = <<>>  BY <3>1 DEF Parsed
    <3>2. CASE ~(s = <<>> \/ p = <<>>)
      <4> DEFINE S == {Len(s), MaxComponent}
      <4>1. S \in SUBSET Nat /\ S # {}  BY <2>1, <3>2 DEF MaxComponent
      <4>2. Min(S) \in Nat
        <5> HIDE DEF S
        <5> QED BY <4>1, MinIsLeast
      <4> QED BY <3>2, <4>2 DEF Parsed
    <3> QED BY <3>1, <3>2
  <2>2. CASE Colons(uri) = {}
    <3>1. Len(DtnNone) \in Nat  BY DEF DtnNone
    <3> QED BY <2>1, <2>2, <3>1 DEF FromUri
  <2>3. CASE Colons(uri) # {}
    <3> DEFINE at == Min(Colons(uri))
               s == SubSeq(uri, 1, at - 1)
    <3>1. at \in 1..n
      <4>1. Colons(uri) \in SUBSET Nat /\ Colons(uri) \subseteq 1..n  BY DEF Colons, Text
      <4> QED BY <2>3, <4>1, MinIsLeast
    <3>2. Len(s) \in Nat
      <4>1. s \in Seq(Character)
        <5> HIDE DEF at
        <5> QED BY <3>1 DEF Text
      <4> QED BY <4>1
    <3>3. eid = Parsed(uri, s, SubSeq(uri, at + 1, n))  BY <2>3 DEF FromUri
    <3> HIDE DEF s
    <3> QED BY <2>1, <3>2, <3>3
  <2> QED BY <2>2, <2>3
<1>2. n \in Nat /\ \A k \in 1..n : uri[k] \in Character  BY DEF Text
<1>3. Scheme(eid) \in Text
  <2> DEFINE m == Min({l, n})
  <2>1. m \in 0..n
    <3> DEFINE S == {l, n}
    <3>1. S \in SUBSET Nat /\ S # {} /\ n \in S  BY <1>1, <1>2
    <3> HIDE DEF S, l
    <3>2. Min(S) \in S /\ Min(S) <= n  BY <3>1, MinIsLeast
    <3> QED BY <1>2, <3>1, <3>2 DEF S
  <2>2. Scheme(eid) = SubSeq(uri, 1, m)  BY <1>1 DEF Scheme
  <2> HIDE DEF m
  <2> QED BY <1>2, <2>1, <2>2 DEF Text
<1>4. Ssp(eid) \in Text
  <2>1. Ssp(eid) = SubSeq(uri, l + 2, n)  BY <1>1 DEF Ssp
  <2> HIDE DEF l, eid
  <2> QED BY <1>1, <1>2, <2>1 DEF Text
<1> QED BY <1>3, <1>4

(* A header keeps its type whatever endpoint id is set.                    *)
LEMMA SetEidTyped ==
  ASSUME NEW h \in HeaderType, NEW role \in Roles, NEW eid \in Known
  PROVE  SetEid(h, role, eid) \in HeaderType
<1> DEFINE s == Scheme(eid)
           p == Ssp(eid)
           d == h.dictionary
           d1 == d \o s \o <<0>>
           d2 == d1 \o p \o <<0>>
           o == <<Len(d), Len(d) + Len(s) + 1>>
<1>1. s \in Text /\ p \in Text
  <2>1. PICK uri \in Uris \cup {DtnNone} : eid = FromUri(uri)  BY DEF Known
  <2>2. uri \in Text  BY <2>1, DefaultHasParts, HeaderAssumption
  <2> QED BY <2>1, <2>2, PartsAreText
<1>2. d \in Dictionaries /\ Len(d) \in Nat /\ Len(s) \in Nat
  BY <1>1 DEF HeaderType, Dictionaries, Text
<1>3. SetEid(h, role, eid) = [h EXCEPT !.offset[role] = o, !.dictionary = d2]
  BY Zenon DEF SetEid
<1> HIDE DEF s, p, d
<1>4. d1 \in Dictionaries  BY <1>1, <1>2, NameIsAppended
<1> HIDE DEF d1
<1>5. d2 \in Dictionaries  BY <1>1, <1>4, NameIsAppended
<1>6. o \in Nat \X Nat  BY <1>2
<1> HIDE DEF d2, o
<1> DEFINE new == SetEid(h, role, eid)
<1> HIDE DEF new
<1>7. /\ new = [h EXCEPT !.offset[role] = o, !.dictionary = d2]
      /\ d2 \in Dictionaries /\ o \in Nat \X Nat
  BY <1>3, <1>5, <1>6 DEF new
<1>8. new \in HeaderType  BY <1>7 DEF HeaderType
<1> QED BY <1>8 DEF new

(* A header is well formed whatever the callers give.                      *)
LEMMA HeaderTyped == PacketSpec => [](header \in HeaderType)
<1> DEFINE Typed == header \in HeaderType
<1>1. Init => Typed
  <2> SUFFICES ASSUME Init PROVE Typed  OBVIOUS
  <2> DEFINE h1 == SetEid(NewHeader, "src", defaultEid)
             h2 == SetEid(h1, "dst", defaultEid)
             h3 == SetEid(h2, "report", defaultEid)
             h4 == SetEid(h3, "cust", defaultEid)
  <2>1. defaultEid \in Known  BY DEF Known, defaultEid
  <2>2. NewHeader \in HeaderType  BY DEF NewHeader, HeaderType, Dictionaries
  <2>3. Roles = {"dst", "src", "report", "cust"}  BY DEF Roles
  <2>4. h1 \in HeaderType  BY <2>1, <2>2, <2>3, SetEidTyped
  <2> HIDE DEF h1
  <2>5. h2 \in HeaderType  BY <2>1, <2>3, <2>4, SetEidTyped
  <2> HIDE DEF h2
  <2>6. h3 \in HeaderType  BY <2>1, <2>3, <2>5, SetEidTyped
  <2> HIDE DEF h3
  <2>7. h4 \in HeaderType  BY <2>1, <2>3, <2>6, SetEidTyped
  <2>8. header = h4  BY DEF Init, h1, h2, h3
  <2> QED BY <2>7, <2>8
<1>2. Typed /\ [Next]_vars => Typed'
  <2> SUFFICES ASSUME Typed, [Next]_vars PROVE Typed'  OBVIOUS
  <2>1. CASE UNCHANGED vars  BY <2>1 DEF vars
  <2>2. ASSUME NEW b \in Flags, NEW value \in BOOLEAN, AskFlag(b, value) PROVE Typed'
    <3>1. b \in Bits  BY HeaderAssumption DEF Bits
    <3> QED BY <2>2, <3>1 DEF AskFlag, SetFlag, HeaderType
  <2>3. ASSUME NEW pri \in Priorities, AskPriority(pri) PROVE Typed'
    <3>1. SetPriority(header.flags, pri) \in SUBSET Bits
      BY DEF SetPriority, BitsOf, Bits, HeaderType
    <3> QED BY <2>3, <3>1 DEF AskPriority, HeaderType
  <2>4. ASSUME NEW role \in Roles, NEW uri \in Uris, AskEid(role, FromUri(uri)) PROVE Typed'
    <3>1. FromUri(uri) \in Known  BY DEF Known
    <3> QED BY <2>4, <3>1, SetEidTyped DEF AskEid
  <2>5. ASSUME NEW n \in Numbers, NEW value \in Values, SetNumber(n, value) PROVE Typed'
    <3>1. value \in Nat  BY HeaderAssumption
    <3> QED BY <2>5, <3>1 DEF SetNumber, HeaderType
  <2>6. ASSUME NEW lifetime \in Lifetimes, SetLifeTime(lifetime) PROVE Typed'
    <3>1. lifetime \in Nat  BY HeaderAssumption
    <3> QED BY <2>6, <3>1 DEF SetLifeTime, HeaderType
  <2> QED BY <2>1, <2>2, <2>3, <2>4, <2>5, <2>6 DEF Next
<1> QED BY <1>1, <1>2, PacketHasHeader, PTL DEF Spec

(* BpHeader6: Deserialize reads what SerializeAndGetSize wrote, for every  *)
(* flag, number, lifetime and endpoint id and whatever was set before.     *)
THEOREM HeaderDecodedIsEncoded == PacketSpec => []DecodedIsEncoded
<1>1. header \in HeaderType => DecodedIsEncoded
  <2> SUFFICES ASSUME header \in HeaderType PROVE DecodedIsEncoded  OBVIOUS
  <2>1. Serialize(header) \in Octets  BY SerializedParts
  <2>2. HasAt(Serialize(header), 1, Serialize(header))  BY <2>1, HasAtWhole
  <2>3. Deserialize(Serialize(header)) = Arriving(header)  BY <2>1, <2>2, HeaderDecoded
  <2> QED BY <2>3 DEF DecodedIsEncoded, Received, Sent, Arriving
<1> QED BY <1>1, HeaderTyped, PTL

(* A number without its last seven bits.                                   *)
LEMMA Quotient ==
  ASSUME NEW n \in Nat, NEW c \in Nat, n < 128 * c
  PROVE  n \div 128 \in Nat /\ n \div 128 < c
OBVIOUS

(* The bytes before the last of a number of up to three groups.            *)
LEMMA CarriedLength ==
  ASSUME NEW n \in Nat
  PROVE  /\ n < 1 => Len(Sdnv!Carried[n]) = 0
         /\ n < 128 => Len(Sdnv!Carried[n]) <= 1
         /\ n < 128 * 128 => Len(Sdnv!Carried[n]) <= 2
         /\ n < 128 * 128 * 128 => Len(Sdnv!Carried[n]) <= 3
<1>1. ASSUME NEW m \in Nat
      PROVE  /\ Len(Sdnv!Carried[m]) \in Nat
             /\ m = 0 => Len(Sdnv!Carried[m]) = 0
             /\ m # 0 => Len(Sdnv!Carried[m]) = Len(Sdnv!Carried[m \div 128]) + 1
  <2> DEFINE High == 128..255
             c == Sdnv!Carried[m \div 128]
             x == (m % 128) + 128
  <2>1. m \div 128 \in Nat  OBVIOUS
  <2>2. c \in Seq(High) /\ Sdnv!Carried[m] \in Seq(High)  BY <2>1, CarriedIs DEF Carrying
  <2>3. Sdnv!Carried[m] = IF m = 0 THEN <<>> ELSE Append(c, x)  BY CarriedIs
  <2>4. x \in High  OBVIOUS
  <2> HIDE DEF High, c, x
  <2>5. Len(Append(c, x)) = Len(c) + 1  BY <2>2, <2>4
  <2>6. m = 0 => Len(Sdnv!Carried[m]) = 0  BY <2>3
  <2>7. m # 0 => Len(Sdnv!Carried[m]) = Len(c) + 1  BY <2>3, <2>5
  <2> QED BY <2>2, <2>6, <2>7 DEF c
<1> DEFINE len(m) == Len(Sdnv!Carried[m])
<1>2. \A m \in Nat : /\ m \div 128 \in Nat /\ len(m) \in Nat /\ len(m \div 128) \in Nat
                     /\ (m = 0 => len(m) = 0) /\ (m # 0 => len(m) = len(m \div 128) + 1)
  BY <1>1
<1> HIDE DEF len
<1>3. \A m \in Nat : m < 1 => len(m) = 0  BY <1>2
<1>4. \A m \in Nat : m < 128 => len(m) <= 1
  <2> SUFFICES ASSUME NEW m \in Nat, m < 128 PROVE len(m) <= 1  OBVIOUS
  <2>1. m \div 128 \in Nat /\ m \div 128 < 1  OBVIOUS
  <2>2. len(m \div 128) = 0  BY <1>3, <2>1
  <2> QED BY <1>2, <2>2
<1>5. \A m \in Nat : m < 128 * 128 => len(m) <= 2
  <2> SUFFICES ASSUME NEW m \in Nat, m < 128 * 128 PROVE len(m) <= 2  OBVIOUS
  <2>1. m \div 128 \in Nat /\ m \div 128 < 128  BY Quotient
  <2>2. len(m \div 128) <= 1  BY <1>4, <2>1
  <2> QED BY <1>2, <2>2
<1>6. \A m \in Nat : m < 128 * 128 * 128 => len(m) <= 3
  <2> DEFINE c == 128 * 128
  <2> SUFFICES ASSUME NEW m \in Nat, m < 128 * c PROVE len(m) <= 3  OBVIOUS
  <2>0. c \in Nat  OBVIOUS
  <2> HIDE DEF c
  <2>1. m \div 128 \in Nat /\ m \div 128 < c  BY <2>0, Quotient
  <2>2. len(m \div 128) <= 2  BY <1>5, <2>1 DEF c
  <2> QED BY <1>2, <2>2
<1> QED BY <1>3, <1>4, <1>5, <1>6 DEF len

(* How many bytes a number takes: one if it is below 128, at most four if  *)
(* it has 28 bits.                                                         *)
LEMMA SdnvShort ==
  ASSUME NEW n \in Nat
  PROVE  /\ n < 128 => Len(Sdnv!Encode(n)) = 1
         /\ n < 128 * 128 * 128 * 128 => Len(Sdnv!Encode(n)) <= 4
<1> DEFINE m == n \div 128
           c == 128 * 128 * 128
           l == Len(Sdnv!Carried[m])
           e == Len(Sdnv!Encode(n))
<1>1. m \in Nat /\ c \in Nat  OBVIOUS
<1>2. l \in Nat /\ e = l + 1
  <2>1. Grouped(n, Sdnv!Carried[m], Sdnv!Encode(n))  BY SdnvGrouped
  <2>2. Sdnv!Carried[m] \in Carrying  BY <1>1, CarriedIs
  <2> QED BY <2>1, <2>2 DEF Grouped, Carrying
<1>3. (m < 1 => l = 0) /\ (m < c => l <= 3)  BY <1>1, CarriedLength
<1>4. n < 128 => m < 1  OBVIOUS
<1>5. n < 128 * c => m < c  BY <1>1, Quotient
<1> HIDE DEF m, l, c, e
<1>6. n < 128 => e = 1  BY <1>2, <1>3, <1>4
<1>7. n < 128 * c => e <= 4  BY <1>2, <1>3, <1>5
<1> QED BY <1>6, <1>7 DEF c, e

(* Seven bits make a number of one group.                                  *)
LEMMA SevenBits ==
  ASSUME NEW bits \in SUBSET (0..6) PROVE NumberOf(bits) \in Nat /\ NumberOf(bits) < 128
<1>1. PICK sum : Sums(sum, bits) /\ NumberOf(bits) = sum[Width]  BY SumIs
<1>2. Width = 19  BY DEF Width
<1>3. /\ \A k \in 0..19 : sum[k] \in Nat
      /\ sum[0] = 0 /\ NumberOf(bits) = sum[19]
      /\ \A k \in 1..19 : sum[k] = 2 * sum[k - 1] + (IF 19 - k \in bits THEN 1 ELSE 0)
  BY <1>1, <1>2 DEF Sums
<1>4. sum[12] = 0
  <2> DEFINE T == {k \in 0..12 : sum[k] = 0}
  <2>1. 0 \in T  BY <1>3
  <2>2. ASSUME NEW k \in 1..12, k - 1 \in T PROVE k \in T
    <3>1. k \in 1..19 /\ 19 - k \notin bits /\ sum[k - 1] = 0  BY <2>2
    <3>2. sum[k] = 2 * sum[k - 1] + 0  BY <1>3, <3>1
    <3> QED BY <3>1, <3>2
  <2>3. \A k \in 0..12 : k \in T
    <3> HIDE DEF T
    <3> QED BY <2>1, <2>2, UpTo
  <2> QED BY <2>3
<1>5. ASSUME NEW k \in 1..19 PROVE sum[k] <= 2 * sum[k - 1] + 1
  <2> DEFINE x == sum[k - 1]
             y == sum[k]
  <2>1. k - 1 \in 0..19 /\ k \in 0..19  OBVIOUS
  <2>2. x \in Nat /\ y \in Nat /\ y = 2 * x + (IF 19 - k \in bits THEN 1 ELSE 0)
    BY <1>3, <2>1
  <2> HIDE DEF x, y
  <2>3. y <= 2 * x + 1  BY <2>2
  <2> QED BY <2>3 DEF x, y
<1>6. /\ sum[13] <= 2 * sum[12] + 1 /\ sum[14] <= 2 * sum[13] + 1 /\ sum[15] <= 2 * sum[14] + 1
      /\ sum[16] <= 2 * sum[15] + 1 /\ sum[17] <= 2 * sum[16] + 1 /\ sum[18] <= 2 * sum[17] + 1
      /\ sum[19] <= 2 * sum[18] + 1
  BY <1>5
<1>7. /\ sum[13] \in Nat /\ sum[14] \in Nat /\ sum[15] \in Nat /\ sum[16] \in Nat
      /\ sum[17] \in Nat /\ sum[18] \in Nat /\ sum[19] \in Nat
  BY <1>3
<1>8. sum[19] < 128  BY <1>4, <1>6, <1>7
<1> QED BY <1>3, <1>7, <1>8

(* The payload block's header takes the room that is reserved for it.      *)
LEMMA PayloadHeaderParts ==
  ASSUME NEW h \in HeaderType, NEW flags \in SUBSET (0..6),
         h.number["blockLength"] < 128 * 128 * 128 * 128
  PROVE  LET m == NumberOf(flags)
             l == h.number["blockLength"]
             written == (<<BUNDLE_PAYLOAD_BLOCK>> \o Encode(m)) \o Encode(l)
             rest == [k \in 1..(HeaderLength - Len(written)) |-> Unwritten]
         IN  /\ SerializePayloadHeader(h, flags) = written \o rest
             /\ m \in Nat /\ l \in Nat
             /\ <<BUNDLE_PAYLOAD_BLOCK>> \in Octets /\ Len(<<BUNDLE_PAYLOAD_BLOCK>>) = 1
             /\ Encode(m) \in Octets /\ Encode(l) \in Octets
             /\ <<BUNDLE_PAYLOAD_BLOCK>> \o Encode(m) \in Octets
             /\ written \in Octets /\ rest \in Octets
             /\ SerializePayloadHeader(h, flags) \in Octets
             /\ Len(SerializePayloadHeader(h, flags)) = HeaderLength
<1> DEFINE m == NumberOf(flags)
           l == h.number["blockLength"]
           a == <<BUNDLE_PAYLOAD_BLOCK>>
           x == Encode(m)
           y == Encode(l)
           written == (a \o x) \o y
           w == Len(written)
           room == HeaderLength - w
           rest == [k \in 1..room |-> Unwritten]
<1>1. a \in Octets /\ Len(a) = 1  BY DEF Octets, Octet, BUNDLE_PAYLOAD_BLOCK
<1>2. m \in Nat /\ m < 128  BY SevenBits
<1>3. l \in Nat  BY DEF HeaderType, Numbers
<1>4. x \in Octets /\ Len(x) = 1
  <2>1. x = Sdnv!Encode(m)  BY SameFormat
  <2> HIDE DEF m, x
  <2> QED BY <1>2, <2>1, SdnvBytes, SdnvShort
<1>5. y \in Octets /\ Len(y) <= 4
  <2>1. y = Sdnv!Encode(l)  BY SameFormat
  <2>2. l < 128 * 128 * 128 * 128  OBVIOUS
  <2> HIDE DEF l, y
  <2> QED BY <1>3, <2>1, <2>2, SdnvBytes, SdnvShort
<1>6. SerializePayloadHeader(h, flags) = written \o rest
  BY Zenon DEF SerializePayloadHeader
<1> HIDE DEF a, x, y, m, l
<1>7. a \o x \in Octets /\ Len(a \o x) = 2
  <2>1. a \o x \in Octets /\ Len(a \o x) = Len(a) + Len(x)  BY <1>1, <1>4, OctetsConcat
  <2> QED BY <1>1, <1>4, <2>1
<1>8. written \in Octets /\ w \in Nat /\ w <= 6
  <2>1. written \in Octets /\ w = Len(a \o x) + Len(y) /\ Len(y) \in Nat
    BY <1>5, <1>7, OctetsConcat
  <2> QED BY <1>5, <1>7, <2>1
<1>9. room \in Nat /\ w + room = HeaderLength  BY <1>8 DEF HeaderLength
<1> HIDE DEF written, w, room
<1>10. rest \in Octets /\ Len(rest) = room
  <2>1. Unwritten \in Octet  BY PacketAssumption DEF Byte, Octet
  <2> QED BY <1>9, <2>1 DEF Octets
<1> HIDE DEF rest
<1>11. written \o rest \in Octets /\ Len(written \o rest) = HeaderLength
  <2>1. written \o rest \in Octets /\ Len(written \o rest) = Len(written) + Len(rest)
    BY <1>8, <1>10, OctetsConcat
  <2>2. Len(written) = w  BY DEF w
  <2> QED BY <1>9, <1>10, <2>1, <2>2
<1> QED BY <1>1, <1>2, <1>3, <1>4, <1>5, <1>6, <1>7, <1>8, <1>10, <1>11, Zenon
        DEF a, x, y, m, l, written, rest, room, w

(* What is cut out of the ADU.                                             *)
LEMMA CutHolds ==
  ASSUME NEW h \in HeaderType, h.number["fragOffset"] + h.number["blockLength"] <= Len(Adu)
  PROVE  /\ Cut(h) \in Octets
         /\ Holds(Cut(h), h.number["fragOffset"], h.number["blockLength"])
<1> DEFINE o == h.number["fragOffset"]
           l == h.number["blockLength"]
           n == Len(Adu)
<1>1. o \in Nat /\ l \in Nat  BY DEF HeaderType, Numbers
<1>2. n \in Nat /\ \A k \in 1..n : Adu[k] \in Byte  BY PacketAssumption
<1>3. Cut(h) = SubSeq(Adu, o + 1, o + l)  BY Zenon DEF Cut
<1>4. o + l <= n  OBVIOUS
<1> HIDE DEF o, l, n
<1>5. \A k \in (o + 1)..(o + l) : Adu[k] \in Byte
  <2>1. \A k \in (o + 1)..(o + l) : k \in 1..n  BY <1>1, <1>2, <1>4
  <2> QED BY <1>2, <2>1
<1> DEFINE cut == SubSeq(Adu, o + 1, o + l)
<1>6. /\ cut \in Seq(Byte)
      /\ Len(cut) = IF o + 1 <= o + l THEN (o + l) - (o + 1) + 1 ELSE 0
      /\ \A k \in 1..((o + l) - (o + 1) + 1) : cut[k] = Adu[(o + 1) + k - 1]
  <2>1. o + 1 \in Int /\ o + l \in Int  BY <1>1
  <2> QED BY <1>5, <2>1, SubSeqProperties
<1> HIDE DEF cut
<1>7. Len(cut) = l  BY <1>1, <1>6
<1>8. ASSUME NEW k \in 1..l PROVE cut[k] = Adu[o + k]
  <2>1. k \in 1..((o + l) - (o + 1) + 1) /\ (o + 1) + k - 1 = o + k  BY <1>1
  <2> QED BY <1>6, <2>1
<1>9. cut \in Octets  BY <1>6 DEF Octets, Octet, Byte
<1> QED BY <1>3, <1>7, <1>8, <1>9 DEF Holds, cut, o, l

(* A packet is taken apart as it was put together.                         *)
LEMMA PacketDecoded ==
  ASSUME NEW h \in HeaderType, NEW flags \in SUBSET (0..6), LengthFits,
         h.number["fragOffset"] + h.number["blockLength"] <= Len(Adu)
  PROVE  DataRecv(SendBundle(h, flags)) =
           [header |-> Arriving(h), blockFlags |-> flags,
            blockLength |-> h.number["blockLength"], adu |-> Cut(h)]
<1> DEFINE s == Serialize(h)
           p == SerializePayloadHeader(h, flags)
           c == Cut(h)
           b == SendBundle(h, flags)
           a == <<BUNDLE_PAYLOAD_BLOCK>>
           m == NumberOf(flags)
           l == h.number["blockLength"]
           x == Encode(m)
           y == Encode(l)
           written == (a \o x) \o y
           rest == [k \in 1..(HeaderLength - Len(written)) |-> Unwritten]
           payload == SizeRead(b) + 1
<1>1. l < 128 * 128 * 128 * 128
  <2>1. l \in Nat /\ h.number["fragOffset"] \in Nat  BY DEF HeaderType, Numbers
  <2>2. Len(Adu) \in Nat  BY PacketAssumption
  <2> HIDE DEF l
  <2>3. l <= Len(Adu)  BY <2>1, <2>2 DEF l
  <2> QED BY <2>1, <2>2, <2>3 DEF LengthFits
<1>2. /\ p = written \o rest /\ m \in Nat /\ l \in Nat
      /\ a \in Octets /\ Len(a) = 1 /\ x \in Octets /\ y \in Octets /\ a \o x \in Octets
      /\ written \in Octets /\ rest \in Octets /\ p \in Octets /\ Len(p) = HeaderLength
  <2>1. h.number["blockLength"] < 128 * 128 * 128 * 128  BY <1>1
  <2> QED BY <2>1, PayloadHeaderParts, Zenon
<1>3. s \in Octets  BY SerializedParts
<1>4. c \in Octets  BY CutHolds
<1>5. b = (s \o p) \o c  BY Zenon DEF SendBundle
<1>6. DataRecv(b) = [header |-> Deserialize(b),
                     blockFlags |-> BitsOf(Decode(b, payload + 1), 0..7),
                     blockLength |-> Decode(b, Behind(b, payload + 1)),
                     adu |-> SubSeq(b, payload + HeaderLength, Len(b))]
  BY Zenon DEF DataRecv
<1>7. x = Sdnv!Encode(m) /\ y = Sdnv!Encode(l)  BY SameFormat
<1> HIDE DEF s, p, c, b, a, m, l, x, y, rest
<1>8. s \o p \in Octets /\ Len(s \o p) = Len(s) + HeaderLength /\ Len(s) \in Nat
  <2>1. s \o p \in Octets /\ Len(s \o p) = Len(s) + Len(p) /\ Len(s) \in Nat
    BY <1>2, <1>3, OctetsConcat
  <2> QED BY <1>2, <2>1
<1>9. b \in Octets /\ Len(b) = Len(s) + HeaderLength + Len(c) /\ Len(c) \in Nat
  <2>1. (s \o p) \o c \in Octets /\ Len((s \o p) \o c) = Len(s \o p) + Len(c) /\ Len(c) \in Nat
    BY <1>4, <1>8, OctetsConcat
  <2> QED BY <1>5, <1>8, <2>1
<1>10. HasAt(b, 1, s \o p) /\ HasAt(b, 1 + Len(s \o p), c)
  <2>1. HasAt(b, 1, (s \o p) \o c)  BY <1>5, <1>9, HasAtWhole
  <2> QED BY <1>4, <1>8, <1>9, <2>1, HasAtParts
<1>11. HasAt(b, 1, s) /\ HasAt(b, 1 + Len(s), p)  BY <1>2, <1>3, <1>9, <1>10, HasAtParts
<1>12. Deserialize(b) = Arriving(h) /\ SizeRead(b) = Len(s)
  BY <1>9, <1>11, HeaderDecoded DEF s
<1>13. payload = 1 + Len(s)  BY <1>8, <1>12
<1> HIDE DEF payload, written
<1>14. HasAt(b, payload, written)  BY <1>2, <1>9, <1>11, <1>13, HasAtParts
<1>15. HasAt(b, payload, a \o x) /\ HasAt(b, payload + Len(a \o x), y)
  BY <1>2, <1>9, <1>14, HasAtParts DEF written
<1>16. HasAt(b, payload + 1, x)  BY <1>2, <1>9, <1>15, HasAtParts
<1>17. Decode(b, payload + 1) = m /\ Behind(b, payload + 1) = payload + Len(a \o x)
  <2>1. Sdnv!Decode(b, payload + 1) = m /\ Sdnv!Behind(b, payload + 1) = (payload + 1) + Len(x)
    <3> DEFINE i == payload + 1
    <3>1. HasAt(b, i, Sdnv!Encode(m))  BY <1>7, <1>16
    <3> HIDE DEF i
    <3>2. Sdnv!Decode(b, i) = m /\ Sdnv!Behind(b, i) = i + Len(x)
      BY <1>2, <1>7, <1>9, <3>1, SdnvDecodes
    <3> QED BY <3>2 DEF i
  <2>2. Len(a \o x) = Len(a) + Len(x) /\ Len(x) \in Nat  BY <1>2, OctetsConcat
  <2>3. payload \in Nat  BY <1>8, <1>13
  <2>4. (payload + 1) + Len(x) = payload + Len(a \o x)  BY <1>2, <2>2, <2>3
  <2> QED BY <2>1, <2>4, SameFormat
<1>18. Decode(b, Behind(b, payload + 1)) = l
  <2> DEFINE i == payload + Len(a \o x)
  <2>1. HasAt(b, i, Sdnv!Encode(l))  BY <1>7, <1>15
  <2> HIDE DEF i
  <2>2. Sdnv!Decode(b, i) = l  BY <1>2, <1>9, <2>1, SdnvDecodes
  <2> QED BY <1>17, <2>2, SameFormat DEF i
<1>19. BitsOf(m, 0..7) = flags
  <2>1. 0..7 \in SUBSET (0..(Width - 1)) /\ flags \in SUBSET (0..7)  BY DEF Width
  <2> QED BY <2>1, BitsRead DEF m
<1>20. SubSeq(b, payload + HeaderLength, Len(b)) = c
  <2> DEFINE i == 1 + Len(s \o p)
  <2>1. SubSeq(b, i, i + Len(c) - 1) = c  BY <1>4, <1>9, <1>10, HasAtCut
  <2>2. i = payload + HeaderLength /\ i + Len(c) - 1 = Len(b)
    BY <1>8, <1>9, <1>13 DEF HeaderLength
  <2> QED BY <2>1, <2>2
<1> QED BY <1>6, <1>12, <1>17, <1>18, <1>19, <1>20, Zenon DEF b, c, l

(* The setters of the payload block's flags keep to seven bits.            *)
LEMMA BlockFlagsTyped == PacketSpec => [](blockFlags \in SUBSET (0..6))
<1> DEFINE Typed == blockFlags \in SUBSET (0..6)
<1>1. PacketInit => Typed  BY DEF PacketInit
<1>2. Typed /\ [PacketNext]_<<header, asked, blockFlags>> => Typed'
  BY PacketAssumption DEF PacketNext, SetBlockFlag, SetFlag
<1> QED BY <1>1, <1>2, PTL DEF PacketSpec

(* BpCla::SendBundle, DataRecv: the bundle arrives as it was sent, header, *)
(* block and bytes of the ADU, whatever stands in the bytes that are       *)
(* reserved for the block's header and not written.                        *)
THEOREM PacketArrivesWhole == ASSUME LengthFits PROVE PacketSpec => []PacketIsWhole
<1>1. header \in HeaderType /\ blockFlags \in SUBSET (0..6) => PacketIsWhole
  <2> SUFFICES ASSUME header \in HeaderType, blockFlags \in SUBSET (0..6), Sendable
               PROVE  LET arrived == Arrived IN
                      /\ arrived.header = Sent /\ arrived.blockFlags = blockFlags
                      /\ arrived.blockLength = header.number["blockLength"]
                      /\ Holds(arrived.adu, header.number["fragOffset"],
                               header.number["blockLength"])
    BY DEF PacketIsWhole
  <2>1. Arrived = [header |-> Arriving(header), blockFlags |-> blockFlags,
                   blockLength |-> header.number["blockLength"], adu |-> Cut(header)]
    BY PacketDecoded DEF Arrived, Sendable
  <2>2. Holds(Cut(header), header.number["fragOffset"], header.number["blockLength"])
    BY CutHolds DEF Sendable
  <2>3. Sent = Arriving(header)  BY Zenon DEF Sent, Arriving
  <2> QED BY <2>1, <2>2, <2>3
<1> QED BY <1>1, HeaderTyped, BlockFlagsTyped, PTL

(* The numbers of a signal, read one after the other from position 3 on.   *)
SignalFieldCount == 6

(* The numbers of a signal are read where they stand.                      *)
LEMMA SignalNumbersStand ==
  ASSUME NEW b \in Octets, NEW nums \in Seq(Nat), Len(nums) = SignalFieldCount, NEW bytes,
         IsLaidOut(nums, bytes, SdnvCode), HasAt(b, 3, bytes)
  PROVE  LET at[k \in 1..7] == IF k = 1 THEN 3 ELSE Behind(b, at[k - 1])
         IN  (\A k \in 1..6 : Decode(b, at[k]) = nums[k]) /\ at[7] = 3 + Len(bytes)
<1> DEFINE at == CHOOSE f : f = [k \in 1..7 |-> IF k = 1 THEN 3 ELSE Behind(b, f[k - 1])]
           n == SignalFieldCount
           m == 7
<1>1. at = Walk(b, 3, m)
  BY Zenon DEF Walk, IsWalk, Behind, LastByte, Sdnv!Behind, Sdnv!LastByte
<1>2. n \in Nat /\ 3 \in Nat /\ m = n + 1  BY DEF SignalFieldCount
<1> HIDE DEF at, n, m
<1>3. n = Len(nums)  BY DEF n
<1>4. /\ \A k \in 1..n : Sdnv!Decode(b, Walk(b, 3, m)[k]) = nums[k]
      /\ Walk(b, 3, m)[m] = 3 + Len(bytes)
  BY <1>2, <1>3, SdnvWalk
<1>5. (\A k \in 1..n : Decode(b, at[k]) = nums[k]) /\ at[m] = 3 + Len(bytes)
  BY <1>1, <1>4, SameFormat, Zenon
<1> QED BY <1>5, Zenon DEF at, n, m, SignalFieldCount

(* A signal is read as it was written, but for its time.                   *)
LEMMA SignalRead ==
  ASSUME NEW bundle, bundle.header \in HeaderType, bundle.adu \in Octets,
         GetEid(bundle.header, "src").uri \in Text
  PROVE  LET adu == SendCustodySignal(bundle)
         IN  /\ IsCustodySignal(adu)
             /\ ReadCustodySignal(adu) =
                  [CustodySignal(bundle) EXCEPT !.timeOfSignal = @ \div 1000]
<1> DEFINE h == bundle.header
           cs == CustodySignal(bundle)
           adu == SendCustodySignal(bundle)
           nums == SignalNumbers(cs)
           first == 16 * _BP_AR_CS + (IF IsFragment \in h.flags THEN _BP_AR_FRAG ELSE 0)
           length == IF IsFragment \in h.flags THEN Len(bundle.adu) ELSE 0
           o == h.number["fragOffset"]
           t == h.number["createTimestamp"]
           n == h.number["timestampSeqNum"]
           time == Now \div 1000
           u == GetEid(h, "src").uri
           a == <<first, cs.status>>
           e == Encoded(nums)
           at == CHOOSE f : f = [k \in 1..7 |-> IF k = 1 THEN 3 ELSE Behind(adu, f[k - 1])]
           field(k) == Decode(adu, at[k])
<1>1. cs = [status |-> Succeeded, fragmentOffset |-> o, fragmentLength |-> length,
            timeOfSignal |-> Now, creationTimestamp |-> t, seqNo |-> n, srcEid |-> u]
  BY Zenon DEF CustodySignal
<1>2. nums = <<o, length, time, t, n, Len(u)>>
  <2> HIDE DEF h, cs, length, o, t, n, u, time
  <2> QED BY <1>1 DEF SignalNumbers, time
<1>3. adu = (a \o e) \o cs.srcEid  BY Zenon DEF SendCustodySignal
<1>4. ReadCustodySignal(adu) =
        [status |-> adu[2], fragmentOffset |-> field(1), fragmentLength |-> field(2),
         timeOfSignal |-> field(3), creationTimestamp |-> field(4), seqNo |-> field(5),
         srcEid |-> SubSeq(adu, at[7], at[7] + field(6) - 1)]
  BY Zenon DEF ReadCustodySignal
<1>5. IsCustodySignal(adu) <=> (adu[1] \div (16 * _BP_AR_CS)) % 2 = 1
  BY Zenon DEF IsCustodySignal
<1>6. first \in 32..33 /\ first \in Octet /\ Succeeded \in Octet
  BY DEF _BP_AR_CS, _BP_AR_FRAG, Succeeded, Octet
<1>7. o \in Nat /\ t \in Nat /\ n \in Nat  BY DEF HeaderType, Numbers
<1>8. length \in Nat
  <2>1. Len(bundle.adu) \in Nat  BY OctetsAre
  <2> QED BY <2>1
<1>9. time \in Nat  BY PacketAssumption
<1>10. u \in Octets /\ Len(u) \in Nat
  <2>1. u \in Dictionaries  BY TextType
  <2>2. u \in Octets  BY <2>1, DictionariesAre
  <2> HIDE DEF u
  <2> QED BY <2>2, OctetsAre
<1> HIDE DEF h, cs, adu, nums, first, length, o, t, n, time, u
<1>11. nums \in Seq(Nat) /\ Len(nums) = 6
  BY <1>2, <1>7, <1>8, <1>9, <1>10
<1>12. IsLaidOut(nums, e, SdnvCode) /\ e \in Octets  BY <1>11, EncodedLaidOut
<1>13. a \in Octets /\ Len(a) = 2 /\ a[1] = first /\ a[2] = Succeeded
  <2>1. cs.status = Succeeded  BY <1>1
  <2> QED BY <1>6, <2>1 DEF Octets
<1> HIDE DEF e, a
<1>14. a \o e \in Octets /\ Len(a \o e) = 2 + Len(e) /\ Len(e) \in Nat
  <2>1. a \o e \in Octets /\ Len(a \o e) = Len(a) + Len(e) /\ Len(e) \in Nat
    BY <1>12, <1>13, OctetsConcat
  <2> QED BY <1>13, <2>1
<1>15. cs.srcEid = u  BY <1>1
<1>16. adu = (a \o e) \o u  BY <1>3, <1>15, Zenon
<1>17. adu \in Octets  BY <1>10, <1>14, <1>16, OctetsConcat
<1>18. HasAt(adu, 1, a \o e) /\ HasAt(adu, 1 + Len(a \o e), u)
  <2>1. HasAt(adu, 1, (a \o e) \o u)  BY <1>16, <1>17, HasAtWhole
  <2> QED BY <1>10, <1>14, <1>17, <2>1, HasAtParts
<1>19. HasAt(adu, 1, a) /\ HasAt(adu, 1 + Len(a), e)
  BY <1>12, <1>13, <1>17, <1>18, HasAtParts
<1>20. HasAt(adu, 3, e) /\ HasAt(adu, 3 + Len(e), u)
  <2>1. 1 + 2 = 3 /\ 1 + (2 + Len(e)) = 3 + Len(e)  BY <1>14
  <2> QED BY <1>13, <1>14, <1>18, <1>19, <2>1
<1>21. adu[1] = first /\ adu[2] = Succeeded
  <2>1. \A k \in 1..Len(a) : adu[1 + k - 1] = a[k]  BY <1>19 DEF HasAt
  <2>2. 1 \in 1..Len(a) /\ 2 \in 1..Len(a) /\ 1 + 1 - 1 = 1 /\ 1 + 2 - 1 = 2  BY <1>13
  <2>3. adu[1 + 1 - 1] = a[1] /\ adu[1 + 2 - 1] = a[2]  BY <2>1, <2>2
  <2> QED BY <1>13, <2>2, <2>3
<1>22. (\A k \in 1..6 : Decode(adu, at[k]) = nums[k]) /\ at[7] = 3 + Len(e)
  <2>1. Len(nums) = SignalFieldCount  BY <1>11 DEF SignalFieldCount
  <2> QED BY <1>11, <1>12, <1>17, <1>20, <2>1, SignalNumbersStand, Zenon
<1> HIDE DEF at
<1>23. /\ field(1) = o /\ field(2) = length /\ field(3) = time
       /\ field(4) = t /\ field(5) = n /\ field(6) = Len(u)
  <2>1. /\ field(1) = nums[1] /\ field(2) = nums[2] /\ field(3) = nums[3]
        /\ field(4) = nums[4] /\ field(5) = nums[5] /\ field(6) = nums[6]
    <3>1. \A k \in 1..6 : field(k) = nums[k]  BY <1>22
    <3> HIDE DEF field
    <3> QED BY <3>1
  <2> HIDE DEF field
  <2> QED BY <1>2, <2>1
<1>24. SubSeq(adu, at[7], at[7] + field(6) - 1) = u
  <2>1. SubSeq(adu, 3 + Len(e), (3 + Len(e)) + Len(u) - 1) = u
    BY <1>10, <1>17, <1>20, HasAtCut
  <2> QED BY <1>22, <1>23, <2>1
<1>25. IsCustodySignal(adu)
  <2>1. 16 * _BP_AR_CS = 32  BY DEF _BP_AR_CS
  <2>2. (adu[1] \div 32) % 2 = 1  BY <1>6, <1>21
  <2> QED BY <1>5, <2>1, <2>2
<1> HIDE DEF field
<1>26. ReadCustodySignal(adu) =
        [status |-> Succeeded, fragmentOffset |-> o, fragmentLength |-> length,
         timeOfSignal |-> time, creationTimestamp |-> t, seqNo |-> n, srcEid |-> u]
  BY <1>4, <1>21, <1>23, <1>24, Zenon
<1>27. [cs EXCEPT !.timeOfSignal = @ \div 1000] =
        [status |-> Succeeded, fragmentOffset |-> o, fragmentLength |-> length,
         timeOfSignal |-> time, creationTimestamp |-> t, seqNo |-> n, srcEid |-> u]
  BY <1>1 DEF time
<1>28. ReadCustodySignal(adu) = [cs EXCEPT !.timeOfSignal = @ \div 1000]
  BY <1>26, <1>27, Zenon
<1> QED BY <1>25, <1>28, Zenon DEF adu, cs

(* SendCustodySignal, BpAgent6::EnqueueForDeliveryToApplication: the       *)
(* signal that answers a bundle names the bundle, whatever the bundle's    *)
(* source, time and number, and acknowledges what it held.                 *)
THEOREM SignalFinds ==
  ASSUME Proper, LengthFits PROVE PacketSpec => []SignalFindsItsBundle
<1>1. SetterInv /\ blockFlags \in SUBSET (0..6) => SignalFindsItsBundle
  <2> SUFFICES ASSUME SetterInv, blockFlags \in SUBSET (0..6), Sendable
               PROVE  LET adu == SendCustodySignal(Arrived)
                          cs == ReadCustodySignal(adu)
                      IN  /\ IsCustodySignal(adu) /\ cs.status = Succeeded
                          /\ Finds(cs, header)
                          /\ cs.fragmentOffset = header.number["fragOffset"]
                          /\ cs.fragmentLength =
                               IF IsFragment \in header.flags
                               THEN header.number["blockLength"] ELSE 0
    BY DEF SignalFindsItsBundle
  <2> DEFINE b == Arrived
             u == GetEid(b.header, "src").uri
             cs == CustodySignal(b)
             l == header.number["blockLength"]
             length == IF IsFragment \in header.flags THEN l ELSE 0
  <2>1. header \in HeaderType  BY DEF SetterInv
  <2>2. b = [header |-> Arriving(header), blockFlags |-> blockFlags,
             blockLength |-> l, adu |-> Cut(header)]
    BY <2>1, PacketDecoded DEF Arrived, Sendable
  <2> HIDE DEF b
  <2>3. b.header = Arriving(header) /\ b.adu = Cut(header)  BY <2>2
  <2>4. Cut(header) \in Octets /\ Len(Cut(header)) = l
    BY <2>1, CutHolds DEF Sendable, Holds
  <2>5. /\ b.header \in HeaderType /\ b.header.flags = header.flags
        /\ b.header.number = header.number /\ b.header.offset = header.offset
        /\ b.header.dictionary = header.dictionary
    <3>1. header.lifetime - (header.lifetime % Second) \in Nat
      <4>1. header.lifetime \in Nat /\ Second \in Nat \ {0}
        BY <2>1, HeaderAssumption DEF HeaderType
      <4> QED BY <4>1
    <3> QED BY <2>1, <2>3, <3>1 DEF Arriving, HeaderType
  <2>6. GetEid(b.header, "src") = GetEid(header, "src")  BY <2>5, Zenon DEF GetEid
  <2>7. u \in Text
    <3>1. "src" \in Roles  BY DEF Roles
    <3>2. asked.eid["src"] \in Known /\ Shows(header, "src", asked.eid["src"])
      BY <3>1 DEF SetterInv, AskedType
    <3>3. u = asked.eid["src"].uri
      BY <2>1, <2>6, <3>1, <3>2, ShownIsRead DEF Same
    <3>4. PICK uri \in Uris \cup {DtnNone} : asked.eid["src"] = FromUri(uri)
      BY <3>2 DEF Known
    <3>5. uri \in Text /\ HasParts(uri)  BY DefaultHasParts, HeaderAssumption DEF Proper
    <3> QED BY <3>3, <3>4, <3>5, PartsOfUri
  <2>8. /\ IsCustodySignal(SendCustodySignal(b))
        /\ ReadCustodySignal(SendCustodySignal(b)) = [cs EXCEPT !.timeOfSignal = @ \div 1000]
    BY <2>3, <2>4, <2>5, <2>7, SignalRead
  <2>9. cs = [status |-> Succeeded, fragmentOffset |-> header.number["fragOffset"],
              fragmentLength |-> length, timeOfSignal |-> Now,
              creationTimestamp |-> header.number["createTimestamp"],
              seqNo |-> header.number["timestampSeqNum"], srcEid |-> u]
    <3>1. Len(b.adu) = l  BY <2>3, <2>4
    <3> QED BY <2>5, <3>1, Zenon DEF CustodySignal
  <2>10. FromUri(u).uri = u  BY DEF FromUri, Parsed
  <2> DEFINE read == ReadCustodySignal(SendCustodySignal(b))
  <2> HIDE DEF cs, u, length
  <2>11. /\ read.status = Succeeded /\ read.fragmentOffset = header.number["fragOffset"]
         /\ read.fragmentLength = length
         /\ read.creationTimestamp = header.number["createTimestamp"]
         /\ read.seqNo = header.number["timestampSeqNum"] /\ read.srcEid = u
    BY <2>8, <2>9
  <2> HIDE DEF read
  <2>12. Finds(read, header)
    <3>1. GetEid(header, "src").uri = u  BY <2>6 DEF u
    <3> QED BY <2>10, <2>11, <3>1 DEF Finds, Same
  <2> QED BY <2>8, <2>11, <2>12 DEF read, b, length, l
<1>2. PacketSpec => []SetterInv  BY SetterInvariant
<1> QED BY <1>1, <1>2, BlockFlagsTyped, PTL
=============================================================================
