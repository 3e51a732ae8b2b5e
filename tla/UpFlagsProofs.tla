--------------------------- MODULE UpFlagsProofs ---------------------------
(***************************************************************************)
(* What minitail makes of the user's file, proved for any flags, any       *)
(* values and files of any length.  A file is taken one entry at a time:   *)
(* for each operator there is a lemma for one entry (or one line) more,    *)
(* and a property of all files follows by induction over sequences         *)
(* (SeqInduct). The lines of an entry are at most two, a flag and its      *)
(* value, and what a line means depends at most on the line before: so     *)
(* later lines never change what has been made of earlier ones.            *)
(***************************************************************************)
EXTENDS UpFlags, Recursion, SequenceTheorems

-----------------------------------------------------------------------------
(* Sequences. *)

\* Append adds one element at the end.
LEMMA Appended ==
    ASSUME NEW S, NEW s \in Seq(S), NEW e \in S
    PROVE  /\ Append(s, e) \in Seq(S)
           /\ Len(s) \in Nat /\ Len(Append(s, e)) = Len(s) + 1
           /\ DOMAIN s = 1 .. Len(s) /\ DOMAIN Append(s, e) = 1 .. Len(s) + 1
           /\ \A i \in 1 .. Len(s) : Append(s, e)[i] = s[i]
           /\ Append(s, e)[Len(s) + 1] = e
  BY AppendProperties, LenProperties

\* Two appended elements stand at the last two positions.
LEMMA AppendedTwice ==
    ASSUME NEW S, NEW s \in Seq(S), NEW d \in S, NEW e \in S
    PROVE  LET t == Append(s, d)
               u == Append(t, e)
               n == Len(t)
           IN /\ t \in Seq(S) /\ t[n] = d
              /\ u[n] = d /\ u[n + 1] = e /\ n \in Nat /\ n \in 1 .. n /\ n + 1 > 1 /\ (n + 1) - 1 = n
<1> DEFINE t == Append(s, d)
           n == Len(t)
<1>1. t \in Seq(S) /\ n = Len(s) + 1 /\ Len(s) \in Nat /\ t[Len(s) + 1] = d
  BY Appended
<1> HIDE DEF t, n
<1>2. n \in Nat /\ n \in 1 .. n /\ n + 1 > 1 /\ (n + 1) - 1 = n /\ t[n] = d
  BY <1>1
<1>3. Append(t, e)[n + 1] = e /\ \A i \in 1 .. n : Append(t, e)[i] = t[i]
  BY <1>1, Appended DEF n
<1> QED BY <1>1, <1>2, <1>3 DEF t, n

\* Every sequence is empty or one that has been appended to.
LEMMA Split ==
    ASSUME NEW S, NEW s \in Seq(S), s # <<>>
    PROVE  \E t \in Seq(S), e \in S : s = Append(t, e) /\ Len(s) = Len(t) + 1
  BY SequenceEmptyOrAppend, AppendProperties

\* Q holds the empty sequence and, with every sequence, the longer ones.
Grows(Q, S) == <<>> \in Q /\ \A s \in Seq(S), e \in S : s \in Q => Append(s, e) \in Q

\* Induction over sequences: such a set holds all of them.
LEMMA SeqInduct ==
    ASSUME NEW S, NEW Q, Grows(Q, S)
    PROVE  Seq(S) \subseteq Q
<1> SUFFICES ASSUME NEW s \in Seq(S) PROVE s \in Q
  OBVIOUS
<1> DEFINE P == {n \in 0 .. Len(s) : \A t \in Seq(S) : Len(t) = n => t \in Q}
<1>1. Len(s) \in Nat
  BY LenProperties
<1>2. 0 \in P
  BY <1>1, EmptySeq DEF Grows
<1>3. ASSUME NEW n \in 0 .. Len(s), n \in P, n < Len(s) PROVE n + 1 \in P
  <2>1. ASSUME NEW t \in Seq(S), Len(t) = n + 1 PROVE t \in Q
    <3>1. t # <<>>
      BY <2>1, EmptySeq
    <3>2. PICK u \in Seq(S), e \in S : t = Append(u, e) /\ Len(t) = Len(u) + 1
      BY <3>1, Split
    <3>3. Len(u) = n
      BY <2>1, <3>2, LenProperties
    <3> QED BY <1>3, <3>2, <3>3 DEF Grows
  <2> QED BY <1>1, <1>3, <2>1
<1>4. 0 .. Len(s) \subseteq P
  <2> HIDE DEF P
  <2>1. Inductive(P, Len(s))
    BY <1>2, <1>3 DEF Inductive
  <2> QED BY <1>1, <2>1, Induct, Zenon
<1> QED BY <1>1, <1>4

-----------------------------------------------------------------------------
(* FlattenSeq. *)

\* f holds what has been concatenated of ss so far.
IsFlat(f, ss, S) ==
    /\ f \in [1 .. Len(ss) -> S]
    /\ f[1] = ss[1] /\ \A i \in 1 .. Len(ss) : i < Len(ss) => f[i + 1] = f[i] \o ss[i + 1]
    /\ FlattenSeq(ss) = f[Len(ss)]

\* The function that FlattenSeq evaluates exists, and only one.
LEMMA Flattens ==
    ASSUME NEW T, NEW ss \in Seq(Seq(T)), NEW n \in Nat, n = Len(ss), n # 0
    PROVE  \E f : IsFlat(f, ss, Seq(T))
<1> DEFINE S == Seq(T)
           Step == [i \in 1 .. n - 1 |-> [y \in S |-> y \o ss[i + 1]]]
           Is(f) == f = [i \in 1 .. n |-> IF i = 1 THEN ss[i] ELSE f[i - 1] \o ss[i]]
           f == CHOOSE f : Is(f)
<1>1. \A i \in 1 .. n : ss[i] \in S
  BY ElementOfSeq
<1>2. Step \in [1 .. n - 1 -> [S -> S]]
  <2>1. ASSUME NEW i \in 1 .. n - 1, NEW y \in S PROVE y \o ss[i + 1] \in S
    <3>1. ss[i + 1] \in S
      BY <1>1
    <3> QED BY <3>1, ConcatProperties
  <2> HIDE DEF S
  <2> QED BY <2>1
<1>2a. \A i \in 1 .. n - 1, y \in S : Step[i][y] = y \o ss[i + 1]
  <2> HIDE DEF S
  <2> QED OBVIOUS
<1> HIDE DEF Step
<1>3. PICK c : IsChain(c, ss[1], Step, n - 1, S)
  <2>1. n - 1 \in Nat /\ ss[1] \in S
    BY <1>1
  <2> HIDE DEF S
  <2> QED BY <1>2, <2>1, Chain
<1> DEFINE d == [i \in 1 .. n |-> c[i - 1]]
<1>4. c[0] = ss[1] /\ \A i \in 1 .. n - 1 : c[i] = c[i - 1] \o ss[i + 1] /\ c[i] \in S
  <2>1. c \in [0 .. n - 1 -> S] /\ c[0] = ss[1]
    BY <1>3 DEF IsChain
  <2>2. ASSUME NEW i \in 1 .. n - 1 PROVE c[i] = c[i - 1] \o ss[i + 1]
    <3>1. i \in 0 .. n - 1 /\ i - 1 \in 0 .. n - 1 /\ i # 0
      OBVIOUS
    <3>2. c[i] = Step[i][c[i - 1]]
      BY <1>3, <3>1 DEF IsChain
    <3>3. c[i - 1] \in S
      BY <2>1, <3>1
    <3> HIDE DEF S
    <3>4. Step[i][c[i - 1]] = c[i - 1] \o ss[i + 1]
      BY <1>2a, <3>3, Zenon
    <3> QED BY <3>2, <3>4
  <2>3. \A i \in 1 .. n - 1 : i \in 0 .. n - 1
    OBVIOUS
  <2> HIDE DEF S
  <2> QED BY <2>1, <2>2, <2>3
<1>5. d \in [1 .. n -> S]
  <2>1. c \in [0 .. n - 1 -> S]
    BY <1>3 DEF IsChain
  <2>2. \A i \in 1 .. n : i - 1 \in 0 .. n - 1
    OBVIOUS
  <2> HIDE DEF S
  <2> QED BY <2>1, <2>2
<1>6. Is(d)
  <2>1. ASSUME NEW i \in 1 .. n, i # 1 PROVE d[i] = d[i - 1] \o ss[i]
    <3>1. i - 1 \in 1 .. n - 1 /\ i - 1 \in 1 .. n /\ (i - 1) + 1 = i
      BY <2>1
    <3>2. c[i - 1] = c[(i - 1) - 1] \o ss[(i - 1) + 1]
      BY <1>4, <3>1
    <3> QED BY <3>1, <3>2
  <2>2. d[1] = ss[1]
    BY <1>4
  <2> QED BY <2>1, <2>2
<1>7. Is(f)
  BY <1>6
<1> HIDE DEF f
<1>8. f[1] = ss[1] /\ \A i \in 1 .. n : i < n => f[i + 1] = f[i] \o ss[i + 1]
  <2>1. f[1] = ss[1]
    BY <1>7
  <2>2. ASSUME NEW i \in 1 .. n, i < n PROVE f[i + 1] = f[i] \o ss[i + 1]
    <3>1. i + 1 \in 1 .. n /\ i + 1 # 1 /\ (i + 1) - 1 = i
      BY <2>2
    <3>2. f[i + 1] = f[(i + 1) - 1] \o ss[i + 1]
      BY <1>7, <3>1
    <3> QED BY <3>1, <3>2
  <2> QED BY <2>1, <2>2
<1>9. f \in [1 .. n -> S]
  <2> DEFINE P == {i \in 0 .. n : i = 0 \/ f[i] \in S}
  <2>1. ASSUME NEW i \in 0 .. n, i \in P, i < n PROVE i + 1 \in P
    <3>1. CASE i = 0
      BY <1>1, <1>8, <3>1
    <3>2. CASE i # 0
      <4>1. f[i] \in S /\ i \in 1 .. n /\ i + 1 \in 1 .. n
        BY <2>1, <3>2
      <4>2. ss[i + 1] \in S /\ f[i + 1] = f[i] \o ss[i + 1]
        <5> HIDE DEF S
        <5> QED BY <1>1, <1>8, <2>1, <4>1
      <4>3. f[i + 1] \in S
        BY <4>1, <4>2, ConcatProperties
      <4> QED BY <2>1, <4>3
    <3> QED BY <3>1, <3>2
  <2>2. 0 .. n \subseteq P
    <3>1. 0 \in P
      OBVIOUS
    <3> HIDE DEF P
    <3>2. Inductive(P, n)
      BY <2>1, <3>1 DEF Inductive
    <3> QED BY <3>2, Induct, Zenon
  <2>3. \A i \in 1 .. n : f[i] \in S
    BY <2>2
  <2> HIDE DEF P, S
  <2> QED BY <1>7, <2>3
<1>10. FlattenSeq(ss) = f[n]
  BY DEF FlattenSeq, f
<1> QED BY <1>8, <1>9, <1>10 DEF IsFlat

\* A list with one part more flattens to the rest and that part.
LEMMA FlattenMore ==
    ASSUME NEW T, NEW n \in Nat, NEW ss \in Seq(Seq(T)), NEW tt \in Seq(Seq(T)),
           Len(tt) = n, Len(ss) = n + 1, \A i \in 1 .. n : tt[i] = ss[i]
    PROVE  FlattenSeq(tt) \in Seq(T) /\ FlattenSeq(ss) = FlattenSeq(tt) \o ss[n + 1]
<1>1. PICK g : IsFlat(g, ss, Seq(T))
  BY Flattens
<1>2. ss[n + 1] \in Seq(T)
  BY ElementOfSeq
<1>3. CASE n = 0
  <2>1. tt = <<>>
    BY <1>3, EmptySeq
  <2>2. FlattenSeq(tt) = <<>>
    BY <1>3, <2>1 DEF FlattenSeq
  <2>3. FlattenSeq(ss) = ss[n + 1]
    BY <1>1, <1>3 DEF IsFlat
  <2> QED BY <1>2, <2>2, <2>3, ConcatEmptySeq, EmptySeq
<1>4. CASE n # 0
  <2>1. PICK f : IsFlat(f, tt, Seq(T))
    BY <1>4, Flattens
  <2> DEFINE P == {i \in 0 .. n : i = 0 \/ f[i] = g[i]}
  <2>2. 0 \in P
    OBVIOUS
  <2>3. ASSUME NEW i \in 0 .. n, i \in P, i < n PROVE i + 1 \in P
    <3>1. CASE i = 0
      BY <1>1, <1>4, <2>1, <3>1 DEF IsFlat
    <3>2. CASE i # 0
      <4>1. i \in 1 .. n /\ i \in 1 .. n + 1 /\ i + 1 \in 1 .. n /\ i < n /\ i < n + 1 /\ f[i] = g[i]
        BY <2>3, <3>2
      <4>2. f[i + 1] = f[i] \o tt[i + 1]
        BY <2>1, <4>1 DEF IsFlat
      <4>3. g[i + 1] = g[i] \o ss[i + 1]
        BY <1>1, <4>1 DEF IsFlat
      <4>4. tt[i + 1] = ss[i + 1]
        BY <4>1
      <4>5. f[i + 1] = g[i + 1]
        <5> HIDE DEF P
        <5> QED BY <4>1, <4>2, <4>3, <4>4, Zenon
      <4> QED BY <4>1, <4>5
    <3> QED BY <3>1, <3>2
  <2>4. n \in P
    <3> HIDE DEF P
    <3>1. Inductive(P, n)
      BY <2>2, <2>3 DEF Inductive
    <3>2. 0 .. n \subseteq P
      BY <3>1, Induct, Zenon
    <3> QED BY <3>2
  <2>5. f[n] = g[n] /\ FlattenSeq(tt) = f[n] /\ FlattenSeq(ss) = g[n + 1] /\ f[n] \in Seq(T)
    BY <1>1, <1>4, <2>1, <2>4 DEF IsFlat
  <2>6. g[n + 1] = g[n] \o ss[n + 1]
    <3>1. n \in 1 .. n + 1 /\ n < n + 1 /\ Len(ss) = n + 1
      BY <1>4
    <3> QED BY <1>1, <3>1, Zenon DEF IsFlat
  <2> QED BY <2>5, <2>6
<1> QED BY <1>3, <1>4

\* Those of a list with one element more.
LEMMA ThoseMore ==
    ASSUME NEW T, NEW list \in Seq(T), NEW x \in T, NEW I, NEW J,
           \A i \in 1 .. Len(list) : i \in I <=> i \in J
    PROVE  /\ Those(list, I) \in Seq(T)
           /\ Those(Append(list, x), J) =
                  Those(list, I) \o (IF Len(list) + 1 \in J THEN <<x>> ELSE <<>>)
<1> DEFINE n == Len(list)
           more == Append(list, x)
           tt == [i \in DOMAIN list |-> IF i \in I THEN <<list[i]>> ELSE <<>>]
           ss == [i \in DOMAIN more |-> IF i \in J THEN <<more[i]>> ELSE <<>>]
<1>1. /\ n \in Nat /\ DOMAIN list = 1 .. n /\ DOMAIN more = 1 .. n + 1
      /\ \A i \in 1 .. n : more[i] = list[i] /\ list[i] \in T
      /\ more[n + 1] = x
  BY Appended, ElementOfSeq
<1> HIDE DEF n, more
<1>2. \A y \in T : <<y>> \in Seq(T)
  OBVIOUS
<1>3. <<>> \in Seq(T)
  OBVIOUS
<1>4. tt \in Seq(Seq(T)) /\ Len(tt) = n
  <2>1. tt \in [1 .. n -> Seq(T)]
    <3>1. ASSUME NEW i \in 1 .. n PROVE (IF i \in I THEN <<list[i]>> ELSE <<>>) \in Seq(T)
      BY <1>1, <1>2, <1>3
    <3> QED BY <1>1, <3>1
  <2> QED BY <1>1, <2>1
<1>5. ss \in Seq(Seq(T)) /\ Len(ss) = n + 1
  <2>1. ss \in [1 .. n + 1 -> Seq(T)]
    <3>1. ASSUME NEW i \in 1 .. n + 1 PROVE (IF i \in J THEN <<more[i]>> ELSE <<>>) \in Seq(T)
      BY <1>1, <1>2, <1>3
    <3> QED BY <1>1, <3>1
  <2> QED BY <1>1, <2>1
<1>6. \A i \in 1 .. n : tt[i] = ss[i]
  BY <1>1 DEF n
<1>7. ss[n + 1] = IF n + 1 \in J THEN <<x>> ELSE <<>>
  BY <1>1
<1>8. Those(list, I) = FlattenSeq(tt) /\ Those(Append(list, x), J) = FlattenSeq(ss)
  BY DEF Those, more
<1>9. FlattenSeq(tt) \in Seq(T) /\ FlattenSeq(ss) = FlattenSeq(tt) \o ss[n + 1]
  <2> HIDE DEF ss, tt
  <2> QED BY <1>1, <1>4, <1>5, <1>6, FlattenMore
<1> HIDE DEF ss, tt
<1> QED BY <1>7, <1>8, <1>9 DEF n

\* None of the empty list.
LEMMA ThoseNone == \A I : Those(<<>>, I) = <<>>
  BY DEF Those, FlattenSeq

-----------------------------------------------------------------------------
(* What is written, and what is parsed of it. *)

Heads == {""} \cup Sections \cup {"other"}
Names == DOMAIN Accepts \cup {""}
Values == (UNION {Accepts[n] : n \in DOMAIN Accepts}) \cup {None, {}, {"false"}, Redacted}
Lines == [header : Heads, dashes : 0 .. 2, name : Names, value : Values]
Rows == [header : Heads, dashes : 0 .. 2, name : Names, value : Values, split : BOOLEAN]

\* The fields of a row, and the lines that can be made of them.
LEMMA RowTypes ==
    /\ \A e \in Rows : /\ e.header \in Heads /\ e.dashes \in 0 .. 2 /\ e.name \in Names
                       /\ e.value \in Values /\ e.split \in BOOLEAN
    /\ \A h \in Heads, d \in 0 .. 2, n \in Names, v \in Values : Line(h, d, n, v) \in Lines
    /\ "" \in Heads /\ "" \in Names /\ None \in Values /\ 0 \in 0 .. 2
<1>1. \A e \in Rows : /\ e.header \in Heads /\ e.dashes \in 0 .. 2 /\ e.name \in Names
                      /\ e.value \in Values /\ e.split \in BOOLEAN
  BY DEF Rows
<1>2. \A h \in Heads, d \in 0 .. 2, n \in Names, v \in Values : Line(h, d, n, v) \in Lines
  BY DEF Line, Lines
<1>3. "" \in Heads /\ "" \in Names /\ None \in Values /\ 0 \in 0 .. 2
  BY DEF Heads, Names, Values
<1> QED BY <1>1, <1>2, <1>3

\* What can be written in a file consists of rows, and is written as lines.
LEMMA EntryTypes ==
    /\ Settings \subseteq Rows /\ Entries \subseteq Rows
    /\ \A e \in Rows : LinesOf(e) \in Seq(Lines)
<1>1. ASSUME NEW e \in Settings PROVE e \in Rows
  <2> DEFINE Vals == UNION {Accepts[n] : n \in DOMAIN Accepts}
  <2>1. e \in [header : {""}, dashes : {1, 2}, name : DOMAIN Accepts, value : Vals, split : BOOLEAN]
    BY DEF Settings
  <2>2. Vals \subseteq Values /\ DOMAIN Accepts \subseteq Names /\ "" \in Heads
    BY DEF Values, Names, Heads
  <2> HIDE DEF Vals
  <2>3. e \in [header : Heads, dashes : {1, 2}, name : Names, value : Values, split : BOOLEAN]
    BY <2>1, <2>2
  <2>4. {1, 2} \subseteq 0 .. 2
    OBVIOUS
  <2> QED BY <2>3, <2>4 DEF Rows
<1>2. \A s \in Heads : Header(s) \in Rows
  BY DEF Header, Rows, Names, Values
<1>3. Entries \subseteq Rows
  BY <1>1, <1>2 DEF Entries, Heads, Sections
<1>4. ASSUME NEW e \in Rows PROVE LinesOf(e) \in Seq(Lines)
  <2>1. Line("", e.dashes, e.name, None) \in Lines /\ Line("", 0, "", e.value) \in Lines
    BY RowTypes
  <2>2. Line(e.header, e.dashes, e.name, e.value) \in Lines
    BY RowTypes
  <2>3. \A l, m \in Lines : <<l>> \in Seq(Lines) /\ <<l, m>> \in Seq(Lines)
    OBVIOUS
  <2> QED BY <2>1, <2>2, <2>3 DEF LinesOf
<1> QED BY <1>1, <1>3, <1>4

\* One row more is written after the others.
LEMMA WrittenMore ==
    ASSUME NEW es \in Seq(Rows), NEW e \in Rows
    PROVE  Written(es) \in Seq(Lines) /\ Written(Append(es, e)) = Written(es) \o LinesOf(e)
<1> DEFINE n == Len(es)
           more == Append(es, e)
           tt == [i \in DOMAIN es |-> LinesOf(es[i])]
           ss == [i \in DOMAIN more |-> LinesOf(more[i])]
<1>1. /\ n \in Nat /\ DOMAIN es = 1 .. n /\ DOMAIN more = 1 .. n + 1
      /\ \A i \in 1 .. n : more[i] = es[i] /\ es[i] \in Rows
      /\ more[n + 1] = e
  BY Appended, ElementOfSeq
<1> HIDE DEF n, more
<1>2. \A i \in 1 .. n + 1 : more[i] \in Rows
  BY <1>1
<1>3. \A r \in Rows : LinesOf(r) \in Seq(Lines)
  BY EntryTypes
<1>4. tt \in Seq(Seq(Lines)) /\ Len(tt) = n
  <2>1. tt \in [1 .. n -> Seq(Lines)]
    BY <1>1, <1>3
  <2> QED BY <1>1, <2>1
<1>5. ss \in Seq(Seq(Lines)) /\ Len(ss) = n + 1
  <2>1. ss \in [1 .. n + 1 -> Seq(Lines)]
    BY <1>1, <1>2, <1>3
  <2> QED BY <1>1, <2>1
<1>6. (\A i \in 1 .. n : tt[i] = ss[i]) /\ ss[n + 1] = LinesOf(e)
  BY <1>1
<1>7. Written(es) = FlattenSeq(tt) /\ Written(Append(es, e)) = FlattenSeq(ss)
  BY DEF Written, more
<1>8. FlattenSeq(tt) \in Seq(Lines) /\ FlattenSeq(ss) = FlattenSeq(tt) \o ss[n + 1]
  <2> HIDE DEF ss, tt
  <2> QED BY <1>1, <1>4, <1>5, <1>6, FlattenMore
<1> HIDE DEF ss, tt
<1> QED BY <1>6, <1>7, <1>8

\* The empty list is written as no lines.
LEMMA WrittenNone == Written(<<>>) = <<>>
  BY DEF Written, FlattenSeq

FlagOf(e) == Line("", e.dashes, e.name, None)
ValueOf(e) == Line("", 0, "", e.value)
WholeOf(e) == Line(e.header, e.dashes, e.name, e.value)

\* The lines w and then those of e.
Then(w, e) == IF e.split THEN Append(Append(w, FlagOf(e)), ValueOf(e)) ELSE Append(w, WholeOf(e))

\* A setting is written as one line, or as a flag and the line of its value.
LEMMA Spellings ==
    ASSUME NEW es \in Seq(Rows), NEW e \in Rows
    PROVE  /\ FlagOf(e) \in Lines /\ ValueOf(e) \in Lines /\ WholeOf(e) \in Lines
           /\ Written(es) \in Seq(Lines)
           /\ Append(Written(es), FlagOf(e)) \in Seq(Lines)
           /\ Written(Append(es, e)) = Then(Written(es), e)
<1>1. FlagOf(e) \in Lines /\ ValueOf(e) \in Lines /\ WholeOf(e) \in Lines
  BY RowTypes DEF FlagOf, ValueOf, WholeOf
<1>2. LinesOf(e) = IF e.split THEN <<FlagOf(e), ValueOf(e)>> ELSE <<WholeOf(e)>>
  BY DEF LinesOf, FlagOf, ValueOf, WholeOf
<1>3. Written(es) \in Seq(Lines) /\ Written(Append(es, e)) = Written(es) \o LinesOf(e)
  BY WrittenMore
<1>4. \A w \in Seq(Lines) : w \o <<WholeOf(e)>> = Append(w, WholeOf(e))
  BY <1>1
<1>5. \A w \in Seq(Lines) : w \o <<FlagOf(e), ValueOf(e)>> = Append(Append(w, FlagOf(e)), ValueOf(e))
  BY <1>1
<1>6. Append(Written(es), FlagOf(e)) \in Seq(Lines)
  BY <1>1, <1>3
<1> QED BY <1>1, <1>2, <1>3, <1>4, <1>5, <1>6 DEF Then

-----------------------------------------------------------------------------
(* ParseFile, line by line. *)

Start == [section |-> "", ok |-> TRUE, tailscaled |-> <<>>, up |-> <<>>]
Parses == [section : Heads, ok : BOOLEAN, tailscaled : Seq(Lines), up : Seq(Lines)]

\* ParseLine (ParseFile in internal/config/file.go) keeps to its types.
LEMMA LineByLine ==
    ASSUME NEW p \in Parses, NEW l \in Lines
    PROVE  ParseLine(p, l) \in Parses
<1>1. l.header \in Heads /\ "" \in Heads
  BY DEF Lines, Heads
<1>2. Append(p.tailscaled, l) \in Seq(Lines) /\ Append(p.up, l) \in Seq(Lines)
  BY DEF Parses
<1>3. [p EXCEPT !.section = l.header, !.ok = l.header \in Sections] \in Parses
  <2>1. \A h \in Heads, b \in BOOLEAN : [p EXCEPT !.section = h, !.ok = b] \in Parses
    BY DEF Parses
  <2>2. CASE l.header \in Sections
    <3>1. (l.header \in Sections) = TRUE
      BY <2>2
    <3> QED BY <1>1, <2>1, <3>1, Zenon
  <2>3. CASE l.header \notin Sections
    <3>1. (l.header \in Sections) = FALSE
      BY <2>3
    <3> QED BY <1>1, <2>1, <3>1, Zenon
  <2> QED BY <2>2, <2>3
<1>4. [p EXCEPT !.ok = FALSE] \in Parses
  BY DEF Parses
<1>5. [p EXCEPT !.tailscaled = Append(@, l)] \in Parses /\ [p EXCEPT !.up = Append(@, l)] \in Parses
  BY <1>2 DEF Parses
<1> QED BY <1>3, <1>4, <1>5 DEF ParseLine

\* f holds what has been parsed of the lines so far.
IsParsed(f, lines) ==
    /\ f \in [0 .. Len(lines) -> Parses] /\ f[0] = Start
    /\ \A i \in 0 .. Len(lines) : i < Len(lines) => f[i + 1] = ParseLine(f[i], lines[i + 1])
    /\ ParseFile(lines) = f[Len(lines)]

\* The function that ParseFile evaluates exists, and only one.
LEMMA IsParsedBy ==
    ASSUME NEW lines \in Seq(Lines)
    PROVE  \E f : IsParsed(f, lines)
<1> DEFINE n == Len(lines)
           Step == [i \in 1 .. n |-> [p \in Parses |-> ParseLine(p, lines[i])]]
           Is(f) == f = [i \in 0 .. n |-> IF i = 0 THEN Start ELSE ParseLine(f[i - 1], lines[i])]
           f == CHOOSE f : Is(f)
<1>1. n \in Nat /\ \A i \in 1 .. n : lines[i] \in Lines
  BY LenProperties, ElementOfSeq
<1>2. ParseFile(lines) = f[n]
  BY DEF ParseFile, Start, f
<1> HIDE DEF f, n
<1>3. Start \in Parses
  <2>1. <<>> \in Seq(Lines)
    OBVIOUS
  <2> QED BY <2>1 DEF Start, Parses, Heads
<1>4. Step \in [1 .. n -> [Parses -> Parses]]
  BY <1>1, LineByLine
<1>5. \A i \in 1 .. n, p \in Parses : Step[i][p] = ParseLine(p, lines[i])
  OBVIOUS
<1> HIDE DEF Step
<1>6. PICK d : IsChain(d, Start, Step, n, Parses)
  BY <1>1, <1>3, <1>4, Chain
<1>7. d \in [0 .. n -> Parses]
  BY <1>6 DEF IsChain
<1>8. Is(d)
  <2>1. ASSUME NEW i \in 0 .. n, i # 0 PROVE d[i] = ParseLine(d[i - 1], lines[i])
    <3>1. i \in 1 .. n /\ i - 1 \in 0 .. n
      BY <1>1, <2>1
    <3>2. d[i] = Step[i][d[i - 1]]
      BY <1>6, <2>1 DEF IsChain
    <3> QED BY <1>5, <1>7, <3>1, <3>2
  <2>2. d[0] = Start
    BY <1>1, <1>6 DEF IsChain
  <2> QED BY <1>7, <2>1, <2>2
<1>9. Is(f)
  BY <1>8 DEF f
<1>10. f[0] = Start /\ \A i \in 0 .. n : i < n => f[i + 1] = ParseLine(f[i], lines[i + 1])
  <2>1. f[0] = Start
    BY <1>1, <1>9
  <2>2. ASSUME NEW i \in 0 .. n, i < n PROVE f[i + 1] = ParseLine(f[i], lines[i + 1])
    <3>1. i + 1 \in 0 .. n /\ i + 1 # 0 /\ (i + 1) - 1 = i
      BY <1>1, <2>2
    <3>2. f[i + 1] = ParseLine(f[(i + 1) - 1], lines[i + 1])
      BY <1>9, <3>1
    <3> QED BY <3>1, <3>2
  <2> QED BY <2>1, <2>2
<1>11. f \in [0 .. n -> Parses]
  <2> DEFINE P == {i \in 0 .. n : f[i] \in Parses}
  <2>1. 0 \in P
    BY <1>1, <1>3, <1>10
  <2>2. ASSUME NEW i \in 0 .. n, i \in P, i < n PROVE i + 1 \in P
    <3>1. i + 1 \in 1 .. n /\ i + 1 \in 0 .. n
      BY <1>1, <2>2
    <3>2. ParseLine(f[i], lines[i + 1]) \in Parses
      BY <1>1, <2>2, <3>1, LineByLine
    <3> QED BY <1>10, <2>2, <3>1, <3>2
  <2> HIDE DEF P
  <2>3. Inductive(P, n)
    BY <2>1, <2>2 DEF Inductive
  <2>4. 0 .. n \subseteq P
    BY <1>1, <2>3, Induct, Zenon
  <2>5. \A i \in 0 .. n : f[i] \in Parses
    BY <2>4 DEF P
  <2> QED BY <1>9, <2>5
<1> QED BY <1>2, <1>10, <1>11 DEF IsParsed, n

\* Parsing one line more is parsing the rest and then that line.
LEMMA ParseMore ==
    ASSUME NEW lines \in Seq(Lines), NEW l \in Lines
    PROVE  /\ ParseFile(lines) \in Parses
           /\ ParseFile(Append(lines, l)) = ParseLine(ParseFile(lines), l)
<1> DEFINE n == Len(lines)
           more == Append(lines, l)
<1>1. /\ n \in Nat /\ more \in Seq(Lines) /\ Len(more) = n + 1
      /\ \A i \in 1 .. n : more[i] = lines[i]
      /\ more[n + 1] = l
  BY Appended
<1>2. PICK f : IsParsed(f, lines)
  BY IsParsedBy
<1> HIDE DEF more
<1>3. PICK g : IsParsed(g, more)
  BY <1>1, IsParsedBy
<1>4. GoAlike(f, g, n)
  <2>1. f[0] = g[0]
    BY <1>2, <1>3 DEF IsParsed
  <2>2. ASSUME NEW i \in 0 .. n, i < n, f[i] = g[i] PROVE f[i + 1] = g[i + 1]
    <3>1. i \in 0 .. n + 1 /\ i < n + 1 /\ more[i + 1] = lines[i + 1]
      BY <1>1, <2>2
    <3>2. f[i + 1] = ParseLine(f[i], lines[i + 1])
      BY <1>2, <2>2 DEF IsParsed
    <3>3. g[i + 1] = ParseLine(g[i], more[i + 1])
      BY <1>1, <1>3, <3>1, Zenon DEF IsParsed
    <3> QED BY <2>2, <3>1, <3>2, <3>3
  <2> QED BY <2>1, <2>2 DEF GoAlike
<1>5. f[n] = g[n]
  <2>1. Alike(f, g, n)
    BY <1>1, <1>4, Agree
  <2> QED BY <1>1, <2>1 DEF Alike
<1>6. ParseFile(lines) = f[n] /\ f[n] \in Parses /\ ParseFile(more) = g[n + 1]
  BY <1>1, <1>2, <1>3 DEF IsParsed
<1>7. g[n + 1] = ParseLine(g[n], more[n + 1])
  <2>1. n \in 0 .. n + 1 /\ n < n + 1
    BY <1>1
  <2> QED BY <1>1, <1>3, <2>1, Zenon DEF IsParsed
<1> QED BY <1>1, <1>5, <1>6, <1>7 DEF more

\* Of the empty file ParseFile makes what it starts with.
LEMMA ParseNone == ParseFile(<<>>) = Start
<1>1. PICK f : IsParsed(f, <<>>)
  BY IsParsedBy, EmptySeq
<1> QED BY <1>1, EmptySeq DEF IsParsed

-----------------------------------------------------------------------------
(* Sections. *)

\* A set of positions that is not empty has a largest.
LEMMA Largest ==
    ASSUME NEW n \in Nat, NEW T \in SUBSET (1 .. n), T # {}
    PROVE  Max(T) \in T /\ \A y \in T : y <= Max(T)
<1> DEFINE U == {n - x : x \in T}
<1>1. U \in SUBSET Nat /\ U # {}
  <2>1. \A x \in T : n - x \in Nat
    OBVIOUS
  <2> QED BY <2>1
<1>2. \E u \in U : \A v \in U : u <= v
  <2> HIDE DEF U
  <2> QED BY <1>1, Least
<1>3. \E x \in T : \A y \in T : x >= y
  BY <1>2
<1> QED BY <1>3, Zenon DEF Max

\* The section headers of a list up to a position.
IsHeader(es, j) == es[j].header # ""
HeadersTo(es, i) == {j \in 1 .. i : IsHeader(es, j)}

\* SectionAt in terms of the headers so far.
LEMMA SectionIs ==
    \A es, i : SectionAt(es, i) =
        IF HeadersTo(es, i) = {} THEN "" ELSE es[Max(HeadersTo(es, i))].header
  BY DEF SectionAt, HeadersTo, IsHeader

\* An entry more does not change the sections of those before it.
LEMMA SectionBefore ==
    ASSUME NEW es \in Seq(Rows), NEW e \in Rows, NEW i \in 0 .. Len(es)
    PROVE  SectionAt(Append(es, e), i) = SectionAt(es, i)
<1> DEFINE more == Append(es, e)
           H == HeadersTo(es, i)
<1>1. i \in Nat /\ \A j \in 1 .. i : j \in 1 .. Len(es) /\ more[j] = es[j]
  BY Appended
<1> HIDE DEF more
<1>2. \A j \in 1 .. i : IsHeader(es, j) <=> IsHeader(more, j)
  BY <1>1 DEF IsHeader
<1>3. HeadersTo(more, i) = H
  BY <1>2 DEF HeadersTo
<1>4. H \in SUBSET (1 .. i)
  BY DEF HeadersTo
<1> HIDE DEF H
<1>5. H # {} => Max(H) \in 1 .. i
  BY <1>1, <1>4, Largest
<1>6. SectionAt(es, i) = IF H = {} THEN "" ELSE es[Max(H)].header
  BY SectionIs DEF H
<1>7. SectionAt(more, i) = IF H = {} THEN "" ELSE more[Max(H)].header
  BY <1>3, SectionIs
<1>8. CASE H = {}
  BY <1>6, <1>7, <1>8 DEF more
<1>9. CASE H # {}
  <2>1. more[Max(H)] = es[Max(H)]
    BY <1>1, <1>5, <1>9
  <2> QED BY <1>6, <1>7, <1>9, <2>1 DEF more
<1> QED BY <1>8, <1>9

\* The section of the last entry is its own header, or that of the entry before it.
LEMMA SectionNow ==
    ASSUME NEW es \in Seq(Rows), NEW e \in Rows
    PROVE  SectionAt(Append(es, e), Len(es) + 1) =
               IF e.header # "" THEN e.header ELSE SectionAt(es, Len(es))
<1> DEFINE n == Len(es)
           more == Append(es, e)
           H == HeadersTo(more, n + 1)
<1>1. n \in Nat /\ n + 1 \in Nat /\ more[n + 1] = e
  BY Appended
<1>2. SectionAt(more, n) = SectionAt(es, n)
  BY <1>1, SectionBefore
<1> HIDE DEF n, more
<1>3. IsHeader(more, n + 1) <=> e.header # ""
  BY <1>1 DEF IsHeader
<1>4. CASE e.header = ""
  <2>1. \A j : j \in 1 .. n + 1 /\ IsHeader(more, j) <=> j \in 1 .. n /\ IsHeader(more, j)
    <3> TAKE j
    <3>1. j = n + 1 => ~IsHeader(more, j)
      BY <1>3, <1>4
    <3>2. j \in 1 .. n + 1 <=> j \in 1 .. n \/ j = n + 1
      BY <1>1
    <3> QED BY <3>1, <3>2
  <2>2. H = HeadersTo(more, n)
    BY <2>1, Zenon DEF HeadersTo
  <2>3. SectionAt(more, n + 1) = SectionAt(more, n)
    BY <2>2, SectionIs
  <2> QED BY <1>2, <1>4, <2>3 DEF n, more
<1>5. CASE e.header # ""
  <2>1. n + 1 \in H /\ H \in SUBSET (1 .. n + 1) /\ H # {}
    <3>1. n + 1 \in 1 .. n + 1 /\ IsHeader(more, n + 1)
      <4>1. n + 1 \in 1 .. n + 1
        BY <1>1
      <4> QED BY <1>3, <1>5, <4>1
    <3> QED BY <3>1, Zenon DEF HeadersTo
  <2> HIDE DEF H
  <2>2. Max(H) \in H /\ \A y \in H : y <= Max(H)
    BY <1>1, <2>1, Largest
  <2>3. Max(H) = n + 1
    <3>1. Max(H) \in 1 .. n + 1 /\ n + 1 <= Max(H)
      BY <2>1, <2>2
    <3> QED BY <1>1, <3>1
  <2>4. SectionAt(more, n + 1) = more[Max(H)].header
    BY <2>1, SectionIs DEF H
  <2> QED BY <1>1, <1>5, <2>3, <2>4 DEF n, more
<1> QED BY <1>4, <1>5

\* There is no section before the first entry.
LEMMA SectionFirst == \A es : SectionAt(es, 0) = ""
  BY DEF SectionAt

\* A setting more goes to the section it stands in and to no other.
LEMMA InSectionMore ==
    ASSUME NEW es \in Seq(Rows), NEW e \in Rows, NEW section
    PROVE  /\ InSection(es, section) \in Seq(Rows)
           /\ InSection(Append(es, e), section) =
                IF e.header = "" /\ SectionAt(es, Len(es)) = section
                THEN Append(InSection(es, section), e) ELSE InSection(es, section)
<1> DEFINE n == Len(es)
           more == Append(es, e)
           Belongs(s, i) == s[i].header = "" /\ SectionAt(s, i) = section
           In(s) == {i \in DOMAIN s : Belongs(s, i)}
<1>1. /\ n \in Nat /\ DOMAIN es = 1 .. n /\ DOMAIN more = 1 .. n + 1
      /\ \A i \in 1 .. n : more[i] = es[i] /\ i \in 0 .. n
      /\ more[n + 1] = e
  BY Appended
<1>2. \A i \in 0 .. n : SectionAt(more, i) = SectionAt(es, i)
  BY SectionBefore
<1>3. SectionAt(more, n + 1) = IF e.header # "" THEN e.header ELSE SectionAt(es, n)
  BY SectionNow
<1> HIDE DEF more, n
<1>4. \A i \in 1 .. n : i \in In(es) <=> i \in In(more)
  <2>1. ASSUME NEW i \in 1 .. n PROVE Belongs(es, i) <=> Belongs(more, i)
    BY <1>1, <1>2, Zenon
  <2> HIDE DEF Belongs
  <2>2. \A i \in 1 .. n : i \in 1 .. n + 1
    BY <1>1
  <2> QED BY <1>1, <2>1, <2>2
<1>5. n + 1 \in In(more) <=> e.header = "" /\ SectionAt(es, n) = section
  <2>1. Belongs(more, n + 1) <=> e.header = "" /\ SectionAt(es, n) = section
    <3>1. CASE e.header = ""
      BY <1>1, <1>3, <3>1, Zenon
    <3>2. CASE e.header # ""
      BY <1>1, <3>2, Zenon
    <3> QED BY <3>1, <3>2
  <2> HIDE DEF Belongs
  <2>2. n + 1 \in 1 .. n + 1
    BY <1>1
  <2> QED BY <1>1, <2>1, <2>2
<1>6. InSection(es, section) = Those(es, In(es)) /\ InSection(more, section) = Those(more, In(more))
  BY DEF InSection
<1> HIDE DEF In
<1>7. /\ Those(es, In(es)) \in Seq(Rows)
      /\ Those(more, In(more)) = Those(es, In(es)) \o (IF n + 1 \in In(more) THEN <<e>> ELSE <<>>)
  BY <1>4, ThoseMore DEF more, n
<1>8. \A s \in Seq(Rows) : s \o <<e>> = Append(s, e) /\ s \o <<>> = s
  BY ConcatEmptySeq
<1> QED BY <1>5, <1>6, <1>7, <1>8 DEF more, n

\* A file is fine with an entry more if it is without, and that entry is.
LEMMA AcceptedMore ==
    ASSUME NEW es \in Seq(Rows), NEW e \in Rows
    PROVE  LET section == IF e.header # "" THEN e.header ELSE SectionAt(es, Len(es))
           IN Accepted(Append(es, e)) <=>
                  /\ Accepted(es) /\ section \in Sections
                  /\ section = "tailscaled" => e.name \notin managedFlags
<1> DEFINE n == Len(es)
           more == Append(es, e)
           Fine(s, i) == /\ SectionAt(s, i) \in Sections
                         /\ SectionAt(s, i) = "tailscaled" => s[i].name \notin managedFlags
<1>1. /\ n \in Nat /\ DOMAIN es = 1 .. n /\ DOMAIN more = 1 .. n + 1
      /\ \A i \in 1 .. n : more[i] = es[i] /\ i \in 0 .. n
      /\ more[n + 1] = e
  BY Appended
<1>2. \A i \in 0 .. n : SectionAt(more, i) = SectionAt(es, i)
  BY SectionBefore
<1>3. SectionAt(more, n + 1) = IF e.header # "" THEN e.header ELSE SectionAt(es, n)
  BY SectionNow
<1> HIDE DEF more, n
<1>4. \A i \in 1 .. n : Fine(es, i) <=> Fine(more, i)
  BY <1>1, <1>2
<1>5. Accepted(es) <=> \A i \in 1 .. n : Fine(es, i)
  BY <1>1 DEF Accepted
<1>6. Accepted(more) <=> \A i \in 1 .. n + 1 : Fine(more, i)
  BY <1>1 DEF Accepted
<1>7. (\A i \in 1 .. n + 1 : Fine(more, i)) <=> (\A i \in 1 .. n : Fine(more, i)) /\ Fine(more, n + 1)
  <2> HIDE DEF Fine
  <2>1. \A i \in 1 .. n + 1 : i \in 1 .. n \/ i = n + 1
    BY <1>1
  <2>2. n + 1 \in 1 .. n + 1 /\ \A i \in 1 .. n : i \in 1 .. n + 1
    BY <1>1
  <2> QED BY <2>1, <2>2, Zenon
<1>8. Accepted(more) <=> Accepted(es) /\ Fine(more, n + 1)
  <2> HIDE DEF Fine
  <2> QED BY <1>4, <1>5, <1>6, <1>7
<1> DEFINE section == IF e.header # "" THEN e.header ELSE SectionAt(es, n)
<1>9. Fine(more, n + 1) <=> section \in Sections /\ (section = "tailscaled" => e.name \notin managedFlags)
  <2>1. SectionAt(more, n + 1) = section
    BY <1>3
  <2> HIDE DEF section
  <2> QED BY <1>1, <2>1, Zenon
<1> HIDE DEF Fine
<1> QED BY <1>8, <1>9 DEF more, n

-----------------------------------------------------------------------------
(* A file and one entry more. *)

\* The two spellings of a setting, as lines.
LEMMA SettingFields ==
    ASSUME NEW e \in Settings
    PROVE  /\ e \in Rows /\ e.header = "" /\ e.dashes \in {1, 2} /\ e.name # "" /\ e.split \in BOOLEAN
           /\ FlagOf(e).header = "" /\ FlagOf(e).dashes > 0
           /\ FlagOf(e).name = e.name /\ FlagOf(e).value = None
           /\ FlagOf(e).dashes = e.dashes /\ WholeOf(e).dashes = e.dashes
           /\ ValueOf(e).header = "" /\ ValueOf(e).dashes = 0 /\ ValueOf(e).name = ""
           /\ ValueOf(e).value = e.value
           /\ WholeOf(e).header = "" /\ WholeOf(e).dashes > 0 /\ WholeOf(e).name = e.name
           /\ WholeOf(e).value = e.value
           /\ e.split => NeedsValue(e.name)
<1>1. e.header = "" /\ e.dashes \in {1, 2} /\ e.name \in DOMAIN Accepts /\ e.split \in BOOLEAN
  BY DEF Settings
<1>2. e.split => NeedsValue(e.name)
  BY DEF Settings
<1>3. e.dashes > 0
  <2>1. \A d \in {1, 2} : d > 0
    OBVIOUS
  <2> QED BY <1>1, <2>1, Zenon
<1>4. e.name # ""
  BY <1>1, FlagsAssumption
<1>5. e \in Rows
  BY EntryTypes
<1> QED BY <1>1, <1>2, <1>3, <1>4, <1>5 DEF FlagOf, ValueOf, WholeOf, Line

ParseEntry(p, e) ==
    IF e.split THEN ParseLine(ParseLine(p, FlagOf(e)), ValueOf(e)) ELSE ParseLine(p, WholeOf(e))

\* Parsing a file with an entry more is parsing the rest, and then the lines of that entry.
LEMMA EntryByEntry ==
    ASSUME NEW f \in Seq(Rows), NEW e \in Rows
    PROVE  /\ ParseFile(Written(f)) \in Parses
           /\ ParseFile(Written(Append(f, e))) = ParseEntry(ParseFile(Written(f)), e)
<1>1. /\ FlagOf(e) \in Lines /\ ValueOf(e) \in Lines /\ WholeOf(e) \in Lines
      /\ Written(f) \in Seq(Lines) /\ Append(Written(f), FlagOf(e)) \in Seq(Lines)
      /\ Written(Append(f, e)) = Then(Written(f), e)
  BY Spellings
<1>2. /\ ParseFile(Written(f)) \in Parses
      /\ ParseFile(Append(Written(f), FlagOf(e))) = ParseLine(ParseFile(Written(f)), FlagOf(e))
      /\ ParseFile(Append(Written(f), WholeOf(e))) = ParseLine(ParseFile(Written(f)), WholeOf(e))
  BY <1>1, ParseMore
<1>3. ParseFile(Append(Append(Written(f), FlagOf(e)), ValueOf(e))) =
          ParseLine(ParseFile(Append(Written(f), FlagOf(e))), ValueOf(e))
  BY <1>1, ParseMore
<1> QED BY <1>1, <1>2, <1>3, Zenon DEF Then, ParseEntry

\* A setting goes to the section of the last header, or is refused.
LEMMA ParseSetting ==
    ASSUME NEW p \in Parses, NEW e \in Settings
    PROVE  LET q == ParseEntry(p, e)
           IN /\ ~p.ok => q = p
              /\ p.ok /\ (p.section = "" \/ (p.section = "tailscaled" /\ e.name \in managedFlags)) => ~q.ok
              /\ p.ok /\ p.section = "tailscaled" /\ e.name \notin managedFlags =>
                    q = [p EXCEPT !.tailscaled = Then(p.tailscaled, e)]
              /\ p.ok /\ p.section = "up" => q = [p EXCEPT !.up = Then(p.up, e)]
<1> DEFINE q == ParseEntry(p, e)
<1>1. p.ok \in BOOLEAN
  BY DEF Parses
<1>2. CASE ~p.ok
  BY <1>2 DEF ParseEntry, ParseLine
<1>3. CASE p.ok /\ (p.section = "" \/ (p.section = "tailscaled" /\ e.name \in managedFlags))
  <2>1. ~ParseLine(p, WholeOf(e)).ok /\ ~ParseLine(p, FlagOf(e)).ok
    BY <1>3, SettingFields DEF ParseLine, IsManaged, Parses
  <2>2. ~ParseLine(ParseLine(p, FlagOf(e)), ValueOf(e)).ok
    BY <2>1 DEF ParseLine
  <2> QED BY <1>3, <2>1, <2>2 DEF ParseEntry
<1>4. CASE p.ok /\ p.section = "tailscaled" /\ e.name \notin managedFlags
  <2>1. ASSUME NEW r \in Parses, r.ok, r.section = "tailscaled", NEW l, l.header = "", ~IsManaged(l)
        PROVE  ParseLine(r, l) = [r EXCEPT !.tailscaled = Append(@, l)]
    BY <2>1 DEF ParseLine
  <2>2. ~IsManaged(FlagOf(e)) /\ ~IsManaged(WholeOf(e)) /\ ~IsManaged(ValueOf(e))
    <3>1. FlagOf(e).name = e.name /\ WholeOf(e).name = e.name /\ ValueOf(e).name = ""
      BY SettingFields
    <3>2. "" \notin managedFlags
      BY FlagsAssumption
    <3> QED BY <1>4, <3>1, <3>2, Zenon DEF IsManaged
  <2>3. ParseLine(p, WholeOf(e)) = [p EXCEPT !.tailscaled = Append(@, WholeOf(e))]
    BY <1>4, <2>1, <2>2, SettingFields
  <2> DEFINE r == [p EXCEPT !.tailscaled = Append(@, FlagOf(e))]
  <2>4. ParseLine(p, FlagOf(e)) = r
    BY <1>4, <2>1, <2>2, SettingFields
  <2>5. r \in Parses /\ r.ok /\ r.section = "tailscaled" /\ r.tailscaled = Append(p.tailscaled, FlagOf(e))
    <3>1. r \in Parses
      BY <2>4, SettingFields, LineByLine, RowTypes DEF FlagOf
    <3> QED BY <1>4, <3>1 DEF Parses
  <2>6. ParseLine(r, ValueOf(e)) = [r EXCEPT !.tailscaled = Append(@, ValueOf(e))]
    <3> HIDE DEF r
    <3> QED BY <2>1, <2>2, <2>5, SettingFields
  <2>7. [r EXCEPT !.tailscaled = Append(@, ValueOf(e))] =
            [p EXCEPT !.tailscaled = Append(Append(@, FlagOf(e)), ValueOf(e))]
    BY DEF Parses
  <2>8. q = [p EXCEPT !.tailscaled = Then(p.tailscaled, e)]
    <3>1. CASE e.split
      BY <2>4, <2>6, <2>7, <3>1 DEF ParseEntry, Then
    <3>2. CASE ~e.split
      BY <2>3, <3>2 DEF ParseEntry, Then
    <3> QED BY <3>1, <3>2
  <2> QED BY <1>4, <2>8
<1>5. CASE p.ok /\ p.section = "up"
  <2>1. ASSUME NEW r \in Parses, r.ok, r.section = "up", NEW l, l.header = ""
        PROVE  ParseLine(r, l) = [r EXCEPT !.up = Append(@, l)]
    BY <2>1 DEF ParseLine
  <2>3. ParseLine(p, WholeOf(e)) = [p EXCEPT !.up = Append(@, WholeOf(e))]
    BY <1>5, <2>1, SettingFields
  <2> DEFINE r == [p EXCEPT !.up = Append(@, FlagOf(e))]
  <2>4. ParseLine(p, FlagOf(e)) = r
    BY <1>5, <2>1, SettingFields
  <2>5. r \in Parses /\ r.ok /\ r.section = "up" /\ r.up = Append(p.up, FlagOf(e))
    <3>1. r \in Parses
      BY <2>4, SettingFields, LineByLine, RowTypes DEF FlagOf
    <3> QED BY <1>5, <3>1 DEF Parses
  <2>6. ParseLine(r, ValueOf(e)) = [r EXCEPT !.up = Append(@, ValueOf(e))]
    <3> HIDE DEF r
    <3> QED BY <2>1, <2>5, SettingFields
  <2>7. [r EXCEPT !.up = Append(@, ValueOf(e))] =
            [p EXCEPT !.up = Append(Append(@, FlagOf(e)), ValueOf(e))]
    BY DEF Parses
  <2>8. q = [p EXCEPT !.up = Then(p.up, e)]
    <3>1. CASE e.split
      BY <2>4, <2>6, <2>7, <3>1 DEF ParseEntry, Then
    <3>2. CASE ~e.split
      BY <2>3, <3>2 DEF ParseEntry, Then
    <3> QED BY <3>1, <3>2
  <2> QED BY <1>5, <2>8
<1> QED BY <1>1, <1>2, <1>3, <1>4, <1>5

\* A header as an entry and as a line.
LEMMA HeaderFields ==
    ASSUME NEW s \in Sections \cup {"other"}
    PROVE  LET e == Header(s)
           IN /\ e \in Rows /\ e.header = s /\ s # "" /\ ~e.split /\ e.name = ""
              /\ "" \notin managedFlags /\ WholeOf(e).header = s
<1>1. Header(s) \in Rows
  BY EntryTypes DEF Entries
<1>2. s # ""
  BY DEF Sections
<1>3. "" \notin managedFlags
  BY FlagsAssumption
<1> QED BY <1>1, <1>2, <1>3 DEF Header, WholeOf, Line

\* A header changes the section, and ends the parsing when it is not known.
LEMMA ParseHeader ==
    ASSUME NEW p \in Parses, NEW s \in Sections \cup {"other"}
    PROVE  LET q == ParseEntry(p, Header(s))
           IN /\ ~p.ok => q = p
              /\ p.ok => /\ q.ok <=> s \in Sections
                         /\ q.section = s /\ q.tailscaled = p.tailscaled /\ q.up = p.up
<1> DEFINE e == Header(s)
<1>1. ~e.split /\ WholeOf(e).header = s /\ s # ""
  BY HeaderFields
<1> HIDE DEF e
<1>2. ParseEntry(p, e) = ParseLine(p, WholeOf(e))
  BY <1>1 DEF ParseEntry
<1>3. ~p.ok => ParseLine(p, WholeOf(e)) = p
  BY DEF ParseLine
<1>4. p.ok => ParseLine(p, WholeOf(e)) = [p EXCEPT !.section = s, !.ok = s \in Sections]
  BY <1>1 DEF ParseLine
<1> DEFINE q == [p EXCEPT !.section = s, !.ok = s \in Sections]
<1>5. (q.ok <=> s \in Sections) /\ q.section = s /\ q.tailscaled = p.tailscaled /\ q.up = p.up
  BY DEF Parses
<1> HIDE DEF q
<1> QED BY <1>2, <1>3, <1>4, <1>5 DEF e, q

\* What has been parsed of a file is what it says up to there.
Sorted(f) ==
    LET p == ParseFile(Written(f))
    IN /\ p.ok <=> Accepted(f)
       /\ p.ok => /\ p.section = SectionAt(f, Len(f)) /\ p.section \in {""} \cup Sections
                  /\ p.tailscaled = Written(InSection(f, "tailscaled"))
                  /\ p.up = Written(InSection(f, "up"))

\* The empty file is parsed as it is written.
LEMMA SortedNone == Sorted(<<>>)
<1>1. ParseFile(Written(<<>>)) = Start
  BY WrittenNone, ParseNone
<1>2. Accepted(<<>>)
  BY EmptySeq DEF Accepted
<1>3. SectionAt(<<>>, Len(<<>>)) = ""
  BY SectionFirst, EmptySeq
<1>4. \A section : Written(InSection(<<>>, section)) = <<>>
  BY ThoseNone, WrittenNone DEF InSection
<1>5. Start.section = "" /\ Start.ok /\ Start.tailscaled = <<>> /\ Start.up = <<>>
  BY DEF Start
<1> QED BY <1>1, <1>2, <1>3, <1>4, <1>5, Zenon DEF Sorted

\* A file that is parsed as it is written still is with one entry more: the step of
\* the induction over files.
LEMMA SortedMore ==
    ASSUME NEW f \in Seq(Entries), NEW e \in Entries, Sorted(f)
    PROVE  Sorted(Append(f, e))
<1> DEFINE p == ParseFile(Written(f))
           g == Append(f, e)
           q == ParseFile(Written(g))
           now == SectionAt(f, Len(f))
           section == IF e.header # "" THEN e.header ELSE now
<1>1. f \in Seq(Rows) /\ e \in Rows
  BY EntryTypes, SeqMonotonic
<1>2. p \in Parses /\ q = ParseEntry(p, e)
  BY <1>1, EntryByEntry
<1>3. SectionAt(g, Len(g)) = section
  <2>1. Len(g) = Len(f) + 1
    BY <1>1, Appended
  <2> QED BY <1>1, <2>1, SectionNow
<1>4. \A s : /\ InSection(f, s) \in Seq(Rows)
             /\ InSection(g, s) = IF e.header = "" /\ now = s
                                  THEN Append(InSection(f, s), e) ELSE InSection(f, s)
  BY <1>1, InSectionMore
<1>5. Accepted(g) <=> /\ Accepted(f) /\ section \in Sections
                      /\ section = "tailscaled" => e.name \notin managedFlags
  BY <1>1, AcceptedMore
<1>6. \A s : Written(Append(InSection(f, s), e)) = Then(Written(InSection(f, s)), e)
  BY <1>1, <1>4, Spellings
<1>7. /\ p.ok <=> Accepted(f)
      /\ p.ok => /\ p.section = now /\ now \in {""} \cup Sections
                 /\ p.tailscaled = Written(InSection(f, "tailscaled"))
                 /\ p.up = Written(InSection(f, "up"))
  BY DEF Sorted
<1>8. "" \notin Sections /\ "up" # "tailscaled" /\ Sections = {"tailscaled", "up"}
  BY DEF Sections
<1> HIDE DEF p, g, q, now
<1>10. Sorted(g) <=> /\ q.ok <=> Accepted(g)
                     /\ q.ok => /\ q.section = section /\ q.section \in {""} \cup Sections
                                /\ q.tailscaled = Written(InSection(g, "tailscaled"))
                                /\ q.up = Written(InSection(g, "up"))
  BY <1>3 DEF Sorted, q
<1>11. CASE ~p.ok
  <2>1. q = p
    <3>1. CASE e \in Settings
      BY <1>2, <1>11, <3>1, ParseSetting
    <3>2. CASE e \notin Settings
      <4>1. PICK s \in Sections \cup {"other"} : e = Header(s)
        BY <3>2 DEF Entries
      <4> QED BY <1>2, <1>11, <4>1, ParseHeader
    <3> QED BY <3>1, <3>2
  <2> QED BY <1>5, <1>7, <1>10, <1>11, <2>1 DEF g
<1>12. CASE p.ok /\ e \notin Settings
  <2>1. PICK s \in Sections \cup {"other"} : e = Header(s)
    BY <1>12 DEF Entries
  <2>2. e.header = s /\ s # "" /\ e.name = "" /\ "" \notin managedFlags
    BY <2>1, HeaderFields
  <2>3. (q.ok <=> s \in Sections) /\ q.section = s /\ q.tailscaled = p.tailscaled /\ q.up = p.up
    BY <1>2, <1>12, <2>1, ParseHeader
  <2>4. section = s
    BY <2>2
  <2>5. \A t : InSection(g, t) = InSection(f, t)
    BY <1>4, <2>2
  <2> HIDE DEF section
  <2> QED BY <1>5, <1>7, <1>10, <1>12, <2>2, <2>3, <2>4, <2>5 DEF g
<1>13. CASE p.ok /\ e \in Settings
  <2>1. e.header = ""
    BY <1>13, SettingFields
  <2>2. section = now
    BY <2>1
  <2> HIDE DEF section
  <2>3. CASE now = "" \/ (now = "tailscaled" /\ e.name \in managedFlags)
    <3>1. ~q.ok
      BY <1>2, <1>7, <1>13, <2>3, ParseSetting
    <3>2. ~Accepted(g)
      BY <1>5, <1>8, <2>2, <2>3
    <3> QED BY <1>10, <3>1, <3>2 DEF g
  <2>4. CASE now = "tailscaled" /\ e.name \notin managedFlags
    <3>1. q = [p EXCEPT !.tailscaled = Then(p.tailscaled, e)]
      BY <1>2, <1>7, <1>13, <2>4, ParseSetting
    <3>2. q.ok /\ q.section = p.section /\ q.tailscaled = Then(p.tailscaled, e) /\ q.up = p.up
      BY <1>2, <1>13, <3>1 DEF Parses
    <3>3. /\ InSection(g, "tailscaled") = Append(InSection(f, "tailscaled"), e)
          /\ InSection(g, "up") = InSection(f, "up")
      BY <1>4, <1>8, <2>1, <2>4
    <3>4. Accepted(g)
      BY <1>5, <1>7, <1>8, <1>13, <2>2, <2>4
    <3> QED BY <1>6, <1>7, <1>10, <1>13, <2>2, <3>2, <3>3, <3>4 DEF g
  <2>5. CASE now = "up"
    <3>1. q = [p EXCEPT !.up = Then(p.up, e)]
      BY <1>2, <1>7, <1>13, <2>5, ParseSetting
    <3>2. q.ok /\ q.section = p.section /\ q.up = Then(p.up, e) /\ q.tailscaled = p.tailscaled
      BY <1>2, <1>13, <3>1 DEF Parses
    <3>3. /\ InSection(g, "up") = Append(InSection(f, "up"), e)
          /\ InSection(g, "tailscaled") = InSection(f, "tailscaled")
      BY <1>4, <1>8, <2>1, <2>5
    <3>4. Accepted(g)
      BY <1>5, <1>7, <1>8, <1>13, <2>2, <2>5
    <3> QED BY <1>6, <1>7, <1>10, <1>13, <2>2, <3>2, <3>3, <3>4 DEF g
  <2>6. \/ now = ""
        \/ now = "tailscaled" /\ e.name \in managedFlags
        \/ now = "tailscaled" /\ e.name \notin managedFlags
        \/ now = "up"
    BY <1>7, <1>8, <1>13
  <2> QED BY <2>3, <2>4, <2>5, <2>6
<1> QED BY <1>11, <1>12, <1>13 DEF p, g

\* Every file is parsed as it is written.
LEMMA Sorting == \A f \in Seq(Entries) : Sorted(f)
<1> DEFINE Q == {f \in Seq(Entries) : Sorted(f)}
<1>1. <<>> \in Q
  BY SortedNone, EmptySeq
<1>2. ASSUME NEW f \in Seq(Entries), NEW e \in Entries, f \in Q PROVE Append(f, e) \in Q
  BY <1>2, SortedMore, AppendProperties
<1>3. Seq(Entries) \subseteq Q
  <2> HIDE DEF Q
  <2>1. Grows(Q, Entries)
    BY <1>1, <1>2 DEF Grows
  <2> QED BY <2>1, SeqInduct
<1> QED BY <1>3

-----------------------------------------------------------------------------
(* The user's file. *)

TypeOK == file \in Seq(Entries)

\* The user's file is a sequence of entries.
THEOREM FileType == Spec => []TypeOK
<1>1. Init => TypeOK
  BY DEF Init, TypeOK
<1>2. TypeOK /\ [Edit]_file => TypeOK'
  <2> SUFFICES ASSUME file \in Seq(Entries), [Edit]_file PROVE file' \in Seq(Entries)
    BY DEF TypeOK
  <2>1. CASE \E e \in Entries : file' = Append(file, e)
    BY <2>1, AppendProperties
  <2>2. CASE file # <<>> /\ file' = Front(file)
    <3>1. Len(file) \in Nat /\ \A i \in 1 .. Len(file) - 1 : file[i] \in Entries
      BY LenProperties, ElementOfSeq
    <3>2. SubSeq(file, 1, Len(file) - 1) \in Seq(Entries)
      BY <3>1, SubSeqProperties
    <3> QED BY <2>2, <3>2 DEF Front
  <2>3. CASE UNCHANGED file
    BY <2>3
  <2> QED BY <2>1, <2>2, <2>3, Zenon DEF Edit
<1> QED BY <1>1, <1>2, PTL DEF Spec

\* ParseFile accepts exactly the well-formed files, and gives each section its
\* settings as they are written, for any flags and files of any length.
THEOREM FileIsSorted == Spec => []ParsedAsWritten
<1>1. TypeOK => ParsedAsWritten
  <2> SUFFICES ASSUME file \in Seq(Entries) PROVE ParsedAsWritten
    BY DEF TypeOK
  <2>1. Sorted(file)
    BY Sorting
  <2> QED BY <2>1 DEF Sorted, ParsedAsWritten, Parsed
<1> QED BY <1>1, FileType, PTL

-----------------------------------------------------------------------------
(* setArgs. *)

\* What follows an argument is settled by the next, and not by later ones.
LEMMA FollowsMore ==
    ASSUME NEW L \in Seq(Lines), NEW l \in Lines
    PROVE  /\ \A i \in 1 .. Len(L) : i < Len(L) => (ValueFollows(Append(L, l), i) <=> ValueFollows(L, i))
           /\ \A i \in 1 .. Len(L) : i = Len(L) =>
                /\ ~ValueFollows(L, i)
                /\ ValueFollows(Append(L, l), i) <=> L[i].dashes > 0 /\ ~HasValue(L[i]) /\ l.dashes = 0
           /\ ~ValueFollows(Append(L, l), Len(L) + 1)
<1> DEFINE n == Len(L)
           M == Append(L, l)
<1>1. /\ n \in Nat /\ Len(M) = n + 1
      /\ \A i \in 1 .. n : M[i] = L[i]
      /\ M[n + 1] = l
  BY Appended
<1> HIDE DEF M
<1>2. ASSUME NEW i \in 1 .. n, i < n PROVE ValueFollows(M, i) <=> ValueFollows(L, i)
  <2>1. M[i] = L[i] /\ M[i + 1] = L[i + 1] /\ i < Len(M) /\ i < Len(L)
    BY <1>1, <1>2
  <2> QED BY <2>1, Zenon DEF ValueFollows
<1>3. ASSUME NEW i \in 1 .. n, i = n
      PROVE  /\ ~ValueFollows(L, i)
             /\ ValueFollows(M, i) <=> L[i].dashes > 0 /\ ~HasValue(L[i]) /\ l.dashes = 0
  <2>1. M[i] = L[i] /\ M[i + 1] = l /\ i < Len(M) /\ ~(i < Len(L))
    BY <1>1, <1>3
  <2> QED BY <2>1, Zenon DEF ValueFollows
<1>4. ~ValueFollows(M, n + 1)
  <2>1. ~(n + 1 < Len(M))
    BY <1>1
  <2> QED BY <2>1 DEF ValueFollows
<1> QED BY <1>2, <1>3, <1>4 DEF M

Kept(L) == Those(L, {i \in DOMAIN L : ~Dropped(L, i)})

\* What setArgs keeps of a list with an argument more.
LEMMA KeptMore ==
    ASSUME NEW L \in Seq(Lines), NEW l \in Lines
    PROVE  /\ Kept(L) \in Seq(Lines)
           /\ Kept(Append(L, l)) =
                IF Dropped(Append(L, l), Len(L) + 1) THEN Kept(L) ELSE Append(Kept(L), l)
<1> DEFINE n == Len(L)
           M == Append(L, l)
           In(K) == {i \in DOMAIN K : ~Dropped(K, i)}
<1>1. /\ n \in Nat /\ DOMAIN L = 1 .. n /\ DOMAIN M = 1 .. n + 1
      /\ \A i \in 1 .. n : M[i] = L[i]
  BY Appended
<1>2. \A i \in 1 .. n : i < n => (ValueFollows(M, i) <=> ValueFollows(L, i))
  BY FollowsMore
<1> HIDE DEF M, n
<1>3. ASSUME NEW i \in 1 .. n PROVE Dropped(M, i) <=> Dropped(L, i)
  <2>1. i > 1 => i - 1 \in 1 .. n /\ i - 1 < n
    BY <1>1
  <2>2. i > 1 => (ValueFollows(M, i - 1) <=> ValueFollows(L, i - 1)) /\ M[i - 1] = L[i - 1]
    BY <1>1, <1>2, <2>1
  <2>3. i > 1 => (SkipsNext(M, i - 1) <=> SkipsNext(L, i - 1))
    BY <2>2, Zenon DEF SkipsNext
  <2>4. M[i] = L[i]
    BY <1>1
  <2> QED BY <2>3, <2>4, Zenon DEF Dropped
<1>4. \A i \in 1 .. n : i \in In(L) <=> i \in In(M)
  <2>1. \A i \in 1 .. n : i \in 1 .. n + 1
    BY <1>1
  <2> QED BY <1>1, <1>3, <2>1
<1>5. n + 1 \in In(M) <=> ~Dropped(M, n + 1)
  <2>1. n + 1 \in 1 .. n + 1
    BY <1>1
  <2> QED BY <1>1, <2>1
<1>6. Kept(L) = Those(L, In(L)) /\ Kept(M) = Those(M, In(M))
  BY DEF Kept
<1> HIDE DEF In
<1>7. /\ Those(L, In(L)) \in Seq(Lines)
      /\ Those(M, In(M)) = Those(L, In(L)) \o (IF n + 1 \in In(M) THEN <<l>> ELSE <<>>)
  BY <1>4, ThoseMore DEF M, n
<1>8. \A s \in Seq(Lines) : s \o <<l>> = Append(s, l) /\ s \o <<>> = s
  BY ConcatEmptySeq
<1> QED BY <1>5, <1>6, <1>7, <1>8 DEF M, n

\* A flag is dropped for its own name only.
LEMMA DroppedFlag ==
    ASSUME NEW L \in Seq(Lines), NEW l \in Lines, l.dashes > 0
    PROVE  Dropped(Append(L, l), Len(L) + 1) <=> l.name \in upOnlyFlags
<1> DEFINE n == Len(L)
           M == Append(L, l)
<1>1. n \in Nat /\ M[n + 1] = l /\ (n + 1) - 1 = n
  BY Appended
<1>2. n > 0 => ~ValueFollows(M, n)
  <2>1. n > 0 => n \in 1 .. Len(L)
    BY <1>1
  <2>2. l.dashes # 0
    OBVIOUS
  <2> QED BY <2>1, <2>2, FollowsMore
<1> HIDE DEF M, n
<1>3. n + 1 > 1 => ~SkipsNext(M, (n + 1) - 1)
  BY <1>1, <1>2 DEF SkipsNext
<1>4. Dropped(M, n + 1) <=> l.name \in upOnlyFlags
  BY <1>1, <1>3, Zenon DEF Dropped
<1> QED BY <1>4 DEF M, n

\* The value on a line of its own goes with its flag.
LEMMA DroppedValue ==
    ASSUME NEW L \in Seq(Lines), NEW k \in Lines, NEW l \in Lines
    PROVE  k.dashes > 0 /\ k.value = None /\ l.dashes = 0 /\ l.name = "" =>
               (Dropped(Append(Append(L, k), l), Len(Append(L, k)) + 1) <=> k.name \in upOnlyFlags)
<1> DEFINE K == Append(L, k)
           M == Append(K, l)
           n == Len(K)
<1>1. /\ K \in Seq(Lines) /\ K[n] = k
      /\ M[n] = k /\ M[n + 1] = l /\ n \in Nat /\ n \in 1 .. n /\ n + 1 > 1 /\ (n + 1) - 1 = n
  BY AppendedTwice
<1> HIDE DEF K
<1> HAVE k.dashes > 0 /\ k.value = None /\ l.dashes = 0 /\ l.name = ""
<1>3. ValueFollows(M, n) <=> K[n].dashes > 0 /\ ~HasValue(K[n]) /\ l.dashes = 0
  BY <1>1, FollowsMore
<1>4. ~HasValue(k)
  BY DEF HasValue
<1>5. "" \notin upOnlyFlags
  BY FlagsAssumption
<1> HIDE DEF M, n
<1>6. ValueFollows(M, n)
  BY <1>1, <1>3, <1>4
<1>7. Dropped(M, n + 1) <=> k.name \in upOnlyFlags
  BY <1>1, <1>5, <1>6, Zenon DEF Dropped, SkipsNext
<1> QED BY <1>7 DEF K, M, n

\* One setting more: `set` gets it, value and all, unless only `up` takes it.
LEMMA KeptSetting ==
    ASSUME NEW es \in Seq(Rows), NEW e \in Settings
    PROVE  Kept(Written(Append(es, e))) =
               IF e.name \in upOnlyFlags THEN Kept(Written(es)) ELSE Then(Kept(Written(es)), e)
<1> DEFINE L == Written(es)
           K == Append(L, FlagOf(e))
<1>1. /\ FlagOf(e) \in Lines /\ ValueOf(e) \in Lines /\ WholeOf(e) \in Lines
      /\ L \in Seq(Lines) /\ K \in Seq(Lines)
      /\ Written(Append(es, e)) = Then(L, e)
  BY Spellings, SettingFields
<1>2. /\ FlagOf(e).dashes > 0 /\ FlagOf(e).name = e.name /\ FlagOf(e).value = None
      /\ ValueOf(e).dashes = 0 /\ ValueOf(e).name = ""
      /\ WholeOf(e).dashes > 0 /\ WholeOf(e).name = e.name
  BY SettingFields
<1> HIDE DEF L
<1>3. Kept(K) = IF e.name \in upOnlyFlags THEN Kept(L) ELSE Append(Kept(L), FlagOf(e))
  BY <1>1, <1>2, KeptMore, DroppedFlag
<1>4. Kept(Append(L, WholeOf(e))) = IF e.name \in upOnlyFlags THEN Kept(L) ELSE Append(Kept(L), WholeOf(e))
  BY <1>1, <1>2, KeptMore, DroppedFlag
<1>5. Kept(Append(K, ValueOf(e))) = IF e.name \in upOnlyFlags THEN Kept(K) ELSE Append(Kept(K), ValueOf(e))
  <2>1. Dropped(Append(K, ValueOf(e)), Len(K) + 1) <=> e.name \in upOnlyFlags
    BY <1>1, <1>2, DroppedValue
  <2> HIDE DEF K
  <2> QED BY <1>1, <2>1, KeptMore
<1> QED BY <1>1, <1>3, <1>4, <1>5 DEF Then, L

MentionsBoth(L, es) == \A name : name # "" => (Mentions(L, name) <=> Given(es, name))

\* Mentions, for an argument more.
LEMMA MentionsMore ==
    ASSUME NEW L \in Seq(Lines), NEW l \in Lines, NEW name
    PROVE  Mentions(Append(L, l), name) <=> Mentions(L, name) \/ l.name = name
<1> DEFINE n == Len(L)
           M == Append(L, l)
<1>1. /\ n \in Nat /\ DOMAIN L = 1 .. n /\ DOMAIN M = 1 .. n + 1
      /\ \A i \in 1 .. n : M[i] = L[i]
      /\ M[n + 1] = l
  BY Appended
<1>2. \A i : i \in 1 .. n + 1 <=> i \in 1 .. n \/ i = n + 1
  BY <1>1
<1> HIDE DEF M, n
<1>3. Mentions(M, name) <=> Mentions(L, name) \/ l.name = name
  BY <1>1, <1>2, Zenon DEF Mentions
<1> QED BY <1>3 DEF M

\* Given, for an entry more.
LEMMA GivenMore ==
    ASSUME NEW es \in Seq(Rows), NEW e \in Rows, NEW name
    PROVE  Given(Append(es, e), name) <=> Given(es, name) \/ e.name = name
<1> DEFINE n == Len(es)
           more == Append(es, e)
<1>1. /\ n \in Nat /\ DOMAIN es = 1 .. n /\ DOMAIN more = 1 .. n + 1
      /\ \A i \in 1 .. n : more[i] = es[i]
      /\ more[n + 1] = e
  BY Appended
<1>2. \A i : i \in 1 .. n + 1 <=> i \in 1 .. n \/ i = n + 1
  BY <1>1
<1> HIDE DEF more, n
<1>3. Given(more, name) <=> Given(es, name) \/ e.name = name
  BY <1>1, <1>2, Zenon DEF Given
<1> QED BY <1>3 DEF more

\* The lines mention the flags that the settings give, with one setting more.
LEMMA MentionsSetting ==
    ASSUME NEW es \in Seq(Rows), NEW e \in Settings, MentionsBoth(Written(es), es)
    PROVE  MentionsBoth(Written(Append(es, e)), Append(es, e))
<1> SUFFICES ASSUME NEW name, name # ""
             PROVE  Mentions(Written(Append(es, e)), name) <=> Given(Append(es, e), name)
  BY Zenon DEF MentionsBoth
<1> DEFINE L == Written(es)
           K == Append(L, FlagOf(e))
<1>1. /\ FlagOf(e) \in Lines /\ ValueOf(e) \in Lines /\ WholeOf(e) \in Lines
      /\ L \in Seq(Lines) /\ K \in Seq(Lines)
      /\ Written(Append(es, e)) = Then(L, e)
  BY Spellings, SettingFields
<1>2. FlagOf(e).name = e.name /\ ValueOf(e).name = "" /\ WholeOf(e).name = e.name /\ e \in Rows
  BY SettingFields
<1>3. Given(Append(es, e), name) <=> Mentions(L, name) \/ e.name = name
  BY <1>2, GivenMore, Zenon DEF MentionsBoth
<1> HIDE DEF L, K
<1>4. Mentions(Append(L, WholeOf(e)), name) <=> Mentions(L, name) \/ e.name = name
  BY <1>1, <1>2, MentionsMore
<1>5. Mentions(Append(K, ValueOf(e)), name) <=> Mentions(L, name) \/ e.name = name
  <2>1. Mentions(Append(K, ValueOf(e)), name) <=> Mentions(K, name)
    BY <1>1, <1>2, MentionsMore
  <2>2. Mentions(K, name) <=> Mentions(L, name) \/ e.name = name
    BY <1>1, <1>2, MentionsMore DEF K
  <2> QED BY <2>1, <2>2
<1> QED BY <1>1, <1>3, <1>4, <1>5, Zenon DEF Then, K

\* Those of the settings that `set` takes.
Taken(es) == Those(es, {i \in DOMAIN es : es[i].name \notin upOnlyFlags})

\* Taken, for a setting more.
LEMMA TakenMore ==
    ASSUME NEW es \in Seq(Rows), NEW e \in Rows
    PROVE  /\ Taken(es) \in Seq(Rows)
           /\ Taken(Append(es, e)) = IF e.name \in upOnlyFlags THEN Taken(es) ELSE Append(Taken(es), e)
<1> DEFINE n == Len(es)
           more == Append(es, e)
           In(s) == {i \in DOMAIN s : s[i].name \notin upOnlyFlags}
<1>1. /\ n \in Nat /\ DOMAIN es = 1 .. n /\ DOMAIN more = 1 .. n + 1
      /\ \A i \in 1 .. n : more[i] = es[i] /\ i \in 1 .. n + 1
      /\ more[n + 1] = e /\ n + 1 \in 1 .. n + 1
  <2>1. \A i \in 1 .. n : more[i] = es[i]
    BY Appended
  <2>2. n \in Nat /\ DOMAIN es = 1 .. n /\ DOMAIN more = 1 .. n + 1 /\ more[n + 1] = e
    BY Appended
  <2>3. n + 1 \in 1 .. n + 1 /\ \A i \in 1 .. n : i \in 1 .. n + 1
    BY <2>2
  <2> QED BY <2>1, <2>2, <2>3
<1> HIDE DEF more, n
<1>2. \A i \in 1 .. n : i \in In(es) <=> i \in In(more)
  BY <1>1
<1>3. n + 1 \in In(more) <=> e.name \notin upOnlyFlags
  BY <1>1
<1>4. Taken(es) = Those(es, In(es)) /\ Taken(more) = Those(more, In(more))
  BY DEF Taken
<1> HIDE DEF In
<1>5. /\ Those(es, In(es)) \in Seq(Rows)
      /\ Those(more, In(more)) = Those(es, In(es)) \o (IF n + 1 \in In(more) THEN <<e>> ELSE <<>>)
  BY <1>2, ThoseMore DEF more, n
<1>6. \A s \in Seq(Rows) : s \o <<e>> = Append(s, e) /\ s \o <<>> = s
  BY ConcatEmptySeq
<1> QED BY <1>3, <1>4, <1>5, <1>6 DEF more, n

Passed(es) ==
    /\ MentionsBoth(Written(es), es)
    /\ Kept(Written(es)) = Written(Taken(es))

\* For all settings: setArgs keeps the lines of those that `set` takes.
LEMMA Passing == \A es \in Seq(Settings) : Passed(es)
<1> DEFINE Q == {es \in Seq(Settings) : Passed(es)}
<1>1. <<>> \in Q
  <2>1. Kept(<<>>) = <<>> /\ Taken(<<>>) = <<>>
    BY ThoseNone DEF Kept, Taken
  <2>2. MentionsBoth(<<>>, <<>>)
    BY EmptySeq DEF MentionsBoth, Mentions, Given
  <2> QED BY <2>1, <2>2, WrittenNone, EmptySeq DEF Passed
<1>2. ASSUME NEW es \in Seq(Settings), NEW e \in Settings, es \in Q PROVE Append(es, e) \in Q
  <2>1. es \in Seq(Rows) /\ e \in Rows /\ Append(es, e) \in Seq(Settings)
    BY EntryTypes, SeqMonotonic, AppendProperties
  <2>2. Passed(es)
    BY <1>2
  <2>3. MentionsBoth(Written(Append(es, e)), Append(es, e))
    BY <2>1, <2>2, MentionsSetting DEF Passed
  <2>4. Kept(Written(Append(es, e))) =
            IF e.name \in upOnlyFlags THEN Kept(Written(es)) ELSE Then(Kept(Written(es)), e)
    BY <2>1, KeptSetting
  <2>5. /\ Taken(es) \in Seq(Rows)
        /\ Taken(Append(es, e)) = IF e.name \in upOnlyFlags THEN Taken(es) ELSE Append(Taken(es), e)
    BY <2>1, TakenMore
  <2>6. Written(Append(Taken(es), e)) = Then(Written(Taken(es)), e)
    BY <2>1, <2>5, Spellings
  <2>7. Kept(Written(Append(es, e))) = Written(Taken(Append(es, e)))
    BY <2>2, <2>4, <2>5, <2>6 DEF Passed
  <2> QED BY <2>1, <2>3, <2>7 DEF Passed
<1>3. Seq(Settings) \subseteq Q
  <2> HIDE DEF Q
  <2>1. Grows(Q, Settings)
    BY <1>1, <1>2 DEF Grows
  <2> QED BY <2>1, SeqInduct
<1> QED BY <1>3

\* Whatever settings [up] has, setArgs makes of their lines those of the rest.
LEMMA SetArgsAre ==
    ASSUME NEW es \in Seq(Settings)
    PROVE  setArgs(Written(es)) = Rest(es)
<1>1. Passed(es)
  BY Passing
<1>2. RoutesFlag # "" /\ ExitFlag # ""
  BY DEF RoutesFlag, ExitFlag
<1>3. /\ Mentions(Written(es), RoutesFlag) <=> Given(es, RoutesFlag)
      /\ Mentions(Written(es), ExitFlag) <=> Given(es, ExitFlag)
  BY <1>1, <1>2 DEF Passed, MentionsBoth
<1>4. setArgs(Written(es)) = Kept(Written(es)) \o Defaults(Written(es))
  BY DEF setArgs, Kept
<1> DEFINE A == IF Given(es, RoutesFlag) THEN <<>> ELSE <<Line("", 2, RoutesFlag, {})>>
           B == IF Given(es, ExitFlag) THEN <<>> ELSE <<Line("", 2, ExitFlag, {"false"})>>
<1>5. Defaults(Written(es)) = A \o B
  BY <1>3 DEF Defaults
<1>6. Rest(es) = (Written(Taken(es)) \o A) \o B
  BY DEF Rest, Taken
<1>7. /\ Line("", 2, RoutesFlag, {}) \in Lines
      /\ Line("", 2, ExitFlag, {"false"}) \in Lines
  <2>1. RoutesFlag \in Names /\ ExitFlag \in Names /\ {} \in Values /\ {"false"} \in Values /\ 2 \in 0 .. 2
    <3>1. RoutesFlag \in DOMAIN Accepts /\ ExitFlag \in DOMAIN Accepts
      BY FlagsAssumption
    <3>2. \A n \in DOMAIN Accepts : n \in Names
      BY DEF Names
    <3>3. {} \in Values /\ {"false"} \in Values /\ 2 \in 0 .. 2
      BY DEF Values
    <3> QED BY <3>1, <3>2, <3>3
  <2> QED BY <2>1, RowTypes
<1>8. A \in Seq(Lines) /\ B \in Seq(Lines)
  <2>1. \A l \in Lines : <<l>> \in Seq(Lines)
    OBVIOUS
  <2>2. <<>> \in Seq(Lines)
    OBVIOUS
  <2> QED BY <1>7, <2>1, <2>2
<1>9. Written(Taken(es)) \in Seq(Lines)
  <2>1. es \in Seq(Rows)
    BY EntryTypes, SeqMonotonic
  <2>2. Header("other") \in Rows
    BY EntryTypes DEF Entries
  <2>3. Taken(es) \in Seq(Rows)
    BY <2>1, <2>2, TakenMore
  <2> QED BY <2>2, <2>3, WrittenMore
<1> HIDE DEF A, B
<1>10. (Written(Taken(es)) \o A) \o B = Written(Taken(es)) \o (A \o B)
  BY <1>8, <1>9, ConcatAssociative
<1> QED BY <1>1, <1>4, <1>5, <1>6, <1>10 DEF Passed

\* What stands in a section are settings.
LEMMA InSectionSettings == \A section : \A f \in Seq(Entries) : InSection(f, section) \in Seq(Settings)
<1> SUFFICES ASSUME NEW section
             PROVE  \A f \in Seq(Entries) : InSection(f, section) \in Seq(Settings)
  OBVIOUS
<1> DEFINE Q == {f \in Seq(Entries) : InSection(f, section) \in Seq(Settings)}
<1>1. <<>> \in Q
  BY ThoseNone, EmptySeq DEF InSection
<1>2. ASSUME NEW f \in Seq(Entries), NEW e \in Entries, f \in Q PROVE Append(f, e) \in Q
  <2>1. f \in Seq(Rows) /\ e \in Rows /\ Append(f, e) \in Seq(Entries)
    BY EntryTypes, SeqMonotonic, AppendProperties
  <2>2. InSection(Append(f, e), section) = InSection(f, section)
        \/ (e.header = "" /\ InSection(Append(f, e), section) = Append(InSection(f, section), e))
    BY <2>1, InSectionMore
  <2>3. e.header = "" => e \in Settings
    BY HeaderFields DEF Entries
  <2>4. InSection(f, section) \in Seq(Settings)
    BY <1>2
  <2>5. e \in Settings => Append(InSection(f, section), e) \in Seq(Settings)
    BY <2>4, AppendProperties
  <2>6. InSection(Append(f, e), section) \in Seq(Settings)
    BY <2>2, <2>3, <2>4, <2>5
  <2> QED BY <2>1, <2>6
<1>3. Seq(Entries) \subseteq Q
  <2> HIDE DEF Q
  <2>1. Grows(Q, Entries)
    BY <1>1, <1>2 DEF Grows
  <2> QED BY <2>1, SeqInduct
<1> QED BY <1>3

\* `tailscale set` gets the lines of exactly those settings of [up] that it takes,
\* no value without its flag, and both advertisement flags (setArgs in
\* internal/tsctl/client.go).
THEOREM SetIsGivenTheRest == Spec => []SetGetsTheRest
<1>1. TypeOK => SetGetsTheRest
  <2> SUFFICES ASSUME file \in Seq(Entries), Parsed.ok
               PROVE  setArgs(Parsed.up) = Rest(InSection(file, "up"))
    BY DEF TypeOK, SetGetsTheRest
  <2>1. Parsed.up = Written(InSection(file, "up"))
    BY Sorting DEF Sorted, Parsed
  <2>2. InSection(file, "up") \in Seq(Settings)
    BY InSectionSettings
  <2> QED BY <2>1, <2>2, SetArgsAre
<1> QED BY <1>1, FileType, PTL

-----------------------------------------------------------------------------
(* Redact. *)

Masked(l) == [l EXCEPT !.value = Redacted]

Hides(args, i) == \/ args[i].name \in secretFlags /\ HasValue(args[i])
                  \/ i > 1 /\ HidesNext(args, i - 1)

\* A line with its value replaced is a line.
LEMMA MaskedType ==
    ASSUME NEW l \in Lines
    PROVE  Masked(l) \in Lines
<1>1. Redacted \in Values
  BY DEF Values
<1> QED BY <1>1 DEF Masked, Lines

\* Redact, for an argument more: what is hidden of the others stays as it is.
LEMMA RedactMore ==
    ASSUME NEW L \in Seq(Lines), NEW l \in Lines
    PROVE  /\ Redact(L) \in Seq(Lines) /\ Len(Redact(L)) = Len(L)
           /\ Redact(Append(L, l)) =
                Append(Redact(L), IF Hides(Append(L, l), Len(L) + 1) THEN Masked(l) ELSE l)
<1> DEFINE n == Len(L)
           M == Append(L, l)
           At(K, i) == IF Hides(K, i) THEN Masked(K[i]) ELSE K[i]
<1>1. /\ n \in Nat /\ DOMAIN L = 1 .. n /\ DOMAIN M = 1 .. n + 1
      /\ \A i \in 1 .. n : M[i] = L[i] /\ L[i] \in Lines
      /\ M[n + 1] = l
  BY Appended, ElementOfSeq
<1>2. \A i \in 1 .. n : i < n => (ValueFollows(M, i) <=> ValueFollows(L, i))
  BY FollowsMore
<1>3. Redact(L) = [i \in DOMAIN L |-> At(L, i)] /\ Redact(M) = [i \in DOMAIN M |-> At(M, i)]
  BY Zenon DEF Redact, Hides, Masked
<1> HIDE DEF M, n
<1>4. ASSUME NEW i \in 1 .. n PROVE At(M, i) = At(L, i) /\ At(L, i) \in Lines
  <2>1. i > 1 => i - 1 \in 1 .. n /\ i - 1 < n
    BY <1>1
  <2>2. i > 1 => (ValueFollows(M, i - 1) <=> ValueFollows(L, i - 1)) /\ M[i - 1] = L[i - 1]
    BY <1>1, <1>2, <2>1
  <2>3. i > 1 => (HidesNext(M, i - 1) <=> HidesNext(L, i - 1))
    BY <2>2, Zenon DEF HidesNext
  <2>4. M[i] = L[i] /\ L[i] \in Lines
    BY <1>1
  <2>5. Hides(M, i) <=> Hides(L, i)
    BY <2>3, <2>4, Zenon DEF Hides
  <2> QED BY <2>4, <2>5, MaskedType
<1>5. At(M, n + 1) = (IF Hides(M, n + 1) THEN Masked(l) ELSE l) /\ At(M, n + 1) \in Lines
  BY <1>1, MaskedType
<1> HIDE DEF At
<1>6. Redact(L) \in Seq(Lines) /\ Len(Redact(L)) = n /\ \A i \in 1 .. n : Redact(L)[i] = At(L, i)
  <2>1. Redact(L) \in [1 .. n -> Lines]
    BY <1>1, <1>3, <1>4
  <2> QED BY <1>1, <1>3, <2>1
<1>7. Redact(M) \in Seq(Lines) /\ Len(Redact(M)) = n + 1 /\ \A i \in 1 .. n + 1 : Redact(M)[i] = At(M, i)
  <2>1. Redact(M) \in [1 .. n + 1 -> Lines]
    <3>1. \A i \in 1 .. n + 1 : i \in 1 .. n \/ i = n + 1
      BY <1>1
    <3>2. \A i \in 1 .. n + 1 : At(M, i) \in Lines
      BY <1>4, <1>5, <3>1
    <3> QED BY <1>1, <1>3, <3>2
  <2> QED BY <1>1, <1>3, <2>1
<1> DEFINE x == At(M, n + 1)
           R == Redact(L)
<1>8. /\ Append(R, x) \in Seq(Lines) /\ Len(Append(R, x)) = n + 1
      /\ \A i \in 1 .. n : Append(R, x)[i] = R[i]
      /\ Append(R, x)[n + 1] = x
  <2> HIDE DEF x, R
  <2>1. R \in Seq(Lines) /\ x \in Lines /\ Len(R) = n
    BY <1>5, <1>6 DEF x, R
  <2> QED BY <2>1, Appended
<1>9. \A i \in 1 .. n + 1 : Redact(M)[i] = Append(R, x)[i]
  <2>1. \A i \in 1 .. n + 1 : i \in 1 .. n \/ i = n + 1
    BY <1>1
  <2> HIDE DEF x
  <2>2. \A i \in 1 .. n : Redact(M)[i] = Append(R, x)[i]
    <3>1. \A i \in 1 .. n : i \in 1 .. n + 1
      BY <1>1
    <3> QED BY <1>4, <1>6, <1>7, <1>8, <3>1
  <2>3. Redact(M)[n + 1] = Append(R, x)[n + 1]
    <3>1. n + 1 \in 1 .. n + 1
      BY <1>1
    <3> QED BY <1>7, <1>8, <3>1 DEF x
  <2> QED BY <2>1, <2>2, <2>3
<1>10. Redact(M) = Append(R, x)
  <2> HIDE DEF R, x
  <2> QED BY <1>7, <1>8, <1>9, SeqEqual
<1> QED BY <1>5, <1>6, <1>10 DEF M, n

\* A flag is hidden when it is a credential with its value.
LEMMA HidesFlag ==
    ASSUME NEW L \in Seq(Lines), NEW l \in Lines
    PROVE  l.dashes > 0 =>
               (Hides(Append(L, l), Len(L) + 1) <=> l.name \in secretFlags /\ HasValue(l))
<1> DEFINE n == Len(L)
           M == Append(L, l)
<1>1. n \in Nat /\ M[n + 1] = l /\ (n + 1) - 1 = n
  BY Appended
<1> HAVE l.dashes > 0
<1>2. n > 0 => ~ValueFollows(M, n)
  <2>1. n > 0 => n \in 1 .. Len(L)
    BY <1>1
  <2>2. l.dashes # 0
    OBVIOUS
  <2> QED BY <2>1, <2>2, FollowsMore
<1> HIDE DEF M, n
<1>3. n + 1 > 1 => ~HidesNext(M, (n + 1) - 1)
  BY <1>1, <1>2 DEF HidesNext
<1>4. Hides(M, n + 1) <=> l.name \in secretFlags /\ HasValue(l)
  BY <1>1, <1>3, Zenon DEF Hides
<1> QED BY <1>4 DEF M, n

\* The value on a line of its own is hidden when its flag is a credential.
LEMMA HidesValue ==
    ASSUME NEW L \in Seq(Lines), NEW k \in Lines, NEW l \in Lines
    PROVE  k.dashes > 0 /\ k.value = None /\ l.dashes = 0 /\ l.name = "" =>
               (Hides(Append(Append(L, k), l), Len(Append(L, k)) + 1) <=> k.name \in secretFlags)
<1> DEFINE K == Append(L, k)
           M == Append(K, l)
           n == Len(K)
<1>1. /\ K \in Seq(Lines) /\ K[n] = k
      /\ M[n] = k /\ M[n + 1] = l /\ n \in Nat /\ n \in 1 .. n /\ n + 1 > 1 /\ (n + 1) - 1 = n
  BY AppendedTwice
<1> HIDE DEF K
<1> HAVE k.dashes > 0 /\ k.value = None /\ l.dashes = 0 /\ l.name = ""
<1>3. ValueFollows(M, n) <=> K[n].dashes > 0 /\ ~HasValue(K[n]) /\ l.dashes = 0
  BY <1>1, FollowsMore
<1>4. ~HasValue(k)
  BY DEF HasValue
<1>5. "" \notin secretFlags
  BY FlagsAssumption
<1> HIDE DEF M, n
<1>6. ValueFollows(M, n)
  BY <1>1, <1>3, <1>4
<1>7. Hides(M, n + 1) <=> k.name \in secretFlags
  BY <1>1, <1>5, <1>6, Zenon DEF Hides, HidesNext
<1> QED BY <1>7 DEF K, M, n

\* The settings with their credentials replaced.
Showing(es) == [i \in DOMAIN es |-> Shown(es[i])]

\* The two spellings of a setting whose credential is replaced.
LEMMA ShownFields ==
    ASSUME NEW e \in Settings
    PROVE  /\ Shown(e) \in Rows
           /\ Shown(e).split <=> e.split
           /\ FlagOf(Shown(e)) = FlagOf(e)
           /\ ValueOf(Shown(e)) = IF e.name \in secretFlags THEN Masked(ValueOf(e)) ELSE ValueOf(e)
           /\ WholeOf(Shown(e)) = IF e.name \in secretFlags THEN Masked(WholeOf(e)) ELSE WholeOf(e)
           /\ e.name \in secretFlags => HasValue(WholeOf(e))
<1>1. e \in Rows
  BY SettingFields
<1>2. CASE e.name \notin secretFlags
  BY <1>1, <1>2 DEF Shown
<1>3. CASE e.name \in secretFlags
  <2>1. Shown(e) = [e EXCEPT !.value = Redacted]
    BY <1>3 DEF Shown
  <2>2. Redacted \in Values
    BY DEF Values
  <2>3. /\ Shown(e) \in Rows /\ Shown(e).split = e.split /\ Shown(e).header = e.header
        /\ Shown(e).dashes = e.dashes /\ Shown(e).name = e.name /\ Shown(e).value = Redacted
    BY <1>1, <2>1, <2>2 DEF Rows
  <2>4. FlagOf(Shown(e)) = FlagOf(e)
    BY <2>3 DEF FlagOf
  <2>5. ValueOf(Shown(e)) = Masked(ValueOf(e)) /\ WholeOf(Shown(e)) = Masked(WholeOf(e))
    <3>1. \A h, d, n, v : Masked(Line(h, d, n, v)) = Line(h, d, n, Redacted)
      BY DEF Masked, Line
    <3> QED BY <2>3, <3>1, Zenon DEF ValueOf, WholeOf
  <2>6. e.value # None
    <3>1. e.value \in Accepts[e.name]
      BY DEF Settings
    <3>2. None \notin Accepts[e.name]
      BY <1>3, FlagsAssumption DEF NeedsValue
    <3> QED BY <3>1, <3>2
  <2>7. HasValue(WholeOf(e))
    BY <2>6, SettingFields DEF HasValue
  <2> QED BY <1>3, <2>3, <2>4, <2>5, <2>7
<1> QED BY <1>2, <1>3

\* Redact, for a setting more, in either spelling.
LEMMA RedactSetting ==
    ASSUME NEW es \in Seq(Rows), NEW e \in Settings
    PROVE  Redact(Written(Append(es, e))) = Then(Redact(Written(es)), Shown(e))
<1> DEFINE L == Written(es)
           K == Append(L, FlagOf(e))
<1>1. /\ FlagOf(e) \in Lines /\ ValueOf(e) \in Lines /\ WholeOf(e) \in Lines
      /\ L \in Seq(Lines) /\ K \in Seq(Lines)
      /\ Written(Append(es, e)) = Then(L, e)
  BY Spellings, SettingFields
<1>2. /\ FlagOf(e).dashes > 0 /\ FlagOf(e).name = e.name /\ FlagOf(e).value = None
      /\ ValueOf(e).dashes = 0 /\ ValueOf(e).name = ""
      /\ WholeOf(e).dashes > 0 /\ WholeOf(e).name = e.name
  BY SettingFields
<1> HIDE DEF L
<1>3. Redact(K) = Append(Redact(L), FlagOf(e))
  <2>1. ~HasValue(FlagOf(e))
    BY <1>2 DEF HasValue
  <2>2. ~Hides(Append(L, FlagOf(e)), Len(L) + 1)
    BY <1>1, <1>2, <2>1, HidesFlag
  <2> QED BY <1>1, <2>2, RedactMore
<1>4. Redact(Append(L, WholeOf(e))) = Append(Redact(L), WholeOf(Shown(e)))
  <2>1. Hides(Append(L, WholeOf(e)), Len(L) + 1) <=> e.name \in secretFlags
    BY <1>1, <1>2, HidesFlag, ShownFields
  <2>2. WholeOf(Shown(e)) = IF e.name \in secretFlags THEN Masked(WholeOf(e)) ELSE WholeOf(e)
    BY ShownFields
  <2> QED BY <1>1, <2>1, <2>2, RedactMore
<1>5. Redact(Append(K, ValueOf(e))) = Append(Redact(K), ValueOf(Shown(e)))
  <2>1. Hides(Append(K, ValueOf(e)), Len(K) + 1) <=> e.name \in secretFlags
    BY <1>1, <1>2, HidesValue
  <2>2. ValueOf(Shown(e)) = IF e.name \in secretFlags THEN Masked(ValueOf(e)) ELSE ValueOf(e)
    BY ShownFields
  <2> HIDE DEF K
  <2> QED BY <1>1, <2>1, <2>2, RedactMore
<1>6. FlagOf(Shown(e)) = FlagOf(e) /\ (Shown(e).split <=> e.split)
  BY ShownFields
<1> QED BY <1>1, <1>3, <1>4, <1>5, <1>6, Zenon DEF Then, L

\* Showing, for a setting more.
LEMMA ShowingMore ==
    ASSUME NEW es \in Seq(Settings), NEW e \in Settings
    PROVE  Showing(es) \in Seq(Rows) /\ Showing(Append(es, e)) = Append(Showing(es), Shown(e))
<1> DEFINE n == Len(es)
           more == Append(es, e)
           R == Showing(es)
           M == Showing(more)
           A == Append(R, Shown(e))
<1>1. /\ n \in Nat /\ DOMAIN es = 1 .. n /\ DOMAIN more = 1 .. n + 1
      /\ \A i \in 1 .. n : more[i] = es[i] /\ es[i] \in Settings
      /\ more[n + 1] = e
  BY Appended, ElementOfSeq
<1>2. \A s \in Settings : Shown(s) \in Rows
  BY ShownFields
<1>3. \A i \in 1 .. n + 1 : i \in 1 .. n \/ i = n + 1
  BY <1>1
<1>4. n + 1 \in 1 .. n + 1 /\ \A i \in 1 .. n : i \in 1 .. n + 1
  BY <1>1
<1> HIDE DEF n, more
<1>5. R = [i \in 1 .. n |-> Shown(es[i])] /\ M = [i \in 1 .. n + 1 |-> Shown(more[i])]
  BY <1>1 DEF Showing
<1> HIDE DEF R, M
<1>6. R \in Seq(Rows) /\ Len(R) = n /\ \A i \in 1 .. n : R[i] = Shown(es[i])
  <2>1. R \in [1 .. n -> Rows]
    BY <1>1, <1>2, <1>5
  <2> QED BY <1>1, <1>5, <2>1
<1>7. M \in Seq(Rows) /\ Len(M) = n + 1 /\ \A i \in 1 .. n + 1 : M[i] = Shown(more[i])
  <2>1. \A i \in 1 .. n + 1 : more[i] \in Settings
    BY <1>1, <1>3
  <2>2. M \in [1 .. n + 1 -> Rows]
    BY <1>2, <1>5, <2>1
  <2> QED BY <1>1, <1>5, <2>2
<1>8. /\ A \in Seq(Rows) /\ Len(A) = n + 1
      /\ \A i \in 1 .. n : A[i] = R[i]
      /\ A[n + 1] = Shown(e)
  BY <1>2, <1>6, Appended
<1> HIDE DEF A
<1>9. \A i \in 1 .. n + 1 : M[i] = A[i]
  <2>1. \A i \in 1 .. n : M[i] = A[i]
    BY <1>1, <1>4, <1>6, <1>7, <1>8
  <2>2. M[n + 1] = A[n + 1]
    BY <1>1, <1>4, <1>7, <1>8
  <2> QED BY <1>3, <2>1, <2>2
<1>10. M = A
  BY <1>7, <1>8, <1>9, SeqEqual
<1> QED BY <1>6, <1>10 DEF R, M, A, more

\* For all settings: Redact makes of their lines those with the credentials replaced.
LEMMA RedactAre == \A es \in Seq(Settings) : Redact(Written(es)) = Written(Showing(es))
<1> DEFINE Q == {es \in Seq(Settings) : Redact(Written(es)) = Written(Showing(es))}
<1>1. <<>> \in Q
  <2>1. Redact(<<>>) = <<>> /\ Showing(<<>>) = <<>>
    BY DEF Redact, Showing
  <2> QED BY <2>1, WrittenNone, EmptySeq
<1>2. ASSUME NEW es \in Seq(Settings), NEW e \in Settings, es \in Q PROVE Append(es, e) \in Q
  <2>1. es \in Seq(Rows) /\ e \in Rows /\ Append(es, e) \in Seq(Settings)
    BY EntryTypes, SeqMonotonic, AppendProperties
  <2>2. Redact(Written(es)) = Written(Showing(es))
    BY <1>2
  <2>3. Redact(Written(Append(es, e))) = Then(Redact(Written(es)), Shown(e))
    BY <2>1, RedactSetting
  <2>4. Showing(es) \in Seq(Rows) /\ Showing(Append(es, e)) = Append(Showing(es), Shown(e))
    BY ShowingMore
  <2>5. Written(Append(Showing(es), Shown(e))) = Then(Written(Showing(es)), Shown(e))
    BY <2>4, ShownFields, Spellings
  <2>6. Redact(Written(Append(es, e))) = Written(Showing(Append(es, e)))
    BY <2>2, <2>3, <2>4, <2>5
  <2> QED BY <2>1, <2>6
<1>3. Seq(Settings) \subseteq Q
  <2> HIDE DEF Q
  <2>1. Grows(Q, Settings)
    BY <1>1, <1>2 DEF Grows
  <2> QED BY <2>1, SeqInduct
<1> QED BY <1>3

\* The log shows [up] with the value of every credential replaced, in every
\* spelling, and with everything else as it is (Redact in internal/tsctl/client.go).
THEOREM CredentialsAreHidden == Spec => []RedactHidesSecrets
<1>1. TypeOK => RedactHidesSecrets
  <2> SUFFICES ASSUME file \in Seq(Entries), Parsed.ok
               PROVE  Redact(Parsed.up) = Written(Showing(InSection(file, "up")))
    BY DEF TypeOK, RedactHidesSecrets, Showing
  <2>1. Parsed.up = Written(InSection(file, "up"))
    BY Sorting DEF Sorted, Parsed
  <2>2. InSection(file, "up") \in Seq(Settings)
    BY InSectionSettings
  <2> QED BY <2>1, <2>2, RedactAre
<1> QED BY <1>1, FileType, PTL

-----------------------------------------------------------------------------
(* AdvertisedRoutes. *)

RoutesAt(L) == {j \in DOMAIN L : Named(L, j, RoutesFlag)}
ListsIn(L) == {ListAt(L, i) : i \in RoutesAt(L)}
Exits(l) == l.dashes = 2 /\ l.name = ExitFlag /\ (~HasValue(l) \/ isTrue(l.value))
ExitIn(L) == \E i \in DOMAIN L : Exits(L[i])

IsRoutes(l) == l.dashes = 2 /\ l.name = RoutesFlag

\* Arguments that change neither the routes flags of a list nor their values.
LEMMA ListsUpTo ==
    ASSUME NEW L, NEW M, NEW n \in Nat, DOMAIN L = 1 .. n, DOMAIN M = 1 .. n + 1,
           \A i \in 1 .. n : /\ Named(M, i, RoutesFlag) <=> Named(L, i, RoutesFlag)
                             /\ ListAt(M, i) = ListAt(L, i)
    PROVE  ListsIn(M) = ListsIn(L) \cup (IF Named(M, n + 1, RoutesFlag) THEN {ListAt(M, n + 1)} ELSE {})
<1>1. \A i : i \in 1 .. n + 1 <=> i \in 1 .. n \/ i = n + 1
  OBVIOUS
<1> DEFINE Is(K, i) == Named(K, i, RoutesFlag)
           V(K, i) == ListAt(K, i)
<1>2. /\ ListsIn(L) = {V(L, i) : i \in {j \in 1 .. n : Is(L, j)}}
      /\ ListsIn(M) = {V(M, i) : i \in {j \in 1 .. n + 1 : Is(M, j)}}
  BY Zenon DEF ListsIn, RoutesAt
<1>3. \A i \in 1 .. n : (Is(M, i) <=> Is(L, i)) /\ V(M, i) = V(L, i)
  OBVIOUS
<1> HIDE DEF Is, V
<1>4. \A x : x \in ListsIn(M) <=> x \in ListsIn(L) \/ (Is(M, n + 1) /\ x = V(M, n + 1))
  BY <1>1, <1>2, <1>3, Zenon
<1>5. ListsIn(M) = ListsIn(L) \cup (IF Is(M, n + 1) THEN {V(M, n + 1)} ELSE {})
  BY <1>4
<1> QED BY <1>5 DEF Is, V

\* The lists of routes, for a flag more: it has its own value, and is no value of
\* the flag before it.
LEMMA ListsMore ==
    ASSUME NEW L \in Seq(Lines), NEW l \in Lines
    PROVE  l.dashes > 0 =>
               ListsIn(Append(L, l)) =
                   ListsIn(L) \cup (IF IsRoutes(l) THEN {IF HasValue(l) THEN l.value ELSE {None}} ELSE {})
<1> DEFINE n == Len(L)
           M == Append(L, l)
<1>1. /\ n \in Nat /\ DOMAIN L = 1 .. n /\ DOMAIN M = 1 .. n + 1
      /\ \A i \in 1 .. n : M[i] = L[i]
      /\ M[n + 1] = l
  BY Appended
<1>2. /\ \A i \in 1 .. n : i < n => (ValueFollows(M, i) <=> ValueFollows(L, i))
      /\ \A i \in 1 .. n : i = n =>
            /\ ~ValueFollows(L, i)
            /\ ValueFollows(M, i) <=> L[i].dashes > 0 /\ ~HasValue(L[i]) /\ l.dashes = 0
      /\ ~ValueFollows(M, n + 1)
  BY FollowsMore
<1> HAVE l.dashes > 0
<1>3. l.dashes # 0
  OBVIOUS
<1> HIDE DEF M, n
<1>4. ASSUME NEW i \in 1 .. n
      PROVE  (Named(M, i, RoutesFlag) <=> Named(L, i, RoutesFlag)) /\ ListAt(M, i) = ListAt(L, i)
  <2>1. M[i] = L[i]
    BY <1>1
  <2>2. CASE i < n
    <3>1. i + 1 \in 1 .. n
      BY <1>1, <2>2
    <3>2. M[i + 1] = L[i + 1] /\ (ValueFollows(M, i) <=> ValueFollows(L, i))
      BY <1>1, <1>2, <2>2, <3>1
    <3> QED BY <2>1, <3>2, Zenon DEF Named, ListAt
  <2>3. CASE i = n
    <3>1. ~ValueFollows(M, i) /\ ~ValueFollows(L, i)
      BY <1>2, <1>3, <2>3
    <3> QED BY <2>1, <3>1, Zenon DEF Named, ListAt
  <2> QED BY <1>1, <2>2, <2>3
<1>5. ListsIn(M) = ListsIn(L) \cup (IF Named(M, n + 1, RoutesFlag) THEN {ListAt(M, n + 1)} ELSE {})
  BY <1>1, <1>4, ListsUpTo
<1>6. Named(M, n + 1, RoutesFlag) <=> IsRoutes(l)
  BY <1>1, Zenon DEF Named, IsRoutes
<1>7. ListAt(M, n + 1) = IF HasValue(l) THEN l.value ELSE {None}
  BY <1>1, <1>2, Zenon DEF ListAt
<1> QED BY <1>5, <1>6, <1>7 DEF M

\* The lists of routes, for a flag more with its value on a line of its own.
LEMMA ListsValue ==
    ASSUME NEW L \in Seq(Lines), NEW k \in Lines, NEW l \in Lines
    PROVE  k.dashes > 0 /\ k.value = None /\ l.dashes = 0 =>
               ListsIn(Append(Append(L, k), l)) =
                   ListsIn(L) \cup (IF IsRoutes(k) THEN {l.value} ELSE {})
<1> DEFINE K == Append(L, k)
           M == Append(K, l)
           n == Len(L)
<1>1. /\ n \in Nat /\ DOMAIN L = 1 .. n
      /\ DOMAIN K = 1 .. n + 1 /\ K \in Seq(Lines) /\ Len(K) = n + 1
      /\ K[n + 1] = k /\ \A i \in 1 .. n : K[i] = L[i]
  BY Appended
<1>2. /\ \A i \in 1 .. n : i < n => (ValueFollows(K, i) <=> ValueFollows(L, i))
      /\ \A i \in 1 .. n : i = n =>
            /\ ~ValueFollows(L, i)
            /\ ValueFollows(K, i) <=> L[i].dashes > 0 /\ ~HasValue(L[i]) /\ k.dashes = 0
  BY FollowsMore
<1> HIDE DEF K, n
<1>3. /\ DOMAIN M = 1 .. (n + 1) + 1 /\ M[(n + 1) + 1] = l
      /\ \A i \in 1 .. n + 1 : M[i] = K[i]
  BY <1>1, Appended
<1>4. /\ \A i \in 1 .. n + 1 : i < n + 1 => (ValueFollows(M, i) <=> ValueFollows(K, i))
      /\ \A i \in 1 .. n + 1 : i = n + 1 =>
            (ValueFollows(M, i) <=> K[i].dashes > 0 /\ ~HasValue(K[i]) /\ l.dashes = 0)
  BY <1>1, FollowsMore
<1> HIDE DEF M
<1> HAVE k.dashes > 0 /\ k.value = None /\ l.dashes = 0
<1>5. k.dashes # 0 /\ l.dashes # 2 /\ ~HasValue(k)
  BY DEF HasValue
<1>6. ASSUME NEW i \in 1 .. n
      PROVE  /\ Named(M, i, RoutesFlag) <=> Named(L, i, RoutesFlag)
             /\ ListAt(M, i) = ListAt(L, i)
  <2>1. i \in 1 .. n + 1 /\ i < n + 1 /\ i + 1 \in 1 .. n + 1
    BY <1>1
  <2>2. M[i] = L[i] /\ M[i + 1] = K[i + 1] /\ (ValueFollows(M, i) <=> ValueFollows(K, i))
    BY <1>1, <1>3, <1>4, <2>1
  <2>3. CASE i < n
    <3>1. i + 1 \in 1 .. n
      BY <1>1, <2>3
    <3>2. K[i + 1] = L[i + 1] /\ (ValueFollows(K, i) <=> ValueFollows(L, i))
      BY <1>1, <1>2, <2>3, <3>1
    <3> QED BY <2>2, <3>2, Zenon DEF Named, ListAt
  <2>4. CASE i = n
    <3>1. ~ValueFollows(K, i) /\ ~ValueFollows(L, i)
      BY <1>2, <1>5, <2>4
    <3> QED BY <2>2, <3>1, Zenon DEF Named, ListAt
  <2> QED BY <1>1, <2>3, <2>4
<1>7. M[n + 1] = k /\ M[(n + 1) + 1] = l /\ ValueFollows(M, n + 1)
  <2>1. n + 1 \in 1 .. n + 1
    BY <1>1
  <2> QED BY <1>1, <1>3, <1>4, <1>5, <2>1
<1>8. ListAt(M, n + 1) = l.value /\ (Named(M, n + 1, RoutesFlag) <=> IsRoutes(k))
  BY <1>5, <1>7, Zenon DEF ListAt, Named, IsRoutes
<1>9. ~Named(M, (n + 1) + 1, RoutesFlag)
  BY <1>3, <1>5, Zenon DEF Named
<1>10. \A i : i \in 1 .. (n + 1) + 1 <=> i \in 1 .. n \/ i = n + 1 \/ i = (n + 1) + 1
  BY <1>1
<1>11. ListsIn(M) = ListsIn(L) \cup (IF IsRoutes(k) THEN {l.value} ELSE {})
  <2> DEFINE Is(A, i) == Named(A, i, RoutesFlag)
             V(A, i) == ListAt(A, i)
  <2>1. /\ ListsIn(L) = {V(L, i) : i \in {j \in 1 .. n : Is(L, j)}}
        /\ ListsIn(M) = {V(M, i) : i \in {j \in 1 .. (n + 1) + 1 : Is(M, j)}}
    BY <1>1, <1>3, Zenon DEF ListsIn, RoutesAt
  <2>2. /\ \A i \in 1 .. n : (Is(M, i) <=> Is(L, i)) /\ V(M, i) = V(L, i)
        /\ V(M, n + 1) = l.value /\ (Is(M, n + 1) <=> IsRoutes(k)) /\ ~Is(M, (n + 1) + 1)
    BY <1>6, <1>8, <1>9
  <2> HIDE DEF Is, V
  <2>3. \A x : x \in ListsIn(M) <=> x \in ListsIn(L) \/ (IsRoutes(k) /\ x = l.value)
    BY <1>10, <2>1, <2>2, Zenon
  <2> QED BY <2>3
<1> QED BY <1>11 DEF K, M

\* The exit node flags, for an argument more.
LEMMA ExitMore ==
    ASSUME NEW L \in Seq(Lines), NEW l \in Lines
    PROVE  ExitIn(Append(L, l)) <=> ExitIn(L) \/ Exits(l)
<1> DEFINE n == Len(L)
           M == Append(L, l)
<1>1. /\ n \in Nat /\ DOMAIN L = 1 .. n /\ DOMAIN M = 1 .. n + 1
      /\ \A i \in 1 .. n : M[i] = L[i]
      /\ M[n + 1] = l
  BY Appended
<1>2. \A i : i \in 1 .. n + 1 <=> i \in 1 .. n \/ i = n + 1
  BY <1>1
<1> HIDE DEF M, n
<1>3. ExitIn(M) <=> ExitIn(L) \/ Exits(l)
  BY <1>1, <1>2, Zenon DEF ExitIn
<1> QED BY <1>3 DEF M

\* What the settings say of the two advertisement flags.
RoutesGiven(es) == {es[i].value : i \in {j \in DOMAIN es : es[j].name = RoutesFlag}}
TurnsOn(e) == e.name = ExitFlag /\ (e.value = None \/ isTrue(e.value))
ExitGiven(es) == \E i \in DOMAIN es : TurnsOn(es[i])

\* What the settings say of the advertisement flags, for a setting more.
LEMMA GivesMore ==
    ASSUME NEW es \in Seq(Rows), NEW e \in Rows
    PROVE  LET more == Append(es, e)
           IN /\ RoutesGiven(more) = RoutesGiven(es) \cup (IF e.name = RoutesFlag THEN {e.value} ELSE {})
              /\ ExitGiven(more) <=> ExitGiven(es) \/ TurnsOn(e)
              /\ TwoDashes(more) <=> TwoDashes(es) /\ (e.name \in {RoutesFlag, ExitFlag} => e.dashes = 2)
<1> DEFINE n == Len(es)
           more == Append(es, e)
<1>1. /\ n \in Nat /\ DOMAIN es = 1 .. n /\ DOMAIN more = 1 .. n + 1
      /\ \A i \in 1 .. n : more[i] = es[i]
      /\ more[n + 1] = e
  BY Appended
<1>2. \A i : i \in 1 .. n + 1 <=> i \in 1 .. n \/ i = n + 1
  BY <1>1
<1> HIDE DEF more, n
<1>3. ExitGiven(more) <=> ExitGiven(es) \/ TurnsOn(e)
  BY <1>1, <1>2, Zenon DEF ExitGiven
<1>4. TwoDashes(more) <=> TwoDashes(es) /\ (e.name \in {RoutesFlag, ExitFlag} => e.dashes = 2)
  <2> DEFINE Two(x) == x.name \in {RoutesFlag, ExitFlag} => x.dashes = 2
  <2>1. \A s : TwoDashes(s) <=> \A i \in DOMAIN s : Two(s[i])
    BY Zenon DEF TwoDashes
  <2> HIDE DEF Two
  <2>2. TwoDashes(more) <=> TwoDashes(es) /\ Two(e)
    BY <1>1, <1>2, <2>1, Zenon
  <2> QED BY <2>2 DEF Two
<1>5. RoutesGiven(more) = RoutesGiven(es) \cup (IF e.name = RoutesFlag THEN {e.value} ELSE {})
  <2> DEFINE Is(x) == x.name = RoutesFlag
             V(x) == x.value
  <2>1. \A s : RoutesGiven(s) = {V(s[i]) : i \in {j \in DOMAIN s : Is(s[j])}}
    BY Zenon DEF RoutesGiven
  <2> HIDE DEF Is, V
  <2>2. \A x : x \in RoutesGiven(more) <=> x \in RoutesGiven(es) \/ (Is(e) /\ x = V(e))
    BY <1>1, <1>2, <2>1, Zenon
  <2>3. RoutesGiven(more) = RoutesGiven(es) \cup (IF Is(e) THEN {V(e)} ELSE {})
    BY <2>2
  <2> QED BY <2>3 DEF Is, V
<1> QED BY <1>3, <1>4, <1>5 DEF more

Heard(es) ==
    TwoDashes(es) => /\ ListsIn(Written(es)) = RoutesGiven(es)
                     /\ ExitIn(Written(es)) <=> ExitGiven(es)

\* AdvertisedRoutes hears what the settings say, with one setting more.
LEMMA HeardMore ==
    ASSUME NEW es \in Seq(Rows), NEW e \in Settings, Heard(es)
    PROVE  Heard(Append(es, e))
<1> DEFINE L == Written(es)
           K == Append(L, FlagOf(e))
           more == Append(es, e)
<1>1. /\ FlagOf(e) \in Lines /\ ValueOf(e) \in Lines /\ WholeOf(e) \in Lines
      /\ L \in Seq(Lines) /\ K \in Seq(Lines)
      /\ Written(more) = Then(L, e)
  BY Spellings, SettingFields
<1>2. /\ FlagOf(e).dashes > 0 /\ FlagOf(e).dashes = e.dashes
      /\ FlagOf(e).name = e.name /\ FlagOf(e).value = None
      /\ ValueOf(e).dashes = 0 /\ ValueOf(e).name = "" /\ ValueOf(e).value = e.value
      /\ WholeOf(e).dashes > 0 /\ WholeOf(e).dashes = e.dashes
      /\ WholeOf(e).name = e.name /\ WholeOf(e).value = e.value
      /\ e \in Rows /\ e.split => NeedsValue(e.name)
  BY SettingFields
<1>3. /\ RoutesGiven(more) = RoutesGiven(es) \cup (IF e.name = RoutesFlag THEN {e.value} ELSE {})
      /\ ExitGiven(more) <=> ExitGiven(es) \/ TurnsOn(e)
      /\ TwoDashes(more) <=> TwoDashes(es) /\ (e.name \in {RoutesFlag, ExitFlag} => e.dashes = 2)
  BY <1>2, GivesMore, SettingFields
<1>4. TwoDashes(es) => ListsIn(L) = RoutesGiven(es) /\ (ExitIn(L) <=> ExitGiven(es))
  BY DEF Heard
<1> HIDE DEF L, K, more
<1> SUFFICES ASSUME TwoDashes(more)
             PROVE  /\ ListsIn(Written(more)) = RoutesGiven(more)
                    /\ ExitIn(Written(more)) <=> ExitGiven(more)
  BY DEF Heard, more
<1>5. ListsIn(L) = RoutesGiven(es) /\ (ExitIn(L) <=> ExitGiven(es))
  BY <1>3, <1>4
<1>6. e.name \in {RoutesFlag, ExitFlag} => e.dashes = 2
  BY <1>3
<1>7. CASE e.split
  <2>1. Written(more) = Append(K, ValueOf(e))
    BY <1>1, <1>7 DEF Then, K
  <2>2. e.name # ExitFlag
    BY <1>7, SettingFields, FlagsAssumption
  <2>3. IsRoutes(FlagOf(e)) <=> e.name = RoutesFlag
    BY <1>2, <1>6 DEF IsRoutes
  <2>4. ListsIn(Written(more)) = ListsIn(L) \cup (IF IsRoutes(FlagOf(e)) THEN {ValueOf(e).value} ELSE {})
    <3>1. FlagOf(e).dashes > 0 /\ FlagOf(e).value = None /\ ValueOf(e).dashes = 0
      BY <1>2
    <3>2. L \in Seq(Lines) /\ FlagOf(e) \in Lines /\ ValueOf(e) \in Lines
      BY <1>1
    <3> QED BY <2>1, <3>1, <3>2, ListsValue DEF K
  <2>5. ~Exits(ValueOf(e)) /\ ~Exits(FlagOf(e))
    <3>1. ValueOf(e).dashes # 2 /\ FlagOf(e).name # ExitFlag
      <4>1. ValueOf(e).dashes = 0 /\ FlagOf(e).name = e.name
        BY <1>2
      <4> QED BY <2>2, <4>1
    <3> QED BY <3>1, Zenon DEF Exits
  <2>6. ExitIn(Written(more)) <=> ExitIn(L)
    <3>1. ExitIn(Append(K, ValueOf(e))) <=> ExitIn(K)
      BY <1>1, <2>5, ExitMore
    <3>2. ExitIn(K) <=> ExitIn(L)
      BY <1>1, <2>5, ExitMore DEF K
    <3> QED BY <2>1, <3>1, <3>2
  <2>7. ~TurnsOn(e)
    BY <2>2 DEF TurnsOn
  <2> QED BY <1>2, <1>3, <1>5, <2>3, <2>4, <2>6, <2>7
<1>8. CASE ~e.split
  <2>1. Written(more) = Append(L, WholeOf(e))
    BY <1>1, <1>8 DEF Then
  <2>2. IsRoutes(WholeOf(e)) <=> e.name = RoutesFlag
    BY <1>2, <1>6 DEF IsRoutes
  <2>3. e.name = RoutesFlag => HasValue(WholeOf(e))
    <3>1. e.value \in Accepts[e.name]
      BY DEF Settings
    <3>2. e.name = RoutesFlag => None \notin Accepts[e.name]
      BY FlagsAssumption DEF NeedsValue
    <3>3. e.name = RoutesFlag => e.value # None
      BY <3>1, <3>2
    <3> QED BY <1>2, <3>3 DEF HasValue
  <2>4. ListsIn(Written(more)) = ListsIn(L) \cup (IF e.name = RoutesFlag THEN {e.value} ELSE {})
    <3>1. ListsIn(Written(more)) = ListsIn(L) \cup
              (IF IsRoutes(WholeOf(e))
               THEN {IF HasValue(WholeOf(e)) THEN WholeOf(e).value ELSE {None}} ELSE {})
      BY <1>1, <1>2, <2>1, ListsMore
    <3> QED BY <1>2, <2>2, <2>3, <3>1
  <2>5. Exits(WholeOf(e)) <=> TurnsOn(e)
    <3>1. CASE e.name = ExitFlag
      <4>1. Exits(WholeOf(e)) <=> ~HasValue(WholeOf(e)) \/ isTrue(e.value)
        BY <1>2, <1>6, <3>1 DEF Exits
      <4>2. HasValue(WholeOf(e)) <=> e.value # None
        BY <1>2 DEF HasValue
      <4> QED BY <3>1, <4>1, <4>2 DEF TurnsOn
    <3>2. CASE e.name # ExitFlag
      BY <1>2, <3>2 DEF Exits, TurnsOn
    <3> QED BY <3>1, <3>2
  <2>6. ExitIn(Written(more)) <=> ExitIn(L) \/ Exits(WholeOf(e))
    BY <1>1, <2>1, ExitMore
  <2> QED BY <1>3, <1>5, <2>4, <2>5, <2>6
<1> QED BY <1>2, <1>7, <1>8

\* For all settings with two dashes: AdvertisedRoutes finds their lists and the exit node.
LEMMA Hearing == \A es \in Seq(Settings) : Heard(es)
<1> DEFINE Q == {es \in Seq(Settings) : Heard(es)}
<1>1. <<>> \in Q
  <2>1. Written(<<>>) = <<>> /\ DOMAIN <<>> = {}
    BY WrittenNone
  <2>2. Heard(<<>>)
    BY <2>1 DEF Heard, ListsIn, RoutesAt, RoutesGiven, ExitIn, ExitGiven
  <2> QED BY <2>2, EmptySeq
<1>2. ASSUME NEW es \in Seq(Settings), NEW e \in Settings, es \in Q PROVE Append(es, e) \in Q
  <2>1. es \in Seq(Rows) /\ Append(es, e) \in Seq(Settings)
    BY EntryTypes, SeqMonotonic, AppendProperties
  <2>2. Heard(es)
    BY <1>2
  <2>3. Heard(Append(es, e))
    BY <2>1, <2>2, HeardMore
  <2> QED BY <2>1, <2>3
<1>3. Seq(Settings) \subseteq Q
  <2> HIDE DEF Q
  <2>1. Grows(Q, Settings)
    BY <1>1, <1>2 DEF Grows
  <2> QED BY <2>1, SeqInduct
<1> QED BY <1>3

\* A flag that is given once is meant as it is given.
LEMMA LastIsOnly ==
    ASSUME NEW es \in Seq(Settings), GivenOnce(es), NEW name \in {RoutesFlag, ExitFlag},
           NEW i \in DOMAIN es, es[i].name = name
    PROVE  LastOf(es, name) = es[i]
<1> DEFINE T == {j \in DOMAIN es : es[j].name = name}
<1>1. T = {i}
  BY DEF GivenOnce
<1>2. Len(es) \in Nat /\ T \in SUBSET (1 .. Len(es)) /\ T # {}
  <2>1. Len(es) \in Nat /\ DOMAIN es = 1 .. Len(es)
    BY LenProperties
  <2> QED BY <2>1
<1> HIDE DEF T
<1>3. Max(T) = i
  BY <1>1, <1>2, Largest
<1> QED BY <1>3 DEF LastOf, T

\* The prefixes of all the lists, and those of an exit node.
Told(L) == UNION ListsIn(L)
Extra(exit) == IF exit THEN exitRoutes ELSE {}

\* AdvertisedRoutes in terms of what it finds.
LEMMA AdvertisedIs ==
    ASSUME NEW L
    PROVE  AdvertisedRoutes(L) = IF Told(L) \subseteq CIDRs THEN Told(L) \cup Extra(ExitIn(L)) ELSE None
  BY Zenon DEF AdvertisedRoutes, ListsIn, RoutesAt, ExitIn, Exits, Named, Told, Extra

\* For settings that give each advertisement flag once and as documented,
\* AdvertisedRoutes is what is meant.
LEMMA AdvertisedAre ==
    ASSUME NEW es \in Seq(Settings), GivenOnce(es), SpelledOut(es), TwoDashes(es)
    PROVE  AdvertisedRoutes(Written(es)) = Meant(es)
<1> DEFINE lists == ListsIn(Written(es))
           exit == ExitIn(Written(es))
           list == IF Given(es, RoutesFlag) THEN LastOf(es, RoutesFlag).value ELSE {}
           on == Given(es, ExitFlag) /\ On(LastOf(es, ExitFlag).value)
<1>1. lists = RoutesGiven(es) /\ (exit <=> ExitGiven(es))
  BY Hearing DEF Heard
<1>2. UNION lists = list
  <2>1. CASE ~Given(es, RoutesFlag)
    <3>1. RoutesGiven(es) = {}
      BY <2>1 DEF Given, RoutesGiven
    <3> QED BY <1>1, <2>1, <3>1
  <2>2. CASE Given(es, RoutesFlag)
    <3>1. PICK i \in DOMAIN es : es[i].name = RoutesFlag
      BY <2>2 DEF Given
    <3>2. \A j \in DOMAIN es : es[j].name = RoutesFlag <=> j = i
      BY <3>1 DEF GivenOnce
    <3>3. RoutesGiven(es) = {es[i].value}
      BY <3>2 DEF RoutesGiven
    <3>4. LastOf(es, RoutesFlag) = es[i]
      BY <3>1, LastIsOnly
    <3> QED BY <1>1, <2>2, <3>3, <3>4
  <2> QED BY <2>1, <2>2
<1>3. exit <=> on
  <2>1. CASE ~Given(es, ExitFlag)
    BY <1>1, <2>1 DEF Given, ExitGiven, TurnsOn
  <2>2. CASE Given(es, ExitFlag)
    <3>1. PICK i \in DOMAIN es : es[i].name = ExitFlag
      BY <2>2 DEF Given
    <3>2. \A j \in DOMAIN es : es[j].name = ExitFlag <=> j = i
      BY <3>1 DEF GivenOnce
    <3>3. ExitGiven(es) <=> es[i].value = None \/ isTrue(es[i].value)
      BY <3>2, Zenon DEF ExitGiven, TurnsOn
    <3>4. LastOf(es, ExitFlag) = es[i]
      BY <3>1, LastIsOnly
    <3>5. On(es[i].value) <=> es[i].value = None \/ isTrue(es[i].value)
      BY <3>1 DEF SpelledOut, On, isTrue
    <3> QED BY <1>1, <2>2, <3>3, <3>4, <3>5
  <2> QED BY <2>1, <2>2
<1>4. AdvertisedRoutes(Written(es)) =
          IF Told(Written(es)) \subseteq CIDRs THEN Told(Written(es)) \cup Extra(exit) ELSE None
  BY AdvertisedIs, Zenon
<1>5. Meant(es) = IF list \subseteq CIDRs THEN list \cup Extra(on) ELSE None
  BY Zenon DEF Meant, Extra
<1>6. Extra(exit) = Extra(on)
  BY <1>3 DEF Extra
<1>7. Told(Written(es)) = list
  BY <1>2 DEF Told
<1> HIDE DEF list, exit, on
<1> QED BY <1>4, <1>5, <1>6, <1>7, Zenon

\* In a file that gives each advertisement flag once, with two dashes, and an exit
\* node that is not switched on by a "t", the routes minitail waits to see approved
\* are those the node is told to advertise (AdvertisedRoutes in
\* internal/config/file.go).
THEOREM RoutesAreAsMeant == Spec => []AdvertisedIsMeant
<1>1. TypeOK => AdvertisedIsMeant
  <2> DEFINE up == InSection(file, "up")
  <2> SUFFICES ASSUME file \in Seq(Entries), Parsed.ok, GivenOnce(up), SpelledOut(up), TwoDashes(up)
               PROVE  AdvertisedRoutes(Parsed.up) = Meant(up)
    BY DEF TypeOK, AdvertisedIsMeant
  <2>1. Parsed.up = Written(up)
    BY Sorting DEF Sorted, Parsed
  <2>2. up \in Seq(Settings)
    BY InSectionSettings
  <2> HIDE DEF up
  <2> QED BY <2>1, <2>2, AdvertisedAre
<1> QED BY <1>1, FileType, PTL
=============================================================================
