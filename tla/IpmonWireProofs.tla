-------------------------- MODULE IpmonWireProofs --------------------------
(***************************************************************************)
(* Proofs about the texts that clients and server exchange, for all names, *)
(* maps, places and lists.  They rest on two facts about strsep: a text    *)
(* without the separator is one field, and a separator ends the field      *)
(* before it and leaves the fields behind it as they are.                  *)
(***************************************************************************)
EXTENDS IpmonWire, ServerRegistryProofs, FiniteSetTheorems, FunctionTheorems

-----------------------------------------------------------------------------
(* Induction, and recursion over a sequence.                               *)

LEMMA InductionOnNat ==
  ASSUME NEW S, 0 \in S, \A n \in Nat : n \in S => n + 1 \in S
  PROVE  \A n \in Nat : n \in S
<1>. DEFINE T == Nat \ S
<1>. SUFFICES ASSUME T # {} PROVE FALSE
  OBVIOUS
<1>1. PICK i \in T : \A j \in T : i <= j
  <2>1. T \subseteq Nat
    OBVIOUS
  <2>. HIDE DEF T
  <2>. QED
    BY <2>1, LeastIndex
<1>2. i # 0 /\ i - 1 \in Nat /\ (i - 1) + 1 = i
  OBVIOUS
<1>3. i - 1 \notin T
  BY <1>1, <1>2
<1>. QED
  BY <1>2, <1>3

(***************************************************************************)
(* f goes through text from the left, g makes of each value the next.      *)
(***************************************************************************)
Solves(f, s0, g, text) ==
  f[0] = s0 /\ \A i \in 1..Len(text) : f[i] = g[<<f[i - 1], text[i]>>]
SolvesIn(S, f, s0, g, text) ==
  /\ f[0] = s0
  /\ \A i \in 1..Len(text) : f[i - 1] \in S => f[i] = g[<<f[i - 1], text[i]>>]
Stays(S, f, text) == \A i \in 0..Len(text) : f[i] \in S

LEMMA FoldExists ==
  ASSUME NEW S, NEW T, NEW s0 \in S, NEW g \in [S \X T -> S], NEW text \in Seq(T)
  PROVE  \E f \in [0..Len(text) -> S] : Solves(f, s0, g, text)
<1>. DEFINE N == Len(text)
            Upto(f, n) == f[0] = s0 /\ \A i \in 1..n : f[i] = g[<<f[i - 1], text[i]>>]
            D == {n \in Nat : n <= N => \E f \in [0..n -> S] : Upto(f, n)}
<1>0. N \in Nat /\ \A i \in 1..N : text[i] \in T
  BY LenProperties, ElementOfSeq
<1>. HIDE DEF N
<1>1. 0 \in D
  <2>1. [k \in 0..0 |-> s0] \in [0..0 -> S] /\ Upto([k \in 0..0 |-> s0], 0)
    OBVIOUS
  <2>. QED
    BY <2>1
<1>2. ASSUME NEW n \in Nat, n \in D PROVE n + 1 \in D
  <2>. SUFFICES ASSUME n + 1 <= N
                PROVE  \E f \in [0..(n + 1) -> S] : Upto(f, n + 1)
    OBVIOUS
  <2>1. PICK f \in [0..n -> S] : Upto(f, n)
    BY <1>0, <1>2
  <2>. DEFINE last == g[<<f[n], text[n + 1]>>]
              h == [k \in 0..(n + 1) |-> IF k <= n THEN f[k] ELSE last]
  <2>2. last \in S
    <3>1. f[n] \in S /\ text[n + 1] \in T
      BY <1>0
    <3>. QED
      BY <3>1
  <2>3. h \in [0..(n + 1) -> S] /\ h[0] = s0
    BY <2>1, <2>2
  <2>4. ASSUME NEW i \in 1..(n + 1) PROVE h[i] = g[<<h[i - 1], text[i]>>]
    <3>1. i - 1 \in 0..n /\ h[i - 1] = f[i - 1]
      OBVIOUS
    <3>2. CASE i <= n
      BY <2>1, <3>1, <3>2
    <3>3. CASE i = n + 1
      <4>1. h[n + 1] = last /\ (n + 1) - 1 = n /\ h[n] = f[n]
        OBVIOUS
      <4>. QED
        BY <3>3, <4>1
    <3>. QED
      BY <3>2, <3>3
  <2>. HIDE DEF h
  <2>. QED
    BY <2>3, <2>4
<1>. HIDE DEF D
<1>3. N \in D
  BY <1>0, <1>1, <1>2, InductionOnNat
<1>. QED
  BY <1>3 DEF D, N, Solves

(***************************************************************************)
(* What does as g does on S stays in S.                                    *)
(***************************************************************************)
LEMMA FoldStays ==
  ASSUME NEW S, NEW T, NEW s0 \in S, NEW g \in [S \X T -> S], NEW text \in Seq(T),
         NEW f, SolvesIn(S, f, s0, g, text)
  PROVE  Solves(f, s0, g, text) /\ Stays(S, f, text)
<1>. DEFINE D == {n \in Nat : n <= Len(text) => f[n] \in S}
<1>0. /\ Len(text) \in Nat /\ \A i \in 1..Len(text) : text[i] \in T
      /\ f[0] = s0
      /\ \A i \in 1..Len(text) : f[i - 1] \in S => f[i] = g[<<f[i - 1], text[i]>>]
  BY LenProperties, ElementOfSeq DEF SolvesIn
<1>1. 0 \in D
  BY <1>0
<1>2. ASSUME NEW n \in Nat, n \in D PROVE n + 1 \in D
  <2>. SUFFICES ASSUME n + 1 <= Len(text) PROVE f[n + 1] \in S
    OBVIOUS
  <2>1. n + 1 \in 1..Len(text) /\ (n + 1) - 1 = n /\ f[n] \in S
    BY <1>0, <1>2
  <2>2. f[n + 1] = g[<<f[n], text[n + 1]>>]
    BY <1>0, <2>1
  <2>. QED
    BY <1>0, <2>1, <2>2
<1>. HIDE DEF D
<1>3. \A n \in Nat : n \in D
  BY <1>1, <1>2, InductionOnNat
<1>4. \A i \in 0..Len(text) : f[i] \in S
  BY <1>0, <1>3 DEF D
<1>5. \A i \in 1..Len(text) : i - 1 \in 0..Len(text)
  BY <1>0
<1>. QED
  BY <1>0, <1>4, <1>5 DEF Solves, Stays

(***************************************************************************)
(* One element more is one step more.                                      *)
(***************************************************************************)
LEMMA FoldAppend ==
  ASSUME NEW s0, NEW g, NEW T, NEW text \in Seq(T), NEW x \in T,
         NEW f, NEW h, Solves(f, s0, g, text), Solves(h, s0, g, Append(text, x))
  PROVE  h[Len(text) + 1] = g[<<f[Len(text)], x>>]
<1>. DEFINE N == Len(text)
            D == {n \in Nat : n <= N => h[n] = f[n]}
<1>0. /\ N \in Nat /\ Len(Append(text, x)) = N + 1
      /\ \A i \in 1..N : Append(text, x)[i] = text[i]
      /\ Append(text, x)[N + 1] = x
  BY LenProperties, AppendProperties
<1>1. /\ \A i \in 1..N : f[i] = g[<<f[i - 1], text[i]>>]
      /\ \A i \in 1..N : h[i] = g[<<h[i - 1], text[i]>>]
      /\ h[N + 1] = g[<<h[(N + 1) - 1], x>>]
  <2>1. \A i \in 1..(N + 1) : h[i] = g[<<h[i - 1], Append(text, x)[i]>>]
    BY <1>0 DEF Solves
  <2>2. \A i \in 1..N : i \in 1..(N + 1)
    BY <1>0
  <2>3. N + 1 \in 1..(N + 1)
    BY <1>0
  <2>4. \A i \in 1..N : f[i] = g[<<f[i - 1], text[i]>>]
    BY DEF Solves
  <2>. HIDE DEF N
  <2>. QED
    BY <1>0, <2>1, <2>2, <2>3, <2>4
<1>. HIDE DEF N
<1>2. 0 \in D
  BY DEF Solves
<1>3. ASSUME NEW n \in Nat, n \in D PROVE n + 1 \in D
  <2>. SUFFICES ASSUME n + 1 <= N PROVE h[n + 1] = f[n + 1]
    OBVIOUS
  <2>1. n + 1 \in 1..N /\ (n + 1) - 1 = n /\ h[n] = f[n]
    BY <1>0, <1>3
  <2>. DEFINE k == n + 1
  <2>2. k \in 1..N /\ k - 1 = n
    BY <2>1
  <2>. HIDE DEF k
  <2>3. f[k] = g[<<f[k - 1], text[k]>>] /\ h[k] = g[<<h[k - 1], text[k]>>]
    BY <1>1, <2>2
  <2>4. h[k] = f[k]
    BY <2>1, <2>2, <2>3
  <2>. QED
    BY <2>4 DEF k
<1>. HIDE DEF D
<1>4. N \in D
  BY <1>0, <1>2, <1>3, InductionOnNat
<1>5. h[N] = f[N] /\ (N + 1) - 1 = N
  BY <1>0, <1>4 DEF D
<1>. QED
  BY <1>1, <1>5 DEF N

-----------------------------------------------------------------------------
(* Induction over sequences, from either end.                              *)

LEMMA InductionOnAppend ==
  ASSUME NEW T, NEW D, << >> \in D,
         \A t \in Seq(T), x \in T : t \in D => Append(t, x) \in D
  PROVE  \A t \in Seq(T) : t \in D
<1>. DEFINE E == {n \in Nat : \A t \in Seq(T) : Len(t) = n => t \in D}
<1>1. 0 \in E
  <2>1. \A t \in Seq(T) : Len(t) = 0 => t = << >>
    BY EmptySeq
  <2>. QED
    BY <2>1
<1>2. ASSUME NEW n \in Nat, n \in E PROVE n + 1 \in E
  <2>. SUFFICES ASSUME NEW t \in Seq(T), Len(t) = n + 1 PROVE t \in D
    OBVIOUS
  <2>1. t # << >>
    BY EmptySeq
  <2>2. PICK s \in Seq(T), x \in T : t = Append(s, x)
    BY <2>1, SequenceEmptyOrAppend
  <2>3. Len(s) = n
    <3>1. Len(t) = Len(s) + 1 /\ Len(s) \in Nat
      BY <2>2, AppendProperties, LenProperties
    <3>. QED
      BY <3>1
  <2>. QED
    BY <1>2, <2>2, <2>3
<1>. HIDE DEF E
<1>3. \A n \in Nat : n \in E
  BY <1>1, <1>2, InductionOnNat
<1>4. \A t \in Seq(T) : Len(t) \in Nat
  BY LenProperties
<1>. QED
  BY <1>3, <1>4 DEF E

LEMMA Prepended ==
  ASSUME NEW T, NEW x \in T, NEW t \in Seq(T)
  PROVE  /\ <<x>> \o t \in Seq(T) /\ Len(<<x>> \o t) = Len(t) + 1
         /\ (<<x>> \o t)[1] = x
         /\ \A i \in 1..Len(t) : (<<x>> \o t)[i + 1] = t[i]
<1>. DEFINE h == <<x>>
<1>1. h \in Seq(T) /\ Len(h) = 1 /\ h[1] = x /\ Len(t) \in Nat
  BY LenProperties
<1>. HIDE DEF h
<1>2. /\ h \o t \in Seq(T) /\ Len(h \o t) = Len(h) + Len(t)
      /\ \A i \in 1..(Len(h) + Len(t)) :
           (h \o t)[i] = IF i <= Len(h) THEN h[i] ELSE t[i - Len(h)]
  BY <1>1, ConcatProperties
<1>3. (h \o t)[1] = x
  <2>1. 1 \in 1..(Len(h) + Len(t)) /\ 1 <= Len(h)
    BY <1>1
  <2>. QED
    BY <1>1, <1>2, <2>1
<1>4. ASSUME NEW i \in 1..Len(t) PROVE (h \o t)[i + 1] = t[i]
  <2>1. /\ i + 1 \in 1..(Len(h) + Len(t)) /\ ~(i + 1 <= Len(h))
        /\ (i + 1) - Len(h) = i
    BY <1>1
  <2>. QED
    BY <1>2, <2>1
<1>5. Len(h \o t) = Len(t) + 1
  BY <1>1, <1>2
<1>. QED
  BY <1>2, <1>3, <1>4, <1>5 DEF h

LEMMA HeadSplit ==
  ASSUME NEW T, NEW t \in Seq(T), t # << >>
  PROVE  t = <<t[1]>> \o Tail(t) /\ t[1] \in T /\ Tail(t) \in Seq(T)
<1>1. Len(t) \in Nat \ {0}
  BY EmptySeq
<1>2. /\ t[1] \in T /\ Tail(t) \in Seq(T) /\ Len(Tail(t)) = Len(t) - 1
      /\ \A i \in 1..Len(Tail(t)) : Tail(t)[i] = t[i + 1]
  BY <1>1, HeadTailProperties, ElementOfSeq
<1>. DEFINE r == Tail(t)
            s == <<t[1]>> \o r
<1>3. /\ s \in Seq(T) /\ Len(s) = Len(r) + 1 /\ s[1] = t[1]
      /\ \A i \in 1..Len(r) : s[i + 1] = r[i]
  BY <1>2, Prepended
<1>. HIDE DEF s
<1>4. Len(s) = Len(t)
  BY <1>1, <1>2, <1>3
<1>5. \A i \in 1..Len(t) : s[i] = t[i]
  <2>. SUFFICES ASSUME NEW i \in 1..Len(t), i # 1 PROVE s[i] = t[i]
    BY <1>3
  <2>1. i - 1 \in 1..Len(r) /\ (i - 1) + 1 = i
    BY <1>1, <1>2
  <2>. QED
    BY <1>2, <1>3, <2>1
<1>6. t = s
  BY <1>3, <1>4, <1>5, SeqEqual
<1>. QED
  BY <1>2, <1>6 DEF s

LEMMA InductionOnPrepend ==
  ASSUME NEW T, NEW D, << >> \in D,
         \A t \in Seq(T), x \in T : t \in D => <<x>> \o t \in D
  PROVE  \A t \in Seq(T) : t \in D
<1>. DEFINE E == {n \in Nat : \A t \in Seq(T) : Len(t) = n => t \in D}
<1>1. 0 \in E
  <2>1. \A t \in Seq(T) : Len(t) = 0 => t = << >>
    BY EmptySeq
  <2>. QED
    BY <2>1
<1>2. ASSUME NEW n \in Nat, n \in E PROVE n + 1 \in E
  <2>. SUFFICES ASSUME NEW t \in Seq(T), Len(t) = n + 1 PROVE t \in D
    OBVIOUS
  <2>1. t # << >>
    BY EmptySeq
  <2>2. t = <<t[1]>> \o Tail(t) /\ t[1] \in T /\ Tail(t) \in Seq(T)
    BY <2>1, HeadSplit
  <2>3. Len(Tail(t)) = n
    BY <2>1, HeadTailProperties
  <2>4. Tail(t) \in D
    BY <1>2, <2>2, <2>3
  <2>5. <<t[1]>> \o Tail(t) \in D
    BY <2>2, <2>4
  <2>. QED
    BY <2>2, <2>5
<1>. HIDE DEF E
<1>3. \A n \in Nat : n \in E
  BY <1>1, <1>2, InductionOnNat
<1>4. \A t \in Seq(T) : Len(t) \in Nat
  BY LenProperties
<1>. QED
  BY <1>3, <1>4 DEF E

-----------------------------------------------------------------------------
(* strsep.                                                                 *)

LEMMA CutType ==
  ASSUME NEW T, NEW fs \in Seq(Seq(T)) \ {<< >>}, NEW x \in T, NEW sep
  PROVE  Cut(fs, x, sep) \in Seq(Seq(T)) \ {<< >>}
<1>. DEFINE n == Len(fs)
<1>1. n \in Nat \ {0} /\ fs[n] \in Seq(T)
  BY EmptySeq, ElementOfSeq
<1>2. << >> \in Seq(T) /\ Append(fs[n], x) \in Seq(T)
  BY <1>1, EmptySeq, AppendProperties
<1>3. Append(fs, << >>) \in Seq(Seq(T)) \ {<< >>}
  BY <1>2, AppendProperties
<1>4. [fs EXCEPT ![n] = Append(fs[n], x)] \in Seq(Seq(T)) /\
      Len([fs EXCEPT ![n] = Append(fs[n], x)]) = n
  BY <1>1, <1>2, ExceptSeq
<1>5. [fs EXCEPT ![n] = Append(fs[n], x)] \in Seq(Seq(T)) \ {<< >>}
  BY <1>1, <1>4, EmptySeq
<1>. QED
  BY <1>3, <1>5 DEF Cut

\* Each token is one step of the parser.
LEMMA FieldsGrow ==
  ASSUME NEW T, NEW sep
  PROVE  /\ Fields(<< >>, sep) = << << >> >>
         /\ \A t \in Seq(T) : Fields(t, sep) \in Seq(Seq(T)) \ {<< >>}
         /\ \A t \in Seq(T), x \in T :
              Fields(Append(t, x), sep) = Cut(Fields(t, sep), x, sep)
<1>. DEFINE S == Seq(Seq(T)) \ {<< >>}
            s0 == << << >> >>
            g == [p \in S \X T |-> Cut(p[1], p[2], sep)]
            Steps(f, t) == f = [i \in 0..Len(t) |->
              IF i = 0 THEN s0 ELSE Cut(f[i - 1], t[i], sep)]
            F(t) == CHOOSE f : Steps(f, t)
<1>1. s0 \in S
  BY EmptySeq
<1>2. g \in [S \X T -> S] /\ \A fs \in S, x \in T : g[<<fs, x>>] = Cut(fs, x, sep)
  BY CutType
<1>3. \A t : Fields(t, sep) = F(t)[Len(t)]
  BY DEF Fields
<1>. HIDE DEF S, s0, g
<1>4. ASSUME NEW t \in Seq(T)
      PROVE  Solves(F(t), s0, g, t) /\ Stays(S, F(t), t)
  <2>0. Len(t) \in Nat /\ \A i \in 1..Len(t) : t[i] \in T
    BY LenProperties, ElementOfSeq
  <2>1. PICK f \in [0..Len(t) -> S] : Solves(f, s0, g, t)
    BY <1>1, <1>2, FoldExists
  <2>2. \A i \in 1..Len(t) : f[i] = Cut(f[i - 1], t[i], sep)
    <3>1. \A i \in 1..Len(t) : i - 1 \in 0..Len(t)
      BY <2>0
    <3>. QED
      BY <1>2, <2>0, <2>1, <3>1 DEF Solves
  <2>3. Steps(f, t)
    <3>1. f[0] = s0
      BY <2>1 DEF Solves
    <3>2. \A i \in 0..Len(t) : i = 0 \/ i \in 1..Len(t)
      BY <2>0
    <3>. QED
      BY <2>2, <3>1, <3>2
  <2>4. Steps(F(t), t)
    BY <2>3
  <2>. HIDE DEF F
  <2>5. F(t)[0] = s0 /\ \A i \in 1..Len(t) : F(t)[i] = Cut(F(t)[i - 1], t[i], sep)
    BY <2>0, <2>4
  <2>6. SolvesIn(S, F(t), s0, g, t)
    BY <1>2, <2>0, <2>5 DEF SolvesIn
  <2>. QED
    BY <1>1, <1>2, <2>6, FoldStays
<1>. HIDE DEF F
<1>5. Len(<< >>) = 0 /\ << >> \in Seq(T)
  BY EmptySeq
<1>6. Fields(<< >>, sep) = s0
  BY <1>3, <1>4, <1>5 DEF Solves
<1>7. \A t \in Seq(T) : Fields(t, sep) \in S
  <2>1. \A t \in Seq(T) : Len(t) \in 0..Len(t)
    BY LenProperties
  <2>. QED
    BY <1>3, <1>4, <2>1 DEF Stays
<1>8. ASSUME NEW t \in Seq(T), NEW x \in T
      PROVE  Fields(Append(t, x), sep) = Cut(Fields(t, sep), x, sep)
  <2>1. Append(t, x) \in Seq(T) /\ Len(Append(t, x)) = Len(t) + 1
    BY AppendProperties
  <2>2. Solves(F(t), s0, g, t) /\ Solves(F(Append(t, x)), s0, g, Append(t, x))
    BY <1>4, <2>1
  <2>3. F(Append(t, x))[Len(t) + 1] = g[<<F(t)[Len(t)], x>>]
    BY <2>2, FoldAppend
  <2>4. Fields(Append(t, x), sep) = g[<<Fields(t, sep), x>>]
    BY <1>3, <2>1, <2>3
  <2>. QED
    BY <1>2, <1>7, <2>4
<1>. QED
  BY <1>6, <1>7, <1>8 DEF S, s0

LEMMA FieldsOfNone == ASSUME NEW sep PROVE Fields(<< >>, sep) = << << >> >>
BY FieldsGrow

LEMMA FieldsType ==
  ASSUME NEW T, NEW t \in Seq(T), NEW sep
  PROVE  Fields(t, sep) \in Seq(Seq(T)) \ {<< >>}
BY FieldsGrow

LEMMA FieldsOfAppend ==
  ASSUME NEW T, NEW t \in Seq(T), NEW x \in T, NEW sep
  PROVE  Fields(Append(t, x), sep) = Cut(Fields(t, sep), x, sep)
BY FieldsGrow

LEMMA ToSetOfAppend ==
  ASSUME NEW T, NEW t \in Seq(T), NEW x \in T
  PROVE  ToSet(Append(t, x)) = ToSet(t) \cup {x}
<1>1. /\ Len(t) \in Nat /\ DOMAIN t = 1..Len(t)
      /\ DOMAIN Append(t, x) = 1..(Len(t) + 1)
      /\ \A i \in 1..Len(t) : Append(t, x)[i] = t[i]
      /\ Append(t, x)[Len(t) + 1] = x
  BY LenProperties, AppendProperties
<1>. QED
  BY <1>1 DEF ToSet

Regroups(p, q, r) == (p \o q) \o r = p \o (q \o r)
LEMMA Regrouped ==
  ASSUME NEW T, NEW p \in Seq(T), NEW q \in Seq(T), NEW r \in Seq(T)
  PROVE  Regroups(p, q, r)
BY ConcatAssociative DEF Regroups

LEMMA AppendBehind ==
  ASSUME NEW T, NEW s \in Seq(T), NEW t \in Seq(T), NEW x \in T
  PROVE  s \o Append(t, x) = Append(s \o t, x)
<1>1. <<x>> \in Seq(T) /\ s \o t \in Seq(T)
  BY ConcatProperties
<1>2. s \o Append(t, x) = s \o (t \o <<x>>)
  BY AppendIsConcat
<1>3. Append(s \o t, x) = (s \o t) \o <<x>>
  BY <1>1, AppendIsConcat
<1>. QED
  BY <1>1, <1>2, <1>3, ConcatAssociative

(***************************************************************************)
(* A text without the separator is one field.                              *)
(***************************************************************************)
LEMMA FieldsOfWhole ==
  ASSUME NEW T, NEW sep, NEW p \in Seq(T), sep \notin ToSet(p)
  PROVE  Fields(p, sep) = <<p>>
<1>. DEFINE D == {t \in Seq(T) : sep \notin ToSet(t) => Fields(t, sep) = <<t>>}
<1>1. << >> \in D
  BY FieldsOfNone, EmptySeq
<1>2. ASSUME NEW t \in Seq(T), NEW x \in T, t \in D PROVE Append(t, x) \in D
  <2>. SUFFICES ASSUME sep \notin ToSet(Append(t, x))
                PROVE  Fields(Append(t, x), sep) = <<Append(t, x)>>
    BY AppendProperties
  <2>1. sep \notin ToSet(t) /\ sep # x
    BY ToSetOfAppend
  <2>2. Fields(t, sep) = <<t>>
    BY <1>2, <2>1
  <2>3. Fields(Append(t, x), sep) = Cut(<<t>>, x, sep)
    BY <2>2, FieldsOfAppend
  <2>4. Cut(<<t>>, x, sep) = [<<t>> EXCEPT ![1] = Append(t, x)]
    BY <2>1 DEF Cut
  <2>5. [<<t>> EXCEPT ![1] = Append(t, x)] = <<Append(t, x)>>
    OBVIOUS
  <2>. QED
    BY <2>3, <2>4, <2>5
<1>. HIDE DEF D
<1>3. p \in D
  BY <1>1, <1>2, InductionOnAppend
<1>. QED
  BY <1>3 DEF D

CutsBehind(p, fs, x, sep) == Cut(<<p>> \o fs, x, sep) = <<p>> \o Cut(fs, x, sep)
LEMMA CutBehind ==
  ASSUME NEW T, NEW p \in Seq(T), NEW fs \in Seq(Seq(T)) \ {<< >>},
         NEW x \in T, NEW sep
  PROVE  CutsBehind(p, fs, x, sep)
<1>. DEFINE S == Seq(T)
            n == Len(fs)
            hs == <<p>> \o fs
<1>1. /\ n \in Nat \ {0} /\ fs[n] \in S /\ Append(fs[n], x) \in S
      /\ fs \in Seq(S) /\ p \in S /\ << >> \in S /\ <<p>> \in Seq(S)
  BY EmptySeq, ElementOfSeq, AppendProperties
<1>. HIDE DEF S
<1>2. /\ hs \in Seq(S) /\ Len(hs) = n + 1 /\ hs[1] = p
      /\ \A i \in 1..n : hs[i + 1] = fs[i]
  BY <1>1, Prepended
<1>3. CASE x = sep
  <2>1. <<p>> \o Append(fs, << >>) = Append(hs, << >>)
    BY <1>1, AppendBehind
  <2>. QED
    BY <1>3, <2>1 DEF Cut, CutsBehind
<1>4. CASE x # sep
  <2>. DEFINE y == Append(fs[n], x)
              left == [hs EXCEPT ![n + 1] = y]
              grown == [fs EXCEPT ![n] = y]
              right == <<p>> \o grown
  <2>. HIDE DEF hs
  <2>1. hs[n + 1] = fs[n]
    <3>1. n \in 1..n
      BY <1>1
    <3>. QED
      BY <1>2, <3>1
  <2>2. Cut(hs, x, sep) = left /\ Cut(fs, x, sep) = grown
    BY <1>2, <1>4, <2>1 DEF Cut
  <2>3. y \in S
    BY <1>1
  <2>. HIDE DEF y, n
  <2>4. /\ left \in Seq(S) /\ Len(left) = Len(hs)
        /\ \A i \in 1..Len(hs) : left[i] = IF i = n + 1 THEN y ELSE hs[i]
    <3>1. n + 1 \in 1..Len(hs)
      BY <1>1, <1>2
    <3>. QED
      BY <1>2, <2>3, <3>1, ExceptSeq
  <2>5. /\ grown \in Seq(S) /\ Len(grown) = Len(fs)
        /\ \A i \in 1..Len(fs) : grown[i] = IF i = n THEN y ELSE fs[i]
    <3>1. n \in 1..Len(fs)
      BY <1>1 DEF n
    <3>. QED
      BY <1>1, <2>3, <3>1, ExceptSeq
  <2>. HIDE DEF left, grown
  <2>6. /\ right \in Seq(S) /\ Len(right) = n + 1 /\ right[1] = p
        /\ \A i \in 1..n : right[i + 1] = grown[i]
    BY <1>1, <2>5, Prepended DEF n
  <2>. HIDE DEF right
  <2>7. ASSUME NEW i \in 1..(n + 1) PROVE left[i] = right[i]
    <3>1. CASE i = 1
      BY <1>1, <1>2, <2>4, <2>6, <3>1
    <3>2. CASE i # 1
      <4>1. i - 1 \in 1..n /\ (i - 1) + 1 = i /\ (i = n + 1 <=> i - 1 = n)
        BY <1>1, <3>2
      <4>2. right[i] = IF i - 1 = n THEN y ELSE fs[i - 1]
        BY <2>5, <2>6, <4>1 DEF n
      <4>3. left[i] = IF i = n + 1 THEN y ELSE fs[i - 1]
        BY <1>2, <2>4, <4>1
      <4>. QED
        BY <4>1, <4>2, <4>3
    <3>. QED
      BY <3>1, <3>2
  <2>8. left = right
    BY <1>2, <2>4, <2>6, <2>7, SeqEqual
  <2>. QED
    BY <2>2, <2>8 DEF CutsBehind, hs, right
<1>. QED
  BY <1>3, <1>4

(***************************************************************************)
(* A separator ends the field before it.                                   *)
(***************************************************************************)
LEMMA FieldsOfSplit ==
  ASSUME NEW T, NEW sep \in T, NEW p \in Seq(T), sep \notin ToSet(p), NEW r \in Seq(T)
  PROVE  Fields((p \o <<sep>>) \o r, sep) = <<p>> \o Fields(r, sep)
<1>. DEFINE q == p \o <<sep>>
            D == {t \in Seq(T) : Fields(q \o t, sep) = <<p>> \o Fields(t, sep)}
<1>1. q \in Seq(T) /\ q = Append(p, sep)
  BY AppendIsConcat, AppendProperties
<1>2. << >> \in D
  <2>1. q \o << >> = q
    BY <1>1, ConcatEmptySeq
  <2>2. Fields(q, sep) = Cut(<<p>>, sep, sep)
    <3>1. Fields(p, sep) = <<p>>
      BY FieldsOfWhole
    <3>. QED
      BY <1>1, <3>1, FieldsOfAppend
  <2>3. Cut(<<p>>, sep, sep) = Append(<<p>>, << >>)
    BY DEF Cut
  <2>4. Append(<<p>>, << >>) = <<p>> \o << << >> >>
    OBVIOUS
  <2>. QED
    BY <2>1, <2>2, <2>3, <2>4, FieldsOfNone, EmptySeq
<1>3. ASSUME NEW t \in Seq(T), NEW x \in T, t \in D PROVE Append(t, x) \in D
  <2>. HIDE DEF q
  <2>1. q \o Append(t, x) = Append(q \o t, x) /\ q \o t \in Seq(T)
    BY <1>1, AppendBehind, ConcatProperties
  <2>2. Fields(q \o Append(t, x), sep) = Cut(<<p>> \o Fields(t, sep), x, sep)
    BY <1>3, <2>1, FieldsOfAppend
  <2>3. Cut(<<p>> \o Fields(t, sep), x, sep) = <<p>> \o Cut(Fields(t, sep), x, sep)
    <3>. DEFINE fs == Fields(t, sep)
    <3>1. fs \in Seq(Seq(T)) \ {<< >>}
      BY FieldsType
    <3>. HIDE DEF fs, D
    <3>2. CutsBehind(p, fs, x, sep)
      BY <3>1, CutBehind
    <3>. QED
      BY <3>2 DEF CutsBehind, fs
  <2>. QED
    BY <2>2, <2>3, FieldsOfAppend, AppendProperties
<1>. HIDE DEF D
<1>4. r \in D
  BY <1>2, <1>3, InductionOnAppend
<1>. QED
  BY <1>4 DEF D

-----------------------------------------------------------------------------
(* What the server writes of its players.                                  *)

Token == Int \cup Letter \cup {Colon, Plus}
Player == [pseudo : Pseudo, place : Place]

LEMMA PlayerTextType ==
  ASSUME NEW e \in Player
  PROVE  /\ PlayerText(e) \in Text /\ e.pseudo \in Text /\ Colon \notin ToSet(e.pseudo)
         /\ e.place[1] \in Int /\ e.place[2] \in Int /\ e.place = <<e.place[1], e.place[2]>>
<1>1. e.pseudo \in Seq(Token) /\ e.place \in Int \X Int /\ Colon \notin ToSet(e.pseudo)
  BY WireAssumption DEF Player, Text, Token
<1>2. <<Colon>> \in Seq(Token) /\ <<e.place[1], Colon, e.place[2], Plus>> \in Seq(Token)
  BY <1>1 DEF Token
<1>3. e.pseudo \o <<Colon>> \in Seq(Token)
  BY <1>1, <1>2, ConcatProperties
<1>4. PlayerText(e) \in Seq(Token)
  BY <1>2, <1>3, ConcatProperties DEF PlayerText, Triple
<1>. QED
  BY <1>1, <1>4 DEF Text, Token

LEMMA ListTextGrows ==
  /\ ListText(<< >>) = << >>
  /\ \A t \in Seq(Player) : ListText(t) \in Text
  /\ \A t \in Seq(Player), e \in Player :
       ListText(Append(t, e)) = ListText(t) \o PlayerText(e)
<1>. DEFINE S == Text
            T == Player
            s0 == << >>
            g == [p \in S \X T |-> p[1] \o PlayerText(p[2])]
            Steps(f, t) == f = [i \in 0..Len(t) |->
              IF i = 0 THEN << >> ELSE f[i - 1] \o PlayerText(t[i])]
            F(t) == CHOOSE f : Steps(f, t)
<1>1. s0 \in S
  BY EmptySeq DEF Text
<1>2. g \in [S \X T -> S] /\ \A u \in S, e \in T : g[<<u, e>>] = u \o PlayerText(e)
  <2>1. \A u \in S, e \in T : u \o PlayerText(e) \in S
    BY PlayerTextType, ConcatProperties DEF Text
  <2>. QED
    BY <2>1
<1>3. \A t : ListText(t) = F(t)[Len(t)]
  BY DEF ListText
<1>. HIDE DEF S, T, g
<1>4. ASSUME NEW t \in Seq(T)
      PROVE  Solves(F(t), s0, g, t) /\ Stays(S, F(t), t)
  <2>0. Len(t) \in Nat /\ \A i \in 1..Len(t) : t[i] \in T
    BY LenProperties, ElementOfSeq
  <2>1. PICK f \in [0..Len(t) -> S] : Solves(f, s0, g, t)
    BY <1>1, <1>2, FoldExists
  <2>2. ASSUME NEW i \in 1..Len(t) PROVE f[i] = f[i - 1] \o PlayerText(t[i])
    <3>1. i - 1 \in 0..Len(t) /\ t[i] \in T
      BY <2>0
    <3>2. f[i] = g[<<f[i - 1], t[i]>>] /\ f[i - 1] \in S
      BY <2>1, <3>1 DEF Solves
    <3>. QED
      BY <1>2, <3>1, <3>2
  <2>3. Steps(f, t)
    <3>1. f[0] = s0
      BY <2>1 DEF Solves
    <3>2. \A i \in 0..Len(t) : i = 0 \/ (i \in 1..Len(t) /\ i # 0)
      BY <2>0
    <3>3. \A i \in 0..Len(t) : f[i] = IF i = 0 THEN << >> ELSE f[i - 1] \o PlayerText(t[i])
      BY <2>2, <3>1, <3>2
    <3>4. f = [i \in 0..Len(t) |-> f[i]]
      BY <2>1
    <3>. QED
      BY <3>3, <3>4
  <2>4. Steps(F(t), t)
    BY <2>3
  <2>. HIDE DEF F
  <2>5. F(t)[0] = s0 /\ \A i \in 1..Len(t) : F(t)[i] = F(t)[i - 1] \o PlayerText(t[i])
    BY <2>0, <2>4
  <2>6. SolvesIn(S, F(t), s0, g, t)
    BY <1>2, <2>0, <2>5 DEF SolvesIn
  <2>. QED
    BY <1>1, <1>2, <2>6, FoldStays
<1>. HIDE DEF F
<1>5. Len(<< >>) = 0 /\ << >> \in Seq(T)
  BY EmptySeq
<1>6. ListText(<< >>) = << >>
  BY <1>3, <1>4, <1>5 DEF Solves
<1>7. \A t \in Seq(T) : ListText(t) \in S
  <2>1. \A t \in Seq(T) : Len(t) \in 0..Len(t)
    BY LenProperties
  <2>. QED
    BY <1>3, <1>4, <2>1 DEF Stays
<1>8. ASSUME NEW t \in Seq(T), NEW e \in T
      PROVE  ListText(Append(t, e)) = ListText(t) \o PlayerText(e)
  <2>1. Append(t, e) \in Seq(T) /\ Len(Append(t, e)) = Len(t) + 1
    BY AppendProperties
  <2>2. Solves(F(t), s0, g, t) /\ Solves(F(Append(t, e)), s0, g, Append(t, e))
    BY <1>4, <2>1
  <2>3. F(Append(t, e))[Len(t) + 1] = g[<<F(t)[Len(t)], e>>]
    BY <2>2, FoldAppend
  <2>4. ListText(Append(t, e)) = g[<<ListText(t), e>>]
    BY <1>3, <2>1, <2>3
  <2>. QED
    BY <1>2, <1>7, <2>4
<1>. QED
  BY <1>6, <1>7, <1>8 DEF S, T

\* The first player's text comes first.
LEMMA ListTextSplit ==
  ASSUME NEW e \in Player, NEW t \in Seq(Player)
  PROVE  ListText(<<e>> \o t) = PlayerText(e) \o ListText(t)
<1>. DEFINE D == {u \in Seq(Player) : ListText(<<e>> \o u) = PlayerText(e) \o ListText(u)}
<1>0. PlayerText(e) \in Seq(Token) /\ \A u \in Seq(Player) : ListText(u) \in Seq(Token)
  BY PlayerTextType, ListTextGrows DEF Text, Token
<1>1. << >> \in D
  <2>1. << >> \in Seq(Player) /\ <<e>> \o << >> = Append(<< >>, e)
    BY EmptySeq, ConcatEmptySeq
  <2>2. ListText(Append(<< >>, e)) = << >> \o PlayerText(e)
    BY <2>1, ListTextGrows
  <2>3. << >> \o PlayerText(e) = PlayerText(e) /\ PlayerText(e) \o << >> = PlayerText(e)
    BY <1>0, ConcatEmptySeq
  <2>. QED
    BY <2>1, <2>2, <2>3, ListTextGrows
<1>2. ASSUME NEW u \in Seq(Player), NEW x \in Player, u \in D PROVE Append(u, x) \in D
  <2>0. <<e>> \o u \in Seq(Player) /\ Append(u, x) \in Seq(Player)
    BY Prepended, AppendProperties
  <2>1. <<e>> \o Append(u, x) = Append(<<e>> \o u, x)
    <3>1. <<e>> \in Seq(Player)
      OBVIOUS
    <3>. QED
      BY <3>1, AppendBehind
  <2>2. ListText(<<e>> \o Append(u, x)) = (PlayerText(e) \o ListText(u)) \o PlayerText(x)
    BY <1>2, <2>0, <2>1, ListTextGrows
  <2>3. PlayerText(x) \in Seq(Token)
    BY PlayerTextType DEF Text, Token
  <2>4. (PlayerText(e) \o ListText(u)) \o PlayerText(x)
          = PlayerText(e) \o (ListText(u) \o PlayerText(x))
    <3>1. Regroups(PlayerText(e), ListText(u), PlayerText(x))
      BY <1>0, <2>3, Regrouped
    <3>. QED
      BY <3>1 DEF Regroups
  <2>. QED
    BY <2>0, <2>2, <2>4, ListTextGrows
<1>. HIDE DEF D
<1>3. t \in D
  BY <1>1, <1>2, InductionOnAppend
<1>. QED
  BY <1>3 DEF D

TellOf(e) == [pseudo |-> e.pseudo, place |-> e.place]
Tells(e, a, map) == e.map = map /\ e.addr # a

LEMMA ToldGrows ==
  ASSUME NEW a, NEW map
  PROVE  /\ Told(<< >>, a, map) = << >>
         /\ \A t \in Seq(Entry) : Told(t, a, map) \in Seq(Player)
         /\ \A t \in Seq(Entry), e \in Entry :
              Told(Append(t, e), a, map) =
                IF Tells(e, a, map) THEN Append(Told(t, a, map), TellOf(e))
                                    ELSE Told(t, a, map)
<1>. DEFINE S == Seq(Player)
            T == Entry
            s0 == << >>
            Step(u, e) == IF e.map = map /\ e.addr # a
                            THEN Append(u, [pseudo |-> e.pseudo, place |-> e.place])
                            ELSE u
            g == [p \in S \X T |-> Step(p[1], p[2])]
            Steps(f, t) == f = [i \in 0..Len(t) |->
              IF i = 0 THEN << >> ELSE Step(f[i - 1], t[i])]
            F(t) == CHOOSE f : Steps(f, t)
<1>1. s0 \in S
  BY EmptySeq
<1>2. g \in [S \X T -> S] /\ \A u \in S, e \in T : g[<<u, e>>] = Step(u, e)
  <2>1. ASSUME NEW u \in S, NEW e \in T PROVE Step(u, e) \in S
    <3>1. [pseudo |-> e.pseudo, place |-> e.place] \in Player
      BY DEF Entry, Player
    <3>. QED
      BY <3>1, AppendProperties
  <2>. HIDE DEF Step
  <2>. QED
    BY <2>1
<1>3. \A t : Told(t, a, map) = F(t)[Len(t)]
  BY DEF Told
<1>. HIDE DEF S, T, g, Step
<1>4. ASSUME NEW t \in Seq(T)
      PROVE  Solves(F(t), s0, g, t) /\ Stays(S, F(t), t)
  <2>0. Len(t) \in Nat /\ \A i \in 1..Len(t) : t[i] \in T
    BY LenProperties, ElementOfSeq
  <2>1. PICK f \in [0..Len(t) -> S] : Solves(f, s0, g, t)
    BY <1>1, <1>2, FoldExists
  <2>2. \A i \in 1..Len(t) : f[i] = Step(f[i - 1], t[i])
    <3>1. \A i \in 1..Len(t) : i - 1 \in 0..Len(t)
      BY <2>0
    <3>. QED
      BY <1>2, <2>0, <2>1, <3>1 DEF Solves
  <2>3. Steps(f, t)
    <3>1. f[0] = s0
      BY <2>1 DEF Solves
    <3>2. \A i \in 0..Len(t) : i = 0 \/ i \in 1..Len(t)
      BY <2>0
    <3>. QED
      BY <2>2, <3>1, <3>2
  <2>4. Steps(F(t), t)
    BY <2>3
  <2>. HIDE DEF F
  <2>5. F(t)[0] = s0 /\ \A i \in 1..Len(t) : F(t)[i] = Step(F(t)[i - 1], t[i])
    BY <2>0, <2>4
  <2>6. SolvesIn(S, F(t), s0, g, t)
    BY <1>2, <2>0, <2>5 DEF SolvesIn
  <2>. QED
    BY <1>1, <1>2, <2>6, FoldStays
<1>. HIDE DEF F
<1>5. Len(<< >>) = 0 /\ << >> \in Seq(T)
  BY EmptySeq
<1>6. Told(<< >>, a, map) = << >>
  BY <1>3, <1>4, <1>5 DEF Solves
<1>7. \A t \in Seq(T) : Told(t, a, map) \in S
  <2>1. \A t \in Seq(T) : Len(t) \in 0..Len(t)
    BY LenProperties
  <2>. QED
    BY <1>3, <1>4, <2>1 DEF Stays
<1>8. ASSUME NEW t \in Seq(T), NEW e \in T
      PROVE  Told(Append(t, e), a, map) = Step(Told(t, a, map), e)
  <2>1. Append(t, e) \in Seq(T) /\ Len(Append(t, e)) = Len(t) + 1
    BY AppendProperties
  <2>2. Solves(F(t), s0, g, t) /\ Solves(F(Append(t, e)), s0, g, Append(t, e))
    BY <1>4, <2>1
  <2>3. F(Append(t, e))[Len(t) + 1] = g[<<F(t)[Len(t)], e>>]
    BY <2>2, FoldAppend
  <2>4. Told(Append(t, e), a, map) = g[<<Told(t, a, map), e>>]
    BY <1>3, <2>1, <2>3
  <2>. QED
    BY <1>2, <1>7, <2>4
<1>. QED
  BY <1>6, <1>7, <1>8 DEF S, T, Step, Tells, TellOf

(***************************************************************************)
(* The list that is written tells of the players of the map with another   *)
(* address.                                                                *)
(***************************************************************************)
LEMMA ToldIsPlayersFor ==
  ASSUME NEW a, NEW map, NEW list \in Seq(Entry)
  PROVE  ToSet(Told(list, a, map)) = PlayersFor(list, a, map)
<1>. DEFINE D == {t \in Seq(Entry) : ToSet(Told(t, a, map)) = PlayersFor(t, a, map)}
<1>0. \A t : PlayersFor(t, a, map) =
               {TellOf(t[i]) : i \in {j \in DOMAIN t : Tells(t[j], a, map)}}
  BY DEF PlayersFor, TellOf, Tells
<1>1. << >> \in D
  <2>1. DOMAIN << >> = {}
    OBVIOUS
  <2>. QED
    BY <1>0, <2>1, ToldGrows, EmptySeq DEF ToSet
<1>2. ASSUME NEW t \in Seq(Entry), NEW e \in Entry, t \in D
      PROVE  Append(t, e) \in D
  <2>. DEFINE u == Append(t, e)
              more == IF Tells(e, a, map) THEN {TellOf(e)} ELSE {}
  <2>1. /\ u \in Seq(Entry) /\ Len(t) \in Nat /\ DOMAIN t = 1..Len(t)
        /\ DOMAIN u = 1..(Len(t) + 1)
        /\ \A i \in 1..Len(t) : u[i] = t[i]
        /\ u[Len(t) + 1] = e
    BY LenProperties, AppendProperties
  <2>2. PlayersFor(u, a, map) = PlayersFor(t, a, map) \cup more
    <3>. DEFINE I(v) == {j \in DOMAIN v : Tells(v[j], a, map)}
                n == Len(t) + 1
    <3>. HIDE DEF u
    <3>1. I(u) = I(t) \cup IF Tells(e, a, map) THEN {n} ELSE {}
      BY <2>1
    <3>2. \A i \in I(t) : u[i] = t[i]
      BY <2>1
    <3>3. u[n] = e
      BY <2>1
    <3>. HIDE DEF I, n
    <3>4. {TellOf(u[i]) : i \in I(u)} = {TellOf(t[i]) : i \in I(t)} \cup more
      BY <3>1, <3>2, <3>3
    <3>. QED
      BY <1>0, <3>4 DEF I
  <2>3. ToSet(Told(u, a, map)) = ToSet(Told(t, a, map)) \cup more
    <3>1. TellOf(e) \in Player
      BY DEF Entry, Player, TellOf
    <3>2. Told(t, a, map) \in Seq(Player)
      BY ToldGrows
    <3>3. ToSet(Append(Told(t, a, map), TellOf(e))) = ToSet(Told(t, a, map)) \cup {TellOf(e)}
      BY <3>1, <3>2, ToSetOfAppend
    <3>4. Told(u, a, map) = IF Tells(e, a, map) THEN Append(Told(t, a, map), TellOf(e))
                                                ELSE Told(t, a, map)
      BY ToldGrows
    <3>5. CASE Tells(e, a, map)
      BY <3>3, <3>4, <3>5
    <3>6. CASE ~Tells(e, a, map)
      BY <3>4, <3>6
    <3>. QED
      BY <3>5, <3>6
  <2>. QED
    BY <1>2, <2>1, <2>2, <2>3
<1>. HIDE DEF D
<1>3. list \in D
  BY <1>1, <1>2, InductionOnAppend
<1>. QED
  BY <1>3 DEF D

-----------------------------------------------------------------------------
(* What a reader makes of a text.                                          *)

LEMMA ToSetOfConcat ==
  ASSUME NEW T, NEW s \in Seq(T), NEW t \in Seq(T)
  PROVE  ToSet(s \o t) = ToSet(s) \cup ToSet(t)
<1>. DEFINE m == Len(s)
            n == Len(t)
            u == s \o t
<1>1. m \in Nat /\ n \in Nat /\ DOMAIN s = 1..m /\ DOMAIN t = 1..n
  BY LenProperties
<1>2. /\ DOMAIN u = 1..(m + n)
      /\ \A i \in 1..(m + n) : u[i] = IF i <= m THEN s[i] ELSE t[i - m]
  BY ConcatProperties, LenProperties
<1>. HIDE DEF m, n, u
<1>3. ASSUME NEW x \in ToSet(u) PROVE x \in ToSet(s) \cup ToSet(t)
  <2>1. PICK i \in 1..(m + n) : x = u[i]
    BY <1>2 DEF ToSet
  <2>2. i <= m => i \in 1..m
    BY <1>1
  <2>3. ~(i <= m) => i - m \in 1..n
    BY <1>1
  <2>. QED
    BY <1>1, <1>2, <2>1, <2>2, <2>3 DEF ToSet
<1>4. ASSUME NEW x \in ToSet(s) PROVE x \in ToSet(u)
  <2>1. PICK i \in 1..m : x = s[i]
    BY <1>1 DEF ToSet
  <2>2. i \in 1..(m + n) /\ i <= m
    BY <1>1
  <2>. QED
    BY <1>2, <2>1, <2>2 DEF ToSet
<1>5. ASSUME NEW x \in ToSet(t) PROVE x \in ToSet(u)
  <2>1. PICK i \in 1..n : x = t[i]
    BY <1>1 DEF ToSet
  <2>2. m + i \in 1..(m + n) /\ ~(m + i <= m) /\ (m + i) - m = i
    BY <1>1
  <2>. QED
    BY <1>2, <2>1, <2>2 DEF ToSet
<1>. QED
  BY <1>3, <1>4, <1>5 DEF u

LEMMA ToSetOfPrepend ==
  ASSUME NEW T, NEW x \in T, NEW t \in Seq(T)
  PROVE  ToSet(<<x>> \o t) = {x} \cup ToSet(t)
<1>. DEFINE h == <<x>>
<1>1. h \in Seq(T) /\ ToSet(h) = {x}
  BY DEF ToSet
<1>. HIDE DEF h
<1>2. ToSet(h \o t) = ToSet(h) \cup ToSet(t)
  BY <1>1, ToSetOfConcat
<1>. QED
  BY <1>1, <1>2 DEF h

(***************************************************************************)
(* A text has no separator, or a first one.                                *)
(***************************************************************************)
LEMMA FirstCut ==
  ASSUME NEW T, NEW sep, NEW t \in Seq(T), sep \in ToSet(t)
  PROVE  \E p \in Seq(T), r \in Seq(T) :
           /\ t = (p \o <<sep>>) \o r /\ sep \notin ToSet(p)
           /\ ToSet(p) \subseteq ToSet(t) /\ ToSet(r) \subseteq ToSet(t)
<1>. DEFINE IsCut(u, p, r) ==
              /\ u = (p \o <<sep>>) \o r /\ sep \notin ToSet(p)
              /\ ToSet(p) \subseteq ToSet(u) /\ ToSet(r) \subseteq ToSet(u)
            D == {u \in Seq(T) : sep \in ToSet(u) =>
                    \E p \in Seq(T), r \in Seq(T) : IsCut(u, p, r)}
<1>1. << >> \in D
  BY EmptySeq DEF ToSet
<1>2. ASSUME NEW u \in Seq(T), NEW x \in T, u \in D PROVE Append(u, x) \in D
  <2>1. ToSet(Append(u, x)) = ToSet(u) \cup {x} /\ Append(u, x) \in Seq(T)
    BY ToSetOfAppend, AppendProperties
  <2>2. CASE sep \in ToSet(u)
    <3>1. PICK p \in Seq(T), r \in Seq(T) : IsCut(u, p, r)
      BY <1>2, <2>2
    <3>2. sep \in T
      <4>1. \A i \in DOMAIN u : u[i] \in T
        BY LenProperties, ElementOfSeq
      <4>. QED
        BY <2>2, <4>1 DEF ToSet
    <3>3. p \o <<sep>> \in Seq(T)
      BY <3>2, ConcatProperties
    <3>4. Append(u, x) = (p \o <<sep>>) \o Append(r, x)
      <4>1. u = (p \o <<sep>>) \o r
        BY <3>1
      <4>. DEFINE h == p \o <<sep>>
      <4>2. h \in Seq(T)
        BY <3>3
      <4>. HIDE DEF h
      <4>3. h \o Append(r, x) = Append(h \o r, x)
        BY <4>2, AppendBehind
      <4>. QED
        BY <4>1, <4>3 DEF h
    <3>5. ToSet(Append(r, x)) = ToSet(r) \cup {x} /\ Append(r, x) \in Seq(T)
      BY ToSetOfAppend, AppendProperties
    <3>6. IsCut(Append(u, x), p, Append(r, x))
      BY <2>1, <3>1, <3>4, <3>5
    <3>. QED
      BY <2>1, <3>5, <3>6
  <2>3. CASE sep \notin ToSet(u) /\ x = sep
    <3>1. << >> \in Seq(T) /\ ToSet(<< >>) = {}
      BY EmptySeq DEF ToSet
    <3>2. Append(u, x) = u \o <<sep>> /\ u \o <<sep>> \in Seq(T)
      BY <2>3, <2>1, AppendIsConcat
    <3>3. (u \o <<sep>>) \o << >> = u \o <<sep>>
      BY <3>2, ConcatEmptySeq
    <3>4. IsCut(Append(u, x), u, << >>)
      BY <2>1, <2>3, <3>1, <3>2, <3>3
    <3>. QED
      BY <2>1, <3>1, <3>4
  <2>4. CASE sep \notin ToSet(u) /\ x # sep
    BY <2>1, <2>4
  <2>. QED
    BY <2>2, <2>3, <2>4
<1>. HIDE DEF D
<1>3. t \in D
  BY <1>1, <1>2, InductionOnAppend
<1>. QED
  BY <1>3 DEF D

\* The field before the first separator begins as the text does.
LEMMA FieldBegins ==
  ASSUME NEW T, NEW sep \in T, NEW y \in T, y # sep, NEW s \in Seq(T)
  PROVE  LET f == Fields(<<y>> \o s, sep)
         IN f[1] # << >> /\ f[1][1] = y
<1>1. ToSet(<<y>>) = {y} /\ <<y>> \in Seq(T) /\ <<sep>> \in Seq(T)
  BY DEF ToSet
<1>2. CASE sep \notin ToSet(s)
  <2>1. sep \notin ToSet(<<y>> \o s) /\ <<y>> \o s \in Seq(T)
    <3>1. ToSet(<<y>> \o s) = {y} \cup ToSet(s) /\ <<y>> \o s \in Seq(T)
      BY ToSetOfPrepend, Prepended
    <3>. QED
      BY <1>1, <1>2, <3>1
  <2>2. Fields(<<y>> \o s, sep) = <<(<<y>> \o s)>>
    BY <2>1, FieldsOfWhole
  <2>3. (<<y>> \o s)[1] = y /\ <<y>> \o s # << >>
    <3>1. Len(<<y>> \o s) = Len(s) + 1 /\ (<<y>> \o s)[1] = y /\ Len(s) \in Nat
      BY Prepended, LenProperties
    <3>. QED
      BY <3>1, EmptySeq
  <2>. QED
    BY <2>2, <2>3
<1>3. CASE sep \in ToSet(s)
  <2>1. PICK p \in Seq(T), r \in Seq(T) : s = (p \o <<sep>>) \o r /\ sep \notin ToSet(p)
    BY <1>3, FirstCut
  <2>. DEFINE q == <<y>> \o p
  <2>2. q \in Seq(T) /\ sep \notin ToSet(q)
    <3>1. ToSet(q) = {y} \cup ToSet(p) /\ q \in Seq(T)
      BY ToSetOfPrepend, Prepended
    <3>. QED
      BY <1>1, <2>1, <3>1
  <2>3. <<y>> \o s = (q \o <<sep>>) \o r
    <3>1. p \o <<sep>> \in Seq(T)
      BY <1>1, ConcatProperties
    <3>2. <<y>> \in Seq(T) /\ <<sep>> \in Seq(T)
      BY <1>1
    <3>3. Regroups(<<y>>, p \o <<sep>>, r) /\ Regroups(<<y>>, p, <<sep>>)
      BY <3>1, <3>2, Regrouped
    <3>. QED
      BY <2>1, <3>3 DEF Regroups
  <2>4. q # << >> /\ q[1] = y
    <3>1. Len(q) = Len(p) + 1 /\ q[1] = y /\ Len(p) \in Nat
      BY Prepended, LenProperties
    <3>. QED
      BY <3>1, EmptySeq
  <2>. HIDE DEF q
  <2>5. Fields(<<y>> \o s, sep) = <<q>> \o Fields(r, sep)
    BY <2>2, <2>3, FieldsOfSplit
  <2>6. (<<q>> \o Fields(r, sep))[1] = q
    <3>. DEFINE fs == Fields(r, sep)
    <3>1. fs \in Seq(Seq(T)) /\ q \in Seq(T)
      BY <2>2, FieldsType
    <3>. HIDE DEF fs
    <3>2. (<<q>> \o fs)[1] = q
      BY <3>1, Prepended
    <3>. QED
      BY <3>2 DEF fs
  <2>. QED
    BY <2>4, <2>5, <2>6
<1>. QED
  BY <1>2, <1>3

\* FieldsOfSplit, field by field: f is the fields g after p.
Leads(p, g, f) ==
  /\ Len(g) \in Nat \ {0} /\ DOMAIN g = 1..Len(g)
  /\ DOMAIN f = 1..(Len(g) + 1)
  /\ f[1] = p /\ \A i \in 1..Len(g) : f[i + 1] = g[i]
LEMMA FieldByField ==
  ASSUME NEW T, NEW sep \in T, NEW p \in Seq(T), sep \notin ToSet(p), NEW r \in Seq(T)
  PROVE  Leads(p, Fields(r, sep), Fields((p \o <<sep>>) \o r, sep))
<1>. DEFINE f == Fields((p \o <<sep>>) \o r, sep)
            g == Fields(r, sep)
            S == Seq(T)
<1>1. g \in Seq(S) /\ g # << >>
  BY FieldsType
<1>2. f = <<p>> \o g /\ p \in S
  BY FieldsOfSplit
<1>. HIDE DEF f, g, S
<1>3. /\ f \in Seq(S) /\ Len(f) = Len(g) + 1
      /\ f[1] = p /\ \A i \in 1..Len(g) : f[i + 1] = g[i]
  BY <1>1, <1>2, Prepended
<1>4. Len(g) \in Nat \ {0} /\ DOMAIN g = 1..Len(g) /\ DOMAIN f = 1..Len(f)
  BY <1>1, <1>3, EmptySeq, LenProperties
<1>5. Leads(p, g, f)
  BY <1>3, <1>4 DEF Leads
<1>. QED
  BY <1>5 DEF f, g

\* A text that begins with a number is read as that number.
LEMMA NumberInFront ==
  ASSUME NEW text \in Seq(Token), text # << >>, text[1] \in Int
  PROVE  strtol(text) = text[1]
<1>1. Len(text) \in Nat \ {0} /\ DOMAIN text = 1..Len(text)
  BY EmptySeq, LenProperties
<1>2. 1 \in DOMAIN text
  BY <1>1
<1>3. text[1] \notin {Colon, Plus} \cup Letter /\ text[1] \notin Blank /\ text[1] # Plus
  BY WireAssumption
<1>4. ReadsAt(text, 1)
  BY <1>3 DEF ReadsAt, IsNumber, NoDigit
<1>5. ASSUME NEW i \in DOMAIN text, ReadsAt(text, i) PROVE i = 1
  <2>. SUFFICES ASSUME i # 1 PROVE FALSE
    OBVIOUS
  <2>1. i \in Nat /\ i > 1
    BY <1>1
  <2>2. 1 \in 1..(i - 1)
    BY <2>1
  <2>3. i - 1 # 1 => 1 \in 1..(i - 2)
    BY <2>1
  <2>. QED
    BY <1>3, <1>5, <2>2, <2>3 DEF ReadsAt
<1>6. (CHOOSE i \in DOMAIN text : ReadsAt(text, i)) = 1
  BY <1>2, <1>4, <1>5
<1>. QED
  BY <1>2, <1>4, <1>6 DEF strtol

LEMMA Numbers ==
  /\ Colon \in Token /\ Plus \in Token /\ Colon # Plus
  /\ \A n \in Int : /\ n \in Token /\ n # Colon /\ n # Plus
                    /\ <<n>> \in Seq(Token) /\ ToSet(<<n>>) = {n}
                    /\ strtol(<<n>>) = n
  /\ <<Colon>> \in Seq(Token)
  /\ \A n \in Int : <<n, Colon>> \in Seq(Token)
<1>1. Colon # Plus /\ Colon \notin Int /\ Plus \notin Int /\ Letter \cap Int = {}
  BY WireAssumption
<1>2. \A n \in Int : <<n>> # << >> /\ <<n>>[1] = n /\ n \notin {Colon, Plus} \cup Letter
  BY <1>1
<1>3. \A n \in Int : strtol(<<n>>) = n
  <2>1. \A n \in Int : <<n>> \in Seq(Token)
    BY DEF Token
  <2>. QED
    BY <1>2, <2>1, NumberInFront
<1>4. \A n \in Int : n \in Token /\ <<n>> \in Seq(Token) /\ ToSet(<<n>>) = {n}
  BY DEF Token, ToSet
<1>5. Colon \in Token /\ Plus \in Token
  BY DEF Token
<1>6. \A x \in Token : <<x>> \in Seq(Token) /\ \A y \in Token : <<x, y>> \in Seq(Token)
  OBVIOUS
<1>7. <<Colon>> \in Seq(Token) /\ \A n \in Int : <<n, Colon>> \in Seq(Token)
  BY <1>4, <1>5, <1>6
<1>. QED
  BY <1>1, <1>3, <1>4, <1>5, <1>7

\* A number and a colon in front.
LEMMA NumberField ==
  ASSUME NEW n \in Int, NEW r \in Seq(Token)
  PROVE  Leads(<<n>>, Fields(r, Colon), Fields(<<n, Colon>> \o r, Colon))
<1>. DEFINE p == <<n>>
<1>1. <<n, Colon>> = p \o <<Colon>>
  OBVIOUS
<1>2. p \in Seq(Token) /\ Colon \notin ToSet(p) /\ Colon \in Token
  BY Numbers
<1>. HIDE DEF p
<1>3. Leads(p, Fields(r, Colon), Fields((p \o <<Colon>>) \o r, Colon))
  BY <1>2, FieldByField
<1>. QED
  BY <1>1, <1>3 DEF p

\* ACCEPT and positions.
Coded(c, x, y, m) == <<c, Colon>> \o <<x, Colon, y, Colon>> \o m
LEMMA FieldsOfCoded ==
  ASSUME NEW c \in Int, NEW x \in Int, NEW y \in Int, NEW m \in Seq(Token)
  PROVE  LET f == Fields(Coded(c, x, y, m), Colon)
         IN /\ Has(f, 2) /\ Has(f, 3) /\ Has(f, 4)
            /\ f[1] = <<c>> /\ f[2] = <<x>> /\ f[3] = <<y>>
            /\ f[4] = Fields(m, Colon)[1]
<1>. DEFINE r3 == <<y, Colon>> \o m
            r2 == <<x, Colon>> \o r3
            r1 == <<c, Colon>> \o r2
            g(t) == Fields(t, Colon)
<1>0. \A n \in Int : <<n, Colon>> \in Seq(Token)
  BY Numbers
<1>1. r3 \in Seq(Token) /\ r2 \in Seq(Token)
  <2>1. r3 \in Seq(Token)
    BY <1>0, ConcatProperties
  <2>. HIDE DEF r3
  <2>. QED
    BY <1>0, <2>1, ConcatProperties
<1>2. Coded(c, x, y, m) = r1
  <2>. DEFINE a == <<c, Colon>>
              b == <<x, Colon>>
              d == <<y, Colon>>
  <2>1. a \in Seq(Token) /\ b \in Seq(Token) /\ d \in Seq(Token)
    BY <1>0
  <2>2. <<x, Colon, y, Colon>> = b \o d
    OBVIOUS
  <2>. HIDE DEF a, b, d
  <2>. DEFINE e == b \o d
  <2>3. e \in Seq(Token)
    BY <2>1, ConcatProperties
  <2>4. e \o m = b \o (d \o m)
    <3>1. Regroups(b, d, m)
      BY <2>1, Regrouped
    <3>. QED
      BY <3>1 DEF Regroups
  <2>. HIDE DEF e
  <2>5. (a \o e) \o m = a \o (e \o m)
    <3>1. Regroups(a, e, m)
      BY <2>1, <2>3, Regrouped
    <3>. QED
      BY <3>1 DEF Regroups
  <2>. QED
    BY <2>2, <2>4, <2>5 DEF Coded, a, b, d, e
<1>3. /\ Len(g(m)) \in Nat \ {0} /\ DOMAIN g(r3) = 1..(Len(g(m)) + 1)
      /\ g(r3)[1] = <<y>> /\ \A i \in 1..Len(g(m)) : g(r3)[i + 1] = g(m)[i]
  <2>1. Leads(<<y>>, g(m), g(r3))
    BY NumberField
  <2>. QED
    BY <2>1 DEF Leads
<1>. HIDE DEF r3
<1>4. /\ Len(g(r3)) \in Nat \ {0} /\ DOMAIN g(r3) = 1..Len(g(r3))
      /\ DOMAIN g(r2) = 1..(Len(g(r3)) + 1)
      /\ g(r2)[1] = <<x>> /\ \A i \in 1..Len(g(r3)) : g(r2)[i + 1] = g(r3)[i]
  <2>1. Leads(<<x>>, g(r3), g(r2))
    BY <1>1, NumberField
  <2>. QED
    BY <2>1 DEF Leads
<1>. HIDE DEF r2
<1>5. /\ Len(g(r2)) \in Nat \ {0} /\ DOMAIN g(r2) = 1..Len(g(r2))
      /\ DOMAIN g(r1) = 1..(Len(g(r2)) + 1)
      /\ g(r1)[1] = <<c>> /\ \A i \in 1..Len(g(r2)) : g(r1)[i + 1] = g(r2)[i]
  <2>1. Leads(<<c>>, g(r2), g(r1))
    BY <1>1, NumberField
  <2>. QED
    BY <2>1 DEF Leads
<1>. HIDE DEF r1, g
<1>6. Len(g(r3)) = Len(g(m)) + 1 /\ Len(g(r2)) = Len(g(m)) + 2
  <2>1. 1..Len(g(r3)) = 1..(Len(g(m)) + 1)
    BY <1>3, <1>4
  <2>2. Len(g(r3)) = Len(g(m)) + 1
    BY <1>3, <1>4, <2>1
  <2>3. 1..Len(g(r2)) = 1..(Len(g(r3)) + 1)
    BY <1>4, <1>5
  <2>4. Len(g(r2)) = Len(g(r3)) + 1
    BY <1>4, <1>5, <2>3
  <2>. QED
    BY <1>3, <2>2, <2>4
<1>7. DOMAIN g(r1) = 1..(Len(g(m)) + 3) /\ 1 \in 1..Len(g(m))
  BY <1>3, <1>5, <1>6
<1>8. g(r3)[2] = g(m)[1]
  BY <1>3, <1>7
<1>9. g(r2)[2] = <<y>> /\ g(r2)[3] = g(m)[1]
  <2>1. 1 \in 1..Len(g(r3)) /\ 2 \in 1..Len(g(r3))
    BY <1>3, <1>6
  <2>. QED
    BY <1>3, <1>4, <1>8, <2>1
<1>10. g(r1)[2] = <<x>> /\ g(r1)[3] = <<y>> /\ g(r1)[4] = g(m)[1]
  <2>1. 1 \in 1..Len(g(r2)) /\ 2 \in 1..Len(g(r2)) /\ 3 \in 1..Len(g(r2))
    BY <1>3, <1>6
  <2>. QED
    BY <1>4, <1>5, <1>9, <2>1
<1>11. Has(g(r1), 2) /\ Has(g(r1), 3) /\ Has(g(r1), 4)
  BY <1>3, <1>7 DEF Has
<1>. QED
  BY <1>2, <1>5, <1>10, <1>11 DEF g

\* c:p:r, as requests to connect and to register are written.
LEMMA FieldsOfPair ==
  ASSUME NEW c \in Int, NEW p \in Seq(Token), Colon \notin ToSet(p), NEW r \in Seq(Token)
  PROVE  LET f == Fields(<<c, Colon>> \o p \o <<Colon>> \o r, Colon)
         IN Has(f, 2) /\ f[1] = <<c>> /\ f[2] = p
<1>. DEFINE h == <<c, Colon>>
            d == <<Colon>>
            s == (p \o d) \o r
            g(t) == Fields(t, Colon)
<1>1. h \in Seq(Token) /\ d \in Seq(Token)
  BY Numbers
<1>2. p \o d \in Seq(Token) /\ s \in Seq(Token)
  <2>. HIDE DEF d
  <2>1. p \o d \in Seq(Token)
    BY <1>1, ConcatProperties
  <2>. QED
    BY <2>1, ConcatProperties
<1>3. ((h \o p) \o d) \o r = h \o s
  <2>. HIDE DEF h, d
  <2>. DEFINE e == p \o d
  <2>1. e \in Seq(Token) /\ Regroups(h, p, d)
    BY <1>1, <1>2, Regrouped
  <2>2. (h \o p) \o d = h \o e
    BY <2>1 DEF Regroups
  <2>. HIDE DEF e
  <2>3. Regroups(h, e, r)
    BY <1>1, <2>1, Regrouped
  <2>4. (h \o e) \o r = h \o (e \o r)
    BY <2>3 DEF Regroups
  <2>. QED
    BY <2>2, <2>4 DEF e
<1>4. /\ Len(g(s)) \in Nat \ {0} /\ DOMAIN g(h \o s) = 1..(Len(g(s)) + 1)
      /\ g(h \o s)[1] = <<c>> /\ \A i \in 1..Len(g(s)) : g(h \o s)[i + 1] = g(s)[i]
  <2>. HIDE DEF s
  <2>1. Leads(<<c>>, g(s), g(h \o s))
    BY <1>2, NumberField
  <2>. QED
    BY <2>1 DEF Leads
<1>5. g(s)[1] = p
  <2>1. Colon \in Token
    BY Numbers
  <2>2. Leads(p, g(r), g(s))
    BY <2>1, FieldByField
  <2>. QED
    BY <2>2 DEF Leads
<1>. HIDE DEF h, s, g
<1>6. 1 \in 1..Len(g(s)) /\ 2 \in DOMAIN g(h \o s)
  BY <1>4
<1>7. g(h \o s)[2] = p
  BY <1>4, <1>5, <1>6
<1>. QED
  BY <1>3, <1>4, <1>6, <1>7 DEF g, h, Has

LEMMA DatagramCases ==
  ASSUME NEW t, NEW f, f = Fields(t, Colon), Has(f, 2)
  PROVE  /\ strtol(f[1]) = 2 => DatagramOf(t) = [kind |-> "connect", pseudo |-> f[2]]
         /\ strtol(f[1]) = 4 => DatagramOf(t) = [kind |-> "register"]
         /\ (strtol(f[1]) = 6 /\ Has(f, 3) /\ Has(f, 4)) => DatagramOf(t) =
              [kind |-> "coordinates", place |-> <<strtol(f[2]), strtol(f[3])>>,
               map |-> f[4]]
<1>1. ASSUME strtol(f[1]) = 2
      PROVE  DatagramOf(t) = [kind |-> "connect", pseudo |-> f[2]]
  BY <1>1 DEF DatagramOf, CONNECT_TO_IPMON, REGISTER_TO_IPMON, NEW_COORDINATES
<1>2. ASSUME strtol(f[1]) = 4 PROVE DatagramOf(t) = [kind |-> "register"]
  BY <1>2 DEF DatagramOf, CONNECT_TO_IPMON, REGISTER_TO_IPMON, NEW_COORDINATES
<1>3. ASSUME strtol(f[1]) = 6, Has(f, 3), Has(f, 4)
      PROVE  DatagramOf(t) = [kind |-> "coordinates",
                              place |-> <<strtol(f[2]), strtol(f[3])>>, map |-> f[4]]
  BY <1>3 DEF DatagramOf, CONNECT_TO_IPMON, REGISTER_TO_IPMON, NEW_COORDINATES
<1>. QED
  BY <1>1, <1>2, <1>3

(***************************************************************************)
(* The requests are understood as they are meant; of the map of a position *)
(* what follows a colon in it is lost.                                     *)
(***************************************************************************)
LEMMA ConnectRead ==
  ASSUME NEW p \in Pseudo
  PROVE  DatagramOf(ConnectText(p)) = [kind |-> "connect", pseudo |-> p]
<1>. DEFINE f == Fields(ConnectText(p), Colon)
<1>1. p \in Seq(Token) /\ Colon \notin ToSet(p) /\ Pass \in Seq(Token)
  BY WireAssumption DEF Text, Token
<1>2. Has(f, 2) /\ f[1] = <<CONNECT_TO_IPMON>> /\ f[2] = p
  <2>1. CONNECT_TO_IPMON \in Int
    BY DEF CONNECT_TO_IPMON
  <2>. QED
    BY <1>1, <2>1, FieldsOfPair DEF ConnectText
<1>3. strtol(f[1]) = 2
  BY <1>2, Numbers DEF CONNECT_TO_IPMON
<1>. HIDE DEF f
<1>4. f = Fields(ConnectText(p), Colon)
  BY DEF f
<1>. QED
  BY <1>2, <1>3, <1>4, DatagramCases

LEMMA RegisterRead ==
  ASSUME NEW p \in Pseudo
  PROVE  DatagramOf(RegisterText(p)) = [kind |-> "register"]
<1>. DEFINE f == Fields(RegisterText(p), Colon)
<1>1. p \in Seq(Token) /\ Colon \notin ToSet(p) /\ Pass \in Seq(Token)
  BY WireAssumption DEF Text, Token
<1>2. Has(f, 2) /\ f[1] = <<REGISTER_TO_IPMON>>
  <2>1. REGISTER_TO_IPMON \in Int
    BY DEF REGISTER_TO_IPMON
  <2>. QED
    BY <1>1, <2>1, FieldsOfPair DEF RegisterText
<1>3. strtol(f[1]) = 4
  BY <1>2, Numbers DEF REGISTER_TO_IPMON
<1>. HIDE DEF f
<1>4. f = Fields(RegisterText(p), Colon)
  BY DEF f
<1>. QED
  BY <1>2, <1>3, <1>4, DatagramCases

LEMMA PositionRead ==
  ASSUME NEW place \in Place, NEW map \in Text
  PROVE  DatagramOf(PositionText(place, map)) =
           [kind |-> "coordinates", place |-> place, map |-> Fields(map, Colon)[1]]
<1>. DEFINE f == Fields(PositionText(place, map), Colon)
<1>1. place[1] \in Int /\ place[2] \in Int /\ place = <<place[1], place[2]>>
  BY WireAssumption
<1>2. /\ Has(f, 2) /\ Has(f, 3) /\ Has(f, 4)
      /\ f[1] = <<NEW_COORDINATES>> /\ f[2] = <<place[1]>> /\ f[3] = <<place[2]>>
      /\ f[4] = Fields(map, Colon)[1]
  <2>. DEFINE c == NEW_COORDINATES
              x == place[1]
              y == place[2]
  <2>1. c \in Int /\ x \in Int /\ y \in Int /\ map \in Seq(Token)
    BY <1>1 DEF NEW_COORDINATES, Text, Token
  <2>2. PositionText(place, map) = Coded(c, x, y, map)
    BY DEF PositionText, Triple, Coded
  <2>. HIDE DEF c, x, y
  <2>. QED
    BY <2>1, <2>2, FieldsOfCoded DEF c, x, y
<1>3. strtol(f[1]) = 6 /\ strtol(f[2]) = place[1] /\ strtol(f[3]) = place[2]
  BY <1>1, <1>2, Numbers DEF NEW_COORDINATES
<1>. HIDE DEF f
<1>4. DatagramOf(PositionText(place, map)) =
        [kind |-> "coordinates", place |-> <<strtol(f[2]), strtol(f[3])>>, map |-> f[4]]
  <2>1. f = Fields(PositionText(place, map), Colon)
    BY DEF f
  <2>. QED
    BY <1>2, <1>3, <2>1, DatagramCases
<1>. QED
  BY <1>1, <1>2, <1>3, <1>4

LEMMA AcceptRead ==
  LET f == Fields(AcceptText, Colon)
  IN /\ strtol(f[1]) = ACCEPT_CONNECTION /\ PlaceOfAnswer(f) = StartPlace
     /\ Has(f, 4) /\ f[4] = StartMap
<1>. DEFINE f == Fields(AcceptText, Colon)
            x == StartPlace[1]
            y == StartPlace[2]
<1>1. x \in Int /\ y \in Int /\ StartPlace = <<x, y>>
  BY WireAssumption, StartAssumption
<1>2. StartMap \in Seq(Token) /\ Colon \notin ToSet(StartMap)
  BY WireAssumption, StartAssumption DEF Text, Token
<1>3. /\ Has(f, 2) /\ Has(f, 3) /\ Has(f, 4)
      /\ f[1] = <<ACCEPT_CONNECTION>> /\ f[2] = <<x>> /\ f[3] = <<y>>
      /\ f[4] = Fields(StartMap, Colon)[1]
  <2>. DEFINE c == ACCEPT_CONNECTION
  <2>1. c \in Int /\ x \in Int /\ y \in Int
    BY <1>1 DEF ACCEPT_CONNECTION
  <2>2. AcceptText = Coded(c, x, y, StartMap)
    BY DEF AcceptText, Triple, Coded
  <2>. HIDE DEF c, x, y
  <2>3. /\ Has(f, 2) /\ Has(f, 3) /\ Has(f, 4)
        /\ f[1] = <<c>> /\ f[2] = <<x>> /\ f[3] = <<y>>
        /\ f[4] = Fields(StartMap, Colon)[1]
    BY <1>2, <2>1, <2>2, FieldsOfCoded
  <2>. QED
    BY <2>3 DEF c
<1>. HIDE DEF x, y
<1>4. Fields(StartMap, Colon) = <<StartMap>>
  BY <1>2, FieldsOfWhole
<1>5. strtol(f[1]) = ACCEPT_CONNECTION /\ strtol(f[2]) = x /\ strtol(f[3]) = y
  <2>1. ACCEPT_CONNECTION \in Int
    BY DEF ACCEPT_CONNECTION
  <2>. QED
    BY <1>1, <1>3, <2>1, Numbers
<1>. HIDE DEF f
<1>6. PlaceOfAnswer(f) = StartPlace
  BY <1>1, <1>3, <1>5 DEF PlaceOfAnswer
<1>. QED
  BY <1>3, <1>4, <1>5, <1>6 DEF f

-----------------------------------------------------------------------------
(* Lists of players.                                                       *)

\* A player without the plus behind it.
PlayerPart(e) ==
  e.pseudo \o <<Colon>> \o (<<e.place[1], Colon>> \o <<e.place[2]>>)

LEMMA PlayerPartType ==
  ASSUME NEW e \in Player
  PROVE  /\ PlayerPart(e) \in Seq(Token)
         /\ PlayerText(e) = PlayerPart(e) \o <<Plus>>
         /\ ~HoldsPlus(e.pseudo) => Plus \notin ToSet(PlayerPart(e))
<1>. DEFINE n == e.pseudo
            x == e.place[1]
            y == e.place[2]
            d == <<Colon>>
            xd == <<x, Colon>>
            ys == <<y>>
            b == xd \o ys
            z == <<Plus>>
            nd == n \o d
<1>1. n \in Seq(Token) /\ x \in Int /\ y \in Int
  BY PlayerTextType DEF Text, Token
<1>2. /\ d \in Seq(Token) /\ xd \in Seq(Token) /\ ys \in Seq(Token)
      /\ z \in Seq(Token)
  <2>1. Plus \in Token
    BY Numbers
  <2>. QED
    BY <1>1, <2>1, Numbers
<1>3. ToSet(d) = {Colon} /\ ToSet(xd) = {x, Colon} /\ ToSet(ys) = {y}
  BY DEF ToSet
<1>4. Triple(e.place, Plus) = xd \o (ys \o z)
  BY DEF Triple
<1>. HIDE DEF d, xd, ys, z, n
<1>5. b \in Seq(Token) /\ xd \o (ys \o z) = b \o z
  <2>1. Regroups(xd, ys, z)
    BY <1>2, Regrouped
  <2>. QED
    BY <1>2, <2>1, ConcatProperties DEF Regroups
<1>6. ToSet(b) = {x, Colon, y}
  <2>1. ToSet(b) = ToSet(xd) \cup ToSet(ys)
    BY <1>2, ToSetOfConcat
  <2>. QED
    BY <1>3, <2>1
<1>. HIDE DEF b
<1>7. nd \in Seq(Token)
  BY <1>1, <1>2, ConcatProperties
<1>8. ToSet(nd) = ToSet(n) \cup {Colon}
  BY <1>1, <1>2, <1>3, ToSetOfConcat
<1>. HIDE DEF nd
<1>9. nd \o b \in Seq(Token)
  BY <1>5, <1>7, ConcatProperties
<1>10. nd \o (b \o z) = (nd \o b) \o z
  <2>1. Regroups(nd, b, z)
    BY <1>2, <1>5, <1>7, Regrouped
  <2>. QED
    BY <2>1 DEF Regroups
<1>11. PlayerPart(e) = nd \o b /\ PlayerText(e) = nd \o (b \o z)
  BY <1>4, <1>5 DEF PlayerPart, PlayerText, nd, n, d, b, xd, ys
<1>12. ASSUME ~HoldsPlus(e.pseudo) PROVE Plus \notin ToSet(nd \o b)
  <2>1. ToSet(nd \o b) = ToSet(nd) \cup ToSet(b)
    BY <1>5, <1>7, ToSetOfConcat
  <2>2. Plus \notin ToSet(n) /\ Plus # x /\ Plus # y /\ Plus # Colon
    BY <1>1, <1>12, Numbers DEF HoldsPlus, n
  <2>. QED
    BY <1>6, <1>8, <2>1, <2>2
<1>. QED
  BY <1>9, <1>10, <1>11, <1>12 DEF z

\* name:x:y, read between two plus.
LEMMA PlayerRead ==
  ASSUME NEW e \in Player
  PROVE  LET f == Fields(PlayerPart(e), Colon)
         IN Has(f, 3) /\ PlaceOfPlayer(f) = e.place
<1>. DEFINE n == e.pseudo
            x == e.place[1]
            y == e.place[2]
            last == <<y>>
            s == <<x, Colon>> \o last
            g(t) == Fields(t, Colon)
            t0 == (n \o <<Colon>>) \o s
<1>1. /\ n \in Seq(Token) /\ Colon \notin ToSet(n) /\ x \in Int /\ y \in Int
      /\ e.place = <<x, y>>
  BY PlayerTextType DEF Text, Token
<1>2. last \in Seq(Token) /\ Colon \notin ToSet(last) /\ <<x, Colon>> \in Seq(Token)
  BY <1>1, Numbers
<1>3. PlayerPart(e) = t0
  BY DEF PlayerPart
<1>. HIDE DEF last, n, x, y
<1>4. g(last) = <<last>>
  BY <1>2, FieldsOfWhole
<1>5. s \in Seq(Token)
  BY <1>2, ConcatProperties
<1>6. /\ DOMAIN g(s) = 1..(Len(g(last)) + 1)
      /\ g(s)[1] = <<x>> /\ \A i \in 1..Len(g(last)) : g(s)[i + 1] = g(last)[i]
  <2>1. Leads(<<x>>, g(last), g(s))
    BY <1>1, <1>2, NumberField
  <2>. QED
    BY <2>1 DEF Leads
<1>. HIDE DEF s
<1>7. /\ Len(g(s)) \in Nat \ {0} /\ DOMAIN g(s) = 1..Len(g(s))
      /\ DOMAIN g(t0) = 1..(Len(g(s)) + 1)
      /\ \A i \in 1..Len(g(s)) : g(t0)[i + 1] = g(s)[i]
  <2>1. Colon \in Token
    BY Numbers
  <2>2. Leads(n, g(s), g(t0))
    BY <1>1, <1>5, <2>1, FieldByField
  <2>. QED
    BY <2>2 DEF Leads
<1>. HIDE DEF t0, g
<1>8. Len(g(last)) = 1 /\ g(last)[1] = last
  BY <1>4
<1>9. g(s)[2] = last /\ 2 \in DOMAIN g(s)
  BY <1>6, <1>8
<1>10. 2 \in 1..Len(g(s)) /\ 1 \in 1..Len(g(s))
  BY <1>7, <1>9
<1>11. 3 \in DOMAIN g(t0) /\ g(t0)[2] = <<x>> /\ g(t0)[3] = last
  BY <1>6, <1>7, <1>9, <1>10
<1>12. strtol(<<x>>) = x /\ strtol(last) = y
  BY <1>1, Numbers DEF last
<1>. QED
  BY <1>1, <1>3, <1>11, <1>12 DEF Has, PlaceOfPlayer, g

(***************************************************************************)
(* The start of a list, read for an answer: the first player's.            *)
(***************************************************************************)
LEMMA ListAsAnswer ==
  ASSUME NEW e \in Player, NEW r \in Seq(Token)
  PROVE  LET f == Fields(PlayerText(e) \o r, Colon)
         IN f[1] = e.pseudo /\ PlaceOfAnswer(f) = e.place
<1>. DEFINE n == e.pseudo
            x == e.place[1]
            y == e.place[2]
            nd == n \o <<Colon>>
            xd == <<x, Colon>>
            ys == <<y>>
            z == <<Plus>>
            q == z \o r
            u == ys \o q
            s == xd \o u
            g(t) == Fields(t, Colon)
            t0 == nd \o s
<1>1. /\ n \in Seq(Token) /\ Colon \notin ToSet(n) /\ x \in Int /\ y \in Int
      /\ e.place = <<x, y>>
  BY PlayerTextType DEF Text, Token
<1>2. xd \in Seq(Token) /\ ys \in Seq(Token) /\ z \in Seq(Token) /\ <<Colon>> \in Seq(Token)
  <2>1. Plus \in Token
    BY Numbers
  <2>. QED
    BY <1>1, <2>1, Numbers
<1>3. Triple(e.place, Plus) = xd \o (ys \o z)
  BY DEF Triple
<1>. HIDE DEF xd, ys, z
<1>4. nd \in Seq(Token)
  BY <1>1, <1>2, ConcatProperties
<1>. HIDE DEF nd
<1>5. q \in Seq(Token)
  BY <1>2, ConcatProperties
<1>6. PlayerText(e) \o r = t0
  <2>. DEFINE yz == ys \o z
  <2>0. yz \in Seq(Token) /\ Regroups(ys, z, r)
    BY <1>2, Regrouped, ConcatProperties
  <2>1. yz \in Seq(Token) /\ yz \o r = ys \o (z \o r)
    BY <2>0 DEF Regroups
  <2>. HIDE DEF yz
  <2>. DEFINE xyz == xd \o yz
  <2>2. xyz \in Seq(Token)
    BY <1>2, <2>1, ConcatProperties
  <2>3. xyz \o r = xd \o (yz \o r)
    <3>1. Regroups(xd, yz, r)
      BY <1>2, <2>1, Regrouped
    <3>. QED
      BY <3>1 DEF Regroups
  <2>. HIDE DEF xyz
  <2>4. (nd \o xyz) \o r = nd \o (xyz \o r)
    <3>1. Regroups(nd, xyz, r)
      BY <1>4, <2>2, Regrouped
    <3>. QED
      BY <3>1 DEF Regroups
  <2>5. PlayerText(e) = nd \o xyz
    BY <1>3 DEF PlayerText, nd, n, xyz, yz
  <2>. QED
    BY <2>1, <2>3, <2>4, <2>5
<1>. HIDE DEF q
<1>7. u \in Seq(Token)
  BY <1>2, <1>5, ConcatProperties
<1>8. g(u)[1] # << >> /\ g(u)[1][1] = y
  BY <1>1, <1>5, Numbers, FieldBegins DEF ys
<1>. HIDE DEF u
<1>9. s \in Seq(Token)
  BY <1>2, <1>7, ConcatProperties
<1>10. /\ Len(g(u)) \in Nat \ {0} /\ DOMAIN g(s) = 1..(Len(g(u)) + 1)
       /\ g(s)[1] = <<x>> /\ \A i \in 1..Len(g(u)) : g(s)[i + 1] = g(u)[i]
  <2>1. Leads(<<x>>, g(u), g(s))
    BY <1>1, <1>7, NumberField DEF xd
  <2>. QED
    BY <2>1 DEF Leads
<1>. HIDE DEF s
<1>11. /\ Len(g(s)) \in Nat \ {0} /\ DOMAIN g(s) = 1..Len(g(s))
       /\ DOMAIN g(t0) = 1..(Len(g(s)) + 1)
       /\ g(t0)[1] = n /\ \A i \in 1..Len(g(s)) : g(t0)[i + 1] = g(s)[i]
  <2>1. Colon \in Token /\ n \in Seq(Token) /\ Colon \notin ToSet(n)
    BY <1>1, Numbers
  <2>. HIDE DEF g, n
  <2>2. Leads(n, Fields(s, Colon), Fields((n \o <<Colon>>) \o s, Colon))
    BY <1>9, <2>1, FieldByField
  <2>3. Leads(n, g(s), g(t0))
    BY <2>2 DEF nd, g
  <2>. QED
    BY <2>3 DEF Leads
<1>. HIDE DEF t0, g, x, y, n
<1>12. 1 \in 1..Len(g(u)) /\ 2 \in DOMAIN g(s) /\ g(s)[2] = g(u)[1]
  BY <1>10
<1>13. 1 \in 1..Len(g(s)) /\ 2 \in 1..Len(g(s))
  BY <1>11, <1>12
<1>14. /\ 2 \in DOMAIN g(t0) /\ 3 \in DOMAIN g(t0)
       /\ g(t0)[2] = <<x>> /\ g(t0)[3] = g(u)[1]
  BY <1>10, <1>11, <1>12, <1>13
<1>15. strtol(<<x>>) = x /\ strtol(g(u)[1]) = y
  <2>1. g(u)[1] \in Seq(Token)
    <3>1. Colon \in Token
      BY Numbers
    <3>2. g(u) \in Seq(Seq(Token)) \ {<< >>}
      BY <1>7, <3>1, FieldsType DEF g
    <3>. HIDE DEF g
    <3>3. Len(g(u)) \in Nat /\ 1 \in 1..Len(g(u))
      BY <1>10, <3>2
    <3>. QED
      BY <3>2, <3>3, ElementOfSeq
  <2>2. strtol(g(u)[1]) = y
    BY <1>1, <1>8, <2>1, NumberInFront
  <2>. QED
    BY <1>1, <2>2, Numbers
<1>16. PlaceOfAnswer(g(t0)) = <<x, y>>
  BY <1>14, <1>15 DEF PlaceOfAnswer, Has
<1>. QED
  BY <1>1, <1>6, <1>11, <1>16 DEF g, n

\* What setListOfPlayers gets through, and what it should.
Readable(part) ==
  {k \in DOMAIN part : \A j \in 1..k : Has(Fields(part[j], Colon), 3)}
PlainPrefix(told) ==
  {k \in DOMAIN told : \A j \in 1..k : ~HoldsPlus(told[j].pseudo)}
Agrees(text, told) ==
  LET part == Fields(text, Plus)
  IN /\ Readable(part) = PlainPrefix(told)
     /\ \A i \in PlainPrefix(told) :
          PlaceOfPlayer(Fields(part[i], Colon)) = told[i].place

\* The numbers up to n before the first that is in B.
UpTo(n, B) == {k \in 1..n : \A j \in 1..k : j \notin B}
\* C is B moved by one, behind a good element.
Shifts(n, B, C) == 1 \notin C /\ \A j \in 1..n : j + 1 \in C <=> j \in B

LEMMA ShiftedPrefix ==
  ASSUME NEW n \in Nat, NEW B, NEW C, Shifts(n, B, C)
  PROVE  UpTo(n + 1, C) = {1} \cup {k + 1 : k \in UpTo(n, B)}
<1>. USE DEF Shifts
<1>. DEFINE L == {k \in 1..(n + 1) : \A j \in 1..k : j \notin C}
            R == {k \in 1..n : \A j \in 1..k : j \notin B}
<1>1. ASSUME NEW k \in L PROVE k = 1 \/ (k - 1 \in R /\ k = (k - 1) + 1)
  <2>. SUFFICES ASSUME k # 1 PROVE k - 1 \in R
    OBVIOUS
  <2>1. k - 1 \in 1..n
    OBVIOUS
  <2>2. ASSUME NEW j \in 1..(k - 1) PROVE j \notin B
    <3>1. j + 1 \in 1..k /\ j \in 1..n
      OBVIOUS
    <3>. QED
      BY <3>1
  <2>. QED
    BY <2>1, <2>2
<1>2. 1 \in L
  OBVIOUS
<1>3. ASSUME NEW k \in R PROVE k + 1 \in L
  <2>1. ASSUME NEW j \in 1..(k + 1) PROVE j \notin C
    <3>1. j = 1 \/ (j - 1 \in 1..k /\ j - 1 \in 1..n /\ (j - 1) + 1 = j)
      OBVIOUS
    <3>. QED
      BY <3>1
  <2>. QED
    BY <2>1
<1>. HIDE DEF L, R
<1>4. L = {1} \cup {k + 1 : k \in R}
  BY <1>1, <1>2, <1>3
<1>. QED
  BY <1>4 DEF L, R, UpTo

\* A player's part of a list stands on its own.
LEMMA PlayerField ==
  ASSUME NEW e \in Player, ~HoldsPlus(e.pseudo), NEW r \in Seq(Token)
  PROVE  Leads(PlayerPart(e), Fields(r, Plus), Fields(PlayerText(e) \o r, Plus))
<1>. DEFINE h == PlayerPart(e)
<1>1. PlayerText(e) = h \o <<Plus>>
  BY PlayerPartType
<1>2. h \in Seq(Token) /\ Plus \notin ToSet(h)
  BY PlayerPartType
<1>3. Plus \in Token
  BY Numbers
<1>. HIDE DEF h
<1>4. Leads(h, Fields(r, Plus), Fields((h \o <<Plus>>) \o r, Plus))
  BY <1>2, <1>3, FieldByField
<1>. QED
  BY <1>1, <1>4 DEF h

LEMMA ListGoesOn ==
  ASSUME NEW e \in Player, NEW told \in Seq(Player), NEW r \in Seq(Token),
         ~HoldsPlus(e.pseudo), Agrees(r, told)
  PROVE  Agrees(PlayerText(e) \o r, <<e>> \o told)
<1>. DEFINE f == Fields(PlayerText(e) \o r, Plus)
            g == Fields(r, Plus)
            m == Len(g)
            n == Len(told)
            t == <<e>> \o told
            Bf == {j \in 1..(m + 1) : ~Has(Fields(f[j], Colon), 3)}
            Bg == {j \in 1..m : ~Has(Fields(g[j], Colon), 3)}
            Bt == {j \in 1..(n + 1) : HoldsPlus(t[j].pseudo)}
            Bo == {j \in 1..n : HoldsPlus(told[j].pseudo)}
<1>1. /\ m \in Nat \ {0} /\ DOMAIN g = 1..m /\ DOMAIN f = 1..(m + 1)
      /\ f[1] = PlayerPart(e) /\ \A i \in 1..m : f[i + 1] = g[i]
  <2>1. Leads(PlayerPart(e), g, f)
    BY PlayerField
  <2>. QED
    BY <2>1 DEF Leads
<1>2. /\ n \in Nat /\ DOMAIN told = 1..n /\ DOMAIN t = 1..(n + 1)
      /\ t[1] = e /\ \A i \in 1..n : t[i + 1] = told[i]
  BY Prepended, LenProperties
<1>3. Has(Fields(f[1], Colon), 3) /\ PlaceOfPlayer(Fields(f[1], Colon)) = t[1].place
  BY <1>1, <1>2, PlayerRead
<1>. HIDE DEF f, g, t, m, n
<1>4. Readable(f) = {1} \cup {k + 1 : k \in Readable(g)}
  <2>1. Shifts(m, Bg, Bf)
    BY <1>1, <1>3 DEF Shifts
  <2>2. Readable(f) = UpTo(m + 1, Bf)
    BY <1>1 DEF Readable, UpTo
  <2>3. Readable(g) = UpTo(m, Bg)
    BY <1>1 DEF Readable, UpTo
  <2>. HIDE DEF Bf, Bg
  <2>. QED
    BY <1>1, <2>1, <2>2, <2>3, ShiftedPrefix
<1>5. PlainPrefix(t) = {1} \cup {k + 1 : k \in PlainPrefix(told)}
  <2>1. Shifts(n, Bo, Bt)
    BY <1>2 DEF Shifts
  <2>2. PlainPrefix(t) = UpTo(n + 1, Bt)
    BY <1>2 DEF PlainPrefix, UpTo
  <2>3. PlainPrefix(told) = UpTo(n, Bo)
    BY <1>2 DEF PlainPrefix, UpTo
  <2>. HIDE DEF Bt, Bo
  <2>. QED
    BY <1>2, <2>1, <2>2, <2>3, ShiftedPrefix
<1>6. /\ Readable(g) = PlainPrefix(told)
      /\ \A i \in PlainPrefix(told) : PlaceOfPlayer(Fields(g[i], Colon)) = told[i].place
  BY DEF Agrees, g
<1>7. ASSUME NEW i \in PlainPrefix(t)
      PROVE  PlaceOfPlayer(Fields(f[i], Colon)) = t[i].place
  <2>1. CASE i = 1
    BY <1>3, <2>1
  <2>2. CASE i # 1
    <3>1. PICK k \in PlainPrefix(told) : i = k + 1
      BY <1>5, <2>2
    <3>2. k \in 1..n /\ k \in 1..m
      BY <1>1, <1>2, <1>6 DEF PlainPrefix, Readable
    <3>. QED
      BY <1>1, <1>2, <1>6, <3>1, <3>2
  <2>. QED
    BY <2>1, <2>2
<1>. QED
  BY <1>4, <1>5, <1>6, <1>7 DEF Agrees, f, t

LEMMA ListStops ==
  ASSUME NEW e \in Player, NEW told \in Seq(Player), NEW r \in Seq(Token),
         HoldsPlus(e.pseudo)
  PROVE  Agrees(PlayerText(e) \o r, <<e>> \o told)
<1>. DEFINE n == e.pseudo
            d == <<Colon>>
            v == Triple(e.place, Plus)
            f == Fields(PlayerText(e) \o r, Plus)
            t == <<e>> \o told
<1>1. n \in Seq(Token) /\ Colon \notin ToSet(n) /\ Plus \in ToSet(n)
  BY PlayerTextType DEF Text, Token, HoldsPlus
<1>2. d \in Seq(Token) /\ v \in Seq(Token) /\ Plus \in Token /\ PlayerText(e) = (n \o d) \o v
  <2>1. Plus \in Token /\ Colon \in Token /\ e.place[1] \in Token /\ e.place[2] \in Token
    BY PlayerTextType, Numbers
  <2>. QED
    BY <2>1 DEF Triple, PlayerText
<1>3. PICK p \in Seq(Token), s \in Seq(Token) :
        /\ n = (p \o <<Plus>>) \o s /\ Plus \notin ToSet(p)
        /\ ToSet(p) \subseteq ToSet(n) /\ ToSet(s) \subseteq ToSet(n)
  <2>. HIDE DEF n
  <2>1. n \in Seq(Token) /\ Plus \in ToSet(n)
    BY <1>1
  <2>. QED
    BY <2>1, FirstCut, Zenon
<1>. DEFINE q == p \o <<Plus>>
            u == ((s \o d) \o v) \o r
<1>4. q \in Seq(Token)
  BY <1>2, ConcatProperties
<1>. HIDE DEF d, v
<1>5. u \in Seq(Token) /\ PlayerText(e) \o r = q \o u
  <2>. DEFINE s1 == s \o d
              s2 == s1 \o v
  <2>. HIDE DEF q
  <2>1. s1 \in Seq(Token)
    BY <1>2, ConcatProperties
  <2>2. (q \o s) \o d = q \o s1
    <3>1. d \in Seq(Token)
      BY <1>2
    <3>2. Regroups(q, s, d)
      BY <3>1, <1>4, Regrouped
    <3>. QED
      BY <3>2 DEF Regroups
  <2>. HIDE DEF s1
  <2>3. s2 \in Seq(Token)
    BY <1>2, <2>1, ConcatProperties
  <2>4. (q \o s1) \o v = q \o s2
    <3>1. v \in Seq(Token)
      BY <1>2
    <3>2. Regroups(q, s1, v)
      BY <3>1, <1>4, <2>1, Regrouped
    <3>. QED
      BY <3>2 DEF Regroups
  <2>. HIDE DEF s2
  <2>5. s2 \o r \in Seq(Token) /\ (q \o s2) \o r = q \o (s2 \o r)
    <3>1. s2 \o r \in Seq(Token)
      BY <2>3, ConcatProperties
    <3>2. Regroups(q, s2, r)
      BY <1>4, <2>3, Regrouped
    <3>. QED
      BY <3>1, <3>2 DEF Regroups
  <2>6. PlayerText(e) = ((q \o s) \o d) \o v
    BY <1>2, <1>3 DEF q
  <2>7. PlayerText(e) = q \o s2
    BY <2>2, <2>4, <2>6
  <2>8. u = s2 \o r
    BY DEF s2, s1
  <2>. QED
    BY <2>5, <2>7, <2>8
<1>. HIDE DEF u, n
<1>6. f[1] = p
  <2>1. u \in Seq(Token) /\ Plus \in Token /\ Plus \notin ToSet(p)
    BY <1>2, <1>3, <1>5
  <2>2. Leads(p, Fields(u, Plus), Fields((p \o <<Plus>>) \o u, Plus))
    BY <2>1, FieldByField
  <2>3. Fields((p \o <<Plus>>) \o u, Plus)[1] = p
    BY <2>2 DEF Leads
  <2>. QED
    BY <1>5, <2>3 DEF q
<1>7. Fields(p, Colon) = <<p>>
  BY <1>1, <1>3, FieldsOfWhole
<1>8. ~Has(Fields(f[1], Colon), 3)
  BY <1>6, <1>7 DEF Has
<1>9. PlayerText(e) \o r \in Seq(Token)
  BY <1>4, <1>5, ConcatProperties
<1>10. DOMAIN f \subseteq Nat \ {0}
  <2>1. f \in Seq(Seq(Token))
    BY <1>9, FieldsType
  <2>. HIDE DEF f
  <2>. QED
    BY <2>1, LenProperties
<1>11. Readable(f) = {}
  <2>. HIDE DEF f
  <2>1. \A k \in DOMAIN f : 1 \in 1..k
    BY <1>10
  <2>. QED
    BY <1>8, <2>1 DEF Readable
<1>12. PlainPrefix(t) = {}
  <2>1. t[1] = e /\ DOMAIN t \subseteq Nat \ {0}
    BY Prepended, LenProperties
  <2>. HIDE DEF t
  <2>2. \A k \in DOMAIN t : 1 \in 1..k
    BY <2>1
  <2>. QED
    BY <2>1, <2>2 DEF PlainPrefix
<1>. QED
  BY <1>11, <1>12 DEF Agrees

(***************************************************************************)
(* Every list is read as it was meant, as far as its names hold no plus.   *)
(***************************************************************************)
LEMMA ListAgrees ==
  ASSUME NEW told \in Seq(Player)
  PROVE  Agrees(ListText(told), told)
<1>. DEFINE D == {t \in Seq(Player) : Agrees(ListText(t), t)}
<1>1. << >> \in D
  <2>1. ListText(<< >>) = << >> /\ << >> \in Seq(Player)
    BY ListTextGrows, EmptySeq
  <2>2. Fields(<< >>, Plus) = << << >> >> /\ Fields(<< >>, Colon) = << << >> >>
    BY FieldsOfNone
  <2>3. Readable(<< << >> >>) = {}
    <3>1. DOMAIN << << >> >> = {1} /\ << << >> >>[1] = << >>
      OBVIOUS
    <3>2. ~Has(Fields(<< << >> >>[1], Colon), 3)
      BY <2>2, <3>1 DEF Has
    <3>. QED
      BY <3>1, <3>2 DEF Readable
  <2>4. PlainPrefix(<< >>) = {}
    BY DEF PlainPrefix
  <2>. QED
    BY <2>1, <2>2, <2>3, <2>4 DEF Agrees
<1>2. ASSUME NEW t \in Seq(Player), NEW e \in Player, t \in D PROVE <<e>> \o t \in D
  <2>1. ListText(t) \in Seq(Token) /\ <<e>> \o t \in Seq(Player)
    BY ListTextGrows, Prepended DEF Text, Token
  <2>2. ListText(<<e>> \o t) = PlayerText(e) \o ListText(t)
    BY ListTextSplit
  <2>3. Agrees(PlayerText(e) \o ListText(t), <<e>> \o t)
    BY <1>2, <2>1, ListGoesOn, ListStops
  <2>. QED
    BY <2>1, <2>2, <2>3
<1>. HIDE DEF D
<1>3. told \in D
  BY <1>1, <1>2, InductionOnPrepend
<1>. QED
  BY <1>3 DEF D

LEMMA ListMeant ==
  ASSUME NEW told \in Seq(Player)
  PROVE  setListOfPlayers(ListText(told)) = [i \in PlainPrefix(told) |-> told[i].place]
<1>. DEFINE part == Fields(ListText(told), Plus)
            places(S) == [i \in S |-> PlaceOfPlayer(Fields(part[i], Colon))]
<1>1. setListOfPlayers(ListText(told)) = places(Readable(part))
  BY DEF setListOfPlayers, Readable
<1>2. /\ Readable(part) = PlainPrefix(told)
      /\ \A i \in PlainPrefix(told) : PlaceOfPlayer(Fields(part[i], Colon)) = told[i].place
  BY ListAgrees DEF Agrees
<1>. QED
  BY <1>1, <1>2

\* A field without a colon is no player.
LEMMA NoPlayer ==
  ASSUME NEW r \in Seq(Token), Colon \notin ToSet(r)
  PROVE  ~Has(Fields(Fields(r, Plus)[1], Colon), 3)
<1>. DEFINE T == Token \ {Colon}
            w == Fields(r, Plus)[1]
<1>1. r \in Seq(T)
  <2>1. Len(r) \in Nat /\ \A i \in 1..Len(r) : r[i] \in T
    BY ElementOfSeq, LenProperties DEF ToSet
  <2>2. r \in [1..Len(r) -> T]
    BY <2>1, LenProperties
  <2>. HIDE DEF T
  <2>. QED
    BY <2>1, <2>2, SeqDef
<1>2. w \in Seq(T)
  <2>. HIDE DEF T
  <2>1. Fields(r, Plus) \in Seq(Seq(T)) \ {<< >>}
    BY <1>1, FieldsType
  <2>2. 1 \in 1..Len(Fields(r, Plus))
    BY <2>1, EmptySeq, LenProperties
  <2>. QED
    BY <2>1, <2>2, ElementOfSeq
<1>3. w \in Seq(Token) /\ Colon \notin ToSet(w)
  <2>. HIDE DEF w
  <2>1. Len(w) \in Nat /\ DOMAIN w = 1..Len(w) /\ \A i \in 1..Len(w) : w[i] \in T
    BY <1>2, ElementOfSeq, LenProperties
  <2>2. w \in [1..Len(w) -> Token]
    BY <1>2, <2>1, LenProperties
  <2>. QED
    BY <2>1, <2>2, SeqDef DEF ToSet
<1>4. Fields(w, Colon) = <<w>>
  BY <1>3, Numbers, FieldsOfWhole
<1>. HIDE DEF w
<1>5. ~Has(Fields(w, Colon), 3)
  BY <1>4 DEF Has
<1>. QED
  BY <1>5 DEF w

LEMMA CodedAsPlayer ==
  ASSUME NEW c \in Int, NEW x \in Int, NEW y \in Int, NEW m \in Seq(Token)
  PROVE  LET f == Fields(Coded(c, x, y, m), Colon)
         IN Has(f, 3) /\ PlaceOfPlayer(f) = <<x, y>>
<1>. DEFINE f == Fields(Coded(c, x, y, m), Colon)
<1>1. Has(f, 3) /\ f[2] = <<x>> /\ f[3] = <<y>>
  BY FieldsOfCoded
<1>. HIDE DEF f
<1>2. strtol(<<x>>) = x /\ strtol(<<y>>) = y
  BY Numbers
<1>. QED
  BY <1>1, <1>2 DEF PlaceOfPlayer, f

\* A map that holds a plus breaks the text behind it.
Broken(p, r) == (p \o <<Plus>>) \o r
LEMMA CodedText ==
  ASSUME NEW c \in Int, NEW x \in Int, NEW y \in Int, NEW m \in Seq(Token)
  PROVE  /\ Coded(c, x, y, m) \in Seq(Token)
         /\ Plus \in ToSet(Coded(c, x, y, m)) => Plus \in ToSet(m)
         /\ \A r \in Seq(Token) :
              Coded(c, x, y, Broken(m, r)) = Broken(Coded(c, x, y, m), r)
<1>. DEFINE a == <<c, Colon>>
            b == <<x, Colon, y, Colon>>
            e == a \o b
            z == <<Plus>>
<1>1. a \in Seq(Token) /\ b \in Seq(Token) /\ z \in Seq(Token)
  BY DEF Token
<1>2. ToSet(a) = {c, Colon} /\ ToSet(b) = {x, y, Colon}
  <2>1. DOMAIN a = {1, 2} /\ DOMAIN b = {1, 2, 3, 4}
    OBVIOUS
  <2>. QED
    BY <2>1 DEF ToSet
<1>3. \A t : Coded(c, x, y, t) = e \o t
  BY DEF Coded
<1>. HIDE DEF a, b, z
<1>4. e \in Seq(Token) /\ ToSet(e) = {c, Colon} \cup {x, y, Colon}
  <2>1. e \in Seq(Token)
    BY <1>1, ConcatProperties
  <2>2. ToSet(e) = ToSet(a) \cup ToSet(b)
    BY <1>1, ToSetOfConcat
  <2>. QED
    BY <1>2, <2>1, <2>2
<1>. HIDE DEF e
<1>5. Plus \notin ToSet(e)
  BY <1>4, Numbers
<1>6. e \o m \in Seq(Token) /\ ToSet(e \o m) = ToSet(e) \cup ToSet(m)
  <2>1. e \in Seq(Token)
    BY <1>4
  <2>. QED
    BY <2>1, ToSetOfConcat, ConcatProperties
<1>7. ASSUME NEW r \in Seq(Token) PROVE e \o ((m \o z) \o r) = ((e \o m) \o z) \o r
  <2>. DEFINE mz == m \o z
              em == e \o m
  <2>0. e \in Seq(Token)
    BY <1>4
  <2>1. mz \in Seq(Token)
    BY <1>1, ConcatProperties
  <2>2. em \o z = e \o mz
    <3>1. Regroups(e, m, z)
      BY <1>1, <2>0, Regrouped
    <3>. QED
      BY <3>1 DEF Regroups
  <2>. HIDE DEF mz, em
  <2>3. (e \o mz) \o r = e \o (mz \o r)
    <3>1. Regroups(e, mz, r)
      BY <2>0, <2>1, Regrouped
    <3>. QED
      BY <3>1 DEF Regroups
  <2>. QED
    BY <2>2, <2>3 DEF mz, em
<1>. QED
  BY <1>3, <1>5, <1>6, <1>7 DEF z, Broken

(***************************************************************************)
(* A late ACCEPT reads as a list with one player, at the start place.      *)
(***************************************************************************)
LEMMA AcceptAsList == ToSet(setListOfPlayers(AcceptText)) = {StartPlace}
<1>. DEFINE c == ACCEPT_CONNECTION
            x == StartPlace[1]
            y == StartPlace[2]
            part == Fields(AcceptText, Plus)
<1>1. c \in Int /\ x \in Int /\ y \in Int /\ StartPlace = <<x, y>>
  BY WireAssumption, StartAssumption DEF ACCEPT_CONNECTION
<1>2. StartMap \in Seq(Token) /\ Colon \notin ToSet(StartMap)
  BY WireAssumption, StartAssumption DEF Text, Token
<1>3. AcceptText = Coded(c, x, y, StartMap)
  BY DEF AcceptText, Triple, Coded
<1>. HIDE DEF c, x, y
<1>4. /\ 1 \in DOMAIN part
      /\ \A k \in DOMAIN part : k \in Nat \ {0} /\ 1..k \subseteq DOMAIN part
      /\ Has(Fields(part[1], Colon), 3)
      /\ PlaceOfPlayer(Fields(part[1], Colon)) = StartPlace
      /\ 2 \in DOMAIN part => ~Has(Fields(part[2], Colon), 3)
  <2>1. CASE Plus \notin ToSet(StartMap)
    <3>1. part = <<AcceptText>>
      <4>1. AcceptText \in Seq(Token) /\ Plus \notin ToSet(AcceptText)
        BY <1>1, <1>2, <1>3, <2>1, CodedText
      <4>. QED
        BY <4>1, Numbers, FieldsOfWhole
    <3>2. DOMAIN part = {1} /\ part[1] = AcceptText
      BY <3>1
    <3>. HIDE DEF part
    <3>. QED
      BY <1>1, <1>2, <1>3, <3>2, CodedAsPlayer
  <2>2. CASE Plus \in ToSet(StartMap)
    <3>1. PICK p \in Seq(Token), r \in Seq(Token) :
            /\ StartMap = (p \o <<Plus>>) \o r /\ Plus \notin ToSet(p)
            /\ ToSet(p) \subseteq ToSet(StartMap) /\ ToSet(r) \subseteq ToSet(StartMap)
      BY <1>2, <2>2, FirstCut, Zenon
    <3>. DEFINE q == Coded(c, x, y, p)
                g == Fields(r, Plus)
    <3>2. q \in Seq(Token) /\ Plus \notin ToSet(q) /\ AcceptText = (q \o <<Plus>>) \o r
      <4>1. q \in Seq(Token) /\ (Plus \in ToSet(q) => Plus \in ToSet(p))
        BY <1>1, CodedText
      <4>2. Coded(c, x, y, Broken(p, r)) = Broken(q, r)
        BY <1>1, CodedText
      <4>. HIDE DEF q
      <4>. QED
        BY <1>3, <3>1, <4>1, <4>2 DEF Broken
    <3>3. Has(Fields(q, Colon), 3) /\ PlaceOfPlayer(Fields(q, Colon)) = <<x, y>>
      BY <1>1, CodedAsPlayer
    <3>. HIDE DEF q
    <3>4. /\ Len(g) \in Nat \ {0} /\ DOMAIN g = 1..Len(g)
          /\ DOMAIN part = 1..(Len(g) + 1)
          /\ part[1] = q /\ \A i \in 1..Len(g) : part[i + 1] = g[i]
      <4>1. Leads(q, g, Fields((q \o <<Plus>>) \o r, Plus))
        <5>1. Plus \in Token /\ q \in Seq(Token) /\ Plus \notin ToSet(q)
          BY <3>2, Numbers
        <5>. HIDE DEF part
        <5>. QED
          BY <5>1, FieldByField
      <4>2. part = Fields((q \o <<Plus>>) \o r, Plus)
        BY <3>2
      <4>. QED
        BY <4>1, <4>2 DEF Leads
    <3>5. ~Has(Fields(g[1], Colon), 3)
      BY <1>2, <3>1, NoPlayer
    <3>. HIDE DEF part, g
    <3>6. part[2] = g[1]
      BY <3>4
    <3>. QED
      BY <1>1, <3>3, <3>4, <3>5, <3>6
  <2>. QED
    BY <2>1, <2>2
<1>. HIDE DEF part
<1>5. Readable(part) = {1}
  <2>1. ASSUME NEW k \in DOMAIN part, k # 1 PROVE k \notin Readable(part)
    <3>1. k \in Nat /\ 2 \in 1..k
      BY <1>4, <2>1
    <3>2. 2 \in DOMAIN part
      BY <1>4, <3>1
    <3>. QED
      BY <1>4, <3>1, <3>2 DEF Readable
  <2>2. 1 \in Readable(part)
    BY <1>4 DEF Readable
  <2>. QED
    BY <2>1, <2>2 DEF Readable
<1>6. setListOfPlayers(AcceptText) =
        [i \in Readable(part) |-> PlaceOfPlayer(Fields(part[i], Colon))]
  BY DEF setListOfPlayers, Readable, part
<1>7. setListOfPlayers(AcceptText) = [i \in {1} |-> StartPlace]
  BY <1>4, <1>5, <1>6
<1>. QED
  BY <1>7 DEF ToSet

-----------------------------------------------------------------------------
(* What is under way.                                                      *)

RequestText ==
  {ConnectText(p) : p \in Pseudo} \cup {RegisterText(p) : p \in Pseudo}
    \cup {PositionText(place, map) : place \in Place, map \in Text}
Requests == {Request(a, text) : a \in Address, text \in RequestText}
Accepts == {Answer(a, AcceptText, << >>) : a \in Address}
Lists ==
  {Answer(a, ListText(told), told) : a \in Address, told \in Seq(Player) \ {<< >>}}

(***************************************************************************)
(* Every datagram under way was written by a client or by the server for a *)
(* player list of its own.  A list tells of somebody, and of known names   *)
(* and places, though what made the server send it may have been read from *)
(* the map of a misread list: clientMap may be any text.                   *)
(***************************************************************************)
WireOK(net) == IsABag(net) /\ BagToSet(net) \subseteq Requests \cup Accepts \cup Lists
ClientsOK == Session!ClientTypeOK /\ clientMap \in [Address -> Text]
WireInv == IInv /\ loop # "left" /\ ClientsOK /\ WireOK(wire)

\* What EntersOnlyByAccept says of one step.
Enters ==
  \A a \in Address : (pc[a] = "wait" /\ pc'[a] = "play") =>
    \E m \in AnswersTo(a) :
      /\ wire' = Without(wire, m)
      /\ \/ m.told = << >> /\ xyPlayer'[a] = StartPlace /\ clientMap'[a] = StartMap
         \/ ReadsAsAccept(m.told) /\ xyPlayer'[a] = m.told[1].place

LEMMA Kinds ==
  /\ \A m \in Requests : IsRequest(m)
  /\ \A m \in Accepts \cup Lists : ~IsRequest(m)
BY DEF Requests, Accepts, Lists, Request, Answer, IsRequest

LEMMA SendKeepsWire ==
  ASSUME WireOK(wire), NEW m \in Requests, NEW copies \in Copies, Send(m, copies)
  PROVE  WireOK(wire')
BY WithBag DEF Send, WireOK

LEMMA TakeKeepsWire == ASSUME NEW net, WireOK(net), NEW m PROVE WireOK(Without(net, m))
BY WithoutBag DEF WireOK

LEMMA AnswersKnown ==
  ASSUME WireOK(wire), NEW a \in Address, NEW m \in AnswersTo(a)
  PROVE  \/ m.text = AcceptText /\ m.told = << >>
         \/ m.told \in Seq(Player) \ {<< >>} /\ m.text = ListText(m.told)
<1>1. m \in Accepts \cup Lists
  BY Kinds DEF AnswersTo, WireOK
<1>2. CASE m \in Accepts
  BY <1>2 DEF Accepts, Answer
<1>3. CASE m \in Lists
  <2>1. PICK b \in Address, told \in Seq(Player) \ {<< >>} :
          m = Answer(b, ListText(told), told)
    BY <1>3 DEF Lists
  <2>2. m.told = told /\ m.text = ListText(told)
    BY <2>1 DEF Answer
  <2>. QED
    BY <2>1, <2>2
<1>. QED
  BY <1>1, <1>2, <1>3

LEMMA AcceptTextType == AcceptText \in Text
<1>1. StartPlace[1] \in Int /\ StartPlace[2] \in Int /\ StartMap \in Seq(Token)
  BY WireAssumption, StartAssumption DEF Text, Token
<1>2. AcceptText = Coded(1, StartPlace[1], StartPlace[2], StartMap)
  BY DEF AcceptText, ACCEPT_CONNECTION, Triple, Coded
<1>. QED
  BY <1>1, <1>2, CodedText DEF Text, Token

\* A list begins with its first player.
LEMMA ListBegins ==
  ASSUME NEW told \in Seq(Player), told # << >>
  PROVE  LET f == Fields(ListText(told), Colon)
         IN f[1] = told[1].pseudo /\ PlaceOfAnswer(f) = told[1].place
<1>1. PICK e \in Player, t \in Seq(Player) : told = <<e>> \o t
  BY HeadSplit
<1>2. told[1] = e
  BY <1>1, Prepended
<1>3. ListText(told) = PlayerText(e) \o ListText(t) /\ ListText(t) \in Seq(Token)
  BY <1>1, ListTextSplit, ListTextGrows DEF Text, Token
<1>. QED
  BY <1>2, <1>3, ListAsAnswer

(***************************************************************************)
(* What an answer is read as.                                              *)
(***************************************************************************)
LEMMA AnswerRead ==
  ASSUME WireOK(wire), NEW a \in Address, NEW m \in AnswersTo(a)
  PROVE  LET f == Fields(m.text, Colon)
         IN /\ Has(f, 4) => f[4] \in Text
            /\ \/ /\ m.told = << >> /\ strtol(f[1]) = ACCEPT_CONNECTION
                  /\ PlaceOfAnswer(f) = StartPlace
                  /\ Has(f, 4) /\ f[4] = StartMap
               \/ /\ m.told # << >> /\ m.told[1].place \in Place
                  /\ strtol(f[1]) = ACCEPT_CONNECTION <=> ReadsAsAccept(m.told)
                  /\ PlaceOfAnswer(f) = m.told[1].place
<1>. DEFINE f == Fields(m.text, Colon)
<1>1. \/ m.text = AcceptText /\ m.told = << >>
      \/ m.told \in Seq(Player) \ {<< >>} /\ m.text = ListText(m.told)
  BY AnswersKnown
<1>2. Has(f, 4) => f[4] \in Text
  <2>1. m.text \in Seq(Token)
    BY <1>1, AcceptTextType, ListTextGrows DEF Text, Token
  <2>2. f \in Seq(Seq(Token))
    BY <2>1, FieldsType
  <2>. HIDE DEF f
  <2>3. \A i \in DOMAIN f : f[i] \in Seq(Token)
    BY <2>2, ElementOfSeq, LenProperties
  <2>. QED
    BY <2>3 DEF Has, Text, Token
<1>3. CASE m.text = AcceptText /\ m.told = << >>
  BY <1>2, <1>3, AcceptRead
<1>4. CASE m.told \in Seq(Player) \ {<< >>} /\ m.text = ListText(m.told)
  <2>1. f[1] = m.told[1].pseudo /\ PlaceOfAnswer(f) = m.told[1].place
    BY <1>4, ListBegins
  <2>2. m.told[1].place \in Place
    <3>1. m.told[1] \in Player
      BY <1>4, EmptySeq, ElementOfSeq, LenProperties
    <3>. QED
      BY <3>1 DEF Player
  <2>. HIDE DEF f
  <2>3. strtol(f[1]) = ACCEPT_CONNECTION <=> ReadsAsAccept(m.told)
    BY <1>4, <2>1 DEF ReadsAsAccept
  <2>. QED
    BY <1>2, <1>4, <2>1, <2>2, <2>3 DEF f
<1>. QED
  BY <1>1, <1>3, <1>4

\* Whatever is drawn is a place.
LEMMA DrawnPlaces ==
  ASSUME WireOK(wire), NEW a \in Address, NEW m \in AnswersTo(a)
  PROVE  ToSet(setListOfPlayers(m.text)) \subseteq Place
<1>1. CASE m.text = AcceptText
  BY <1>1, AcceptAsList, StartAssumption
<1>2. CASE m.told \in Seq(Player) /\ m.text = ListText(m.told)
  <2>1. setListOfPlayers(m.text) = [i \in PlainPrefix(m.told) |-> m.told[i].place]
    BY <1>2, ListMeant
  <2>2. \A i \in PlainPrefix(m.told) : m.told[i].place \in Place
    <3>1. \A i \in PlainPrefix(m.told) : m.told[i] \in Player
      BY <1>2, ElementOfSeq, LenProperties DEF PlainPrefix
    <3>. QED
      BY <3>1 DEF Player
  <2>. QED
    BY <2>1, <2>2 DEF ToSet
<1>. QED
  BY <1>1, <1>2, AnswersKnown

-----------------------------------------------------------------------------
(* Steps of a client.                                                      *)

LEMMA ClientHearsAnswer ==
  ASSUME WireInv, NEW a \in Address, NEW m \in AnswersTo(a), ReceiveAnswer(a, m)
  PROVE  ClientsOK' /\ WireOK(wire') /\ Enters
<1>. DEFINE f == Fields(m.text, Colon)
<1>1. WireOK(wire)
  BY DEF WireInv
<1>2. /\ Has(f, 4) => f[4] \in Text
      /\ \/ /\ m.told = << >> /\ strtol(f[1]) = ACCEPT_CONNECTION
            /\ PlaceOfAnswer(f) = StartPlace
            /\ Has(f, 4) /\ f[4] = StartMap
         \/ /\ m.told # << >> /\ m.told[1].place \in Place
            /\ strtol(f[1]) = ACCEPT_CONNECTION <=> ReadsAsAccept(m.told)
            /\ PlaceOfAnswer(f) = m.told[1].place
  BY <1>1, AnswerRead
<1>3. /\ pc[a] = "wait" /\ wire' = Without(wire, m)
      /\ IF strtol(f[1]) = ACCEPT_CONNECTION
           THEN /\ pc' = [pc EXCEPT ![a] = "play"]
                /\ xyPlayer' = [xyPlayer EXCEPT ![a] = PlaceOfAnswer(f)]
                /\ clientMap' = [clientMap EXCEPT ![a] = IF Has(f, 4) THEN f[4] ELSE @]
           ELSE pc' = [pc EXCEPT ![a] = "ask"] /\ UNCHANGED <<xyPlayer, clientMap>>
      /\ UNCHANGED <<pseudo, listOfPlayer>>
  BY DEF ReceiveAnswer
<1>4. WireOK(wire')
  BY <1>1, <1>3, TakeKeepsWire
<1>5. PlaceOfAnswer(f) \in Place
  BY <1>2, StartAssumption
<1>. HIDE DEF f
<1>6. ClientsOK'
  BY <1>2, <1>3, <1>5 DEF ClientsOK, Session!ClientTypeOK, WireInv
<1>7. Enters
  <2>. SUFFICES ASSUME NEW b \in Address, pc[b] = "wait", pc'[b] = "play"
                PROVE  \E n \in AnswersTo(b) :
                         /\ wire' = Without(wire, n)
                         /\ \/ /\ n.told = << >>
                               /\ xyPlayer'[b] = StartPlace /\ clientMap'[b] = StartMap
                            \/ ReadsAsAccept(n.told) /\ xyPlayer'[b] = n.told[1].place
    BY DEF Enters
  <2>1. b = a /\ strtol(f[1]) = ACCEPT_CONNECTION
    BY <1>3 DEF WireInv, ClientsOK, Session!ClientTypeOK
  <2>2. /\ xyPlayer'[a] = PlaceOfAnswer(f)
        /\ clientMap'[a] = IF Has(f, 4) THEN f[4] ELSE clientMap[a]
    BY <1>3, <2>1 DEF WireInv, ClientsOK, Session!ClientTypeOK
  <2>3. \/ m.told = << >> /\ xyPlayer'[a] = StartPlace /\ clientMap'[a] = StartMap
        \/ ReadsAsAccept(m.told) /\ xyPlayer'[a] = m.told[1].place
    BY <1>2, <2>1, <2>2
  <2>. QED
    BY <1>3, <2>1, <2>3
<1>. QED
  BY <1>4, <1>6, <1>7

\* Nobody starts to play.
LEMMA NobodyEnters ==
  ASSUME \A b \in Address : pc'[b] = pc[b] \/ pc'[b] # "play"
  PROVE  Enters
BY DEF Enters

LEMMA ClientHearsPlayers ==
  ASSUME WireInv, NEW a \in Address, NEW m \in AnswersTo(a), ReceivePlayers(a, m)
  PROVE  ClientsOK' /\ WireOK(wire') /\ Enters
<1>. DEFINE drawn == ToSet(setListOfPlayers(m.text))
<1>1. drawn \subseteq Place
  BY DrawnPlaces DEF WireInv
<1>2. /\ wire' = Without(wire, m) /\ UNCHANGED <<pc, pseudo, xyPlayer, clientMap>>
      /\ listOfPlayer' = [listOfPlayer EXCEPT ![a] = drawn]
  BY DEF ReceivePlayers
<1>. HIDE DEF drawn
<1>3. ClientsOK'
  BY <1>1, <1>2 DEF ClientsOK, Session!ClientTypeOK, WireInv
<1>. QED
  BY <1>2, <1>3, TakeKeepsWire, NobodyEnters DEF WireInv

LEMMA CommandRead ==
  ASSUME NEW a \in Address, NEW cmd \in Command[a]
  PROVE  Fields(cmd, Colon)[2] \in Pseudo
BY CommandAssumption

LEMMA ClientSends ==
  ASSUME WireInv, NEW a \in Address, NEW copies \in Copies,
         registerPlayer(a, copies) \/ SendConnect(a, copies) \/ SendPosition(a, copies)
  PROVE  ClientsOK' /\ WireOK(wire') /\ Enters
<1>1. WireOK(wire) /\ ClientsOK
  BY DEF WireInv
<1>2. CASE registerPlayer(a, copies)
  <2>1. PICK cmd \in Command[a] :
          Send(Request(a, RegisterText(Fields(cmd, Colon)[2])), copies)
    BY <1>2 DEF registerPlayer
  <2>. DEFINE p == Fields(cmd, Colon)[2]
  <2>2. p \in Pseudo
    BY CommandRead
  <2>. HIDE DEF p
  <2>3. Request(a, RegisterText(p)) \in Requests
    BY <2>2 DEF Requests, RequestText
  <2>4. WireOK(wire')
    BY <1>1, <2>1, <2>3, SendKeepsWire DEF p
  <2>5. UNCHANGED <<player, clientMap>>
    BY <1>2 DEF registerPlayer
  <2>. QED
    BY <1>1, <2>4, <2>5, NobodyEnters DEF ClientsOK, Session!ClientTypeOK, player
<1>3. CASE SendConnect(a, copies)
  <2>1. Request(a, ConnectText(pseudo[a])) \in Requests
    BY <1>1 DEF Requests, RequestText, ClientsOK, Session!ClientTypeOK
  <2>2. WireOK(wire')
    BY <1>1, <1>3, <2>1, SendKeepsWire DEF SendConnect
  <2>. QED
    BY <1>1, <1>3, <2>2, NobodyEnters
       DEF SendConnect, ClientsOK, Session!ClientTypeOK
<1>4. CASE SendPosition(a, copies)
  <2>1. Request(a, PositionText(xyPlayer[a], clientMap[a])) \in Requests
    BY <1>1 DEF Requests, RequestText, ClientsOK, Session!ClientTypeOK
  <2>2. WireOK(wire')
    BY <1>1, <1>4, <2>1, SendKeepsWire DEF SendPosition
  <2>. QED
    BY <1>1, <1>4, <2>2, NobodyEnters
       DEF SendPosition, ClientsOK, Session!ClientTypeOK, player
<1>. QED
  BY <1>2, <1>3, <1>4

LEMMA ClientMoves ==
  ASSUME WireInv, NEW a \in Address,
         \/ Start(a)
         \/ /\ \/ Session!AnswerTimeout(a)
               \/ Session!jeuDeplacement(a)
               \/ Session!Quit(a)
            /\ UNCHANGED <<clientMap, wire>>
  PROVE  ClientsOK' /\ WireOK(wire') /\ Enters
<1>1. WireOK(wire) /\ ClientsOK
  BY DEF WireInv
<1>2. CASE Start(a)
  <2>1. PICK cmd \in Command[a], old \in OldMemory :
          /\ pseudo' = [pseudo EXCEPT ![a] = Fields(cmd, Colon)[2]]
          /\ clientMap' = [clientMap EXCEPT ![a] = old]
          /\ pc' = [pc EXCEPT ![a] = "ask"]
          /\ UNCHANGED <<xyPlayer, listOfPlayer, wire>>
    BY <1>2 DEF Start
  <2>2. Fields(cmd, Colon)[2] \in Pseudo /\ old \in Text
    BY CommandRead, WireAssumption
  <2>. QED
    BY <1>1, <2>1, <2>2, NobodyEnters DEF ClientsOK, Session!ClientTypeOK
<1>3. CASE Session!AnswerTimeout(a) /\ UNCHANGED <<clientMap, wire>>
  BY <1>1, <1>3, NobodyEnters
     DEF Session!AnswerTimeout, ClientsOK, Session!ClientTypeOK
<1>4. CASE Session!jeuDeplacement(a) /\ UNCHANGED <<clientMap, wire>>
  BY <1>1, <1>4, NobodyEnters
     DEF Session!jeuDeplacement, ClientsOK, Session!ClientTypeOK
<1>5. CASE Session!Quit(a) /\ UNCHANGED <<clientMap, wire>>
  BY <1>1, <1>5, NobodyEnters, StartAssumption
     DEF Session!Quit, ClientsOK, Session!ClientTypeOK
<1>. QED
  BY <1>2, <1>3, <1>4, <1>5

LEMMA ClientSteps ==
  ASSUME WireInv, NEW a \in Address, ClientStep(a)
  PROVE  WireInv' /\ NamesKept /\ Enters
<1>1. IInv' /\ NamesKept /\ loop' # "left"
  <2>1. UNCHANGED registryVars
    BY DEF ClientStep
  <2>. QED
    BY <2>1, StepPreserves DEF WireInv, registryVars
<1>2. ClientsOK' /\ WireOK(wire') /\ Enters
  BY ClientHearsAnswer, ClientHearsPlayers, ClientSends, ClientMoves DEF ClientStep
<1>. QED
  BY <1>1, <1>2 DEF WireInv, WireOK

-----------------------------------------------------------------------------
(* Steps of the server.                                                    *)

(***************************************************************************)
(* Whatever a client writes, from whatever map it was led to believe in,   *)
(* is read with all its fields.                                            *)
(***************************************************************************)
LEMMA RequestRead ==
  ASSUME NEW m \in Requests
  PROVE  /\ m.from \in Address
         /\ \/ \E p \in Pseudo : DatagramOf(m.text) = [kind |-> "connect", pseudo |-> p]
            \/ DatagramOf(m.text) = [kind |-> "register"]
            \/ \E place \in Place, map \in Text : DatagramOf(m.text) =
                 [kind |-> "coordinates", place |-> place, map |-> map]
<1>1. PICK a \in Address, text \in RequestText : m = Request(a, text)
  BY DEF Requests
<1>2. m.from = a /\ m.text = text
  BY <1>1 DEF Request
<1>3. CASE \E p \in Pseudo : text = ConnectText(p)
  BY <1>2, <1>3, ConnectRead
<1>4. CASE \E p \in Pseudo : text = RegisterText(p)
  BY <1>2, <1>4, RegisterRead
<1>5. CASE \E place \in Place, map \in Text : text = PositionText(place, map)
  <2>1. PICK place \in Place, map \in Text : text = PositionText(place, map)
    BY <1>5
  <2>2. Fields(map, Colon)[1] \in Text
    BY FieldsType DEF Text
  <2>. QED
    BY <1>2, <2>1, <2>2, PositionRead
<1>6. \/ \E p \in Pseudo : text = ConnectText(p)
      \/ \E p \in Pseudo : text = RegisterText(p)
      \/ \E place \in Place, map \in Text : text = PositionText(place, map)
  BY DEF RequestText
<1>. QED
  BY <1>2, <1>3, <1>4, <1>5, <1>6

(***************************************************************************)
(* A reply is an ACCEPT, or a list that tells of somebody.                 *)
(***************************************************************************)
LEMMA ReplyWritten ==
  ASSUME WireInv, NEW a \in Address, NEW m \in Requests, Serve(a, DatagramOf(m.text)),
         dresseursList' \in Seq(Entry)
  PROVE  /\ loop' # "left"
         /\ sent' # {} => ReplyTo(a, DatagramOf(m.text)) \in Accepts \cup Lists
<1>. DEFINE d == DatagramOf(m.text)
<1>1. CASE \E p \in Pseudo : d = [kind |-> "connect", pseudo |-> p]
  <2>1. d.kind = "connect" /\ connectToIPMON(a, d.pseudo)
    BY <1>1 DEF Serve
  <2>2. loop' = "check" /\ ReplyTo(a, d) = Answer(a, AcceptText, << >>)
    BY <2>1 DEF connectToIPMON, ReplyTo
  <2>. QED
    BY <2>2 DEF Accepts
<1>2. CASE d = [kind |-> "register"]
  <2>1. IgnoredDatagram
    BY <1>2 DEF Serve
  <2>. QED
    BY <2>1 DEF IgnoredDatagram
<1>3. CASE \E place \in Place, map \in Text : d =
             [kind |-> "coordinates", place |-> place, map |-> map]
  <2>. DEFINE told == Told(dresseursList', a, d.map)
  <2>1. d.kind = "coordinates" /\ NewCoordinates(a, d.place, d.map)
    BY <1>3 DEF Serve
  <2>2. loop' = "check" /\ sent' = sendPlayers(dresseursList', a, d.map)
    BY <2>1 DEF NewCoordinates
  <2>3. ReplyTo(a, d) = Answer(a, ListText(told), told)
    BY <2>1 DEF ReplyTo
  <2>. HIDE DEF d
  <2>4. told \in Seq(Player) /\ ToSet(told) = PlayersFor(dresseursList', a, d.map)
    BY ToldGrows, ToldIsPlayersFor
  <2>. HIDE DEF told
  <2>5. sent' # {} => told # << >>
    <3>. SUFFICES ASSUME told = << >> PROVE sent' = {}
      OBVIOUS
    <3>1. ToSet(told) = {}
      BY DEF ToSet
    <3>. QED
      BY <2>2, <2>4, <3>1 DEF sendPlayers
  <2>. QED
    BY <2>2, <2>3, <2>4, <2>5 DEF Lists, d
<1>. QED
  BY <1>1, <1>2, <1>3, RequestRead

LEMMA ServerServes ==
  ASSUME WireInv, NEW a \in Address, NEW copies \in Copies, ServeFrom(a, copies)
  PROVE  WireInv' /\ NamesKept /\ Enters
<1>1. PICK m \in RequestsFrom(a) :
        /\ Serve(a, DatagramOf(m.text))
        /\ wire' = IF sent' = {}
                     THEN Without(wire, m)
                     ELSE With(Without(wire, m), ReplyTo(a, DatagramOf(m.text)), copies)
        /\ UNCHANGED <<player, clientMap>>
  BY DEF ServeFrom
<1>. DEFINE d == DatagramOf(m.text)
            left == Without(wire, m)
            reply == ReplyTo(a, d)
<1>2. m \in Requests
  BY Kinds DEF RequestsFrom, WireInv, WireOK
<1>3. Servable(d)
  <2>1. \/ \E p \in Pseudo : d = [kind |-> "connect", pseudo |-> p]
        \/ d = [kind |-> "register"]
        \/ \E place \in Place, map \in Text :
             d = [kind |-> "coordinates", place |-> place, map |-> map]
    BY <1>2, RequestRead
  <2>. HIDE DEF d
  <2>2. CASE \E p \in Pseudo : d = [kind |-> "connect", pseudo |-> p]
    BY <2>2 DEF Servable
  <2>3. CASE d = [kind |-> "register"]
    <3>1. d.kind = "register"
      BY <2>3
    <3>. QED
      BY <3>1 DEF Servable
  <2>4. CASE \E place \in Place, map \in Text :
               d = [kind |-> "coordinates", place |-> place, map |-> map]
    <3>1. PICK place \in Place, map \in Text :
            d = [kind |-> "coordinates", place |-> place, map |-> map]
      BY <2>4
    <3>2. d.kind = "coordinates" /\ d.place = place
      BY <3>1
    <3>. QED
      BY <3>2 DEF Servable
  <2>. QED
    BY <2>1, <2>2, <2>3, <2>4
<1>. HIDE DEF d
<1>4. RegistryTypeOK' /\ ListPreserved
  BY <1>1, <1>3, ServePreserves DEF WireInv, d
<1>5. loop' # "left" /\ (sent' # {} => reply \in Accepts \cup Lists)
  BY <1>1, <1>2, <1>4, ReplyWritten DEF ListPreserved, d
<1>6. WireOK(left)
  BY TakeKeepsWire DEF WireInv
<1>. HIDE DEF left, reply
<1>7. WireOK(wire')
  <2>1. CASE sent' = {}
    BY <1>1, <1>6, <2>1 DEF left
  <2>2. CASE sent' # {}
    <3>1. wire' = With(left, reply, copies)
      BY <1>1, <2>2 DEF left, reply, d
    <3>. QED
      BY <1>5, <1>6, <2>2, <3>1, WithBag DEF WireOK
  <2>. QED
    BY <2>1, <2>2
<1>8. ClientsOK' /\ Enters
  BY <1>1, NobodyEnters DEF WireInv, ClientsOK, Session!ClientTypeOK, player
<1>. QED
  BY <1>4, <1>5, <1>7, <1>8 DEF WireInv, WireOK, IInv, ListPreserved

LEMMA WireStep ==
  ASSUME WireInv, [WireNext]_wireVars
  PROVE  WireInv' /\ [NamesKept]_registryVars /\ [Enters]_wireVars
<1>1. CASE \E a \in Address : ClientStep(a)
  BY <1>1, ClientSteps
<1>2. CASE \E a \in Address, copies \in Copies : ServeFrom(a, copies)
  BY <1>2, ServerServes
<1>3. CASE (ServeNothing \/ Check \/ ClockTick) /\ UNCHANGED <<player, clientMap, wire>>
  <2>1. IInv' /\ NamesKept
    BY <1>3, StepPreserves DEF WireInv, RegistryNext
  <2>2. loop' # "left"
    BY <1>3 DEF WireInv, ServeNothing, IgnoredDatagram, Check, ClockTick
  <2>3. ClientsOK' /\ WireOK(wire') /\ Enters
    BY <1>3, NobodyEnters DEF WireInv, WireOK, ClientsOK, Session!ClientTypeOK, player
  <2>. QED
    BY <2>1, <2>2, <2>3 DEF WireInv, WireOK
<1>4. CASE UNCHANGED wireVars
  <2>1. UNCHANGED registryVars /\ UNCHANGED <<player, clientMap, wire>>
    BY <1>4 DEF wireVars
  <2>2. IInv'
    BY <2>1, StepPreserves DEF WireInv
  <2>. QED
    BY <1>4, <2>1, <2>2
       DEF WireInv, WireOK, ClientsOK, Session!ClientTypeOK, player, registryVars
<1>. QED
  BY <1>1, <1>2, <1>3, <1>4 DEF WireNext, ServerStep

-----------------------------------------------------------------------------

(***************************************************************************)
(* The invariant of the texts: what is under way was written by somebody   *)
(* of the protocol, and the server reads all of it without leaving its     *)
(* loop.                                                                   *)
(***************************************************************************)
THEOREM WireInvariance == WireSpec => []WireInv
<1>1. WireInit => WireInv
  <2>. SUFFICES ASSUME WireInit PROVE WireInv
    OBVIOUS
  <2>1. IInv /\ loop # "left"
    BY EmptySeq DEF WireInit, RegistryInit, IInv, RegistryTypeOK,
                    UniquePseudo, ShadowedNeverMoves
  <2>2. ClientsOK
    <3>1. << >> \in Text
      BY DEF Text
    <3>. QED
      BY <3>1, StartAssumption DEF WireInit, ClientsOK, Session!ClientTypeOK
  <2>3. WireOK(wire)
    BY DEF WireInit, WireOK, EmptyBag, SetToBag, IsABag, BagToSet
  <2>. QED
    BY <2>1, <2>2, <2>3 DEF WireInv
<1>2. WireInv /\ [WireNext]_wireVars => WireInv'
  BY WireStep
<1>. QED
  BY <1>1, <1>2, PTL DEF WireSpec

(***************************************************************************)
(* Of every list under way setListOfPlayers makes the places the server    *)
(* meant, in its order, up to the first player whose name holds a plus,    *)
(* and nothing else, for all names, maps and lengths of the list.          *)
(***************************************************************************)
THEOREM ListsReadAsMeant == WireSpec => []ListReadAsMeant
<1>1. WireInv => ListReadAsMeant
  <2>. SUFFICES ASSUME WireInv, NEW m \in BagToSet(wire), ~IsRequest(m), m.told # << >>
                PROVE  setListOfPlayers(m.text) =
                         [i \in PlainPrefix(m.told) |-> m.told[i].place]
    BY DEF ListReadAsMeant, PlainPrefix
  <2>1. m \in Accepts \cup Lists
    BY Kinds DEF WireInv, WireOK
  <2>2. m \notin Accepts
    BY DEF Accepts, Answer
  <2>3. PICK b \in Address, told \in Seq(Player) \ {<< >>} :
          m = Answer(b, ListText(told), told)
    BY <2>1, <2>2 DEF Lists
  <2>4. m.told = told /\ m.text = ListText(told)
    BY <2>3 DEF Answer
  <2>. QED
    BY <2>4, ListMeant
<1>. QED
  BY <1>1, WireInvariance, PTL

(***************************************************************************)
(* connectPlayerToIPMON lets a client in on an ACCEPT, at the start place  *)
(* and on the start map, or else on a list whose first player has a name   *)
(* that strtol reads as 1, at the place of that player.                    *)
(***************************************************************************)
THEOREM EnteredByAccept == WireSpec => EntersOnlyByAccept
<1>1. WireInv /\ [WireNext]_wireVars
        => [\A a \in Address : (pc[a] = "wait" /\ pc'[a] = "play") =>
              \E m \in AnswersTo(a) :
                /\ wire' = Without(wire, m)
                /\ \/ m.told = << >> /\ xyPlayer'[a] = StartPlace /\ clientMap'[a] = StartMap
                   \/ ReadsAsAccept(m.told) /\ xyPlayer'[a] = m.told[1].place]_wireVars
  BY WireStep DEF Enters
<1>. QED
  BY <1>1, WireInvariance, PTL DEF WireSpec, EntersOnlyByAccept

(***************************************************************************)
(* No text a client sends makes processItemsInCircularBuffer leave its     *)
(* loop, whatever map a misread list made the client believe in.           *)
(***************************************************************************)
THEOREM TextsKeepServing == WireSpec => []Session!ServerKeepsServing
<1>1. WireInv => Session!ServerKeepsServing
  BY DEF WireInv, Session!ServerKeepsServing
<1>. QED
  BY <1>1, WireInvariance, PTL

(***************************************************************************)
(* A name stands for one player at one address, also for the names that    *)
(* strsep cuts out of the requests.                                        *)
(***************************************************************************)
THEOREM TextsKeepNames == WireSpec => []UniquePseudo /\ NameKeepsAddress
<1>1. WireInv => UniquePseudo
  BY DEF WireInv, IInv
<1>2. WireInv /\ [WireNext]_wireVars
        => [\A i \in DOMAIN dresseursList, j \in DOMAIN dresseursList' :
              dresseursList[i].pseudo = dresseursList'[j].pseudo
                => /\ dresseursList[i].addr = dresseursList'[j].addr
                   /\ j <= i]_registryVars
  BY WireStep DEF NamesKept
<1>. QED
  BY <1>1, <1>2, WireInvariance, PTL DEF WireSpec, NameKeepsAddress

-----------------------------------------------------------------------------
(* The network of IpmonSession: what the readers make of what is under     *)
(* way.  A copy that comes or goes is one that comes or goes there.        *)

OneMore(net, m) ==
  [x \in DOMAIN net \cup {m} |-> Many(net, x) + (IF x = m THEN 1 ELSE 0)]

LEMMA WithOne == ASSUME NEW net, NEW m PROVE With(net, m, 1) = OneMore(net, m)
<1>. DEFINE b == [x \in {m} |-> 1]
<1>1. With(net, m, 1) = net (+) b
  BY DEF With
<1>2. DOMAIN b = {m} /\ b[m] = 1
  OBVIOUS
<1>. HIDE DEF b
<1>3. net (+) b = [x \in DOMAIN net \cup {m} |->
                     Many(net, x) + (IF x \in {m} THEN b[x] ELSE 0)]
  BY <1>2 DEF (+), Many
<1>4. \A x : (IF x \in {m} THEN b[x] ELSE 0) = IF x = m THEN 1 ELSE 0
  BY <1>2
<1>5. OneMore(net, m) = [x \in DOMAIN net \cup {m} |->
                           Many(net, x) + (IF x = m THEN 1 ELSE 0)]
  BY DEF OneMore
<1>. QED
  BY <1>1, <1>3, <1>4, <1>5

LEMMA WithTwo ==
  ASSUME NEW net, IsABag(net), NEW m
  PROVE  With(net, m, 2) = With(With(net, m, 1), m, 1)
<1>. DEFINE one == With(net, m, 1)
            two == With(net, m, 2)
            b == [x \in {m} |-> 2]
            D == DOMAIN net \cup {m}
<1>1. \A x \in DOMAIN net : net[x] \in Nat
  BY BagValues
<1>2. two = net (+) b /\ DOMAIN b = {m} /\ b[m] = 2
  BY DEF With
<1>. HIDE DEF b, two
<1>3. two = [x \in D |-> Many(net, x) + (IF x \in {m} THEN b[x] ELSE 0)]
  BY <1>2 DEF (+), Many
<1>4. one = [x \in D |-> Many(net, x) + (IF x = m THEN 1 ELSE 0)]
  <2>1. one = OneMore(net, m)
    BY WithOne
  <2>. HIDE DEF one
  <2>. QED
    BY <2>1 DEF OneMore
<1>5. With(one, m, 1) = [x \in DOMAIN one \cup {m} |->
                           Many(one, x) + (IF x = m THEN 1 ELSE 0)]
  <2>. HIDE DEF one
  <2>1. With(one, m, 1) = OneMore(one, m)
    BY WithOne
  <2>. QED
    BY <2>1 DEF OneMore
<1>. HIDE DEF one
<1>6. \A x \in D : Many(net, x) \in Nat /\ Many(one, x) = one[x]
  BY <1>1, <1>4 DEF Many
<1>7. DOMAIN one \cup {m} = D
  BY <1>4
<1>8. \A x \in D : Many(net, x) + (IF x \in {m} THEN b[x] ELSE 0)
                     = Many(one, x) + (IF x = m THEN 1 ELSE 0)
  BY <1>2, <1>4, <1>6
<1>. QED
  BY <1>3, <1>5, <1>7, <1>8 DEF one, two

LEMMA BackIn ==
  ASSUME NEW net, IsABag(net), NEW m \in BagToSet(net)
  PROVE  With(Without(net, m), m, 1) = net
<1>. DEFINE w == Without(net, m)
            left == [x \in DOMAIN net |-> IF x = m THEN net[x] - 1 ELSE net[x]]
            D == {y \in DOMAIN net : left[y] > 0}
<1>1. m \in DOMAIN net /\ \A x \in DOMAIN net : net[x] \in Nat /\ net[x] > 0
  BY BagValues DEF BagToSet
<1>2. w = [x \in D |-> left[x]]
  BY WithoutOne
<1>3. With(w, m, 1) = [x \in DOMAIN w \cup {m} |->
                         Many(w, x) + (IF x = m THEN 1 ELSE 0)]
  <2>. HIDE DEF w
  <2>1. With(w, m, 1) = OneMore(w, m)
    BY WithOne
  <2>. QED
    BY <2>1 DEF OneMore
<1>. HIDE DEF w
<1>4. DOMAIN w \cup {m} = DOMAIN net
  BY <1>1, <1>2
<1>5. \A x \in DOMAIN net : Many(w, x) + (IF x = m THEN 1 ELSE 0) = net[x]
  BY <1>1, <1>2 DEF Many
<1>6. net = [x \in DOMAIN net |-> net[x]]
  BY DEF IsABag
<1>7. With(w, m, 1) = [x \in DOMAIN net |-> net[x]]
  BY <1>3, <1>4, <1>5
<1>. QED
  BY <1>6, <1>7 DEF w

LEMMA BackOut ==
  ASSUME NEW net, IsABag(net), NEW m
  PROVE  Without(With(net, m, 1), m) = net
<1>. DEFINE w == With(net, m, 1)
            left == [x \in DOMAIN w |-> IF x = m THEN w[x] - 1 ELSE w[x]]
            D == {y \in DOMAIN w : left[y] > 0}
<1>1. \A x \in DOMAIN net : net[x] \in Nat /\ net[x] > 0
  BY BagValues
<1>2. w = [x \in DOMAIN net \cup {m} |-> Many(net, x) + (IF x = m THEN 1 ELSE 0)]
  <2>1. w = OneMore(net, m)
    BY WithOne
  <2>. HIDE DEF w
  <2>. QED
    BY <2>1 DEF OneMore
<1>3. Without(w, m) = [x \in D |-> left[x]]
  BY WithoutOne
<1>. HIDE DEF w
<1>4. DOMAIN w = DOMAIN net \cup {m} /\ \A x \in DOMAIN w : left[x] = Many(net, x)
  <2>1. \A x \in DOMAIN net \cup {m} : Many(net, x) \in Nat
    BY <1>1 DEF Many
  <2>. QED
    BY <1>2, <2>1
<1>. HIDE DEF left
<1>5. D = DOMAIN net /\ \A x \in D : left[x] = net[x]
  BY <1>1, <1>4 DEF Many
<1>6. net = [x \in DOMAIN net |-> net[x]]
  BY DEF IsABag
<1>7. Without(w, m) = [x \in DOMAIN net |-> net[x]]
  BY <1>3, <1>5
<1>. QED
  BY <1>6, <1>7 DEF w

Read(net) == {<<c, Understood(c[1])>> : c \in Each(net)}
ReadAs(net, d) == {r \in Read(net) : r[2] = d}
Counted(net) == IsABag(net) /\ IsFiniteSet(Read(net))

IsFunction(f) == f = [x \in DOMAIN f |-> f[x]]

LEMMA ReadingIs ==
  ASSUME NEW net
  PROVE  /\ \A d : d \in DOMAIN Reading(net) <=> \E r \in Read(net) : r[2] = d
         /\ \A d \in DOMAIN Reading(net) : Reading(net)[d] = Cardinality(ReadAs(net, d))
         /\ IsFunction(Reading(net))
BY DEF Reading, Read, ReadAs, IsFunction

LEMMA InEach ==
  ASSUME NEW net
  PROVE  /\ \A m, i : <<m, i>> \in Each(net) <=> m \in DOMAIN net /\ i \in 1..net[m]
         /\ \A e \in Each(net) : e = <<e[1], e[2]>>
BY DEF Each, BagToSet

LEMMA ReadMore ==
  ASSUME NEW net, IsABag(net), NEW m
  PROVE  LET new == <<<<m, Many(net, m) + 1>>, Understood(m)>>
         IN /\ Read(With(net, m, 1)) = Read(net) \cup {new}
            /\ new \notin Read(net) /\ new[2] = Understood(m)
<1>. DEFINE w == With(net, m, 1)
            c == <<m, Many(net, m) + 1>>
<1>1. \A x \in DOMAIN net : net[x] \in Nat /\ net[x] > 0
  BY BagValues
<1>2. w = [x \in DOMAIN net \cup {m} |-> Many(net, x) + (IF x = m THEN 1 ELSE 0)]
  <2>1. w = OneMore(net, m)
    BY WithOne
  <2>. HIDE DEF w
  <2>. QED
    BY <2>1 DEF OneMore
<1>. HIDE DEF w
<1>3. \A x, i : <<x, i>> \in Each(w) <=> (<<x, i>> \in Each(net) \/ <<x, i>> = c)
  <2>. SUFFICES ASSUME NEW x, NEW i
                PROVE  (x \in DOMAIN w /\ i \in 1..w[x])
                         <=> ((x \in DOMAIN net /\ i \in 1..net[x])
                                \/ (x = m /\ i = Many(net, m) + 1))
    BY InEach
  <2>1. CASE x # m
    BY <1>1, <1>2, <2>1 DEF Many
  <2>2. CASE x = m /\ m \in DOMAIN net
    <3>1. w[m] = net[m] + 1 /\ net[m] \in Nat /\ Many(net, m) = net[m] /\ m \in DOMAIN w
      BY <1>1, <1>2, <2>2 DEF Many
    <3>. QED
      BY <2>2, <3>1
  <2>3. CASE x = m /\ m \notin DOMAIN net
    <3>1. w[m] = 1 /\ Many(net, m) = 0 /\ m \in DOMAIN w
      BY <1>2, <2>3 DEF Many
    <3>. QED
      BY <2>3, <3>1
  <2>. QED
    BY <2>1, <2>2, <2>3
<1>4. <<m, Many(net, m) + 1>> \notin Each(net)
  <2>1. m \in DOMAIN net => Many(net, m) = net[m] /\ net[m] \in Nat
    BY <1>1 DEF Many
  <2>. QED
    BY <2>1, InEach
<1>. HIDE DEF c
<1>5. Each(w) = Each(net) \cup {c}
  <2>1. \A e \in Each(w) : e \in Each(net) \/ e = c
    BY <1>3, InEach
  <2>2. \A e \in Each(net) : e \in Each(w)
    BY <1>3, InEach
  <2>3. c \in Each(w)
    BY <1>3 DEF c
  <2>. QED
    BY <2>1, <2>2, <2>3
<1>6. c[1] = m /\ c \notin Each(net)
  BY <1>4 DEF c
<1>7. Read(w) = Read(net) \cup {<<c, Understood(m)>>}
  BY <1>5, <1>6 DEF Read
<1>8. <<c, Understood(m)>> \notin Read(net)
  BY <1>6 DEF Read
<1>. QED
  BY <1>7, <1>8 DEF c, w

LEMMA ManyRead ==
  ASSUME NEW net, Counted(net)
  PROVE  /\ \A d : /\ IsFiniteSet(ReadAs(net, d))
                   /\ Cardinality(ReadAs(net, d)) \in Nat
                   /\ Many(Reading(net), d) = Cardinality(ReadAs(net, d))
         /\ \A d \in DOMAIN Reading(net) : Cardinality(ReadAs(net, d)) > 0
<1>1. \A d : IsFiniteSet(ReadAs(net, d))
  <2>1. \A d : ReadAs(net, d) \in SUBSET Read(net)
    BY DEF ReadAs
  <2>. QED
    BY <2>1, FS_Subset DEF Counted
<1>2. \A d : Cardinality(ReadAs(net, d)) \in Nat
  BY <1>1, FS_CardinalityType
<1>3. \A d : d \in DOMAIN Reading(net) <=> ReadAs(net, d) # {}
  BY ReadingIs DEF ReadAs
<1>4. \A d : Cardinality(ReadAs(net, d)) = 0 <=> ReadAs(net, d) = {}
  BY <1>1, FS_EmptySet
<1>5. \A d : Many(Reading(net), d) = Cardinality(ReadAs(net, d))
  BY <1>3, <1>4, ReadingIs DEF Many
<1>. QED
  BY <1>1, <1>2, <1>3, <1>4, <1>5

LEMMA ReadingMore ==
  ASSUME NEW net, Counted(net), NEW m
  PROVE  /\ Counted(With(net, m, 1))
         /\ Reading(With(net, m, 1)) = With(Reading(net), Understood(m), 1)
<1>. DEFINE w == With(net, m, 1)
            u == Understood(m)
            new == <<<<m, Many(net, m) + 1>>, u>>
            R == Reading(net)
<1>1. Read(w) = Read(net) \cup {new} /\ new \notin Read(net) /\ new[2] = u
  BY ReadMore DEF Counted
<1>2. IsABag(w)
  BY WithBag DEF Counted, Copies
<1>. HIDE DEF w, new, u
<1>3. Counted(w)
  BY <1>1, <1>2, FS_AddElement DEF Counted
<1>4. \A d : ReadAs(w, d) = IF d = u THEN ReadAs(net, d) \cup {new} ELSE ReadAs(net, d)
  BY <1>1 DEF ReadAs
<1>5. \A d : Cardinality(ReadAs(w, d))
               = Cardinality(ReadAs(net, d)) + (IF d = u THEN 1 ELSE 0)
  <2>1. \A d : IsFiniteSet(ReadAs(net, d)) /\ Cardinality(ReadAs(net, d)) \in Nat
    BY ManyRead
  <2>2. new \notin ReadAs(net, u)
    BY <1>1 DEF ReadAs
  <2>3. Cardinality(ReadAs(net, u) \cup {new}) = Cardinality(ReadAs(net, u)) + 1
    BY <2>1, <2>2, FS_AddElement
  <2>4. ASSUME NEW d
        PROVE  Cardinality(ReadAs(w, d))
                 = Cardinality(ReadAs(net, d)) + (IF d = u THEN 1 ELSE 0)
    <3>1. CASE d = u
      BY <1>4, <2>3, <3>1
    <3>2. CASE d # u
      <4>1. ReadAs(w, d) = ReadAs(net, d)
        BY <1>4, <3>2
      <4>2. Cardinality(ReadAs(net, d)) \in Nat
        BY <2>1
      <4>. QED
        BY <3>2, <4>1, <4>2
    <3>. QED
      BY <3>1, <3>2
  <2>. QED
    BY <2>4
<1>6. DOMAIN Reading(w) = DOMAIN R \cup {u}
  <2>1. \A d : d \in DOMAIN Reading(w) <=> d \in DOMAIN R \/ d = u
    BY <1>1, ReadingIs
  <2>. HIDE DEF R
  <2>. QED
    BY <2>1
<1>7. Reading(w) = [d \in DOMAIN R \cup {u} |-> Many(R, d) + (IF d = u THEN 1 ELSE 0)]
  <2>1. \A d \in DOMAIN R \cup {u} :
          Reading(w)[d] = Many(R, d) + (IF d = u THEN 1 ELSE 0)
    BY <1>5, <1>6, ReadingIs, ManyRead
  <2>2. Reading(w) = [d \in DOMAIN R \cup {u} |-> Reading(w)[d]]
    BY <1>6, ReadingIs DEF IsFunction
  <2>. HIDE DEF R
  <2>. QED
    BY <2>1, <2>2
<1>8. Reading(w) = OneMore(R, u)
  BY <1>7 DEF OneMore
<1>9. With(R, u, 1) = OneMore(R, u)
  BY WithOne
<1>. QED
  BY <1>3, <1>8, <1>9 DEF w, u

LEMMA ReadingBag ==
  ASSUME NEW net, Counted(net)
  PROVE  /\ IsABag(Reading(net))
         /\ \A m \in BagToSet(net) : Understood(m) \in BagToSet(Reading(net))
<1>1. IsABag(Reading(net))
  <2>1. \A d \in DOMAIN Reading(net) : Reading(net)[d] \in {n \in Nat : n > 0}
    BY ReadingIs, ManyRead
  <2>2. Reading(net) = [d \in DOMAIN Reading(net) |-> Reading(net)[d]]
    BY ReadingIs DEF IsFunction
  <2>. QED
    BY <2>1, <2>2 DEF IsABag
<1>2. ASSUME NEW m \in DOMAIN net PROVE Understood(m) \in DOMAIN Reading(net)
  <2>1. net[m] \in Nat /\ net[m] > 0
    BY BagValues DEF Counted
  <2>2. <<m, 1>> \in Each(net)
    BY <2>1, InEach
  <2>3. <<<<m, 1>>, Understood(m)>> \in Read(net)
    BY <2>2 DEF Read
  <2>. QED
    BY <2>3, ReadingIs
<1>. QED
  BY <1>1, <1>2 DEF BagToSet

LEMMA ReadingLess ==
  ASSUME NEW net, Counted(net), NEW m \in BagToSet(net)
  PROVE  /\ Counted(Without(net, m))
         /\ Reading(Without(net, m)) = Without(Reading(net), Understood(m))
<1>. DEFINE w == Without(net, m)
            u == Understood(m)
<1>1. IsABag(w) /\ With(w, m, 1) = net
  BY WithoutBag, BackIn DEF Counted
<1>. HIDE DEF w
<1>2. Read(w) \subseteq Read(net)
  BY <1>1, ReadMore
<1>3. Counted(w)
  BY <1>1, <1>2, FS_Subset DEF Counted
<1>4. Reading(net) = With(Reading(w), u, 1)
  BY <1>1, <1>3, ReadingMore
<1>5. IsABag(Reading(w))
  BY <1>3, ReadingBag
<1>. HIDE DEF u
<1>6. Without(With(Reading(w), u, 1), u) = Reading(w)
  BY <1>5, BackOut
<1>. QED
  BY <1>3, <1>4, <1>6 DEF w, u

LEMMA ReadingWith ==
  ASSUME NEW net, Counted(net), NEW m, NEW copies \in Copies
  PROVE  /\ Counted(With(net, m, copies))
         /\ Reading(With(net, m, copies)) = With(Reading(net), Understood(m), copies)
<1>. DEFINE u == Understood(m)
            one == With(net, m, 1)
<1>1. CASE copies = 0
  BY <1>1 DEF With
<1>2. CASE copies = 1
  BY <1>2, ReadingMore
<1>3. CASE copies = 2
  <2>1. Counted(one) /\ Reading(one) = With(Reading(net), u, 1)
    BY ReadingMore
  <2>2. With(net, m, 2) = With(one, m, 1)
    BY WithTwo DEF Counted
  <2>. HIDE DEF one
  <2>3. Counted(With(one, m, 1)) /\ Reading(With(one, m, 1)) = With(Reading(one), u, 1)
    BY <2>1, ReadingMore
  <2>. HIDE DEF u
  <2>4. With(Reading(net), u, 2) = With(With(Reading(net), u, 1), u, 1)
    BY ReadingBag, WithTwo
  <2>5. Reading(With(net, m, 2)) = With(Reading(net), u, 2)
    BY <2>1, <2>2, <2>3, <2>4
  <2>. QED
    BY <1>3, <2>2, <2>3, <2>5 DEF u
<1>. QED
  BY <1>1, <1>2, <1>3 DEF Copies

LEMMA SameUnderWay ==
  ASSUME NEW net, Counted(net)
  PROVE  UnderWay(Reading(net)) = UnderWay(net)
<1>. DEFINE R == Reading(net)
            G == [r \in Read(net) |-> r[1]]
            B == [d \in DOMAIN R |-> CHOOSE f : f \in Bijection(1..R[d], ReadAs(net, d))]
            F == [e \in Each(R) |-> B[e[1]][e[2]]]
<1>1. Cardinality(Each(net)) = Cardinality(Read(net))
  <2>1. G \in [Read(net) -> Each(net)]
    BY DEF Read
  <2>2. \A r, s \in Read(net) : G[r] = G[s] => r = s
    BY DEF Read
  <2>3. ASSUME NEW c \in Each(net) PROVE \E r \in Read(net) : G[r] = c
    <3>1. <<c, Understood(c[1])>> \in Read(net)
      BY DEF Read
    <3>2. G[<<c, Understood(c[1])>>] = c
      BY <3>1
    <3>. QED
      BY <3>1, <3>2
  <2>. HIDE DEF G
  <2>4. G \in Bijection(Read(net), Each(net))
    BY <2>1, <2>2, <2>3, Fun_IsBij
  <2>5. ExistsBijection(Read(net), Each(net))
    BY <2>4 DEF ExistsBijection
  <2>. QED
    BY <2>5, FS_Bijection DEF Counted
<1>2. \A d \in DOMAIN R : R[d] \in Nat /\ R[d] = Cardinality(ReadAs(net, d))
  BY ReadingIs, ManyRead
<1>3. \A d \in DOMAIN R : B[d] \in Bijection(1..R[d], ReadAs(net, d))
  <2>1. ASSUME NEW d \in DOMAIN R
        PROVE  \E f : f \in Bijection(1..R[d], ReadAs(net, d))
    <3>1. IsFiniteSet(ReadAs(net, d))
      BY ManyRead
    <3>2. ExistsBijection(1..Cardinality(ReadAs(net, d)), ReadAs(net, d))
      BY <3>1, FS_CardinalityType
    <3>. HIDE DEF R
    <3>. QED
      BY <1>2, <3>2 DEF ExistsBijection
  <2>. HIDE DEF R
  <2>. QED
    BY <2>1
<1>4. \A d \in DOMAIN R :
        /\ B[d] \in [1..R[d] -> ReadAs(net, d)]
        /\ \A i, j \in 1..R[d] : B[d][i] = B[d][j] => i = j
        /\ \A r \in ReadAs(net, d) : \E i \in 1..R[d] : B[d][i] = r
  <2>. HIDE DEF R, B
  <2>. SUFFICES ASSUME NEW d \in DOMAIN R
                PROVE  /\ B[d] \in [1..R[d] -> ReadAs(net, d)]
                       /\ \A i, j \in 1..R[d] : B[d][i] = B[d][j] => i = j
                       /\ \A r \in ReadAs(net, d) : \E i \in 1..R[d] : B[d][i] = r
    OBVIOUS
  <2>. DEFINE f == B[d]
              S == 1..R[d]
              T == ReadAs(net, d)
  <2>1. f \in Bijection(S, T)
    BY <1>3
  <2>. HIDE DEF f, S, T
  <2>2. f \in [S -> T]
    BY <2>1 DEF Bijection, Injection
  <2>3. \A i, j \in S : f[i] = f[j] => i = j
    BY <2>1, <2>2 DEF Bijection, Injection, IsInjective
  <2>4. \A r \in T : \E i \in S : f[i] = r
    BY <2>1 DEF Bijection, Surjection
  <2>. QED
    BY <2>2, <2>3, <2>4 DEF f, S, T
<1>5. /\ \A d \in DOMAIN R : \A i \in 1..R[d] : <<d, i>> \in Each(R)
      /\ \A e \in Each(R) : e = <<e[1], e[2]>> /\ e[1] \in DOMAIN R /\ e[2] \in 1..R[e[1]]
  <2>. HIDE DEF R
  <2>1. \A e \in Each(R) : e = <<e[1], e[2]>>
    BY InEach
  <2>2. \A m, i : <<m, i>> \in Each(R) <=> m \in DOMAIN R /\ i \in 1..R[m]
    BY InEach
  <2>. QED
    BY <2>1, <2>2
<1>6. \A d \in DOMAIN R : \A r \in ReadAs(net, d) : r \in Read(net) /\ r[2] = d
  BY DEF ReadAs
<1>7. \A r \in Read(net) : r[2] \in DOMAIN R /\ r \in ReadAs(net, r[2])
  BY ReadingIs DEF ReadAs
<1>. HIDE DEF R, B
<1>8. ASSUME NEW e \in Each(R) PROVE F[e] \in ReadAs(net, e[1])
  <2>1. e[1] \in DOMAIN R /\ e[2] \in 1..R[e[1]]
    BY <1>5
  <2>2. B[e[1]] \in [1..R[e[1]] -> ReadAs(net, e[1])]
    BY <1>4, <2>1
  <2>3. F[e] = B[e[1]][e[2]]
    OBVIOUS
  <2>. HIDE DEF F
  <2>. QED
    BY <2>1, <2>2, <2>3
<1>9. F \in [Each(R) -> Read(net)]
  BY <1>5, <1>6, <1>8
<1>10. ASSUME NEW e \in Each(R), NEW g \in Each(R), F[e] = F[g] PROVE e = g
  <2>1. e[1] = g[1]
    BY <1>5, <1>6, <1>8, <1>10
  <2>2. e[2] = g[2]
    BY <1>4, <1>5, <1>10, <2>1
  <2>. QED
    BY <1>5, <2>1, <2>2
<1>11. ASSUME NEW r \in Read(net) PROVE \E e \in Each(R) : F[e] = r
  <2>1. PICK i \in 1..R[r[2]] : B[r[2]][i] = r
    BY <1>4, <1>7
  <2>2. <<r[2], i>> \in Each(R)
    BY <1>5, <1>7
  <2>. QED
    BY <2>1, <2>2
<1>. HIDE DEF F
<1>12. F \in Bijection(Each(R), Read(net))
  BY <1>9, <1>10, <1>11, Fun_IsBij
<1>13. ExistsBijection(Read(net), Each(R))
  BY <1>12, Fun_ExistsBijSymmetric DEF ExistsBijection
<1>14. Cardinality(Each(R)) = Cardinality(Read(net))
  BY <1>13, FS_Bijection DEF Counted
<1>. QED
  BY <1>1, <1>14 DEF UnderWay, R

-----------------------------------------------------------------------------
(* IpmonSession uses the same network and the same server.                 *)

LEMMA SessionNetwork ==
  /\ \A net, m, copies : Session!With(net, m, copies) = With(net, m, copies)
  /\ \A net, m : Session!Without(net, m) = Without(net, m)
  /\ \A net : Session!BagToSet(net) = BagToSet(net)
  /\ \A net : Session!UnderWay(net) = UnderWay(net)
  /\ \A net, m : Session!BagIn(m, net) <=> m \in BagToSet(net)
  /\ Session!EmptyBag = EmptyBag
  /\ Session!Copies = Copies
<1>1. \A net, m, copies : Session!With(net, m, copies) = With(net, m, copies)
  BY DEF Session!With, With, Session!(+), (+), Session!BagToSet, BagToSet
<1>2. \A net, m : Session!Without(net, m) = Without(net, m)
  BY DEF Session!Without, Without, Session!(-), (-), Session!SetToBag, SetToBag, Session!BagToSet, BagToSet
<1>3. \A net : Session!BagToSet(net) = BagToSet(net)
  BY DEF Session!BagToSet, BagToSet
<1>4. \A net : Session!UnderWay(net) = UnderWay(net)
  BY DEF Session!UnderWay, UnderWay, Session!Each, Each, Session!Cardinality, Cardinality, Session!IsFiniteSet, IsFiniteSet, Session!BagToSet, BagToSet
<1>5. \A net, m : Session!BagIn(m, net) <=> m \in BagToSet(net)
  BY DEF Session!BagIn, Session!BagToSet, BagToSet
<1>6. Session!EmptyBag = EmptyBag
  BY DEF Session!EmptyBag, EmptyBag, Session!SetToBag, SetToBag
<1>7. Session!Copies = Copies
  BY DEF Session!Copies, Copies
<1>. QED
  BY <1>1, <1>2, <1>3, <1>4, <1>5, <1>6, <1>7

LEMMA SessionServer ==
  /\ Session!RegistryInit <=> RegistryInit
  /\ \A a, d : Session!Serve(a, d) <=> Serve(a, d)
  /\ Session!ServeNothing <=> ServeNothing
  /\ Session!Check <=> Check
  /\ Session!ClockTick <=> ClockTick
<1>1. Session!RegistryInit <=> RegistryInit
  BY DEF Session!RegistryInit, RegistryInit
<1>2. \A a, d : Session!Serve(a, d) <=> Serve(a, d)
  BY DEF Session!Serve, Serve, Session!connectToIPMON, connectToIPMON, Session!addPlayer, addPlayer,
     Session!searchDresseurPseudo, searchDresseurPseudo, Session!accept, accept,
     Session!NewCoordinates, NewCoordinates, Session!newPositionOfPlayer, newPositionOfPlayer, Session!FirstAt, FirstAt,
     Session!sendPlayers, sendPlayers, Session!PlayersFor, PlayersFor,
     Session!CoordinatesWithoutMap, CoordinatesWithoutMap,
     Session!CoordinatesWithoutY, CoordinatesWithoutY, 
     Session!IgnoredDatagram, IgnoredDatagram
<1>3. Session!ServeNothing <=> ServeNothing
  BY DEF Session!ServeNothing, ServeNothing, Session!IgnoredDatagram, IgnoredDatagram
<1>4. Session!Check <=> Check
  BY DEF Session!Check, Check, Session!checkConnectionOfPlayers, checkConnectionOfPlayers, Session!Expired, Expired,
     Session!Elapsed, Elapsed, Session!RemoveAt, RemoveAt
<1>5. Session!ClockTick <=> ClockTick
  BY DEF Session!ClockTick, ClockTick, Session!Older, Older
<1>. QED
  BY <1>1, <1>2, <1>3, <1>4, <1>5

-----------------------------------------------------------------------------
(* The steps of IpmonSession.                                              *)

ReadInv == network = Reading(wire) /\ Counted(wire)

LEMMA NothingRead == Counted(EmptyBag) /\ Reading(EmptyBag) = EmptyBag
<1>1. IsABag(EmptyBag) /\ DOMAIN EmptyBag = {} /\ IsFunction(EmptyBag)
  BY DEF EmptyBag, SetToBag, IsABag, BagToSet, IsFunction
<1>2. Read(EmptyBag) = {}
  BY <1>1, InEach DEF Read
<1>3. Counted(EmptyBag)
  BY <1>1, <1>2, FS_EmptySet DEF Counted
<1>4. DOMAIN Reading(EmptyBag) = {} /\ IsFunction(Reading(EmptyBag))
  BY <1>2, ReadingIs
<1>. QED
  BY <1>1, <1>3, <1>4 DEF IsFunction

LEMMA SendsAlike ==
  ASSUME ReadInv, network' = Reading(wire'), NEW m, NEW copies \in Copies,
         Send(m, copies)
  PROVE  Session!Send(Understood(m), copies) /\ Counted(wire')
<1>1. wire' = With(wire, m, copies) /\ UnderWay(wire') <= MaxFlight
  BY DEF Send
<1>2. Counted(wire') /\ network' = With(network, Understood(m), copies)
  BY <1>1, ReadingWith DEF ReadInv
<1>3. UnderWay(network') <= MaxFlight
  BY <1>1, <1>2, SameUnderWay
<1>. QED
  BY <1>2, <1>3, SessionNetwork DEF Session!Send

LEMMA ReceivesAlike ==
  ASSUME ReadInv, network' = Reading(wire'), NEW m \in BagToSet(wire),
         wire' = Without(wire, m)
  PROVE  /\ Session!Receive(Understood(m)) /\ Counted(wire')
         /\ Understood(m) \in Session!BagToSet(network)
<1>1. Counted(wire') /\ network' = Without(network, Understood(m))
  BY ReadingLess DEF ReadInv
<1>2. Understood(m) \in BagToSet(network)
  BY ReadingBag DEF ReadInv
<1>. QED
  BY <1>1, <1>2, SessionNetwork DEF Session!Receive

LEMMA RequestUnderstood ==
  ASSUME NEW a, NEW text
  PROVE  Understood(Request(a, text)) = Session!Request(a, DatagramOf(text))
BY DEF Understood, IsRequest, Request, Session!Request

LEMMA AnswerUnderstood ==
  ASSUME NEW m, ~IsRequest(m)
  PROVE  Understood(m) = Session!Answer(m.to, AnswerOf(m.text))
BY DEF Understood, Session!Answer

\* A client that starts, moves or quits.
LEMMA MovesAlike ==
  ASSUME ReadInv, network' = Reading(wire'), UNCHANGED registryVars, NEW a \in Address,
         \/ Start(a)
         \/ /\ \/ Session!AnswerTimeout(a)
               \/ Session!jeuDeplacement(a)
               \/ Session!Quit(a)
            /\ UNCHANGED <<clientMap, wire>>
  PROVE  Session!ClientStep(a) /\ Counted(wire')
<1>1. CASE Start(a)
  <2>1. wire' = wire /\ network' = network
    BY <1>1 DEF Start, ReadInv
  <2>2. PICK cmd \in Command[a] :
          pseudo' = [pseudo EXCEPT ![a] = Fields(cmd, Colon)[2]]
    BY <1>1 DEF Start
  <2>3. Fields(cmd, Colon)[2] \in Names[a]
    BY DEF Names
  <2>4. \E p \in Names[a] : pseudo' = [pseudo EXCEPT ![a] = p]
    BY <2>2, <2>3
  <2>5. Session!Start(a)
    BY <1>1, <2>1, <2>4 DEF Start, Session!Start
  <2>. QED
    BY <2>1, <2>5 DEF Session!ClientStep, ReadInv, Session!registryVars, registryVars
<1>2. CASE /\ \/ Session!AnswerTimeout(a)
              \/ Session!jeuDeplacement(a)
              \/ Session!Quit(a)
           /\ UNCHANGED <<clientMap, wire>>
  BY <1>2 DEF Session!ClientStep, ReadInv, Session!registryVars, registryVars
<1>. QED
  BY <1>1, <1>2

\* A client that sends.
LEMMA RequestsAlike ==
  ASSUME WireInv, Clear, ReadInv, network' = Reading(wire'), UNCHANGED registryVars,
         NEW a \in Address, NEW copies \in Copies,
         registerPlayer(a, copies) \/ SendConnect(a, copies) \/ SendPosition(a, copies)
  PROVE  Session!ClientStep(a)
<1>. SUFFICES \/ Session!registerPlayer(a, copies)
              \/ Session!SendConnect(a, copies)
              \/ Session!SendPosition(a, copies)
  BY SessionNetwork DEF Session!ClientStep, Session!registryVars, registryVars
<1>1. CASE registerPlayer(a, copies)
  <2>1. PICK cmd \in Command[a] :
          /\ Fields(cmd, Colon)[1] = <<Register>>
          /\ Send(Request(a, RegisterText(Fields(cmd, Colon)[2])), copies)
    BY <1>1 DEF registerPlayer
  <2>2. Session!Send(Session!Request(a, [kind |-> "register"]), copies)
    BY <2>1, SendsAlike, RequestUnderstood, CommandRead, RegisterRead
  <2>3. a \in Registrar
    BY <2>1 DEF Registrar
  <2>. QED
    BY <1>1, <2>2, <2>3 DEF registerPlayer, player, Session!registerPlayer, Session!client
<1>2. CASE SendConnect(a, copies)
  <2>1. pseudo[a] \in Pseudo
    BY DEF WireInv, ClientsOK, Session!ClientTypeOK
  <2>2. Send(Request(a, ConnectText(pseudo[a])), copies)
    BY <1>2 DEF SendConnect
  <2>3. Session!Send(Session!Request(a, [kind |-> "connect", pseudo |-> pseudo[a]]), copies)
    BY <2>1, <2>2, SendsAlike, RequestUnderstood, ConnectRead
  <2>. QED
    BY <1>2, <2>3 DEF SendConnect, Session!SendConnect
<1>3. CASE SendPosition(a, copies)
  <2>1. xyPlayer[a] \in Place /\ clientMap[a] = StartMap
    BY <1>3 DEF WireInv, ClientsOK, Session!ClientTypeOK, SendPosition, Clear
  <2>2. StartMap \in Text /\ Fields(StartMap, Colon)[1] = StartMap
    <3>1. StartMap \in Seq(Token) /\ Colon \notin ToSet(StartMap)
      BY WireAssumption, StartAssumption DEF Text, Token
    <3>2. Fields(StartMap, Colon) = <<StartMap>>
      BY <3>1, FieldsOfWhole
    <3>. QED
      BY <3>1, <3>2 DEF Text, Token
  <2>3. Send(Request(a, PositionText(xyPlayer[a], StartMap)), copies)
    BY <1>3, <2>1 DEF SendPosition
  <2>4. DatagramOf(PositionText(xyPlayer[a], StartMap)) = Session!Position(a)
    BY <2>1, <2>2, PositionRead DEF Session!Position
  <2>5. Session!Send(Session!Request(a, Session!Position(a)), copies)
    BY <2>3, <2>4, SendsAlike, RequestUnderstood
  <2>. QED
    BY <1>3, <2>5 DEF SendPosition, player, Session!SendPosition, Session!client
<1>. QED
  BY <1>1, <1>2, <1>3

(***************************************************************************)
(* While no list under way reads as an ACCEPT, what a playing client draws *)
(* is what the reader of answers makes of the text.                        *)
(***************************************************************************)
LEMMA AnswerDrawn ==
  ASSUME WireInv, Clear, NEW m \in BagToSet(wire), ~IsRequest(m), NEW a
  PROVE  Session!setListOfPlayers(a, AnswerOf(m.text)) = ToSet(setListOfPlayers(m.text))
<1>. DEFINE f == Fields(m.text, Colon)
<1>1. m \in Accepts \cup Lists
  BY Kinds DEF WireInv, WireOK
<1>2. CASE m \in Accepts
  <2>1. m.text = AcceptText
    BY <1>2 DEF Accepts, Answer
  <2>2. AnswerOf(m.text) = [kind |-> "accept", place |-> StartPlace]
    BY <2>1, AcceptRead DEF AnswerOf
  <2>. QED
    BY <2>1, <2>2, AcceptAsList DEF Session!setListOfPlayers
<1>3. CASE m \in Lists
  <2>1. PICK b \in Address, told \in Seq(Player) \ {<< >>} :
          m = Answer(b, ListText(told), told)
    BY <1>3 DEF Lists
  <2>2. m.told = told /\ m.text = ListText(told)
    BY <2>1 DEF Answer
  <2>3. strtol(f[1]) # ACCEPT_CONNECTION
    BY <2>1, <2>2, ListBegins DEF Clear, ReadsAsAccept
  <2>4. AnswerOf(m.text) = [kind |-> "players", players |-> ToSet(setListOfPlayers(m.text))]
    BY <2>3 DEF AnswerOf
  <2>. QED
    BY <2>4 DEF Session!setListOfPlayers
<1>. QED
  BY <1>1, <1>2, <1>3

\* A client that asks, or plays, and hears something.
LEMMA HearsAlike ==
  ASSUME WireInv, Clear, ReadInv, network' = Reading(wire'), UNCHANGED registryVars,
         NEW a \in Address, NEW m \in AnswersTo(a),
         ReceiveAnswer(a, m) \/ ReceivePlayers(a, m)
  PROVE  Session!ClientStep(a) /\ Counted(wire')
<1>. DEFINE d == AnswerOf(m.text)
<1>1. m \in BagToSet(wire) /\ ~IsRequest(m) /\ m.to = a
  BY DEF AnswersTo
<1>2. Understood(m) = Session!Answer(a, d)
  BY <1>1, AnswerUnderstood
<1>3. wire' = Without(wire, m)
  BY DEF ReceiveAnswer, ReceivePlayers
<1>4. /\ Session!Receive(Session!Answer(a, d)) /\ Counted(wire')
      /\ Session!Answer(a, d) \in Session!BagToSet(network)
  BY <1>1, <1>2, <1>3, ReceivesAlike
<1>5. Session!Answer(a, d).body = d
  BY DEF Session!Answer
<1>. HIDE DEF d
<1>. SUFFICES Session!ReceiveAnswer(a, d) \/ Session!ReceivePlayers(a, d)
  <2>1. Session!Hear(a)
    BY <1>4, <1>5 DEF Session!Hear
  <2>. QED
    BY <1>4, <2>1 DEF Session!ClientStep, Session!registryVars, registryVars
<1>6. CASE ReceiveAnswer(a, m)
  <2>. DEFINE f == Fields(m.text, Colon)
  <2>1. CASE strtol(f[1]) = ACCEPT_CONNECTION
    <3>1. d = [kind |-> "accept", place |-> PlaceOfAnswer(f)]
      BY <2>1 DEF d, AnswerOf
    <3>2. d.kind = "accept" /\ d.place = PlaceOfAnswer(f)
      BY <3>1
    <3>. QED
      BY <1>4, <1>6, <2>1, <3>2 DEF ReceiveAnswer, Session!ReceiveAnswer
  <2>2. CASE strtol(f[1]) # ACCEPT_CONNECTION
    <3>1. d.kind # "accept"
      BY <2>2 DEF d, AnswerOf
    <3>. QED
      BY <1>4, <1>6, <2>2, <3>1 DEF ReceiveAnswer, Session!ReceiveAnswer
  <2>. QED
    BY <2>1, <2>2
<1>7. CASE ReceivePlayers(a, m)
  <2>1. Session!setListOfPlayers(a, d) = ToSet(setListOfPlayers(m.text))
    BY <1>1, AnswerDrawn DEF d
  <2>. QED
    BY <1>4, <1>7, <2>1 DEF ReceivePlayers, Session!ReceivePlayers
<1>. QED
  BY <1>6, <1>7

\* A list whose names are read as they are.
Plain(told) == ~ReadsAsAccept(told) /\ \A i \in DOMAIN told : ~HoldsPlus(told[i].pseudo)

LEMMA PlacesTold ==
  ASSUME NEW told \in Seq(Player), Plain(told)
  PROVE  ToSet(setListOfPlayers(ListText(told))) = {p.place : p \in ToSet(told)}
<1>. DEFINE n == Len(told)
<1>1. n \in Nat /\ DOMAIN told = 1..n
  BY LenProperties
<1>. HIDE DEF n
<1>2. PlainPrefix(told) = DOMAIN told
  BY <1>1 DEF PlainPrefix, Plain
<1>. DEFINE read == setListOfPlayers(ListText(told))
<1>3. DOMAIN read = DOMAIN told /\ \A i \in DOMAIN told : read[i] = told[i].place
  BY <1>2, ListMeant
<1>. HIDE DEF read
<1>. QED
  BY <1>3 DEF ToSet, read

(***************************************************************************)
(* The reply a client reads is the one the server meant.                   *)
(***************************************************************************)
LEMMA RepliesAlike ==
  ASSUME WireInv, NEW a \in Address, NEW m \in Requests, Serve(a, DatagramOf(m.text)),
         dresseursList' \in Seq(Entry), sent' # {},
         Plain(ReplyTo(a, DatagramOf(m.text)).told)
  PROVE  \E r \in sent' : Understood(ReplyTo(a, DatagramOf(m.text))) =
                            Session!Answer(r.to, Session!Body(r))
<1>. DEFINE d == DatagramOf(m.text)
<1>1. CASE \E p \in Pseudo : d = [kind |-> "connect", pseudo |-> p]
  <2>1. d.kind = "connect" /\ connectToIPMON(a, d.pseudo)
    BY <1>1 DEF Serve
  <2>2. sent' = accept(a) /\ ReplyTo(a, d) = Answer(a, AcceptText, << >>)
    BY <2>1 DEF connectToIPMON, ReplyTo
  <2>. DEFINE r == [to |-> a, kind |-> "accept", place |-> StartPlace, map |-> StartMap]
  <2>3. r \in sent' /\ r.to = a
    BY <2>2 DEF accept
  <2>4. Session!Body(r) = [kind |-> "accept", place |-> StartPlace]
    BY DEF Session!Body
  <2>5. Understood(ReplyTo(a, d)) = Session!Answer(a, AnswerOf(AcceptText))
    BY <2>2 DEF Answer, Understood, IsRequest, Session!Answer
  <2>6. AnswerOf(AcceptText) = [kind |-> "accept", place |-> StartPlace]
    BY AcceptRead DEF AnswerOf
  <2>. QED
    BY <2>3, <2>4, <2>5, <2>6
<1>2. CASE d = [kind |-> "register"]
  <2>1. IgnoredDatagram
    BY <1>2 DEF Serve
  <2>. QED
    BY <2>1 DEF IgnoredDatagram
<1>3. CASE \E place \in Place, map \in Text : d =
             [kind |-> "coordinates", place |-> place, map |-> map]
  <2>. DEFINE told == Told(dresseursList', a, d.map)
              players == PlayersFor(dresseursList', a, d.map)
              r == [to |-> a, kind |-> "players", players |-> players]
  <2>1. d.kind = "coordinates" /\ NewCoordinates(a, d.place, d.map)
    BY <1>3 DEF Serve
  <2>2. sent' = sendPlayers(dresseursList', a, d.map)
    BY <2>1 DEF NewCoordinates
  <2>3. ReplyTo(a, d) = Answer(a, ListText(told), told)
    BY <2>1 DEF ReplyTo
  <2>. HIDE DEF d
  <2>4. told \in Seq(Player) /\ ToSet(told) = players
    BY ToldGrows, ToldIsPlayersFor
  <2>5. r \in sent'
    BY <2>2 DEF sendPlayers
  <2>. HIDE DEF told, players
  <2>6. Plain(told)
    BY <2>3 DEF Answer, d
  <2>7. told # << >>
    <3>. SUFFICES ASSUME told = << >> PROVE players = {}
      BY <2>2 DEF sendPlayers, players
    <3>. QED
      BY <2>4 DEF ToSet
  <2>8. AnswerOf(ListText(told)) =
          [kind |-> "players", players |-> ToSet(setListOfPlayers(ListText(told)))]
    BY <2>4, <2>6, <2>7, ListBegins DEF AnswerOf, Plain, ReadsAsAccept
  <2>9. Understood(ReplyTo(a, d)) = Session!Answer(a, AnswerOf(ListText(told)))
    BY <2>3 DEF Answer, Understood, IsRequest, Session!Answer
  <2>10. Session!Body(r) = [kind |-> "players", players |-> {p.place : p \in players}]
    BY DEF Session!Body
  <2>11. r.to = a
    OBVIOUS
  <2>12. ToSet(setListOfPlayers(ListText(told))) = {p.place : p \in players}
    BY <2>4, <2>6, PlacesTold
  <2>. QED
    BY <2>5, <2>8, <2>9, <2>10, <2>11, <2>12 DEF d
<1>. QED
  BY <1>1, <1>2, <1>3, RequestRead

LEMMA CopyArrives ==
  ASSUME NEW net, IsABag(net), NEW m, NEW copies \in Copies, copies # 0
  PROVE  m \in BagToSet(With(net, m, copies))
<1>1. ASSUME NEW n PROVE m \in BagToSet(With(n, m, 1))
  <2>1. With(n, m, 1) = OneMore(n, m)
    BY WithOne
  <2>. QED
    BY <2>1 DEF OneMore, BagToSet
<1>2. CASE copies = 1
  BY <1>1, <1>2
<1>3. CASE copies = 2
  <2>1. With(net, m, 2) = With(With(net, m, 1), m, 1)
    BY WithTwo
  <2>. QED
    BY <1>1, <1>3, <2>1
<1>. QED
  BY <1>2, <1>3 DEF Copies

\* A turn of the server that reads a datagram.
LEMMA ServesAlike ==
  ASSUME WireInv, ReadInv, Clear', network' = Reading(wire'),
         NEW a \in Address, NEW copies \in Copies, ServeFrom(a, copies)
  PROVE  Session!ServeFrom(a, copies)
<1>1. PICK m \in RequestsFrom(a) :
        /\ Serve(a, DatagramOf(m.text))
        /\ wire' = IF sent' = {}
                     THEN Without(wire, m)
                     ELSE With(Without(wire, m), ReplyTo(a, DatagramOf(m.text)), copies)
        /\ UnderWay(wire') <= MaxFlight
        /\ UNCHANGED <<player, clientMap>>
  BY DEF ServeFrom
<1>. DEFINE d == DatagramOf(m.text)
            reply == ReplyTo(a, d)
            left == Without(wire, m)
            u == Understood(m)
<1>2. m \in Requests /\ m \in BagToSet(wire) /\ m.from = a /\ IsRequest(m)
  BY Kinds DEF RequestsFrom, WireInv, WireOK
<1>3. u = Session!Request(a, d)
  BY <1>2 DEF Understood, Session!Request
<1>4. u = Session!Request(a, u.body) /\ u.body = d
  BY <1>3 DEF Session!Request
<1>5. Counted(left) /\ Reading(left) = Without(network, u)
  BY <1>2, ReadingLess DEF ReadInv
<1>6. u \in Session!BagToSet(network)
  BY <1>2, ReadingBag, SessionNetwork DEF ReadInv
<1>7. Session!Serve(a, u.body)
  BY <1>1, <1>4, SessionServer
<1>8. UNCHANGED Session!client
  BY <1>1 DEF player, Session!client
<1>. HIDE DEF d, u, left
<1>9. CASE sent' = {}
  <2>1. network' = Session!Without(network, u)
    BY <1>1, <1>5, <1>9, SessionNetwork DEF left
  <2>. QED
    BY <1>4, <1>6, <1>7, <1>8, <1>9, <2>1 DEF Session!ServeFrom
<1>10. CASE sent' # {}
  <2>1. wire' = With(left, reply, copies)
    BY <1>1, <1>10 DEF left, d
  <2>. HIDE DEF reply
  <2>2. Counted(wire') /\ network' = With(Without(network, u), Understood(reply), copies)
    BY <1>5, <2>1, ReadingWith
  <2>3. \E r \in sent' : network' = With(Without(network, u),
                                         Session!Answer(r.to, Session!Body(r)), copies)
    <3>1. CASE copies = 0
      BY <1>10, <2>2, <3>1 DEF With
    <3>2. CASE copies # 0
      <4>1. reply \in BagToSet(wire')
        BY <1>5, <2>1, <3>2, CopyArrives DEF Counted
      <4>2. dresseursList' \in Seq(Entry)
        BY <1>1, ServerServes DEF WireInv, IInv, RegistryTypeOK
      <4>3. reply \in Accepts \cup Lists
        BY <1>1, <1>2, <1>10, <4>2, ReplyWritten DEF reply, d
      <4>4. Plain(reply.told)
        BY <4>1, <4>3, Kinds DEF Clear, Plain
      <4>5. \E r \in sent' : Understood(reply) = Session!Answer(r.to, Session!Body(r))
        BY <1>1, <1>2, <1>10, <4>2, <4>4, RepliesAlike DEF reply, d
      <4>. QED
        BY <2>2, <4>5
    <3>. QED
      BY <3>1, <3>2
  <2>4. UnderWay(network') <= MaxFlight
    BY <1>1, <2>2, SameUnderWay
  <2>. QED
    BY <1>4, <1>6, <1>7, <1>8, <1>10, <2>3, <2>4, SessionNetwork DEF Session!ServeFrom
<1>. QED
  BY <1>9, <1>10

LEMMA ReadStep ==
  ASSUME ReadInv, [WireNext]_wireVars
  PROVE  ReadInv'
<1>1. CASE UNCHANGED wireVars
  BY <1>1 DEF wireVars, ReadInv, Counted, Read, Reading
<1>2. CASE WireNext
  <2>1. network' = Reading(wire')
    BY <1>2 DEF WireNext
  <2>2. CASE \E a \in Address : ClientStep(a)
    <3>1. PICK a \in Address : ClientStep(a)
      BY <2>2
    <3>2. CASE \E copies \in Copies : registerPlayer(a, copies) \/ SendConnect(a, copies)
                                        \/ SendPosition(a, copies)
      BY <2>1, <3>2, SendsAlike DEF registerPlayer, SendConnect, SendPosition, ReadInv
    <3>3. CASE \E m \in AnswersTo(a) : ReceiveAnswer(a, m) \/ ReceivePlayers(a, m)
      BY <2>1, <3>3, ReceivesAlike DEF AnswersTo, ReceiveAnswer, ReceivePlayers, ReadInv
    <3>4. CASE \/ Start(a)
               \/ /\ \/ Session!AnswerTimeout(a)
                     \/ Session!jeuDeplacement(a)
                     \/ Session!Quit(a)
                  /\ UNCHANGED <<clientMap, wire>>
      BY <2>1, <3>1, <3>4, MovesAlike DEF ClientStep, ReadInv
    <3>. QED
      BY <3>1, <3>2, <3>3, <3>4 DEF ClientStep
  <2>3. CASE \E a \in Address, copies \in Copies : ServeFrom(a, copies)
    <3>1. PICK a \in Address, copies \in Copies : ServeFrom(a, copies)
      BY <2>3
    <3>2. PICK m \in BagToSet(wire) :
            \/ wire' = Without(wire, m)
            \/ \E reply : wire' = With(Without(wire, m), reply, copies)
      BY <3>1 DEF ServeFrom, RequestsFrom
    <3>3. Counted(Without(wire, m))
      BY ReadingLess DEF ReadInv
    <3>. QED
      BY <2>1, <3>2, <3>3, ReadingWith DEF ReadInv
  <2>4. CASE (ServeNothing \/ Check \/ ClockTick) /\ UNCHANGED <<player, clientMap, wire>>
    <3>1. wire' = wire
      BY <2>4
    <3>. QED
      BY <2>1, <3>1 DEF ReadInv
  <2>. QED
    BY <1>2, <2>2, <2>3, <2>4 DEF WireNext, ServerStep
<1>. QED
  BY <1>1, <1>2

LEMMA StepAlike ==
  ASSUME WireInv, ReadInv, Clear, Clear', WireNext
  PROVE  Session!SessionNext
<1>1. network' = Reading(wire')
  BY DEF WireNext
<1>2. CASE \E a \in Address : ClientStep(a)
  <2>1. PICK a \in Address : ClientStep(a)
    BY <1>2
  <2>2. UNCHANGED registryVars
    BY <2>1 DEF ClientStep
  <2>3. Session!ClientStep(a)
    <3>1. CASE \E copies \in Copies : registerPlayer(a, copies) \/ SendConnect(a, copies)
                                        \/ SendPosition(a, copies)
      BY <1>1, <2>2, <3>1, RequestsAlike
    <3>2. CASE \E m \in AnswersTo(a) : ReceiveAnswer(a, m) \/ ReceivePlayers(a, m)
      BY <1>1, <2>2, <3>2, HearsAlike
    <3>3. CASE \/ Start(a)
               \/ /\ \/ Session!AnswerTimeout(a)
                     \/ Session!jeuDeplacement(a)
                     \/ Session!Quit(a)
                  /\ UNCHANGED <<clientMap, wire>>
      BY <1>1, <2>2, <3>3, MovesAlike
    <3>. QED
      BY <2>1, <3>1, <3>2, <3>3 DEF ClientStep
  <2>. QED
    BY <2>3 DEF Session!SessionNext
<1>3. CASE \E a \in Address, copies \in Copies : ServeFrom(a, copies)
  BY <1>1, <1>3, ServesAlike, SessionNetwork DEF Session!SessionNext, Session!ServerStep
<1>4. CASE (ServeNothing \/ Check \/ ClockTick) /\ UNCHANGED <<player, clientMap, wire>>
  <2>1. UNCHANGED <<Session!client, network>>
    BY <1>1, <1>4 DEF ReadInv, player, Session!client
  <2>. QED
    BY <1>4, <2>1, SessionServer
       DEF Session!SessionNext, Session!ServerStep, Session!Tick
<1>. QED
  BY <1>2, <1>3, <1>4 DEF WireNext, ServerStep

(***************************************************************************)
(* The texts do what IpmonSession does with names, places and maps as      *)
(* such: every step of the client and of the server that parses or prints  *)
(* is a step of IpmonSession on what its readers understand, as long as no *)
(* list is under way that is misread, and no client plays on the map of    *)
(* one.                                                                    *)
(***************************************************************************)
THEOREM TextsImplementSession == WireSpec => ImplementsSession
<1>1. WireInit => ReadInv
  BY NothingRead DEF WireInit, ReadInv
<1>2. WireInit => Session!SessionInit
  BY SessionServer, SessionNetwork DEF WireInit, Session!SessionInit
<1>3. ReadInv /\ [WireNext]_wireVars => ReadInv'
  BY ReadStep
<1>4. WireInv /\ ReadInv /\ [WireNext]_wireVars
        => [(Clear /\ Clear') => Session!SessionNext]_wireVars
  BY StepAlike
<1>. QED
  BY <1>1, <1>2, <1>3, <1>4, WireInvariance, PTL DEF WireSpec, ImplementsSession

=============================================================================
