----------------------------- MODULE UartProofs -----------------------------
(***************************************************************************)
(* What a thread prints goes out whole, for every set of strings and any   *)
(* number of ticks at any moment.                                          *)
(***************************************************************************)
EXTENDS Uart, SequenceTheorems, WellFoundedInduction, TLAPS

(* Induction over numbers, as the existence of a least counterexample. *)
LEMMA NatOrder ==
  \E R : IsWellFoundedOn(R, Nat) /\ \A x, y \in Nat : y < x => <<y, x>> \in R
<1>1. IsWellFoundedOn(OpToRel(<, Nat), Nat)
  BY NatLessThanWellFounded
<1>2. \A x, y \in Nat : y < x => <<y, x>> \in OpToRel(<, Nat)
  BY DEF OpToRel
<1> QED BY <1>1, <1>2, Zenon

LEMMA LeastCounterexample ==
  ASSUME NEW S \in SUBSET Nat, S # {}
  PROVE  \E x \in S : \A y \in Nat : y < x => y \notin S
<1>1. PICK R : IsWellFoundedOn(R, Nat) /\ \A x, y \in Nat : y < x => <<y, x>> \in R
  BY NatOrder
<1>2. PICK x \in S : \A y \in S : ~(<<y, x>> \in R)
  BY <1>1, WFMin
<1> QED BY <1>1, <1>2, Zenon

-----------------------------------------------------------------------------
(* f holds the concatenations of the first, the first two, ... of ss. *)
Partial(S, ss, n, f) ==
  /\ f \in [1..n -> Seq(S)]
  /\ \A i \in 1..n : f[i] = IF i = 1 THEN ss[i] ELSE f[i - 1] \o ss[i]

LEMMA PartialExists ==
  ASSUME NEW S, NEW ss \in Seq(Seq(S)), NEW n \in 1..Len(ss)
  PROVE  \E f : Partial(S, ss, n, f)
<1> DEFINE bad == {k \in 1..Len(ss) : ~\E f : Partial(S, ss, k, f)}
<1> SUFFICES ASSUME bad # {} PROVE FALSE
  OBVIOUS
<1>1. bad \in SUBSET Nat
  OBVIOUS
<1>2. PICK m \in bad : \A k \in Nat : k < m => k \notin bad
  BY <1>1, LeastCounterexample
<1>3. m \in 1..Len(ss) /\ Len(ss) \in Nat /\ ~\E f : Partial(S, ss, m, f)
  OBVIOUS
<1>4. CASE m = 1
  <2>1. Partial(S, ss, 1, [i \in 1..1 |-> ss[1]])
    BY <1>3, <1>4 DEF Partial
  <2> QED BY <1>3, <1>4, <2>1
<1>5. CASE m # 1
  <2>1. m - 1 \in 1..Len(ss) /\ m - 1 \in Nat /\ m - 1 < m
    BY <1>3, <1>5
  <2>2. PICK f : Partial(S, ss, m - 1, f)
    BY <1>2, <2>1
  <2> DEFINE g == [i \in 1..m |-> IF i = m THEN f[m - 1] \o ss[m] ELSE f[i]]
  <2>3. f[m - 1] \in Seq(S) /\ ss[m] \in Seq(S) /\ f[m - 1] \o ss[m] \in Seq(S)
    BY <1>3, <2>1, <2>2 DEF Partial
  <2>4. g \in [1..m -> Seq(S)]
    BY <1>3, <2>1, <2>2, <2>3 DEF Partial
  <2>5. ASSUME NEW i \in 1..m
        PROVE  g[i] = IF i = 1 THEN ss[i] ELSE g[i - 1] \o ss[i]
    <3>1. CASE i = m
      <4>0. m \in 1..m /\ m - 1 \in 1..m /\ m - 1 # m
        BY <1>3, <1>5, <2>1
      <4>1. g[m] = f[m - 1] \o ss[m] /\ g[m - 1] = f[m - 1]
        BY <4>0, Zenon
      <4> HIDE DEF g
      <4> QED BY <1>5, <3>1, <4>1
    <3>2. CASE i # m
      <4>1. i \in 1..(m - 1) /\ g[i] = f[i] /\ (i # 1 => g[i - 1] = f[i - 1])
        BY <1>3, <2>1, <3>2
      <4> HIDE DEF g
      <4> QED BY <2>2, <4>1 DEF Partial
    <3> QED BY <3>1, <3>2
  <2> HIDE DEF g
  <2>6. Partial(S, ss, m, g)
    BY <2>4, <2>5 DEF Partial
  <2> QED BY <1>3, <2>6
<1> QED BY <1>4, <1>5

LEMMA FlattenDefined ==
  ASSUME NEW S, NEW ss \in Seq(Seq(S)), ss # <<>>
  PROVE  \E f : Partial(S, ss, Len(ss), f) /\ FlattenSeq(ss) = f[Len(ss)]
<1> DEFINE Def(g) ==
      g = [i \in 1..Len(ss) |-> IF i = 1 THEN ss[i] ELSE g[i - 1] \o ss[i]]
           f == CHOOSE g : Def(g)
<1>1. Len(ss) \in Nat /\ Len(ss) # 0 /\ Len(ss) \in 1..Len(ss)
  OBVIOUS
<1>2. PICK h : Partial(S, ss, Len(ss), h)
  BY <1>1, PartialExists
<1>3. Def(h)
  BY <1>2 DEF Partial
<1>4. Def(f)
  BY <1>3, Zenon
<1>5. FlattenSeq(ss) = f[Len(ss)]
  BY <1>1, Zenon DEF FlattenSeq
<1> HIDE DEF f
<1>6. DOMAIN f = 1..Len(ss) /\ DOMAIN h = 1..Len(ss)
  BY <1>2, <1>4 DEF Partial
<1>7. \A i \in 1..Len(ss) : f[i] = IF i = 1 THEN ss[i] ELSE f[i - 1] \o ss[i]
  BY <1>4
<1> DEFINE bad == {i \in 1..Len(ss) : f[i] # h[i]}
<1>8. bad = {}
  <2> SUFFICES ASSUME bad # {} PROVE FALSE
    OBVIOUS
  <2>1. bad \in SUBSET Nat
    OBVIOUS
  <2>2. PICK m \in bad : \A k \in Nat : k < m => k \notin bad
    BY <2>1, LeastCounterexample
  <2>3. m \in 1..Len(ss) /\ f[m] # h[m]
    OBVIOUS
  <2>4. m # 1
    BY <1>2, <1>7, <2>3 DEF Partial
  <2>5. m - 1 \in Nat /\ m - 1 < m /\ m - 1 \in 1..Len(ss)
    BY <1>1, <2>3, <2>4
  <2>6. f[m - 1] = h[m - 1]
    BY <2>2, <2>5
  <2> QED BY <1>2, <1>7, <2>3, <2>4, <2>6 DEF Partial
<1>9. Partial(S, ss, Len(ss), f)
  <2>1. \A i \in 1..Len(ss) : f[i] \in Seq(S)
    BY <1>2, <1>8 DEF Partial
  <2>2. f = [i \in 1..Len(ss) |-> f[i]]
    BY <1>4
  <2> QED BY <1>7, <2>1, <2>2 DEF Partial
<1> QED BY <1>5, <1>9

(* Both ways of making a sequence longer: by an element, and, for the      *)
(* sequences that go into one flattened sequence, by a whole sequence.     *)
LEMMA FlattenType ==
  ASSUME NEW S, NEW ss \in Seq(Seq(S))
  PROVE  FlattenSeq(ss) \in Seq(S) /\ (ss = <<>> => FlattenSeq(ss) = <<>>)
<1>1. CASE ss = <<>>
  BY <1>1 DEF FlattenSeq
<1>2. CASE ss # <<>>
  <2>1. PICK f : Partial(S, ss, Len(ss), f) /\ FlattenSeq(ss) = f[Len(ss)]
    BY <1>2, FlattenDefined
  <2>2. Len(ss) \in 1..Len(ss)
    BY <1>2
  <2> QED BY <1>2, <2>1, <2>2 DEF Partial
<1> QED BY <1>1, <1>2

LEMMA FlattenAppend ==
  ASSUME NEW S, NEW ss \in Seq(Seq(S)), NEW e \in Seq(S)
  PROVE  FlattenSeq(Append(ss, e)) = FlattenSeq(ss) \o e
<1> DEFINE tt == Append(ss, e)
           n  == Len(ss)
<1>1. /\ tt \in Seq(Seq(S)) /\ tt # <<>> /\ n \in Nat /\ Len(tt) = n + 1
      /\ tt[n + 1] = e /\ \A i \in 1..n : tt[i] = ss[i]
  BY AppendProperties, LenProperties
<1> HIDE DEF tt
<1>2. PICK g : Partial(S, tt, n + 1, g) /\ FlattenSeq(tt) = g[n + 1]
  BY <1>1, FlattenDefined
<1>3. CASE ss = <<>>
  <2>1. n = 0 /\ FlattenSeq(ss) = <<>>
    BY <1>3, FlattenType
  <2>2. g[n + 1] = e
    BY <1>1, <1>2, <2>1 DEF Partial
  <2> QED BY <1>2, <2>1, <2>2 DEF tt
<1>4. CASE ss # <<>>
  <2>1. PICK f : Partial(S, ss, n, f) /\ FlattenSeq(ss) = f[n]
    BY <1>4, FlattenDefined
  <2> DEFINE bad == {i \in 1..n : f[i] # g[i]}
  <2>2. bad = {}
    <3> SUFFICES ASSUME bad # {} PROVE FALSE
      OBVIOUS
    <3>1. bad \in SUBSET Nat
      OBVIOUS
    <3>2. PICK m \in bad : \A k \in Nat : k < m => k \notin bad
      BY <3>1, LeastCounterexample
    <3>3. m \in 1..n /\ m \in 1..(n + 1) /\ f[m] # g[m]
      BY <1>1
    <3>4. m # 1
      BY <1>1, <1>2, <2>1, <3>3 DEF Partial
    <3>5. m - 1 \in Nat /\ m - 1 < m /\ m - 1 \in 1..n
      BY <1>1, <3>3, <3>4
    <3>6. f[m - 1] = g[m - 1]
      BY <3>2, <3>5
    <3>7. f[m] = f[m - 1] \o ss[m]
      BY <2>1, <3>3, <3>4 DEF Partial
    <3>8. g[m] = g[m - 1] \o tt[m]
      BY <1>2, <3>3, <3>4 DEF Partial
    <3> QED BY <1>1, <3>3, <3>6, <3>7, <3>8
  <2>3. n \in 1..n /\ n + 1 \in 1..(n + 1) /\ n + 1 # 1 /\ (n + 1) - 1 = n
    BY <1>1, <1>4
  <2>4. f[n] = g[n]
    BY <2>2, <2>3
  <2> HIDE DEF n
  <2>5. g[n + 1] = g[(n + 1) - 1] \o tt[n + 1]
    BY <1>2, <2>3 DEF Partial
  <2> QED BY <1>1, <1>2, <2>1, <2>3, <2>4, <2>5 DEF tt
<1> QED BY <1>3, <1>4

-----------------------------------------------------------------------------
LEMMA PutcType ==
  ASSUME NEW ch \in Char
  PROVE  putc(ch) \in Seq(Char) /\ putc(ch) # <<>>
<1>1. LF \in Char /\ CR \in Char
  BY UartAssumption
<1>2. CASE ch = LF
  BY <1>1, <1>2 DEF putc
<1>3. CASE ch # LF
  BY <1>3 DEF putc
<1> QED BY <1>2, <1>3

(* The strings putc makes of the characters of s. *)
Expanded(s) == [i \in DOMAIN s |-> putc(s[i])]

LEMMA ExpandedType ==
  ASSUME NEW s \in Seq(Char)
  PROVE  /\ Expanded(s) \in Seq(Seq(Char)) /\ Len(Expanded(s)) = Len(s)
         /\ \A i \in 1..Len(s) : Expanded(s)[i] = putc(s[i])
         /\ Lines(s) = FlattenSeq(Expanded(s)) /\ Lines(s) \in Seq(Char)
<1>1. DOMAIN s = 1..Len(s) /\ Len(s) \in Nat /\ \A i \in 1..Len(s) : s[i] \in Char
  OBVIOUS
<1>2. \A i \in 1..Len(s) : putc(s[i]) \in Seq(Char)
  BY <1>1, PutcType
<1>3. Expanded(s) \in Seq(Seq(Char)) /\ Len(Expanded(s)) = Len(s)
  BY <1>1, <1>2 DEF Expanded
<1>4. \A i \in 1..Len(s) : Expanded(s)[i] = putc(s[i])
  BY <1>1 DEF Expanded
<1>5. Lines(s) = FlattenSeq(Expanded(s))
  BY DEF Lines, Expanded, putc
<1> QED BY <1>3, <1>4, <1>5, FlattenType

LEMMA LinesAppend ==
  ASSUME NEW s \in Seq(Char), NEW ch \in Char
  PROVE  Lines(Append(s, ch)) = Lines(s) \o putc(ch)
<1>1. /\ Append(s, ch) \in Seq(Char) /\ Len(Append(s, ch)) = Len(s) + 1
      /\ Append(s, ch)[Len(s) + 1] = ch /\ Len(s) \in Nat
      /\ \A i \in 1..Len(s) : Append(s, ch)[i] = s[i]
  BY AppendProperties, LenProperties
<1> DEFINE x == Expanded(s)
           y == Expanded(Append(s, ch))
           z == Append(x, putc(ch))
<1>2. /\ x \in Seq(Seq(Char)) /\ Len(x) = Len(s)
      /\ \A i \in 1..Len(s) : x[i] = putc(s[i])
      /\ Lines(s) = FlattenSeq(x)
  BY ExpandedType
<1>3. /\ y \in Seq(Seq(Char)) /\ Len(y) = Len(s) + 1
      /\ \A i \in 1..(Len(s) + 1) : y[i] = putc(Append(s, ch)[i])
      /\ Lines(Append(s, ch)) = FlattenSeq(y)
  BY <1>1, ExpandedType
<1> HIDE DEF x, y
<1>4. /\ z \in Seq(Seq(Char)) /\ Len(z) = Len(s) + 1
      /\ \A i \in 1..Len(s) : z[i] = x[i]
      /\ z[Len(s) + 1] = putc(ch)
  BY <1>2, PutcType, AppendProperties
<1> HIDE DEF z
<1>5. ASSUME NEW i \in 1..(Len(s) + 1)
      PROVE  y[i] = z[i]
  <2>1. CASE i = Len(s) + 1
    BY <1>1, <1>3, <1>4, <2>1
  <2>2. CASE i # Len(s) + 1
    <3>1. i \in 1..Len(s)
      BY <1>1, <2>2
    <3> QED BY <1>1, <1>2, <1>3, <1>4, <3>1
  <2> QED BY <2>1, <2>2
<1>6. y = z
  BY <1>3, <1>4, <1>5, SeqEqual
<1>7. FlattenSeq(z) = FlattenSeq(x) \o putc(ch)
  BY <1>2, PutcType, FlattenAppend DEF z
<1> QED BY <1>2, <1>3, <1>6, <1>7

LEMMA NoText ==
  ASSUME NEW s \in Seq(Char), s = <<>>
  PROVE  Lines(s) = <<>>
<1>1. /\ Expanded(s) \in Seq(Seq(Char)) /\ Len(Expanded(s)) = 0
      /\ Lines(s) = FlattenSeq(Expanded(s))
  BY ExpandedType
<1>2. Expanded(s) = <<>>
  BY <1>1
<1> QED BY <1>1, <1>2, FlattenType

(* Printing one string after another prints their lines in turn. *)
LEMMA LinesConcat ==
  ASSUME NEW s \in Seq(Char), NEW t \in Seq(Char)
  PROVE  Lines(s \o t) = Lines(s) \o Lines(t)
<1> DEFINE P(u) == Lines(s \o u) = Lines(s) \o Lines(u)
           bad == {n \in Nat : \E u \in Seq(Char) : Len(u) = n /\ ~P(u)}
<1>0. \A u \in Seq(Char) : s \o u \in Seq(Char) /\ Lines(u) \in Seq(Char)
  BY ExpandedType, ConcatProperties
<1>00. Lines(s) \in Seq(Char)
  BY ExpandedType
<1>1. SUFFICES ASSUME bad # {} PROVE FALSE
  BY LenProperties
<1>2. bad \in SUBSET Nat
  OBVIOUS
<1>3. PICK n \in bad : \A k \in Nat : k < n => k \notin bad
  <2> HIDE DEF bad
  <2> QED BY <1>1, <1>2, LeastCounterexample
<1>4. PICK u \in Seq(Char) : Len(u) = n /\ ~P(u)
  OBVIOUS
<1>5. u # <<>>
  <2> SUFFICES ASSUME u = <<>> PROVE FALSE
    OBVIOUS
  <2>1. Lines(u) = <<>>
    BY NoText
  <2>2. s \o u = s /\ Lines(s) \o Lines(u) = Lines(s)
    BY <1>00, <2>1, ConcatEmptySeq
  <2> QED BY <1>4, <2>2
<1>6. PICK v \in Seq(Char), ch \in Char : u = Append(v, ch)
  BY <1>5, SequenceEmptyOrAppend
<1>7. Len(v) \in Nat /\ Len(v) < n /\ n \in Nat
  BY <1>4, <1>6, AppendProperties, LenProperties
<1>8. P(v)
  BY <1>3, <1>7
<1>9. s \o u = Append(s \o v, ch)
  <2>1. u = v \o <<ch>> /\ <<ch>> \in Seq(Char)
    BY <1>6, AppendIsConcat
  <2>2. s \o u = (s \o v) \o <<ch>>
    <3> DEFINE c == <<ch>>
    <3>1. c \in Seq(Char) /\ v \in Seq(Char) /\ u = v \o c
      BY <1>6, <2>1
    <3> HIDE DEF c
    <3>2. (s \o v) \o c = s \o (v \o c)
      BY <3>1, SMTT(30)
    <3>3. s \o u = (s \o v) \o c
      BY <3>1, <3>2, Zenon
    <3> QED BY <3>3 DEF c
  <2> DEFINE r == s \o v
  <2>3. r \in Seq(Char) /\ s \o u = r \o <<ch>>
    BY <1>0, <2>2
  <2> HIDE DEF r
  <2>4. s \o u = Append(r, ch)
    BY <2>3, AppendIsConcat
  <2> QED BY <2>4 DEF r
<1>10. Lines(s \o u) = Lines(s \o v) \o putc(ch)
  BY <1>0, <1>9, LinesAppend
<1>11. Lines(u) = Lines(v) \o putc(ch)
  BY <1>6, LinesAppend
<1>12. (Lines(s) \o Lines(v)) \o putc(ch) = Lines(s) \o (Lines(v) \o putc(ch))
  <2>1. Lines(s) \in Seq(Char) /\ Lines(v) \in Seq(Char) /\ putc(ch) \in Seq(Char)
    BY <1>0, <1>00, PutcType
  <2> DEFINE x == Lines(s)
             y == Lines(v)
             z == putc(ch)
  <2>2. x \in Seq(Char) /\ y \in Seq(Char) /\ z \in Seq(Char)
    BY <2>1
  <2> HIDE DEF x, y, z, P, bad
  <2>3. (x \o y) \o z = x \o (y \o z)
    BY <2>2, SMTT(30)
  <2> QED BY <2>3 DEF x, y, z
<1> QED BY <1>4, <1>8, <1>10, <1>11, <1>12

(* Writing the first of the characters that are left moves it to the end   *)
(* of what has been written.                                               *)
LEMMA WriteOne ==
  ASSUME NEW S, NEW a \in Seq(S), NEW x \in Seq(S), x # <<>>
  PROVE  /\ Head(x) \in S /\ Tail(x) \in Seq(S)
         /\ (a \o <<Head(x)>>) \o Tail(x) = a \o x
<1>1. Head(x) \in S /\ Tail(x) \in Seq(S) /\ x = <<Head(x)>> \o Tail(x)
  OBVIOUS
<1> DEFINE h == <<Head(x)>>
           t == Tail(x)
<1>2. h \in Seq(S) /\ t \in Seq(S) /\ x = h \o t
  BY <1>1
<1> HIDE DEF h, t
<1>3. (a \o h) \o t = a \o (h \o t)
  BY <1>2, SMT
<1> QED BY <1>1, <1>2, <1>3 DEF h, t

-----------------------------------------------------------------------------
(* The characters of the speakers W among some of the device's. *)
Part(W, e) == IF e.by \in W THEN <<e.ch>> ELSE <<>>
Parts(W, all) == FlattenSeq([i \in DOMAIN all |-> Part(W, all[i])])

LEMMA EntryType ==
  /\ \A e \in Entry : e.by \in Speakers /\ e.ch \in Char /\ e.last \in BOOLEAN
  /\ \A w \in Speakers, ch \in Char, b \in BOOLEAN :
       /\ [by |-> w, ch |-> ch, last |-> b] \in Entry
       /\ [by |-> w, ch |-> ch, last |-> b].by = w
       /\ [by |-> w, ch |-> ch, last |-> b].ch = ch
       /\ [by |-> w, ch |-> ch, last |-> b].last = b
  /\ NULL \notin Entry /\ NULL \notin Speakers
  /\ Speakers = {"code", "write", "tick"} /\ Thread = {"code", "write"}
<1>1. NULL \notin Entry /\ NULL \notin Speakers
  BY UartAssumption
<1>2. \A e \in Entry : e.by \in Speakers /\ e.ch \in Char /\ e.last \in BOOLEAN
  BY DEF Entry
<1>3. \A w \in Speakers, ch \in Char, b \in BOOLEAN :
        [by |-> w, ch |-> ch, last |-> b] \in Entry
  BY DEF Entry
<1>4. Speakers = {"code", "write", "tick"} /\ Thread = {"code", "write"}
  BY DEF Speakers, Thread
<1> QED BY <1>1, <1>2, <1>3, <1>4

LEMMA PartsAppend ==
  ASSUME NEW W, NEW all \in Seq(Entry)
  PROVE  /\ Parts(W, all) \in Seq(Char)
         /\ \A e \in Entry : /\ Part(W, e) \in Seq(Char)
                             /\ Parts(W, Append(all, e)) = Parts(W, all) \o Part(W, e)
<1> DEFINE Map(s) == [i \in DOMAIN s |-> Part(W, s[i])]
<1>1. \A e \in Entry : Part(W, e) \in Seq(Char)
  BY EntryType DEF Part
<1>2. ASSUME NEW s \in Seq(Entry)
      PROVE  /\ Map(s) \in Seq(Seq(Char)) /\ Len(Map(s)) = Len(s)
             /\ \A i \in 1..Len(s) : Map(s)[i] = Part(W, s[i])
  <2>1. DOMAIN s = 1..Len(s) /\ Len(s) \in Nat /\ \A i \in 1..Len(s) : s[i] \in Entry
    OBVIOUS
  <2>2. \A i \in 1..Len(s) : Part(W, s[i]) \in Seq(Char)
    BY <1>1, <2>1
  <2> QED BY <2>1, <2>2
<1>3. \A s : Parts(W, s) = FlattenSeq(Map(s))
  BY DEF Parts
<1>4. ASSUME NEW e \in Entry
      PROVE  Parts(W, Append(all, e)) = Parts(W, all) \o Part(W, e)
  <2> DEFINE x == Map(all)
             y == Map(Append(all, e))
             z == Append(x, Part(W, e))
             n == Len(all)
  <2>1. /\ Append(all, e) \in Seq(Entry) /\ Len(Append(all, e)) = n + 1
        /\ Append(all, e)[n + 1] = e /\ n \in Nat
        /\ \A i \in 1..n : Append(all, e)[i] = all[i]
    BY AppendProperties, LenProperties
  <2>2. x \in Seq(Seq(Char)) /\ Len(x) = n /\ \A i \in 1..n : x[i] = Part(W, all[i])
    BY <1>2
  <2>3. /\ y \in Seq(Seq(Char)) /\ Len(y) = n + 1
        /\ \A i \in 1..(n + 1) : y[i] = Part(W, Append(all, e)[i])
    BY <1>2, <2>1
  <2>4. Parts(W, all) = FlattenSeq(x) /\ Parts(W, Append(all, e)) = FlattenSeq(y)
    BY <1>3
  <2> HIDE DEF x, y, Map
  <2>5. /\ z \in Seq(Seq(Char)) /\ Len(z) = n + 1 /\ z[n + 1] = Part(W, e)
        /\ \A i \in 1..n : z[i] = x[i]
    BY <1>1, <2>2, AppendProperties
  <2> HIDE DEF z, n
  <2>6. ASSUME NEW i \in 1..(n + 1)
        PROVE  y[i] = z[i]
    <3>1. CASE i = n + 1
      BY <2>1, <2>3, <2>5, <3>1
    <3>2. CASE i # n + 1
      <4>1. i \in 1..n
        BY <2>1, <3>2
      <4> QED BY <2>1, <2>2, <2>3, <2>5, <4>1
    <3> QED BY <3>1, <3>2
  <2>7. y = z
    BY <2>3, <2>5, <2>6, SeqEqual
  <2>8. FlattenSeq(z) = FlattenSeq(x) \o Part(W, e)
    BY <1>1, <2>2, FlattenAppend DEF z
  <2> QED BY <2>4, <2>7, <2>8
<1>5. Parts(W, all) \in Seq(Char)
  BY <1>2, <1>3, FlattenType
<1> QED BY <1>1, <1>4, <1>5
(* The characters of W on the wire r, and then the one in THR, e. *)
SentBy(W, r, e) == Parts(W, r \o (IF e = NULL THEN <<>> ELSE <<e>>))

LEMMA SentIs ==
  ASSUME NEW W, NEW r \in Seq(Entry), NEW e \in Entry \cup {NULL}
  PROVE  /\ SentBy(W, r, e) \in Seq(Char)
         /\ e = NULL => SentBy(W, r, e) = Parts(W, r)
         /\ e # NULL => SentBy(W, r, e) = Parts(W, r) \o Part(W, e)
<1>1. CASE e = NULL
  <2>1. r \o (IF e = NULL THEN <<>> ELSE <<e>>) = r
    BY <1>1
  <2> QED BY <1>1, <2>1, PartsAppend DEF SentBy
<1>2. CASE e # NULL
  <2>1. r \o (IF e = NULL THEN <<>> ELSE <<e>>) = Append(r, e) /\ Append(r, e) \in Seq(Entry)
    BY <1>2
  <2> QED BY <1>2, <2>1, PartsAppend DEF SentBy
<1> QED BY <1>1, <1>2

(* The two ways of putting a string, and the strings themselves. *)
LEMMA TextTypes ==
  ASSUME NEW s \in Texts
  PROVE  /\ puts(s) \in Seq(Char)
         /\ s # NULL => s \in Seq(Char) /\ puts(s) = Lines(s)
         /\ s = NULL => puts(s) = <<>>
         /\ puts(TickText) \in Seq(Char)
<1>1. ASSUME NEW t \in Seq(Char)
      PROVE  puts(t) \in Seq(Char) /\ (t # NULL => puts(t) = Lines(t))
  <2>1. t # NULL => puts(t) = Lines(t)
    BY DEF puts, Lines, putc
  <2>2. t = NULL => puts(t) = <<>>
    BY DEF puts
  <2>3. Lines(t) \in Seq(Char) /\ <<>> \in Seq(Char)
    BY ExpandedType
  <2>4. CASE t = NULL
    BY <2>2, <2>3, <2>4
  <2>5. CASE t # NULL
    BY <2>1, <2>3, <2>5
  <2> QED BY <2>4, <2>5
<1>2. s \in Seq(Char) \cup {NULL} /\ TickText \in Seq(Char)
  BY UartAssumption
<1>3. s = NULL => puts(s) = <<>>
  BY DEF puts
<1>4. <<>> \in Seq(Char)
  OBVIOUS
<1>5. CASE s = NULL
  BY <1>1, <1>2, <1>3, <1>4, <1>5
<1>6. CASE s # NULL
  BY <1>1, <1>2, <1>6
<1> QED BY <1>5, <1>6

-----------------------------------------------------------------------------
(* The inductive invariant.  A trap runs to its end before anybody else:   *)
(* what it has left to print makes it the one that runs, and its look at   *)
(* LSR is never out of date.  That of the code it interrupted may be, and  *)
(* then THR holds a tick's character, the last one once the tick is over.  *)
Turns ==
  /\ \A w \in {"tick", "write"} : /\ todo[w] # <<>> => trap = w
                                  /\ ready[w] => thr = NULL
  /\ trap = "write" => todo["code"] = <<>>
Stale ==
  ready["code"] /\ thr # NULL =>
    thr.by = "tick" /\ (thr.last \/ (trap = "tick" /\ todo["tick"] # <<>>))
UInv == TypeOK /\ Turns /\ Stale /\ OnlyTickTailLost /\ ThreadOutputWhole

LEMMA UInvInit == Init => UInv
<1> SUFFICES ASSUME Init PROVE UInv
  OBVIOUS
<1>1. TypeOK
  BY UartAssumption, EntryType DEF Init, TypeOK
<1>2. Turns /\ Stale /\ OnlyTickTailLost
  BY EntryType DEF Init, Turns, Stale, OnlyTickTailLost
<1>3. ThreadOutputWhole
  <2>1. Sent(Thread) = <<>>
    <3>1. Sent(Thread) = SentBy(Thread, wire, thr)
      BY DEF Sent, SentBy, Parts, Part
    <3>2. SentBy(Thread, wire, thr) = Parts(Thread, <<>>)
      <4>1. wire = <<>> /\ thr = NULL /\ wire \in Seq(Entry) /\ thr \in Entry \cup {NULL}
        BY DEF Init
      <4> QED BY <4>1, SentIs
    <3>3. [i \in DOMAIN <<>> |-> Part(Thread, <<>>[i])] = <<>>
      OBVIOUS
    <3>4. <<>> \in Seq(Seq(Char))
      OBVIOUS
    <3>5. FlattenSeq(<<>>) = <<>>
      BY <3>4, FlattenType
    <3> QED BY <3>1, <3>2, <3>3, <3>5 DEF Parts
  <2>2. todo["write"] = <<>> /\ todo["code"] = <<>> /\ said = <<>>
    BY EntryType DEF Init
  <2>3. said \in Seq(Char)
    BY <2>2
  <2>4. Lines(said) = <<>>
    BY <2>2, <2>3, NoText
  <2> QED BY <2>1, <2>2, <2>4 DEF ThreadOutputWhole
<1> QED BY <1>1, <1>2, <1>3 DEF UInv

(* What the state says of the thread's output, without Sent. *)
LEMMA Output ==
  ASSUME TypeOK
  PROVE  /\ Sent(Thread) = SentBy(Thread, wire, thr)
         /\ Sent(Thread) \in Seq(Char)
         /\ todo["write"] \in Seq(Char) /\ todo["code"] \in Seq(Char)
         /\ todo["tick"] \in Seq(Char)
         /\ Lines(said) \in Seq(Char)
<1>1. Sent(Thread) = SentBy(Thread, wire, thr)
  BY DEF Sent, SentBy, Parts, Part
<1>2. wire \in Seq(Entry) /\ thr \in Entry \cup {NULL} /\ said \in Seq(Char)
  BY DEF TypeOK
<1>3. todo["write"] \in Seq(Char) /\ todo["code"] \in Seq(Char) /\ todo["tick"] \in Seq(Char)
  BY EntryType DEF TypeOK
<1>4. SentBy(Thread, wire, thr) \in Seq(Char)
  BY <1>2, SentIs
<1>5. Lines(said) \in Seq(Char)
  BY <1>2, ExpandedType
<1> QED BY <1>1, <1>3, <1>4, <1>5

(* The histories when something is printed. *)
LEMMA SayStep ==
  ASSUME UInv, NEW s \in Seq(Char), Say(s), UNCHANGED thr,
         trap = NULL, todo["code"] = <<>>
  PROVE  /\ wire' \in Seq(Entry) /\ said' \in Seq(Char) /\ lost' \subseteq Entry
         /\ ticks' \in 0..kMaxTicks /\ OnlyTickTailLost'
         /\ Sent(Thread)' \in Seq(Char)
         /\ Sent(Thread)' \o Lines(s) = Lines(said)'
<1>1. TypeOK /\ todo["write"] = <<>> /\ OnlyTickTailLost
  BY EntryType DEF UInv, Turns
<1>2. /\ wire \in Seq(Entry) /\ said \in Seq(Char) /\ lost \subseteq Entry
      /\ ticks \in 0..kMaxTicks /\ thr \in Entry \cup {NULL}
  BY <1>1 DEF TypeOK
<1>3. Lines(s) \in Seq(Char)
  BY ExpandedType
<1>4. Sent(Thread)' = SentBy(Thread, wire', thr')
  BY DEF Sent, SentBy, Parts, Part
<1>5. CASE Quiet
  <2>1. wire' = <<>> /\ thr' = NULL /\ ticks' = 0 /\ lost' = {} /\ said' = <<>> \o s
    BY <1>5 DEF Say, Quiet
  <2>2. said' = s /\ wire' \in Seq(Entry) /\ 0 \in 0..kMaxTicks
    BY <2>1, UartAssumption
  <2>3. Sent(Thread)' = <<>>
    <3>1. SentBy(Thread, wire', thr') = Parts(Thread, wire')
      <4>1. thr' \in Entry \cup {NULL}
        BY <2>1
      <4> QED BY <2>1, <2>2, <4>1, SentIs
    <3>2. [i \in DOMAIN <<>> |-> Part(Thread, <<>>[i])] = <<>>
      OBVIOUS
    <3>3. <<>> \in Seq(Seq(Char))
      OBVIOUS
    <3>4. FlattenSeq(<<>>) = <<>>
      BY <3>3, FlattenType
    <3>5. Parts(Thread, <<>>) = <<>>
      BY <3>2, <3>4 DEF Parts
    <3> QED BY <1>4, <2>1, <3>1, <3>5
  <2>4. <<>> \o Lines(s) = Lines(s) /\ <<>> \in Seq(Char)
    BY <1>3
  <2> QED BY <2>1, <2>2, <2>3, <2>4 DEF OnlyTickTailLost
<1>6. CASE ~Quiet
  <2>1. wire' = wire /\ ticks' = ticks /\ lost' = lost /\ said' = said \o s
    BY <1>6 DEF Say
  <2>2. said' \in Seq(Char)
    BY <1>2, <2>1
  <2>3. Sent(Thread)' = Sent(Thread)
    BY <1>1, <1>4, <2>1, Output
  <2>4. Sent(Thread) = Lines(said)
    <3>1. (Sent(Thread) \o <<>>) \o <<>> = Lines(said)
      BY <1>1 DEF UInv, ThreadOutputWhole
    <3> QED BY <1>1, <3>1, Output
  <2>5. Lines(said \o s) = Lines(said) \o Lines(s)
    BY <1>2, LinesConcat
  <2> QED BY <1>1, <1>2, <2>1, <2>2, <2>3, <2>4, <2>5, Output DEF OnlyTickTailLost
<1> QED BY <1>5, <1>6

LEMMA PutsStep ==
  ASSUME UInv, NEW s \in Texts, Puts(s)
  PROVE  UInv'
<1> DEFINE t == IF s = NULL THEN <<>> ELSE s
<1>1. t \in Seq(Char) /\ puts(s) \in Seq(Char) /\ puts(s) = Lines(t)
  <2>1. CASE s = NULL
    BY <2>1, TextTypes, NoText
  <2>2. CASE s # NULL
    BY <2>2, TextTypes
  <2> QED BY <2>1, <2>2
<1>2. Say(t) /\ thr' = thr /\ ready' = ready /\ trap' = trap /\ trap = NULL
  BY DEF Puts
<1>3. todo["code"] = <<>> /\ todo' = [todo EXCEPT !["code"] = puts(s)]
  BY DEF Puts
<1> HIDE DEF t
<1>4. /\ wire' \in Seq(Entry) /\ said' \in Seq(Char) /\ lost' \subseteq Entry
      /\ ticks' \in 0..kMaxTicks /\ OnlyTickTailLost'
      /\ Sent(Thread)' \in Seq(Char)
      /\ Sent(Thread)' \o Lines(t) = Lines(said)'
  BY <1>1, <1>2, <1>3, SayStep
<1>5. TypeOK /\ todo["write"] = <<>> /\ todo["tick"] = <<>> /\ ready["code"] = FALSE
  BY <1>2, <1>3, EntryType DEF UInv, Turns, TypeOK
<1>6. todo' \in [Speakers -> Seq(Char)]
  BY <1>1, <1>3, <1>5 DEF TypeOK
<1>7. todo'["code"] = Lines(t) /\ todo'["write"] = <<>> /\ todo'["tick"] = <<>>
  BY <1>1, <1>3, <1>5, EntryType DEF TypeOK
<1>8. TypeOK'
  <2>1. \A w \in Speakers : ready[w] => todo'[w] # <<>>
    BY <1>3, <1>5, EntryType DEF TypeOK
  <2> QED BY <1>2, <1>4, <1>5, <1>6, <2>1 DEF TypeOK
<1>9. Turns' /\ Stale'
  BY <1>2, <1>5, <1>7, EntryType DEF Turns, Stale, UInv
<1>10. ThreadOutputWhole'
  <2>1. Sent(Thread)' \o <<>> = Sent(Thread)'
    BY <1>4
  <2> QED BY <1>4, <1>7, <2>1 DEF ThreadOutputWhole
<1> QED BY <1>4, <1>8, <1>9, <1>10 DEF UInv

LEMMA SysWriteStep ==
  ASSUME UInv, NEW s \in Texts, SysWrite(s)
  PROVE  UInv'
<1>1. s \in Seq(Char) /\ puts(s) \in Seq(Char) /\ puts(s) = Lines(s)
  BY TextTypes DEF SysWrite
<1>2. Say(s) /\ thr' = thr /\ ready' = ready /\ trap' = "write" /\ trap = NULL
  BY DEF SysWrite
<1>3. todo["code"] = <<>> /\ todo' = [todo EXCEPT !["write"] = puts(s)]
  BY DEF SysWrite
<1>4. /\ wire' \in Seq(Entry) /\ said' \in Seq(Char) /\ lost' \subseteq Entry
      /\ ticks' \in 0..kMaxTicks /\ OnlyTickTailLost'
      /\ Sent(Thread)' \in Seq(Char)
      /\ Sent(Thread)' \o Lines(s) = Lines(said)'
  BY <1>1, <1>2, <1>3, SayStep
<1>5. /\ TypeOK /\ todo["write"] = <<>> /\ todo["tick"] = <<>>
      /\ ready["code"] = FALSE /\ ready["write"] = FALSE /\ ready["tick"] = FALSE
  BY <1>2, <1>3, EntryType DEF UInv, Turns, TypeOK
<1>6. todo' \in [Speakers -> Seq(Char)]
  BY <1>1, <1>3, <1>5 DEF TypeOK
<1>7. todo'["write"] = Lines(s) /\ todo'["code"] = <<>> /\ todo'["tick"] = <<>>
  BY <1>1, <1>3, <1>5, EntryType DEF TypeOK
<1>8. TypeOK'
  <2>1. \A w \in Speakers : ready[w] => todo'[w] # <<>>
    BY <1>5, EntryType DEF TypeOK
  <2> QED BY <1>2, <1>4, <1>5, <1>6, <2>1 DEF TypeOK
<1>9. Turns' /\ Stale'
  BY <1>2, <1>5, <1>7, EntryType DEF Turns, Stale, UInv
<1>10. ThreadOutputWhole'
  <2>1. Lines(said)' \in Seq(Char)
    BY <1>4, ExpandedType
  <2>2. Lines(said)' \o <<>> = Lines(said)'
    BY <2>1
  <2> QED BY <1>4, <1>7, <2>2 DEF ThreadOutputWhole
<1> QED BY <1>4, <1>8, <1>9, <1>10 DEF UInv

(* The thread's output is the same when only other things change. *)
LEMMA OutputStays ==
  ASSUME TypeOK, ThreadOutputWhole, UNCHANGED <<thr, wire, said>>,
         todo'["write"] = todo["write"], todo'["code"] = todo["code"]
  PROVE  ThreadOutputWhole'
<1>1. Sent(Thread)' = Sent(Thread)
  BY DEF Sent
<1>2. Lines(said)' = Lines(said)
  OBVIOUS
<1> QED BY <1>1, <1>2 DEF ThreadOutputWhole

LEMMA TickStep ==
  ASSUME UInv, Tick
  PROVE  UInv'
<1>1. /\ trap = NULL /\ trap' = "tick" /\ ticks < kMaxTicks /\ ticks' = ticks + 1
      /\ todo' = [todo EXCEPT !["tick"] = puts(TickText)]
      /\ thr' = thr /\ ready' = ready /\ wire' = wire /\ said' = said /\ lost' = lost
  BY DEF Tick
<1>2. puts(TickText) \in Seq(Char) /\ puts(TickText) # <<>>
  <2>1. TickText \in Seq(Char) /\ TickText # <<>>
    BY UartAssumption
  <2>2. PICK s \in Seq(Char), ch \in Char : TickText = Append(s, ch)
    BY <2>1, SequenceEmptyOrAppend
  <2>3. Lines(TickText) = Lines(s) \o putc(ch) /\ Lines(s) \in Seq(Char)
    BY <2>2, LinesAppend, ExpandedType
  <2>4. putc(ch) \in Seq(Char) /\ putc(ch) # <<>>
    BY PutcType
  <2>5. Lines(TickText) \in Seq(Char) /\ Lines(TickText) # <<>>
    BY <2>3, <2>4
  <2>6. TickText # NULL
    BY UartAssumption
  <2>7. puts(TickText) = Lines(TickText)
    BY <2>6 DEF puts, Lines, putc
  <2> QED BY <2>5, <2>7
<1>3. TypeOK /\ Turns /\ Stale /\ OnlyTickTailLost /\ ThreadOutputWhole
  BY DEF UInv
<1>4. /\ todo["write"] = <<>> /\ todo["tick"] = <<>>
      /\ ready["write"] = FALSE /\ ready["tick"] = FALSE
  BY <1>1, <1>3, EntryType DEF Turns, TypeOK
<1>5. /\ todo' \in [Speakers -> Seq(Char)] /\ todo'["tick"] = puts(TickText)
      /\ todo'["write"] = todo["write"] /\ todo'["code"] = todo["code"]
  BY <1>1, <1>2, <1>3, EntryType DEF TypeOK
<1>6. TypeOK'
  <2>1. \A w \in Speakers : ready[w] => todo'[w] # <<>>
    BY <1>3, <1>4, <1>5, EntryType DEF TypeOK
  <2>2. ticks' \in 0..kMaxTicks
    BY <1>1, <1>3, UartAssumption DEF TypeOK
  <2> QED BY <1>1, <1>3, <1>5, <2>1, <2>2 DEF TypeOK
<1>7. Turns' /\ Stale'
  BY <1>1, <1>2, <1>3, <1>4, <1>5, EntryType DEF Turns, Stale
<1>8. OnlyTickTailLost'
  BY <1>1, <1>3 DEF OnlyTickTailLost
<1>9. ThreadOutputWhole'
  BY <1>1, <1>3, <1>5, OutputStays
<1> QED BY <1>6, <1>7, <1>8, <1>9 DEF UInv

LEMMA TrapReturnsStep ==
  ASSUME UInv, TrapReturns
  PROVE  UInv'
<1>1. /\ trap # NULL /\ todo[trap] = <<>> /\ trap' = NULL /\ todo' = todo
      /\ ticks' = ticks /\ thr' = thr /\ ready' = ready
      /\ wire' = wire /\ said' = said /\ lost' = lost
  BY DEF TrapReturns
<1>2. TypeOK /\ Turns /\ Stale /\ OnlyTickTailLost /\ ThreadOutputWhole
  BY DEF UInv
<1>3. TypeOK'
  BY <1>1, <1>2 DEF TypeOK
<1>4. Turns' /\ Stale'
  BY <1>1, <1>2, EntryType DEF Turns, Stale, TypeOK
<1>5. OnlyTickTailLost'
  BY <1>1, <1>2 DEF OnlyTickTailLost
<1>6. ThreadOutputWhole'
  BY <1>1, <1>2, OutputStays
<1> QED BY <1>3, <1>4, <1>5, <1>6 DEF UInv

LEMMA ReadLsrStep ==
  ASSUME UInv, NEW w \in Speakers, ReadLsr(w)
  PROVE  UInv'
<1>1. /\ todo[w] # <<>> /\ thr = NULL /\ ready' = [ready EXCEPT ![w] = TRUE]
      /\ ticks' = ticks /\ thr' = thr /\ todo' = todo /\ trap' = trap
      /\ wire' = wire /\ said' = said /\ lost' = lost
  BY DEF ReadLsr, wait_tx_ready
<1>2. TypeOK /\ Turns /\ Stale /\ OnlyTickTailLost /\ ThreadOutputWhole
  BY DEF UInv
<1>3. ready' \in [Speakers -> BOOLEAN] /\ \A v \in Speakers \ {w} : ready'[v] = ready[v]
  BY <1>1, <1>2 DEF TypeOK
<1>4. TypeOK'
  BY <1>1, <1>2, <1>3 DEF TypeOK
<1>5. Turns' /\ Stale'
  BY <1>1, <1>2 DEF Turns, Stale
<1>6. OnlyTickTailLost'
  BY <1>1, <1>2 DEF OnlyTickTailLost
<1>7. ThreadOutputWhole'
  BY <1>1, <1>2, OutputStays
<1> QED BY <1>4, <1>5, <1>6, <1>7 DEF UInv

LEMMA TransmitStep ==
  ASSUME UInv, Transmit
  PROVE  UInv'
<1>1. /\ thr # NULL /\ wire' = Append(wire, thr) /\ thr' = NULL
      /\ todo' = todo /\ ready' = ready /\ trap' = trap /\ said' = said
      /\ ticks' = ticks /\ lost' = lost
  BY DEF Transmit
<1>2. TypeOK /\ Turns /\ Stale /\ OnlyTickTailLost /\ ThreadOutputWhole
  BY DEF UInv
<1>3. thr \in Entry /\ wire \in Seq(Entry) /\ wire' \in Seq(Entry) /\ thr' \in Entry \cup {NULL}
  BY <1>1, <1>2 DEF TypeOK
<1>4. TypeOK'
  BY <1>1, <1>2, <1>3 DEF TypeOK
<1>5. Turns' /\ Stale'
  BY <1>1, <1>2 DEF Turns, Stale
<1>6. OnlyTickTailLost'
  BY <1>1, <1>2 DEF OnlyTickTailLost
<1>7. ThreadOutputWhole'
  <2>1. Sent(Thread)' = SentBy(Thread, wire', thr')
    BY DEF Sent, SentBy, Parts, Part
  <2>2. SentBy(Thread, wire', thr') = Parts(Thread, Append(wire, thr))
    BY <1>1, <1>3, SentIs
  <2>3. Sent(Thread) = Parts(Thread, wire) \o Part(Thread, thr)
    BY <1>1, <1>2, <1>3, SentIs, Output
  <2>4. Sent(Thread)' = Sent(Thread)
    BY <1>3, <2>1, <2>2, <2>3, PartsAppend
  <2>5. Lines(said)' = Lines(said)
    BY <1>1
  <2> QED BY <1>1, <1>2, <2>4, <2>5 DEF ThreadOutputWhole
<1> QED BY <1>4, <1>5, <1>6, <1>7 DEF UInv

LEMMA WriteThrStep ==
  ASSUME UInv, NEW w \in Speakers, WriteThr(w)
  PROVE  UInv'
<1>1. /\ w = Running /\ ready[w] /\ thr' = Written(w)
      /\ lost' = lost \cup ({thr} \ {NULL})
      /\ todo' = [todo EXCEPT ![w] = Tail(todo[w])]
      /\ ready' = [ready EXCEPT ![w] = FALSE]
      /\ trap' = trap /\ wire' = wire /\ said' = said /\ ticks' = ticks
  BY DEF WriteThr, ReadyAfter
<1>2. TypeOK /\ Turns /\ Stale /\ OnlyTickTailLost /\ ThreadOutputWhole
  BY DEF UInv
<1>3. /\ w = "code" => trap = NULL
      /\ w = "write" => trap = "write"
      /\ w = "tick" => trap = "tick"
  BY <1>1, <1>2, EntryType DEF Running, TypeOK
<1>4. todo[w] \in Seq(Char) /\ todo[w] # <<>>
  BY <1>1, <1>2 DEF TypeOK
<1>5. /\ Head(todo[w]) \in Char /\ Tail(todo[w]) \in Seq(Char)
      /\ Len(todo[w]) # 1 => Tail(todo[w]) # <<>>
  <2>1. /\ Head(todo[w]) \in Char /\ Tail(todo[w]) \in Seq(Char)
        /\ Len(Tail(todo[w])) = Len(todo[w]) - 1
    BY <1>4, HeadTailProperties
  <2>2. Len(todo[w]) \in Nat /\ Len(<<>>) = 0
    BY <1>4, LenProperties
  <2>3. Tail(todo[w]) = <<>> => Len(todo[w]) = 1
    <3> DEFINE t == Tail(todo[w])
               n == Len(todo[w])
    <3>1. Len(t) = n - 1 /\ n \in Nat
      BY <2>1, <2>2
    <3> HIDE DEF t, n
    <3>2. t = <<>> => n = 1
      BY <3>1
    <3> QED BY <3>2 DEF t, n
  <2> QED BY <2>1, <2>3
<1>6. /\ Written(w) \in Entry /\ Written(w) # NULL
      /\ Written(w).by = w /\ Written(w).ch = Head(todo[w])
      /\ Len(todo[w]) = 1 => Written(w).last
  <2> DEFINE h == Head(todo[w])
             b == (Len(todo[w]) = 1)
  <2>1. Written(w) = [by |-> w, ch |-> h, last |-> b]
    BY DEF Written
  <2>2. h \in Char /\ b \in BOOLEAN
    BY <1>5
  <2> HIDE DEF h, b
  <2>3. Written(w) \in Entry /\ Written(w).by = w /\ Written(w).ch = h /\ Written(w).last = b
    <3>1. Written(w) \in Entry
      BY <2>1, <2>2 DEF Entry
    <3>2. Written(w).by = w /\ Written(w).ch = h
      BY <2>1
    <3>3. Written(w).last = b
      <4>1. \A v \in BOOLEAN : [by |-> w, ch |-> h, last |-> v].last = v
        BY <2>2, EntryType
      <4> QED BY <2>1, <2>2, <4>1, SMT
    <3> QED BY <3>1, <3>2, <3>3
  <2>4. Written(w) # NULL
    BY <2>3, EntryType
  <2> QED BY <2>3, <2>4, Zenon DEF h, b
(* Nobody replaces anything but the last character of a tick. *)
<1>7. thr # NULL => thr \in Entry /\ thr.by = "tick" /\ thr.last
  <2> SUFFICES ASSUME thr # NULL PROVE thr \in Entry /\ thr.by = "tick" /\ thr.last
    OBVIOUS
  <2>1. thr \in Entry
    BY <1>2 DEF TypeOK
  <2>2. w \notin {"tick", "write"}
    BY <1>1, <1>2 DEF Turns
  <2>3. w = "code"
    BY <2>2, EntryType
  <2>4. trap # "tick"
    BY <1>3, <2>3, EntryType
  <2> QED BY <1>1, <1>2, <2>1, <2>3, <2>4 DEF Stale
<1>8. /\ todo' \in [Speakers -> Seq(Char)] /\ todo'[w] = Tail(todo[w])
      /\ \A v \in Speakers \ {w} : todo'[v] = todo[v]
  BY <1>1, <1>2, <1>5 DEF TypeOK
<1>9. /\ ready' \in [Speakers -> BOOLEAN] /\ ready'[w] = FALSE
      /\ \A v \in Speakers \ {w} : ready'[v] = ready[v]
  BY <1>1, <1>2 DEF TypeOK
<1>10. TypeOK'
  <2>1. thr' \in Entry \cup {NULL} /\ lost' \subseteq Entry
    BY <1>1, <1>2, <1>6, <1>7 DEF TypeOK
  <2>2. \A v \in Speakers : ready'[v] => todo'[v] # <<>>
    BY <1>2, <1>8, <1>9 DEF TypeOK
  <2> QED BY <1>1, <1>2, <1>8, <1>9, <2>1, <2>2 DEF TypeOK
<1>11. OnlyTickTailLost'
  BY <1>1, <1>2, <1>7 DEF OnlyTickTailLost
<1>12. Turns'
  <2>1. ASSUME NEW v \in {"tick", "write"}
        PROVE  (todo'[v] # <<>> => trap' = v) /\ ~ready'[v]
    <3>1. v \in Speakers
      BY EntryType
    <3>2. CASE v = w
      BY <1>1, <1>3, <1>9, <3>2
    <3>3. CASE v # w
      <4>1. todo'[v] = todo[v] /\ ready'[v] = ready[v]
        BY <1>8, <1>9, <3>1, <3>3
      <4>2. trap # v
        BY <1>3, <3>3, EntryType
      <4>3. todo[v] = <<>>
        BY <1>2, <4>2 DEF Turns
      <4>4. ~ready[v]
        BY <1>2, <3>1, <4>3 DEF TypeOK
      <4> QED BY <4>1, <4>3, <4>4
    <3> QED BY <3>2, <3>3
  <2>2. trap' = "write" => todo'["code"] = <<>>
    <3>1. trap = "write" => w # "code"
      BY <1>3, EntryType
    <3> QED BY <1>1, <1>2, <1>8, <3>1, EntryType DEF Turns
  <2> QED BY <2>1, <2>2 DEF Turns
<1>13. Stale'
  <2> SUFFICES ASSUME ready'["code"]
               PROVE  /\ thr'.by = "tick"
                      /\ thr'.last \/ (trap' = "tick" /\ todo'["tick"] # <<>>)
    BY DEF Stale
  <2>1. w # "code" /\ ready["code"]
    BY <1>9, EntryType
  <2>2. todo["code"] # <<>>
    BY <1>2, <2>1, EntryType DEF TypeOK
  <2>3. w # "write"
    BY <1>2, <1>3, <2>2 DEF Turns
  <2>4. w = "tick"
    BY <2>1, <2>3, EntryType
  <2> QED BY <1>1, <1>3, <1>5, <1>6, <1>8, <2>4
(* The character moves from what is left to what has been sent. *)
<1>14. ThreadOutputWhole'
  <2> DEFINE a == Parts(Thread, wire)
             x == todo["write"]
             y == todo["code"]
  <2>1. wire \in Seq(Entry) /\ thr \in Entry \cup {NULL} /\ thr' \in Entry \cup {NULL}
    BY <1>1, <1>2, <1>6 DEF TypeOK
  <2>2. Sent(Thread) = a /\ a \in Seq(Char)
    <3>1. CASE thr = NULL
      BY <1>2, <2>1, <3>1, SentIs, Output
    <3>2. CASE thr # NULL
      <4>1. Part(Thread, thr) = <<>>
        BY <1>7, <3>2, EntryType DEF Part
      <4>2. Sent(Thread) = a \o <<>>
        BY <1>2, <2>1, <3>2, <4>1, SentIs, Output
      <4>3. a \in Seq(Char)
        BY <2>1, PartsAppend
      <4> HIDE DEF a
      <4> QED BY <4>2, <4>3
    <3> QED BY <3>1, <3>2
  <2>3. Sent(Thread)' = a \o Part(Thread, Written(w))
    <3>1. Sent(Thread)' = SentBy(Thread, wire', thr')
      BY DEF Sent, SentBy, Parts, Part
    <3> QED BY <1>1, <1>6, <2>1, <3>1, SentIs
  <2>4. x \in Seq(Char) /\ y \in Seq(Char)
    BY <1>2, Output
  <2>5. (a \o x) \o y = Lines(said)
    BY <1>2, <2>2 DEF ThreadOutputWhole
  <2>6. Lines(said)' = Lines(said)
    BY <1>1
  <2> HIDE DEF a
  <2>7. CASE w = "tick"
    <3>1. Part(Thread, Written(w)) = <<>>
      BY <1>6, <2>7, EntryType DEF Part
    <3>2. Sent(Thread)' = a
      BY <2>2, <2>3, <3>1
    <3>3. todo'["write"] = x /\ todo'["code"] = y
      BY <1>8, <2>7, EntryType
    <3> QED BY <2>5, <2>6, <3>2, <3>3 DEF ThreadOutputWhole
  <2>8. CASE w = "write"
    <3>1. Part(Thread, Written(w)) = <<Head(x)>>
      BY <1>6, <2>8, EntryType DEF Part
    <3>2. todo'["write"] = Tail(x) /\ todo'["code"] = y
      BY <1>8, <2>8, EntryType
    <3>3. (a \o <<Head(x)>>) \o Tail(x) = a \o x
      BY <1>4, <2>2, <2>4, <2>8, WriteOne
    <3> QED BY <2>3, <2>5, <2>6, <3>1, <3>2, <3>3 DEF ThreadOutputWhole
  <2>9. CASE w = "code"
    <3>1. Part(Thread, Written(w)) = <<Head(y)>>
      BY <1>6, <2>9, EntryType DEF Part
    <3>2. x = <<>>
      BY <1>2, <1>3, <2>9, EntryType DEF Turns
    <3>3. todo'["write"] = <<>> /\ todo'["code"] = Tail(y)
      BY <1>8, <2>9, <3>2, EntryType
    <3>4. (a \o <<Head(y)>>) \o Tail(y) = a \o y
      BY <1>4, <2>2, <2>4, <2>9, WriteOne
    <3>5. a \o <<Head(y)>> \in Seq(Char)
      BY <1>4, <1>5, <2>2, <2>9
    <3> DEFINE b == a \o <<Head(y)>>
    <3> HIDE DEF b
    <3>6. b \o <<>> = b
      BY <3>5 DEF b
    <3>7. a \o <<>> = a
      BY <2>2
    <3> QED BY <2>3, <2>5, <2>6, <3>1, <3>2, <3>3, <3>4, <3>6, <3>7 DEF ThreadOutputWhole, b
  <2> QED BY <2>7, <2>8, <2>9, EntryType
<1> QED BY <1>10, <1>11, <1>12, <1>13, <1>14 DEF UInv

LEMMA UInvNext == UInv /\ [Next]_vars => UInv'
<1> SUFFICES ASSUME UInv, [Next]_vars PROVE UInv'
  OBVIOUS
<1>1. ASSUME NEW s \in Texts, Puts(s) PROVE UInv'
  BY <1>1, PutsStep
<1>2. ASSUME NEW s \in Texts, SysWrite(s) PROVE UInv'
  BY <1>2, SysWriteStep
<1>3. CASE Tick
  BY <1>3, TickStep
<1>4. CASE TrapReturns
  BY <1>4, TrapReturnsStep
<1>5. ASSUME NEW w \in Speakers, ReadLsr(w) PROVE UInv'
  BY <1>5, ReadLsrStep
<1>6. ASSUME NEW w \in Speakers, WriteThr(w) PROVE UInv'
  BY <1>6, WriteThrStep
<1>7. CASE Transmit
  BY <1>7, TransmitStep
<1>8. CASE UNCHANGED vars
  <2>1. /\ thr' = thr /\ todo' = todo /\ ready' = ready /\ trap' = trap
        /\ wire' = wire /\ said' = said /\ ticks' = ticks /\ lost' = lost
    BY <1>8 DEF vars
  <2>2. TypeOK' /\ Turns' /\ Stale' /\ OnlyTickTailLost'
    BY <2>1 DEF UInv, TypeOK, Turns, Stale, OnlyTickTailLost
  <2>3. ThreadOutputWhole'
    BY <2>1, OutputStays DEF UInv
  <2> QED BY <2>2, <2>3 DEF UInv
<1>9. ASSUME NEW w \in Speakers, PollAgain(w) PROVE UInv'
  BY <1>8, <1>9 DEF PollAgain
<1> QED BY <1>1, <1>2, <1>3, <1>4, <1>5, <1>6, <1>7, <1>8, <1>9 DEF Next, HartStep

-----------------------------------------------------------------------------
(* What the running thread prints goes out whole, once and in order,       *)
(* whatever it prints and wherever ticks come in between, also between     *)
(* putc_raw's look at LSR and its write of THR (uart.cpp:36-61).           *)
THEOREM ThreadPrintsWhole == Spec => []ThreadOutputWhole
<1>1. UInv => ThreadOutputWhole
  BY DEF UInv
<1> QED BY <1>1, UInvInit, UInvNext, PTL DEF Spec

(* All that is ever overwritten in THR is the last character of what a     *)
(* tick prints (uart.cpp:42-45, timer.cpp:20-21).                          *)
THEOREM OnlyTicksLose == Spec => []OnlyTickTailLost
<1>1. UInv => OnlyTickTailLost
  BY DEF UInv
<1> QED BY <1>1, UInvInit, UInvNext, PTL DEF Spec

(* The register, the speakers' state and the histories keep their types,   *)
(* and whoever has seen THRE still has a character to write.               *)
THEOREM TypesOfUart == Spec => []TypeOK
<1>1. UInv => TypeOK
  BY DEF UInv
<1> QED BY <1>1, UInvInit, UInvNext, PTL DEF Spec
=============================================================================
