----------------------------- MODULE Bots_proof -----------------------------
(***************************************************************************)
(* The properties of Bots for every vocabulary, every reading of numerals, *)
(* integers of every width and messages of every length.                   *)
(***************************************************************************)
EXTENDS Bots, FiniteSetTheorems, SequenceTheorems, TLAPS

-----------------------------------------------------------------------------
(***************************************************************************)
(* Numbers: the least of a set, and induction stated with a set.           *)
(***************************************************************************)
LEMMA MinIsLeast ==
  ASSUME NEW I \in SUBSET Nat, I # {}
  PROVE  Min(I) \in I /\ \A k \in I : Min(I) <= k
<1> DEFINE Less == OpToRel(<, Nat)
<1>1. IsWellFoundedOn(Less, Nat)
  BY NatLessThanWellFounded
<1>2. PICK x \in I : \A y \in I : <<y, x>> \notin Less
  BY <1>1, WFMin
<1>3. \A y \in I : x <= y
  <2>1. \A y \in I : ~(y < x)
    BY <1>2 DEF OpToRel
  <2>2. QED
    BY <2>1
<1>4. QED
  BY <1>3 DEF Min

LEMMA SetInduction ==
  ASSUME NEW S \in SUBSET Nat, 0 \in S, \A n \in S : n + 1 \in S
  PROVE  S = Nat
<1>1. SUFFICES ASSUME Nat \ S # {}  PROVE FALSE
  OBVIOUS
<1>2. Min(Nat \ S) \in Nat \ S /\ \A k \in Nat \ S : Min(Nat \ S) <= k
  BY <1>1, MinIsLeast
<1>3. PICK m \in Nat \ S : \A k \in Nat \ S : m <= k
  BY <1>2
<1>4. m # 0 /\ m - 1 \in Nat
  OBVIOUS
<1>5. m - 1 \in S
  BY <1>3, <1>4
<1>6. QED
  BY <1>5
-----------------------------------------------------------------------------
(***************************************************************************)
(* strlist: the words of a message that are not empty, in their order.     *)
(***************************************************************************)
Message == Seq(Word)

Lower(w) == [w EXCEPT !.capital = FALSE]

\* f is what strlist's definition chooses: the list of words as it grows.
Filters(s, n, f) ==
  f = [i \in 0 .. n |-> IF i = 0 THEN << >>
                        ELSE IF Blank(s[i]) THEN f[i - 1]
                        ELSE Append(f[i - 1], [s[i] EXCEPT !.capital = FALSE])]

LEMMA SomeFilters ==
  ASSUME NEW s, NEW n \in Nat
  PROVE  \E f : Filters(s, n, f)
<1> DEFINE S == {k \in Nat : \E f : Filters(s, k, f)}
<1>1. 0 \in S
  <2>1. Filters(s, 0, [i \in 0 .. 0 |-> << >>])
    BY DEF Filters
  <2>2. QED
    BY <2>1
<1>2. ASSUME NEW k \in S  PROVE k + 1 \in S
  <2>1. PICK f : Filters(s, k, f)
    BY <1>2
  <2> DEFINE g == [i \in 0 .. k + 1 |-> IF i <= k THEN f[i]
                                        ELSE IF Blank(s[i]) THEN f[k]
                                        ELSE Append(f[k], [s[i] EXCEPT !.capital = FALSE])]
  <2>2. ASSUME NEW i \in 0 .. k + 1
        PROVE  g[i] = IF i = 0 THEN << >>
                      ELSE IF Blank(s[i]) THEN g[i - 1]
                      ELSE Append(g[i - 1], [s[i] EXCEPT !.capital = FALSE])
    <3>1. CASE i <= k
      <4>1. i \in 0 .. k /\ g[i] = f[i]
        BY <3>1
      <4>2. i # 0 => i - 1 \in 0 .. k + 1 /\ i - 1 <= k
        BY <3>1, <1>2
      <4>3. i # 0 => g[i - 1] = f[i - 1]
        BY <4>2
      <4>4. QED
        BY <4>1, <4>3, <2>1 DEF Filters
    <3>2. CASE i = k + 1
      <4>1. i - 1 = k /\ i # 0 /\ ~(i <= k) /\ k \in 0 .. k + 1
        BY <3>2, <1>2
      <4>2. g[k] = f[k]
        BY <4>1
      <4>3. g[i] = IF Blank(s[i]) THEN f[k]
                   ELSE Append(f[k], [s[i] EXCEPT !.capital = FALSE])
        BY <4>1
      <4>4. QED
        BY <4>1, <4>2, <4>3
    <3>3. QED
      BY <3>1, <3>2
  <2>3. g = [i \in 0 .. k + 1 |-> g[i]]
    OBVIOUS
  <2> HIDE DEF g
  <2>4. Filters(s, k + 1, g)
    BY <2>2, <2>3 DEF Filters
  <2>5. k + 1 \in Nat
    BY <1>2
  <2>6. QED
    BY <2>4, <2>5
<1>3. S = Nat
  <2> HIDE DEF S
  <2>1. S \subseteq Nat
    BY DEF S
  <2>2. QED
    BY <1>1, <1>2, <2>1, SetInduction
<1>4. QED
  BY <1>3

LEMMA StrlistFilters ==
  ASSUME NEW s, Len(s) \in Nat
  PROVE  \E f : Filters(s, Len(s), f) /\ strlist(s) = f[Len(s)]
<1> DEFINE f == CHOOSE g : Filters(s, Len(s), g)
<1>1. Filters(s, Len(s), f)
  BY SomeFilters
<1>2. strlist(s) = f[Len(s)]
  BY DEF strlist, Filters
<1>3. QED
  BY <1>1, <1>2

\* at[k] is the place in s of the k-th of the words l, which are all those of
\* the first n that are not empty.
Places(at, l, s, n) ==
  /\ at \in [1 .. Len(l) -> 1 .. n]
  /\ \A k \in 1 .. Len(l) : at[k] \in WordsOf(s) /\ l[k] = Lower(s[at[k]])
  /\ \A i \in WordsOf(s) : i <= n => \E k \in 1 .. Len(l) : at[k] = i
  /\ \A j, k \in 1 .. Len(l) : j < k => at[j] < at[k]

Sifted(l, s, n) == l \in Seq(Word) /\ \E at : Places(at, l, s, n)

LEMMA LowerWord ==
  ASSUME NEW w \in Word
  PROVE  /\ Lower(w) \in Word
         /\ Lower(w).stem = w.stem /\ Lower(w).marks = w.marks /\ ~Lower(w).capital
BY DEF Word, Lower

LEMMA OneMoreWord ==
  ASSUME NEW s \in Message, NEW n \in Nat, n + 1 <= Len(s), NEW l, Sifted(l, s, n)
  PROVE  Sifted(IF Blank(s[n + 1]) THEN l ELSE Append(l, Lower(s[n + 1])), s, n + 1)
<1> USE DEF WordsOf
<1>0. /\ DOMAIN s = 1 .. Len(s) /\ Len(s) \in Nat /\ n + 1 \in 1 .. Len(s)
      /\ \A i \in DOMAIN s : s[i] \in Word
  BY DEF Message
<1>1. PICK at : Places(at, l, s, n)
  BY DEF Sifted
<1>2. l \in Seq(Word) /\ Len(l) \in Nat
  BY DEF Sifted
<1>3. CASE Blank(s[n + 1])
  <2>1. Places(at, l, s, n + 1)
    BY <1>0, <1>1, <1>2, <1>3 DEF Places
  <2>2. QED
    BY <1>2, <1>3, <2>1 DEF Sifted
<1>4. CASE ~Blank(s[n + 1])
  <2> DEFINE more == Append(l, Lower(s[n + 1]))
             to == [k \in 1 .. Len(l) + 1 |-> IF k <= Len(l) THEN at[k] ELSE n + 1]
  <2>1. s[n + 1] \in Word /\ Lower(s[n + 1]) \in Word
    BY <1>0, LowerWord
  <2>2. /\ more \in Seq(Word) /\ Len(more) = Len(l) + 1
        /\ more[Len(l) + 1] = Lower(s[n + 1])
        /\ \A k \in 1 .. Len(l) : more[k] = l[k]
    BY <1>2, <2>1
  <2>3. /\ to[Len(l) + 1] = n + 1
        /\ \A k \in 1 .. Len(l) : to[k] = at[k] /\ at[k] \in 1 .. n
        /\ to \in [1 .. Len(l) + 1 -> 1 .. n + 1]
    <3>1. \A k \in 1 .. Len(l) : at[k] \in 1 .. n
      BY <1>1 DEF Places
    <3>2. Len(l) + 1 \in 1 .. Len(l) + 1 /\ ~(Len(l) + 1 <= Len(l))
      BY <1>2
    <3>3. \A k \in 1 .. Len(l) : k \in 1 .. Len(l) + 1 /\ k <= Len(l)
      BY <1>2
    <3>4. \A k \in 1 .. Len(l) + 1 : k <= Len(l) => k \in 1 .. Len(l)
      OBVIOUS
    <3>5. \A i \in 1 .. n : i \in 1 .. n + 1
      OBVIOUS
    <3>6. n + 1 \in 1 .. n + 1
      OBVIOUS
    <3>7. QED
      BY <3>1, <3>2, <3>3, <3>4, <3>5, <3>6
  <2>4. \A k \in 1 .. Len(l) + 1 : k \in 1 .. Len(l) \/ k = Len(l) + 1
    BY <1>2
  <2> HIDE DEF more, to
  <2>5. Places(to, more, s, n + 1)
    <3>1. \A k \in 1 .. Len(more) : to[k] \in WordsOf(s) /\ more[k] = Lower(s[to[k]])
      BY <1>0, <1>1, <1>4, <2>2, <2>3, <2>4 DEF Places
    <3>2. ASSUME NEW i \in WordsOf(s), i <= n + 1
          PROVE  \E k \in 1 .. Len(more) : to[k] = i
      <4>1. CASE i <= n
        <5>1. PICK k \in 1 .. Len(l) : at[k] = i
          BY <1>1, <3>2, <4>1 DEF Places
        <5>2. k \in 1 .. Len(more) /\ to[k] = i
          BY <1>2, <2>2, <2>3, <5>1
        <5>3. QED
          BY <5>2
      <4>2. CASE i = n + 1
        BY <1>2, <2>2, <2>3, <4>2
      <4>3. QED
        BY <1>0, <3>2, <4>1, <4>2
    <3>3. ASSUME NEW j \in 1 .. Len(more), NEW k \in 1 .. Len(more), j < k
          PROVE  to[j] < to[k]
      <4>1. j \in 1 .. Len(l)
        BY <1>2, <2>2, <3>3
      <4>2. CASE k \in 1 .. Len(l)
        BY <1>1, <2>3, <3>3, <4>1, <4>2 DEF Places
      <4>3. CASE k = Len(l) + 1
        BY <2>3, <4>1, <4>3
      <4>4. QED
        BY <2>2, <2>4, <4>2, <4>3
    <3>4. QED
      BY <2>2, <2>3, <3>1, <3>2, <3>3 DEF Places
  <2>6. QED
    BY <1>4, <2>2, <2>5 DEF Sifted, more
<1>5. QED
  BY <1>3, <1>4

\* strlist(s) is the words of s that are not empty, each once, in their order,
\* in lower case.
LEMMA StrlistSifts ==
  ASSUME NEW s \in Message
  PROVE  Sifted(strlist(s), s, Len(s))
<1>0. Len(s) \in Nat
  OBVIOUS
<1>1. PICK n \in Nat : n = Len(s)
  BY <1>0
<1>2. PICK f : Filters(s, n, f) /\ strlist(s) = f[n]
  BY <1>1, StrlistFilters
<1> DEFINE S == {i \in Nat : i <= n => Sifted(f[i], s, i)}
<1>3. 0 \in S
  <2>1. f[0] = << >>
    BY <1>2 DEF Filters
  <2>2. WordsOf(s) \subseteq 1 .. Len(s)
    BY DEF WordsOf
  <2>3. << >> \in Seq(Word) /\ Len(<< >>) = 0
    OBVIOUS
  <2>4. Places(<< >>, << >>, s, 0)
    BY <1>0, <2>2, <2>3 DEF Places
  <2>5. QED
    BY <2>1, <2>3, <2>4 DEF Sifted
<1>4. ASSUME NEW i \in S  PROVE i + 1 \in S
  <2>1. CASE i + 1 <= n
    <3>1. i \in Nat /\ Sifted(f[i], s, i)
      BY <1>4, <2>1
    <3>2. i + 1 \in 0 .. n /\ i + 1 # 0 /\ (i + 1) - 1 = i
      BY <2>1, <3>1
    <3>3. f[i + 1] = IF Blank(s[i + 1]) THEN f[i] ELSE Append(f[i], Lower(s[i + 1]))
      BY <1>2, <3>2 DEF Filters, Lower
    <3>4. Sifted(f[i + 1], s, i + 1)
      BY <1>1, <2>1, <3>1, <3>3, OneMoreWord
    <3>5. QED
      BY <3>1, <3>4
  <2>2. CASE ~(i + 1 <= n)
    BY <1>4, <2>2
  <2>3. QED
    BY <2>1, <2>2
<1>5. S = Nat
  <2> HIDE DEF S
  <2>1. S \subseteq Nat
    BY DEF S
  <2>2. QED
    BY <1>3, <1>4, <2>1, SetInduction
<1>6. QED
  BY <1>1, <1>2, <1>5

\* A word of the list is one of the message's, neither empty nor capital.
LEMMA ListedWord ==
  ASSUME NEW s \in Message, NEW l, NEW at, Places(at, l, s, Len(s)),
         NEW k \in 1 .. Len(l)
  PROVE  /\ at[k] \in WordsOf(s) /\ s[at[k]] \in Word /\ ~Blank(s[at[k]])
         /\ l[k] = Lower(s[at[k]]) /\ l[k] \in Word
         /\ l[k].stem = s[at[k]].stem /\ l[k].marks = s[at[k]].marks /\ ~l[k].capital
<1>1. at[k] \in WordsOf(s) /\ l[k] = Lower(s[at[k]])
  BY DEF Places
<1>2. s[at[k]] \in Word /\ ~Blank(s[at[k]])
  BY <1>1 DEF WordsOf, Message
<1>3. QED
  BY <1>1, <1>2, LowerWord

LEMMA WordsAreNumbered ==
  ASSUME NEW s \in Message
  PROVE  WordsOf(s) \in SUBSET Nat /\ WordsOf(s) \subseteq 1 .. Len(s)
BY DEF WordsOf

LEMMA StrlistEmpty ==
  ASSUME NEW s \in Message
  PROVE  strlist(s) = << >> <=> WordsOf(s) = {}
<1>1. PICK l : l = strlist(s)
  OBVIOUS
<1>2. l \in Seq(Word) /\ Len(l) \in Nat /\ \E at : Places(at, l, s, Len(s))
  BY <1>1, StrlistSifts DEF Sifted
<1>3. PICK at : Places(at, l, s, Len(s))
  BY <1>2
<1>4. Len(l) = 0 <=> 1 .. Len(l) = {}
  <2>1. \A n \in Nat : n = 0 <=> 1 .. n = {}
    <3> SUFFICES ASSUME NEW n \in Nat  PROVE n = 0 <=> 1 .. n = {}
      OBVIOUS
    <3>1. n # 0 => 1 \in 1 .. n
      OBVIOUS
    <3>2. n = 0 => 1 .. n = {}
      OBVIOUS
    <3>3. QED
      BY <3>1, <3>2
  <2>2. QED
    BY <1>2, <2>1, Zenon
<1>5. 1 .. Len(l) = {} <=> WordsOf(s) = {}
  BY <1>3, WordsAreNumbered DEF Places
<1>6. l = << >> <=> Len(l) = 0
  BY <1>2
<1>7. QED
  BY <1>1, <1>4, <1>5, <1>6

\* at numbers the places in W from 1 to n, in their order.
Numbers(at, n, W) ==
  /\ n \in Nat /\ W \subseteq Nat /\ at \in [1 .. n -> W]
  /\ \A i \in W : \E k \in 1 .. n : at[k] = i
  /\ \A j, k \in 1 .. n : j < k => at[j] < at[k]

LEMMA StrlistNumbers ==
  ASSUME NEW s \in Message
  PROVE  /\ strlist(s) \in Seq(Word)
         /\ \E at : /\ Places(at, strlist(s), s, Len(s))
                    /\ Numbers(at, Len(strlist(s)), WordsOf(s))
<1>1. PICK l : l = strlist(s)
  OBVIOUS
<1>2. l \in Seq(Word) /\ Len(l) \in Nat /\ \E at : Places(at, l, s, Len(s))
  BY <1>1, StrlistSifts DEF Sifted
<1>3. PICK at : Places(at, l, s, Len(s))
  BY <1>2
<1>4. WordsOf(s) \in SUBSET Nat /\ WordsOf(s) \subseteq 1 .. Len(s)
  BY WordsAreNumbered
<1>5. Numbers(at, Len(l), WordsOf(s))
  <2>1. at \in [1 .. Len(l) -> WordsOf(s)]
    BY <1>3 DEF Places
  <2>2. ASSUME NEW i \in WordsOf(s)  PROVE \E k \in 1 .. Len(l) : at[k] = i
    <3>1. i <= Len(s)
      BY <1>4
    <3>2. QED
      BY <1>3, <3>1 DEF Places
  <2>3. \A j, k \in 1 .. Len(l) : j < k => at[j] < at[k]
    BY <1>3 DEF Places
  <2>4. QED
    BY <1>2, <1>4, <2>1, <2>2, <2>3 DEF Numbers
<1>6. QED
  BY <1>1, <1>2, <1>3, <1>5

\* I are the numbers of the places in J.
Selects(I, at, n, J) == I = {k \in 1 .. n : at[k] \in J}

\* The first word of the list for which something holds is the first such word
\* of the message.
LEMMA FirstPlace ==
  ASSUME NEW n, NEW W, NEW at, Numbers(at, n, W), NEW J, J \subseteq W,
         NEW I, Selects(I, at, n, J)
  PROVE  /\ I = {} <=> J = {}
         /\ I # {} => Min(I) \in I /\ Min(J) \in J /\ at[Min(I)] = Min(J)
<1>0. J \subseteq Nat /\ I \subseteq Nat /\ I \subseteq 1 .. n
  BY DEF Numbers, Selects
<1>1. \A j \in J : \E k \in I : at[k] = j
  BY DEF Numbers, Selects
<1>2. \A k \in I : at[k] \in J
  BY DEF Selects
<1>3. ASSUME I # {}
      PROVE  Min(I) \in I /\ Min(J) \in J /\ at[Min(I)] = Min(J)
  <2>1. PICK m \in I : m = Min(I) /\ \A k \in I : m <= k
    BY <1>0, <1>3, MinIsLeast
  <2>2. at[m] \in J /\ at[m] \in Nat
    BY <1>0, <1>2
  <2>3. PICK q \in J : q = Min(J) /\ \A j \in J : q <= j
    BY <1>0, <2>2, MinIsLeast
  <2>4. PICK k \in I : at[k] = q
    BY <1>1
  <2>5. CASE k = m
    BY <2>1, <2>3, <2>4, <2>5
  <2>6. CASE m < k
    <3>1. at[m] < at[k]
      BY <1>0, <2>6 DEF Numbers
    <3>2. q <= at[m] /\ q \in Nat
      BY <1>0, <2>2, <2>3
    <3>3. QED
      BY <2>2, <2>4, <3>1, <3>2
  <2>7. m \in Nat /\ k \in Nat /\ m <= k
    BY <1>0, <2>1
  <2>8. QED
    BY <2>5, <2>6, <2>7
<1>4. QED
  BY <1>1, <1>2, <1>3
-----------------------------------------------------------------------------
(***************************************************************************)
(* What the scans of a list find, said of the message.                     *)
(***************************************************************************)
Joes == {"im", "joe", ":("}
Keys == {"joke", "you", "im"}

JoeWords(s) == {i \in WordsOf(s) : s[i].marks = << >> /\ s[i].stem \in Joes}
KeyWords(s) == {i \in WordsOf(s) : Len(s[i].marks) <= 1 /\ s[i].stem \in Keys}
Ims(s) == {i \in WordsOf(s) : Exactly(s[i], "im")}

\* A word of the list is matched by a pattern if it is that word without marks.
LEMMA LowerStem ==
  ASSUME NEW w \in Word, ~w.capital, NEW stem, stem # "none"
  PROVE  Stem(w) = stem <=> w.marks = << >> /\ w.stem = stem
BY DEF Stem

LEMMA Beginning ==
  ASSUME NEW S, NEW m, NEW e \in Nat, \A i \in 1 .. e : m[i] \in S
  PROVE  SubSeq(m, 1, e) \in Seq(S) /\ Len(SubSeq(m, 1, e)) = e
<1>1. /\ SubSeq(m, 1, e) \in Seq(S)
      /\ Len(SubSeq(m, 1, e)) = IF 1 <= e THEN e - 1 + 1 ELSE 0
  BY SubSeqProperties
<1>2. QED
  BY <1>1

LEMMA FrontEmpty ==
  ASSUME NEW S, NEW m \in Seq(S), m # << >>
  PROVE  Front(m) = << >> <=> Len(m) <= 1
<1>1. PICK e \in Nat : Len(m) = e + 1 /\ e = Len(m) - 1 /\ \A i \in 1 .. e : m[i] \in S
  BY EmptySeq
<1>2. Len(Front(m)) = e /\ Front(m) \in Seq(S)
  BY <1>1, Beginning DEF Front
<1>3. Front(m) = << >> <=> Len(Front(m)) = 0
  BY <1>2, EmptySeq
<1>4. QED
  BY <1>1, <1>2, <1>3

LEMMA MarkLess ==
  ASSUME NEW w \in Word, ~w.capital, NEW stem, stem # "none"
  PROVE  Stem(remove_punc(w)) = stem <=> Len(w.marks) <= 1 /\ w.stem = stem
<1>0. w = [stem |-> w.stem, capital |-> w.capital, marks |-> w.marks]
      /\ w.marks \in Seq(Marks)
  BY DEF Word
<1>1. PICK m \in Seq(Marks) : w.marks = m
  BY <1>0
<1>2. PICK r : r = remove_punc(w)
  OBVIOUS
<1>3. CASE w.marks = << >>
  <2>1. r.marks = << >> /\ r.stem = w.stem /\ ~r.capital /\ Len(w.marks) <= 1
    BY <1>0, <1>2, <1>3 DEF remove_punc
  <2>2. QED
    BY <1>2, <2>1 DEF Stem
<1>4. CASE w.marks # << >>
  <2>1. r.marks = Front(w.marks) /\ r.stem = w.stem /\ ~r.capital
    BY <1>0, <1>2, <1>4 DEF remove_punc
  <2>2. Front(m) = << >> <=> Len(m) <= 1
    BY <1>1, <1>4, FrontEmpty
  <2>3. QED
    BY <1>1, <1>2, <2>1, <2>2 DEF Stem
<1>5. QED
  BY <1>3, <1>4

\* I are the words of the list l that stand at the places J of the message s.
Scans(I, J, at, l, s) ==
  /\ Places(at, l, s, Len(s)) /\ Numbers(at, Len(l), WordsOf(s))
  /\ J \subseteq WordsOf(s) /\ Selects(I, at, Len(l), J)

\* The first word of I is the first of J.
Finds(I, J, at, l, s) ==
  /\ I = {} <=> J = {}
  /\ I # {} => /\ Min(I) \in I /\ Min(I) \in 1 .. Len(l) /\ Min(I) # 0
              /\ Min(J) \in J /\ at[Min(I)] = Min(J)
              /\ l[Min(I)].stem = s[Min(J)].stem

LEMMA ScanFinds ==
  ASSUME NEW s \in Message, NEW l, NEW at, NEW I, NEW J, Scans(I, J, at, l, s)
  PROVE  Finds(I, J, at, l, s)
<1>1. PICK n, W : n = Len(l) /\ W = WordsOf(s)
  OBVIOUS
<1>2. Numbers(at, n, W) /\ J \subseteq W /\ Selects(I, at, n, J)
  BY <1>1 DEF Scans
<1>3. /\ I = {} <=> J = {}
      /\ I # {} => Min(I) \in I /\ Min(J) \in J /\ at[Min(I)] = Min(J)
  BY <1>2, FirstPlace
<1>4. I \subseteq 1 .. Len(l)
  BY DEF Selects, Scans
<1>5. I # {} => Min(I) \in 1 .. Len(l) /\ Min(I) # 0
  <2>1. \A k \in 1 .. Len(l) : k # 0
    OBVIOUS
  <2>2. QED
    BY <1>3, <1>4, <2>1, Zenon
<1>6. I # {} => l[Min(I)].stem = s[Min(J)].stem
  BY <1>3, <1>5, ListedWord DEF Scans
<1>7. QED
  BY <1>3, <1>5, <1>6 DEF Finds

LEMMA JoeHears ==
  ASSUME NEW s \in Message
  PROVE  joe_key_words(strlist(s)) =
           IF JoeWords(s) = {} THEN "none" ELSE s[Min(JoeWords(s))].stem
<1>1. PICK l : l = strlist(s)
  OBVIOUS
<1>2. PICK at : Places(at, l, s, Len(s)) /\ Numbers(at, Len(l), WordsOf(s))
  BY <1>1, StrlistNumbers
<1>3. PICK I : I = {k \in 1 .. Len(l) : Stem(l[k]) \in Joes}
  OBVIOUS
<1>4. ASSUME NEW k \in 1 .. Len(l)  PROVE k \in I <=> at[k] \in JoeWords(s)
  <2>1. l[k] \in Word /\ ~l[k].capital /\ at[k] \in WordsOf(s)
        /\ l[k].stem = s[at[k]].stem /\ l[k].marks = s[at[k]].marks
    BY <1>2, ListedWord
  <2>2. \A stem \in Joes : Stem(l[k]) = stem <=> l[k].marks = << >> /\ l[k].stem = stem
    BY <2>1, LowerStem DEF Joes
  <2>3. QED
    BY <1>3, <2>1, <2>2 DEF JoeWords
<1>5. Scans(I, JoeWords(s), at, l, s)
  BY <1>2, <1>3, <1>4 DEF Scans, Selects, JoeWords
<1>6. Finds(I, JoeWords(s), at, l, s)
  BY <1>5, ScanFinds
<1>7. SelectInSeq(l, LAMBDA w : Stem(w) \in {"im", "joe", ":("})
        = IF I # {} THEN Min(I) ELSE 0
  BY <1>3 DEF SelectInSeq, Joes
<1>8. QED
  BY <1>6, <1>1, <1>7 DEF Finds, joe_key_words

LEMMA KeyHears ==
  ASSUME NEW s \in Message
  PROVE  key_word(strlist(s)) =
           IF KeyWords(s) = {} THEN "none" ELSE s[Min(KeyWords(s))].stem
<1>1. PICK l : l = strlist(s)
  OBVIOUS
<1>2. PICK at : Places(at, l, s, Len(s)) /\ Numbers(at, Len(l), WordsOf(s))
  BY <1>1, StrlistNumbers
<1>3. PICK I : I = {k \in 1 .. Len(l) : Stem(remove_punc(l[k])) \in Keys}
  OBVIOUS
<1>4. ASSUME NEW k \in 1 .. Len(l)  PROVE k \in I <=> at[k] \in KeyWords(s)
  <2>1. l[k] \in Word /\ ~l[k].capital /\ at[k] \in WordsOf(s)
        /\ l[k].stem = s[at[k]].stem /\ l[k].marks = s[at[k]].marks
    BY <1>2, ListedWord
  <2>2. \A stem \in Keys : Stem(remove_punc(l[k])) = stem
                             <=> Len(l[k].marks) <= 1 /\ l[k].stem = stem
    BY <2>1, MarkLess DEF Keys
  <2>3. QED
    BY <1>3, <2>1, <2>2 DEF KeyWords
<1>5. Scans(I, KeyWords(s), at, l, s)
  BY <1>2, <1>3, <1>4 DEF Scans, Selects, KeyWords
<1>6. Finds(I, KeyWords(s), at, l, s)
  BY <1>5, ScanFinds
<1>7. SelectInSeq(l, LAMBDA w : Stem(remove_punc(w)) \in {"joke", "you", "im"})
        = IF I # {} THEN Min(I) ELSE 0
  BY <1>3 DEF SelectInSeq, Keys
<1>8. QED
  BY <1>6, <1>1, <1>7 DEF Finds, key_word

\* im(strlist(s)) is the number of the first "im" without a mark.
LEMMA ImHears ==
  ASSUME NEW s \in Message, NEW l, l = strlist(s), NEW at,
         Places(at, l, s, Len(s)), Numbers(at, Len(l), WordsOf(s))
  PROVE  /\ im(l) = 0 <=> Ims(s) = {}
         /\ im(l) # 0 => /\ im(l) \in 1 .. Len(l)
                         /\ Min(Ims(s)) \in Ims(s) /\ at[im(l)] = Min(Ims(s))
<1>1. PICK I : I = {k \in 1 .. Len(l) : Stem(l[k]) = "im"}
  OBVIOUS
<1>2. ASSUME NEW k \in 1 .. Len(l)  PROVE k \in I <=> at[k] \in Ims(s)
  <2>1. l[k] \in Word /\ ~l[k].capital /\ at[k] \in WordsOf(s)
        /\ l[k].stem = s[at[k]].stem /\ l[k].marks = s[at[k]].marks
    BY ListedWord
  <2>2. Stem(l[k]) = "im" <=> l[k].marks = << >> /\ l[k].stem = "im"
    BY <2>1, LowerStem
  <2>3. QED
    BY <1>1, <2>1, <2>2 DEF Ims, Exactly, Is
<1>3. Scans(I, Ims(s), at, l, s)
  BY <1>1, <1>2 DEF Scans, Selects, Ims
<1>4. Finds(I, Ims(s), at, l, s)
  BY <1>3, ScanFinds
<1>5. im(l) = IF I # {} THEN Min(I) ELSE 0
  BY <1>1 DEF SelectInSeq, im
<1>6. QED
  BY <1>4, <1>5 DEF Finds

\* The head of the list is the first word of the message.
LEMMA HeadHears ==
  ASSUME NEW s \in Message, WordsOf(s) # {}
  PROVE  /\ Min(WordsOf(s)) \in WordsOf(s)
         /\ is_math_mode(strlist(s)) <=> Exactly(s[Min(WordsOf(s))], "mathmode")
<1>1. PICK l : l = strlist(s)
  OBVIOUS
<1>2. PICK at : Places(at, l, s, Len(s)) /\ Numbers(at, Len(l), WordsOf(s))
  BY <1>1, StrlistNumbers
<1>3. PICK I : I = 1 .. Len(l)
  OBVIOUS
<1>4. Scans(I, WordsOf(s), at, l, s)
  BY <1>2, <1>3 DEF Scans, Selects, Places
<1>5. Finds(I, WordsOf(s), at, l, s)
  BY <1>4, ScanFinds
<1>6. I # {} /\ Min(I) \in I /\ Min(WordsOf(s)) \in WordsOf(s)
      /\ at[Min(I)] = Min(WordsOf(s))
  <2>1. PICK k \in 1 .. Len(l) : TRUE
    BY <1>2 DEF Numbers
  <2>2. QED
    BY <1>5, <1>3, <2>1 DEF Finds
<1>7. Min(I) = 1
  <2>1. I \subseteq Nat /\ 1 \in I
    BY <1>3, <1>6
  <2>2. Min(I) <= 1
    BY <2>1, MinIsLeast
  <2>3. QED
    BY <1>3, <1>6, <2>2
<1>8. /\ l[1] \in Word /\ ~l[1].capital
      /\ l[1].stem = s[at[1]].stem /\ l[1].marks = s[at[1]].marks
  BY <1>2, <1>3, <1>6, <1>7, ListedWord
<1>9. Stem(l[1]) = "mathmode" <=> l[1].marks = << >> /\ l[1].stem = "mathmode"
  BY <1>8, LowerStem
<1>10. QED
  BY <1>1, <1>6, <1>7, <1>8, <1>9 DEF is_math_mode, Exactly, Is
-----------------------------------------------------------------------------
(***************************************************************************)
(* Every message is a sequence of words.                                   *)
(***************************************************************************)
LEMMA AlwaysMessage == Spec => [](msg \in Message)
<1>1. Init => msg \in Message
  BY DEF Init, Message
<1>2. msg \in Message /\ [Next]_msg => (msg \in Message)'
  <2>1. ASSUME msg \in Message, NEW w \in Words, Type(w)
        PROVE  (msg \in Message)'
    <3>1. w \in Word
      BY WordAssumption
    <3>2. QED
      BY <2>1, <3>1 DEF Type, Message
  <2>2. QED
    BY <2>1 DEF Next
<1>3. QED
  BY <1>1, <1>2, PTL DEF Spec
-----------------------------------------------------------------------------
(***************************************************************************)
(* JoeStandsBy: the first word that Joe knows stays the first.             *)
(***************************************************************************)
LEMMA JoeTopic ==
  ASSUME NEW s \in Message, NEW answer \in joe_bot_response(s)
  PROVE  /\ WordsOf(s) # {}
         /\ answer.speaks <=> answer.topic # "none"
         /\ answer.topic = IF Exactly(s[Min(WordsOf(s))], "mathmode") THEN "math"
                           ELSE IF JoeWords(s) = {} THEN "none"
                           ELSE s[Min(JoeWords(s))].stem
<1>1. PICK l, key : l = strlist(s) /\ key = joe_key_words(l)
  OBVIOUS
<1>2. l # << >>
  BY <1>1 DEF joe_bot_response
<1>3. WordsOf(s) # {}
  BY <1>1, <1>2, StrlistEmpty
<1>4. is_math_mode(l) <=> Exactly(s[Min(WordsOf(s))], "mathmode")
  BY <1>1, <1>3, HeadHears
<1>5. key = IF JoeWords(s) = {} THEN "none" ELSE s[Min(JoeWords(s))].stem
  BY <1>1, JoeHears
<1>6. /\ answer.topic = IF is_math_mode(l) THEN "math" ELSE key
      /\ answer.speaks <=> answer.topic # "none"
  <2>1. CASE is_math_mode(l)
    <3>1. answer = [speaks |-> TRUE, topic |-> "math", rest |-> << >>,
                    number |-> math_eval(Tail(l))]
      BY <1>1, <1>2, <2>1 DEF joe_bot_response
    <3>2. QED
      BY <2>1, <3>1
  <2>2. CASE ~is_math_mode(l) /\ key = "im"
    <3>1. PICK rest : answer = [speaks |-> TRUE, topic |-> "im", rest |-> rest, number |-> {}]
      BY <1>1, <1>2, <2>2 DEF joe_bot_response
    <3>2. QED
      BY <2>2, <3>1
  <2>3. CASE ~is_math_mode(l) /\ key # "im"
    <3>1. answer = [speaks |-> key # "none", topic |-> key, rest |-> << >>, number |-> {}]
      BY <1>1, <1>2, <2>3 DEF joe_bot_response
    <3>2. QED
      BY <2>3, <3>1
  <2>4. QED
    BY <2>1, <2>2, <2>3
<1>7. QED
  BY <1>3, <1>4, <1>5, <1>6

\* What comes later does not change the least of what there was.
LEMMA MinKept ==
  ASSUME NEW I \in SUBSET Nat, I # {}, NEW J \in SUBSET Nat, I \subseteq J,
         \A i \in I, j \in J : j \in I \/ i < j
  PROVE  Min(I) \in I /\ Min(J) = Min(I)
<1>1. PICK m \in I : m = Min(I) /\ \A i \in I : m <= i
  BY MinIsLeast
<1>2. PICK q \in J : q = Min(J) /\ \A j \in J : q <= j
  BY MinIsLeast
<1>3. q <= m /\ (q \in I \/ m < q) /\ q \in Nat /\ m \in Nat
  BY <1>1, <1>2
<1>4. m <= q
  BY <1>1, <1>3
<1>5. QED
  BY <1>1, <1>2, <1>3, <1>4

LEMMA OneMoreTyped ==
  ASSUME NEW s \in Message, NEW w \in Word, NEW t, t = Append(s, w)
  PROVE  /\ t \in Message
         /\ \A i \in WordsOf(s) : t[i] = s[i] /\ i \in WordsOf(t)
         /\ \A i \in WordsOf(s), j \in WordsOf(t) : j \in WordsOf(s) \/ i < j
<1>1. /\ t \in Seq(Word) /\ Len(s) \in Nat /\ DOMAIN s = 1 .. Len(s)
      /\ DOMAIN t = 1 .. Len(s) + 1 /\ \A i \in 1 .. Len(s) : t[i] = s[i]
  BY DEF Message
<1>2. QED
  BY <1>1 DEF Message, WordsOf

LEMMA JoeKeeps ==
  ASSUME NEW s \in Message, NEW w \in Word, NEW t, t = Append(s, w)
  PROVE  \A answer \in joe_bot_response(s) :
           answer.speaks => \A later \in joe_bot_response(t) : later.topic = answer.topic
<1> SUFFICES ASSUME NEW answer \in joe_bot_response(s), answer.speaks,
                    NEW later \in joe_bot_response(t)
             PROVE  later.topic = answer.topic
  OBVIOUS
<1>1. /\ t \in Message
      /\ \A i \in WordsOf(s) : t[i] = s[i] /\ i \in WordsOf(t)
      /\ \A i \in WordsOf(s), j \in WordsOf(t) : j \in WordsOf(s) \/ i < j
  BY OneMoreTyped
<1>2. WordsOf(s) \in SUBSET Nat /\ WordsOf(t) \in SUBSET Nat
  BY <1>1, WordsAreNumbered
<1>3. WordsOf(s) # {} /\ answer.topic # "none"
  BY JoeTopic
<1>4. Min(WordsOf(s)) \in WordsOf(s) /\ Min(WordsOf(t)) = Min(WordsOf(s))
  <2>1. WordsOf(s) \subseteq WordsOf(t)
    BY <1>1
  <2>2. QED
    BY <1>1, <1>2, <1>3, <2>1, MinKept
<1>5. t[Min(WordsOf(t))] = s[Min(WordsOf(s))]
  BY <1>1, <1>4
<1>6. JoeWords(s) # {} => /\ JoeWords(t) # {}
                          /\ s[Min(JoeWords(s))] = t[Min(JoeWords(t))]
  <2> SUFFICES ASSUME JoeWords(s) # {}
               PROVE  JoeWords(t) # {} /\ s[Min(JoeWords(s))] = t[Min(JoeWords(t))]
    OBVIOUS
  <2>1. /\ JoeWords(s) \subseteq WordsOf(s) /\ JoeWords(t) \subseteq WordsOf(t)
        /\ JoeWords(s) \subseteq JoeWords(t)
    BY <1>1 DEF JoeWords
  <2>2. \A i \in JoeWords(s), j \in JoeWords(t) : j \in JoeWords(s) \/ i < j
    BY <1>1 DEF JoeWords
  <2>3. PICK I, J : I = JoeWords(s) /\ J = JoeWords(t)
    OBVIOUS
  <2>4. I \in SUBSET Nat /\ J \in SUBSET Nat /\ I \subseteq J /\ I # {}
    BY <1>2, <2>1, <2>3
  <2>5. Min(I) \in I /\ Min(J) = Min(I)
    BY <2>2, <2>3, <2>4, MinKept
  <2>6. QED
    BY <1>1, <2>1, <2>3, <2>4, <2>5
<1>7. /\ answer.topic = IF Exactly(s[Min(WordsOf(s))], "mathmode") THEN "math"
                        ELSE IF JoeWords(s) = {} THEN "none"
                        ELSE s[Min(JoeWords(s))].stem
      /\ later.topic = IF Exactly(t[Min(WordsOf(t))], "mathmode") THEN "math"
                       ELSE IF JoeWords(t) = {} THEN "none"
                       ELSE t[Min(JoeWords(t))].stem
  BY <1>1, JoeTopic
<1>8. QED
  BY <1>3, <1>5, <1>6, <1>7

\* What Joe speaks about when a message is typed so far is what he speaks about
\* when more is typed, for every vocabulary and messages of every length.
THEOREM JoeStands == Spec => JoeStandsBy
<1>1. msg \in Message /\ [Next]_msg =>
        [\A answer \in joe_bot_response(msg) :
           answer.speaks => \A later \in joe_bot_response(msg') :
                              later.topic = answer.topic]_msg
  <2>1. ASSUME msg \in Message, NEW w \in Words, Type(w)
        PROVE  \A answer \in joe_bot_response(msg) :
                 answer.speaks => \A later \in joe_bot_response(msg') :
                                    later.topic = answer.topic
    <3>1. w \in Word /\ msg' = Append(msg, w)
      BY <2>1, WordAssumption DEF Type
    <3>2. PICK s, t : s = msg /\ t = msg'
      OBVIOUS
    <3>3. s \in Message /\ t = Append(s, w)
      BY <2>1, <3>1, <3>2
    <3>4. \A answer \in joe_bot_response(s) :
            answer.speaks => \A later \in joe_bot_response(t) : later.topic = answer.topic
      BY <3>1, <3>3, JoeKeeps, ZenonT(60)
    <3>5. QED
      BY <3>2, <3>4
  <2>2. QED
    BY <2>1 DEF Next
<1>2. QED
  BY <1>1, AlwaysMessage, PTL DEF Spec, JoeStandsBy
-----------------------------------------------------------------------------
(***************************************************************************)
(* BotsBreakOn: which calls raise.                                         *)
(***************************************************************************)
LEMMA GreetingIsFirst ==
  ASSUME NEW punc, NEW key, NEW first, NEW n \in 1 .. 8,
         Patterns(punc, key, first)[n][2] = "greeting"
  PROVE  n = 1
<1>1. PICK p : p = Patterns(punc, key, first)
  OBVIOUS
<1>2. /\ p[2][2] # "greeting" /\ p[3][2] # "greeting" /\ p[4][2] # "greeting"
      /\ p[5][2] # "greeting" /\ p[6][2] # "greeting" /\ p[7][2] # "greeting"
      /\ p[8][2] # "greeting"
  BY <1>1, Zenon DEF Patterns
<1>3. \/ n = 1 \/ n = 2 \/ n = 3 \/ n = 4
      \/ n = 5 \/ n = 6 \/ n = 7 \/ n = 8
  OBVIOUS
<1>4. QED
  BY <1>1, <1>2, <1>3, Zenon

\* "greeting" is the first of the patterns, and the only one that asks no more
\* than the keyword.
LEMMA Greets ==
  ASSUME NEW l
  PROVE  Topic(l) = "greeting" <=> key_word(l) = "im"
<1>1. PICK patterns : patterns = Patterns(first_punc(l), key_word(l), first_word(l))
  OBVIOUS
<1>2. /\ Len(patterns) = 8 /\ patterns[1][2] = "greeting"
      /\ patterns[1][1] <=> key_word(l) = "im"
      /\ patterns[8][1]
  BY <1>1 DEF Patterns
<1>3. PICK I : I = {n \in 1 .. 8 : patterns[n][1]}
  OBVIOUS
<1>4. I \in SUBSET Nat /\ 8 \in I /\ I \subseteq 1 .. 8
  BY <1>2, <1>3
<1>5. PICK m \in I : m = Min(I) /\ \A n \in I : m <= n
  BY <1>4, MinIsLeast
<1>6. SelectInSeq(patterns, LAMBDA p : p[1]) = m
  BY <1>2, <1>3, <1>4, <1>5 DEF SelectInSeq
<1>7. Topic(l) = patterns[m][2]
  BY <1>1, <1>6 DEF Topic
<1>8. m = 1 <=> key_word(l) = "im"
  <2>1. 1 \in I <=> key_word(l) = "im"
    BY <1>2, <1>3
  <2>2. 1 \in I => m = 1
    BY <1>4, <1>5
  <2>3. QED
    BY <1>5, <2>1, <2>2
<1>9. patterns[m][2] = "greeting" <=> m = 1
  BY <1>1, <1>2, <1>4, <1>5, GreetingIsFirst
<1>10. QED
  BY <1>7, <1>8, <1>9

\* rec_strlist raises if there is no "im" without a mark.
LEMMA RestRaises ==
  ASSUME NEW s \in Message
  PROVE  rec_strlist(strlist(s)) = {} <=> Ims(s) = {}
<1>1. PICK l : l = strlist(s)
  OBVIOUS
<1>2. PICK at : Places(at, l, s, Len(s)) /\ Numbers(at, Len(l), WordsOf(s))
  BY <1>1, StrlistNumbers
<1>3. im(l) = 0 <=> Ims(s) = {}
  BY <1>1, <1>2, ImHears
<1>4. rec_strlist(l) = {} <=> im(l) = 0
  BY DEF rec_strlist
<1>5. QED
  BY <1>1, <1>3, <1>4

\* The first "im", "you" or "joke" is an "im", which may have a mark.
Deceiving(s) ==
  \E i \in WordsOf(s) :
    /\ Almost(s[i], "im")
    /\ \A j \in 1 .. i - 1 : ~\E stem \in {"im", "you", "joke"} : Almost(s[j], stem)

LEMMA KeyIsIm ==
  ASSUME NEW s \in Message
  PROVE  key_word(strlist(s)) = "im" <=> Deceiving(s)
<1>1. PICK J : J = KeyWords(s)
  OBVIOUS
<1>2. WordsOf(s) \in SUBSET Nat /\ WordsOf(s) \subseteq 1 .. Len(s)
  BY WordsAreNumbered
<1>3. J \in SUBSET Nat /\ J \subseteq WordsOf(s)
  BY <1>1, <1>2 DEF KeyWords
<1>4. \A i \in WordsOf(s) :
        i \in J <=> \E stem \in {"im", "you", "joke"} : Almost(s[i], stem)
  BY <1>1 DEF KeyWords, Keys, Almost
<1>5. \A i \in 1 .. Len(s), stem \in {"im", "you", "joke"} :
        Almost(s[i], stem) => i \in WordsOf(s)
  <2>1. DOMAIN s = 1 .. Len(s)
    BY DEF Message
  <2>2. QED
    BY <2>1 DEF Almost, WordsOf, Blank
<1>6. key_word(strlist(s)) = IF J = {} THEN "none" ELSE s[Min(J)].stem
  BY <1>1, KeyHears
<1>7. J # {} => Min(J) \in J /\ \A j \in J : Min(J) <= j
  BY <1>3, MinIsLeast
<1>8. ASSUME key_word(strlist(s)) = "im"  PROVE Deceiving(s)
  <2>1. PICK i \in J : i = Min(J) /\ s[i].stem = "im" /\ \A j \in J : i <= j
    BY <1>6, <1>7, <1>8
  <2>2. i \in WordsOf(s) /\ Almost(s[i], "im")
    BY <1>3, <1>4, <2>1 DEF Almost
  <2>3. ASSUME NEW j \in 1 .. i - 1  PROVE j \notin J /\ j \in 1 .. Len(s)
    BY <1>2, <1>3, <2>1, <2>2
  <2>4. QED
    BY <1>4, <1>5, <2>2, <2>3 DEF Deceiving
<1>9. ASSUME Deceiving(s)  PROVE key_word(strlist(s)) = "im"
  <2>1. PICK i \in WordsOf(s) :
          /\ Almost(s[i], "im")
          /\ \A j \in 1 .. i - 1 : ~\E stem \in {"im", "you", "joke"} : Almost(s[j], stem)
    BY <1>9 DEF Deceiving
  <2>2. i \in J /\ s[i].stem = "im"
    BY <1>4, <2>1 DEF Almost
  <2>3. PICK m \in J : m = Min(J) /\ \A j \in J : m <= j
    BY <1>7, <2>2
  <2>4. m \notin 1 .. i - 1
    BY <1>3, <1>4, <2>1
  <2>5. m \in Nat /\ m # 0 /\ i \in Nat /\ m <= i
    BY <1>2, <1>3, <2>2, <2>3
  <2>6. m = i
    BY <2>4, <2>5
  <2>7. QED
    BY <1>6, <2>2, <2>3, <2>6
<1>10. QED
  BY <1>8, <1>9

LEMMA BobRaisesOn ==
  ASSUME NEW s \in Message
  PROVE  bob_bot_response(s, 4) = {} <=>
           \/ WordsOf(s) = {}
           \/ Deceiving(s) /\ \A i \in WordsOf(s) : ~Exactly(s[i], "im")
<1>1. PICK l : l = strlist(s)
  OBVIOUS
<1>2. l = << >> <=> WordsOf(s) = {}
  BY <1>1, StrlistEmpty
<1>3. Topic(l) = "greeting" <=> Deceiving(s)
  BY <1>1, Greets, KeyIsIm
<1>4. rec_strlist(l) = {} <=> \A i \in WordsOf(s) : ~Exactly(s[i], "im")
  BY <1>1, RestRaises DEF Ims
<1>5. 0 \in rand_of_var(4)
  BY DEF rand_of_var
<1>6. bob_bot_response(s, 4) = {} <=>
        (l # << >> => Topic(l) = "greeting" /\ rec_strlist(l) = {})
  BY <1>1, <1>5 DEF bob_bot_response
<1>7. QED
  BY <1>2, <1>3, <1>4, <1>6

LEMMA JoeRaisesOn ==
  ASSUME NEW s \in Message
  PROVE  joe_bot_response(s) = {} <=> WordsOf(s) = {}
<1>1. PICK l, key : l = strlist(s) /\ key = joe_key_words(l)
  OBVIOUS
<1>2. l = << >> <=> WordsOf(s) = {}
  BY <1>1, StrlistEmpty
<1>3. key = "im" => rec_strlist(l) # {}
  <2>1. key = IF JoeWords(s) = {} THEN "none" ELSE s[Min(JoeWords(s))].stem
    BY <1>1, JoeHears
  <2>2. JoeWords(s) \in SUBSET Nat
    BY WordsAreNumbered DEF JoeWords
  <2>3. JoeWords(s) # {} => Min(JoeWords(s)) \in JoeWords(s)
    <3>1. PICK J : J = JoeWords(s)
      OBVIOUS
    <3>2. J \in SUBSET Nat /\ (J # {} => Min(J) \in J)
      BY <2>2, <3>1, MinIsLeast
    <3>3. QED
      BY <3>1, <3>2
  <2>4. key = "im" => Min(JoeWords(s)) \in Ims(s)
    BY <2>1, <2>3 DEF JoeWords, Ims, Exactly, Is
  <2>5. QED
    BY <1>1, <2>4, RestRaises
<1>4. joe_bot_response(s) = {} <=>
        (l # << >> => ~is_math_mode(l) /\ key = "im" /\ rec_strlist(l) = {})
  BY <1>1 DEF joe_bot_response
<1>5. QED
  BY <1>2, <1>3, <1>4

\* The messages on which the bots raise, after which /postMessage answers 500
\* with the message stored, are the blank ones and, for Bob, those with an "im"
\* that key_word takes and rec_strlist does not; for every vocabulary and
\* messages of every length.
THEOREM BotsBreak == Spec => []BotsBreakOn
<1>1. msg \in Message => BotsBreakOn
  <2> SUFFICES ASSUME msg \in Message  PROVE BotsBreakOn
    OBVIOUS
  <2>1. PICK s : s = msg
    OBVIOUS
  <2>2. joe_bot_response(s) = {} <=> WordsOf(s) = {}
    BY <2>1, JoeRaisesOn
  <2>3. bob_bot_response(s, 4) = {} <=>
          \/ WordsOf(s) = {}
          \/ Deceiving(s) /\ \A i \in WordsOf(s) : ~Exactly(s[i], "im")
    BY <2>1, BobRaisesOn
  <2>4. QED
    BY <2>1, <2>2, <2>3 DEF BotsBreakOn, Deceiving
<1>2. QED
  BY <1>1, AlwaysMessage, PTL
-----------------------------------------------------------------------------
(***************************************************************************)
(* JoeReckons: integers that wrap around, and division towards zero.       *)
(***************************************************************************)
LEMMA DivMod ==
  ASSUME NEW x \in Int, NEW m \in Nat \ {0}
  PROVE  /\ x % m \in Int /\ 0 <= x % m /\ x % m < m
         /\ x \div m \in Int /\ x = m * (x \div m) + (x % m)
OBVIOUS

LEMMA MultipleMod ==
  ASSUME NEW q \in Int, NEW m \in Nat \ {0}
  PROVE  (m * q) % m = 0
<1>1. PICK x \in Int : x = m * q
  OBVIOUS
<1>2. PICK d \in Int, r \in Int : d = x \div m /\ r = x % m
  BY DivMod
<1>3. 0 <= r /\ r < m /\ m * q = m * d + r
  BY <1>1, <1>2, DivMod
<1>4. m * (q - d) = r
  BY <1>3
<1>5. q - d >= 1 => m * (q - d) >= m
  OBVIOUS
<1>6. q - d <= -1 => m * (q - d) <= -m
  OBVIOUS
<1>7. q = d
  BY <1>3, <1>4, <1>5, <1>6
<1>8. QED
  BY <1>1, <1>2, <1>3, <1>7

Ints == -Half .. Half - 1

\* Wrap(n) is an OCaml integer, and n but for a multiple of their number.
LEMMA WrapRight ==
  ASSUME NEW n \in Int
  PROVE  Wrap(n) \in Ints /\ (Wrap(n) - n) % (2 * Half) = 0
<1>1. PICK m \in Nat \ {0} : m = 2 * Half
  BY HalfAssumption
<1>2. PICK x \in Int : x = n + Half
  BY HalfAssumption
<1>3. PICK d \in Int, r \in Int : d = x \div m /\ r = x % m
  BY DivMod
<1>4. 0 <= r /\ r < m /\ x = m * d + r
  BY <1>3, DivMod
<1>5. Wrap(n) = r - Half
  BY <1>1, <1>2, <1>3 DEF Wrap
<1>6. Wrap(n) \in Ints
  BY <1>1, <1>4, <1>5, HalfAssumption DEF Ints
<1>7. Wrap(n) - n = m * (0 - d)
  <2>1. Wrap(n) - n = r - x
    BY <1>2, <1>5, HalfAssumption
  <2>2. r - x = 0 - m * d
    BY <1>4
  <2>3. m * (0 - d) = 0 - m * d
    OBVIOUS
  <2>4. QED
    BY <2>1, <2>2, <2>3
<1>8. QED
  BY <1>1, <1>6, <1>7, MultipleMod

LEMMA AbsSays ==
  ASSUME NEW a \in Int
  PROVE  Abs(a) \in Nat /\ (a >= 0 => Abs(a) = a) /\ (a < 0 => Abs(a) = -a)
BY DEF Abs

\* The quotient leaves a rest smaller than the divisor, of the dividend's sign,
\* and is in range but for -Half divided by -1.
LEMMA QuotientRight ==
  ASSUME NEW a \in Ints, NEW b \in Ints, b # 0
  PROVE  /\ Quotient(a, b) \in Ints \cup {Half}
         /\ Abs(a - Quotient(a, b) * b) < Abs(b)
         /\ (a - Quotient(a, b) * b) * a >= 0
<1>0. a \in Int /\ b \in Int /\ Half \in Nat \ {0} /\ -Half <= a /\ a < Half
      /\ -Half <= b /\ b < Half
  BY HalfAssumption DEF Ints
<1>1. PICK A \in Nat, B \in Nat \ {0} :
        /\ A = Abs(a) /\ (a >= 0 => A = a) /\ (a < 0 => A = -a)
        /\ B = Abs(b) /\ (b >= 0 => B = b) /\ (b < 0 => B = -b)
  BY <1>0, AbsSays
<1>2. PICK d \in Int, r \in Int : d = A \div B /\ r = A % B
  BY DivMod
<1>3. 0 <= r /\ r < B /\ A = B * d + r
  BY <1>2, DivMod
<1>4. d >= 0 /\ d <= A
  <2>1. d <= -1 => B * d <= -B
    OBVIOUS
  <2>2. d >= 0
    BY <1>3, <2>1
  <2>3. B * d >= d
    BY <2>2
  <2>4. QED
    BY <1>3, <2>2, <2>3
<1>5. PICK q \in Int : q = Quotient(a, b) /\ q = IF (a < 0) = (b < 0) THEN d ELSE -d
  BY <1>1, <1>2 DEF Quotient
<1>6. q \in Ints \cup {Half}
  BY <1>0, <1>1, <1>4, <1>5 DEF Ints
<1>7. a - q * b = IF a < 0 THEN -r ELSE r
  <2>1. CASE a < 0 /\ b < 0
    <3>1. a = -A /\ b = -B /\ q = d
      BY <1>0, <1>1, <1>5, <2>1
    <3>2. q * b = -(B * d)
      BY <3>1
    <3>3. QED
      BY <1>3, <2>1, <3>1, <3>2
  <2>2. CASE a < 0 /\ ~(b < 0)
    <3>1. a = -A /\ b = B /\ q = -d
      BY <1>0, <1>1, <1>5, <2>2
    <3>2. q * b = -(B * d)
      BY <3>1
    <3>3. QED
      BY <1>3, <2>2, <3>1, <3>2
  <2>3. CASE ~(a < 0) /\ b < 0
    <3>1. a = A /\ b = -B /\ q = -d
      BY <1>0, <1>1, <1>5, <2>3
    <3>2. q * b = B * d
      BY <3>1
    <3>3. QED
      BY <1>3, <2>3, <3>1, <3>2
  <2>4. CASE ~(a < 0) /\ ~(b < 0)
    <3>1. a = A /\ b = B /\ q = d
      BY <1>0, <1>1, <1>5, <2>4
    <3>2. q * b = B * d
      BY <3>1
    <3>3. QED
      BY <1>3, <2>4, <3>1, <3>2
  <2>5. QED
    BY <2>1, <2>2, <2>3, <2>4
<1>8. PICK e \in Int : e = a - q * b
  BY <1>0
<1>9. Abs(e) < Abs(b)
  BY <1>1, <1>3, <1>7, <1>8, AbsSays
<1>10. e * a >= 0
  <2>1. CASE a < 0
    <3>1. e = -r /\ a = -A
      BY <1>0, <1>1, <1>7, <1>8, <2>1
    <3>2. e * a = r * A
      BY <3>1
    <3>3. QED
      BY <1>3, <3>2
  <2>2. CASE ~(a < 0)
    <3>1. e = r /\ a >= 0
      BY <1>0, <1>7, <1>8, <2>2
    <3>2. QED
      BY <1>0, <1>3, <3>1
  <2>3. QED
    BY <2>1, <2>2
<1>11. QED
  BY <1>5, <1>6, <1>8, <1>9, <1>10

Plus == {"add", "addition", "plus"}
Minus == {"subtract", "sub"}
Times == {"multiply", "mult", "times"}
Over == {"divide", "div"}

Right(n, true) == n \in Ints /\ (n - true) % (2 * Half) = 0

\* What JoeReckons says of the numbers Joe may answer to two he can read
Reckoned(op, a, b, number) ==
  LET idle == op \notin Plus \cup Minus \cup Times \cup Over \/ (op \in Over /\ b = 0) IN
  /\ idle <=> number = {}
  /\ ~idle => Cardinality(number) = 1
  /\ \A n \in number :
       /\ op \in Plus => Right(n, a + b)
       /\ op \in Minus => Right(n, a - b)
       /\ op \in Times => Right(n, a * b)
       /\ op \in Over => \E q \in Ints \cup {Half} :
            /\ Right(n, q)
            /\ Abs(a - q * b) < Abs(b) /\ (a - q * b) * a >= 0

LEMMA One ==
  ASSUME NEW n
  PROVE  {n} # {} /\ Cardinality({n}) = 1
BY FS_Singleton

LEMMA CalculateRight ==
  ASSUME NEW op, NEW a \in Ints, NEW b \in Ints
  PROVE  Reckoned(op, a, b, Calculate(op, a, b))
<1>0. a \in Int /\ b \in Int
  BY HalfAssumption DEF Ints
<1> USE DEF Plus, Minus, Times, Over
<1>1. CASE op \in Times
  <2>1. PICK n : n = Wrap(a * b)
    OBVIOUS
  <2>2. Calculate(op, a, b) = {n}
    BY <1>1, <2>1 DEF Calculate
  <2>3. Right(n, a * b)
    BY <1>0, <2>1, WrapRight DEF Right
  <2>4. QED
    BY <1>1, <2>2, <2>3, One DEF Reckoned
<1>2. CASE op \in Plus
  <2>1. PICK n : n = Wrap(a + b)
    OBVIOUS
  <2>2. Calculate(op, a, b) = {n}
    BY <1>2, <2>1 DEF Calculate
  <2>3. Right(n, a + b)
    BY <1>0, <2>1, WrapRight DEF Right
  <2>4. QED
    BY <1>2, <2>2, <2>3, One DEF Reckoned
<1>3. CASE op \in Minus
  <2>1. PICK n : n = Wrap(a - b)
    OBVIOUS
  <2>2. Calculate(op, a, b) = {n}
    BY <1>3, <2>1 DEF Calculate
  <2>3. Right(n, a - b)
    BY <1>0, <2>1, WrapRight DEF Right
  <2>4. QED
    BY <1>3, <2>2, <2>3, One DEF Reckoned
<1>4. CASE op \in Over /\ b # 0
  <2>1. PICK q, n : q = Quotient(a, b) /\ n = Wrap(q)
    OBVIOUS
  <2>2. Calculate(op, a, b) = {n}
    BY <1>4, <2>1 DEF Calculate
  <2>3. /\ q \in Ints \cup {Half}
        /\ Abs(a - q * b) < Abs(b) /\ (a - q * b) * a >= 0
    BY <1>4, <2>1, QuotientRight
  <2>4. q \in Int
    BY <2>3, HalfAssumption DEF Ints
  <2>5. Right(n, q)
    BY <2>1, <2>4, WrapRight DEF Right
  <2>6. QED
    BY <1>4, <2>2, <2>3, <2>5, One DEF Reckoned
<1>5. CASE op \in Over /\ b = 0
  <2>1. Calculate(op, a, b) = {}
    BY <1>5 DEF Calculate
  <2>2. QED
    BY <1>5, <2>1 DEF Reckoned
<1>6. CASE op \notin Plus \cup Minus \cup Times \cup Over
  <2>1. Calculate(op, a, b) = {}
    BY <1>6 DEF Calculate
  <2>2. QED
    BY <1>6, <2>1 DEF Reckoned
<1>7. QED
  BY <1>1, <1>2, <1>3, <1>4, <1>5, <1>6

Readable(w) == Stem(w) \in DOMAIN IntOf /\ IntOf[w.stem] \in Ints

LEMMA NumberRead ==
  ASSUME NEW w
  PROVE  int_of_string(w) = IF Readable(w) THEN {IntOf[w.stem]} ELSE {}
BY DEF int_of_string, Readable, Ints

LEMMA MathAnswer ==
  ASSUME NEW s \in Message, NEW answer \in joe_bot_response(s), answer.topic = "math"
  PROVE  strlist(s) # << >> /\ answer.number = math_eval(Tail(strlist(s)))
<1>1. PICK l, key : l = strlist(s) /\ key = joe_key_words(l)
  OBVIOUS
<1>2. l # << >>
  BY <1>1 DEF joe_bot_response
<1>3. CASE is_math_mode(l)
  <2>1. answer = [speaks |-> TRUE, topic |-> "math", rest |-> << >>,
                  number |-> math_eval(Tail(l))]
    BY <1>1, <1>2, <1>3 DEF joe_bot_response
  <2>2. QED
    BY <1>1, <1>2, <2>1
<1>4. CASE ~is_math_mode(l) /\ key = "im"
  <2>1. PICK rest : answer = [speaks |-> TRUE, topic |-> "im", rest |-> rest, number |-> {}]
    BY <1>1, <1>2, <1>4 DEF joe_bot_response
  <2>2. QED
    BY <2>1
<1>5. CASE ~is_math_mode(l) /\ key # "im"
  <2>1. answer = [speaks |-> key # "none", topic |-> key, rest |-> << >>, number |-> {}]
    BY <1>1, <1>2, <1>5 DEF joe_bot_response
  <2>2. key = IF JoeWords(s) = {} THEN "none" ELSE s[Min(JoeWords(s))].stem
    BY <1>1, JoeHears
  <2>3. JoeWords(s) \in SUBSET Nat
    BY WordsAreNumbered DEF JoeWords
  <2>4. PICK J : J = JoeWords(s)
    OBVIOUS
  <2>5. J # {} => Min(J) \in J
    BY <2>3, <2>4, MinIsLeast
  <2>6. key # "math"
    BY <2>2, <2>4, <2>5 DEF JoeWords, Joes
  <2>7. QED
    BY <2>1, <2>6
<1>6. QED
  BY <1>3, <1>4, <1>5

LEMMA MathSays ==
  ASSUME NEW t, NEW op, NEW u, NEW v, Len(t) = 3,
         Stem(t[1]) = op, t[2] = u, t[3] = v
  PROVE  \A n : n \in math_eval(t) <=>
           \E x \in int_of_string(u), y \in int_of_string(v) : n \in Calculate(op, x, y)
<1>1. math_eval(t) = UNION {UNION {Calculate(op, x, y) : y \in int_of_string(v)} :
                              x \in int_of_string(u)}
  BY DEF math_eval
<1>2. QED
  BY <1>1

\* What math_eval makes of three words
LEMMA MathOfThree ==
  ASSUME NEW t, Len(t) = 3, NEW op, NEW u, NEW v, NEW number,
         Stem(t[1]) = op, t[2] = u, t[3] = v, number = math_eval(t)
  PROVE  IF Readable(u) /\ Readable(v)
         THEN Reckoned(op, IntOf[u.stem], IntOf[v.stem], number)
         ELSE number = {}
<1>1. \A n : n \in number <=>
        \E x \in int_of_string(u), y \in int_of_string(v) : n \in Calculate(op, x, y)
  BY MathSays
<1>2. CASE ~(Readable(u) /\ Readable(v))
  <2>1. int_of_string(u) = {} \/ int_of_string(v) = {}
    BY <1>2, NumberRead
  <2>2. number = {}
    BY <1>1, <2>1
  <2>3. QED
    BY <1>2, <2>2
<1>3. CASE Readable(u) /\ Readable(v)
  <2>1. PICK a, b : a = IntOf[u.stem] /\ b = IntOf[v.stem]
    OBVIOUS
  <2>2. int_of_string(u) = {a} /\ int_of_string(v) = {b}
    BY <1>3, <2>1, NumberRead
  <2>3. number = Calculate(op, a, b)
    <3>1. \A n : n \in number <=> n \in Calculate(op, a, b)
      BY <1>1, <2>2
    <3>2. QED
      BY <3>1, Zenon
  <2>4. a \in Ints /\ b \in Ints
    BY <1>3, <2>1 DEF Readable
  <2>5. Reckoned(op, a, b, number)
    BY <2>3, <2>4, CalculateRight
  <2>6. QED
    BY <1>3, <2>1, <2>5
<1>4. QED
  BY <1>2, <1>3

LEMMA MathEvaluates ==
  ASSUME NEW l \in Message, l # << >>, NEW number, number = math_eval(Tail(l))
  PROVE  IF Len(l) = 4 /\ Readable(l[3]) /\ Readable(l[4])
         THEN Reckoned(Stem(l[2]), IntOf[l[3].stem], IntOf[l[4].stem], number)
         ELSE number = {}
<1>1. PICK t : t = Tail(l)
  OBVIOUS
<1>2. /\ Len(t) = 3 <=> Len(l) = 4
      /\ Len(l) = 4 => t[1] = l[2] /\ t[2] = l[3] /\ t[3] = l[4]
  BY <1>1 DEF Message
<1>3. CASE Len(l) # 4
  BY <1>1, <1>2, <1>3 DEF math_eval
<1>4. CASE Len(l) = 4
  <2>1. PICK op, u, v : op = Stem(l[2]) /\ u = l[3] /\ v = l[4]
    OBVIOUS
  <2>2. Len(t) = 3 /\ Stem(t[1]) = op /\ t[2] = u /\ t[3] = v /\ number = math_eval(t)
    BY <1>1, <1>2, <1>4, <2>1
  <2>3. IF Readable(u) /\ Readable(v)
        THEN Reckoned(op, IntOf[u.stem], IntOf[v.stem], number)
        ELSE number = {}
    BY <2>2, MathOfThree
  <2>4. QED
    BY <1>4, <2>1, <2>3
<1>5. QED
  BY <1>3, <1>4

\* Joe's sums are right up to the wrapping of OCaml's integers, and he answers
\* "invalid" exactly where there is nothing to reckon: for integers of every
\* width, every reading of numerals and messages of every length.
THEOREM JoeReckonsRight == Spec => []JoeReckons
<1>1. msg \in Message => JoeReckons
  <2> SUFFICES ASSUME msg \in Message  PROVE JoeReckons
    OBVIOUS
  <2>1. PICK s : s = msg
    OBVIOUS
  <2>2. PICK l : l = strlist(s)
    OBVIOUS
  <2>3. ASSUME NEW answer \in joe_bot_response(s), answer.topic = "math"
        PROVE  IF Len(l) = 4 /\ Readable(l[3]) /\ Readable(l[4])
               THEN Reckoned(Stem(l[2]), IntOf[l[3].stem], IntOf[l[4].stem],
                             answer.number)
               ELSE answer.number = {}
    <3>1. l \in Message
      BY <2>1, <2>2, StrlistNumbers DEF Message
    <3>2. l # << >> /\ answer.number = math_eval(Tail(l))
      BY <2>1, <2>2, <2>3, MathAnswer
    <3>3. QED
      BY <3>1, <3>2, MathEvaluates
  <2>4. QED
    BY <2>1, <2>2, <2>3, SMTT(60)
       DEF JoeReckons, Reckoned, Readable, Right, Ints, Plus, Minus, Times, Over
<1>2. QED
  BY <1>1, AlwaysMessage, PTL
-----------------------------------------------------------------------------
(***************************************************************************)
(* GreetingIsRest: what is cut from the list, said of the message.         *)
(***************************************************************************)
\* The places after i, up to j
Within(W, i, j) == {m \in W : m > i /\ m <= j}

LEMMA CountWithin ==
  ASSUME NEW at, NEW n, NEW W, Numbers(at, n, W),
         NEW p \in 1 .. n, NEW q \in 1 .. n, p <= q
  PROVE  Cardinality(Within(W, at[p], at[q])) = q - p
<1> DEFINE S == p + 1 .. q
           T == Within(W, at[p], at[q])
           F == [k \in S |-> at[k]]
<1>0. /\ n \in Nat /\ p \in Nat /\ q \in Nat /\ W \subseteq Nat
      /\ \A k \in 1 .. n : at[k] \in W
      /\ \A i \in W : \E k \in 1 .. n : at[k] = i
      /\ \A j, k \in 1 .. n : j < k => at[j] < at[k]
  BY DEF Numbers
<1>1. \A k \in S : k \in 1 .. n /\ p < k /\ k <= q
  BY <1>0
<1>2. \A k \in S : F[k] \in T
  <2> SUFFICES ASSUME NEW k \in S  PROVE at[k] \in T
    OBVIOUS
  <2>1. at[k] \in W /\ at[k] > at[p]
    BY <1>0, <1>1
  <2>2. at[k] <= at[q]
    <3>1. at[k] \in Nat /\ at[q] \in Nat
      BY <1>0, <1>1
    <3>2. k = q \/ at[k] < at[q]
      BY <1>0, <1>1
    <3>3. QED
      BY <3>1, <3>2
  <2>3. QED
    BY <2>1, <2>2 DEF Within
<1>3. \A j, k \in S : F[j] = F[k] => j = k
  <2> SUFFICES ASSUME NEW j \in S, NEW k \in S, at[j] = at[k]  PROVE j = k
    OBVIOUS
  <2>1. j \in 1 .. n /\ k \in 1 .. n /\ at[j] \in Nat
    BY <1>0, <1>1
  <2>2. ~(j < k) /\ ~(k < j)
    BY <1>0, <2>1
  <2>3. QED
    BY <2>1, <2>2
<1>4. \A m \in T : \E k \in S : F[k] = m
  <2> SUFFICES ASSUME NEW m \in T  PROVE \E k \in S : at[k] = m
    OBVIOUS
  <2>1. m \in W /\ m > at[p] /\ m <= at[q] /\ m \in Nat
    BY <1>0 DEF Within
  <2>2. PICK k \in 1 .. n : at[k] = m
    BY <1>0, <2>1
  <2>3. at[p] \in Nat /\ at[q] \in Nat
    BY <1>0
  <2>4. ~(k < p) /\ k # p
    BY <1>0, <2>1, <2>2, <2>3
  <2>5. ~(q < k)
    BY <1>0, <2>1, <2>2, <2>3
  <2>6. k \in S
    BY <1>0, <2>4, <2>5
  <2>7. QED
    BY <2>2, <2>6
<1>5. F \in Bijection(S, T)
  <2>1. F \in [S -> T]
    BY <1>2
  <2> HIDE DEF F, S, T
  <2>2. QED
    BY <1>3, <1>4, <2>1 DEF Bijection, Injection, Surjection, IsInjective
<1> HIDE DEF F, T
<1>6. IsFiniteSet(S) /\ Cardinality(S) = q - p
  <2>1. p + 1 \in Int /\ q \in Int
    BY <1>0
  <2>2. PICK a, b : a = p + 1 /\ b = q /\ a \in Int /\ b \in Int
    BY <2>1
  <2>3. IsFiniteSet(a .. b) /\ Cardinality(a .. b) = IF a > b THEN 0 ELSE b - a + 1
    BY <2>2, FS_Interval
  <2>4. QED
    BY <1>0, <2>2, <2>3
<1> HIDE DEF S
<1>7. ExistsBijection(S, T)
  BY <1>5 DEF ExistsBijection
<1>8. Cardinality(T) = Cardinality(S)
  BY <1>6, <1>7, FS_Bijection
<1>9. QED
  BY <1>6, <1>8 DEF T

\* The words after the p-th are the next ones, each known by their number.
LEMMA NthWithin ==
  ASSUME NEW at, NEW n, NEW W, Numbers(at, n, W),
         NEW p \in 1 .. n, NEW k \in 1 .. n - p
  PROVE  /\ at[p + k] \in W
         /\ \A j \in W : j > at[p] /\ Cardinality(Within(W, at[p], j)) = k
                           <=> j = at[p + k]
<1>0. /\ n \in Nat /\ W \subseteq Nat
      /\ \A i \in 1 .. n : at[i] \in W
      /\ \A i \in W : \E q \in 1 .. n : at[q] = i
      /\ \A i, j \in 1 .. n : i < j => at[i] < at[j]
  BY DEF Numbers
<1>1. p + k \in 1 .. n /\ p < p + k /\ p \in Nat /\ k \in Nat
  BY <1>0
<1>2. ASSUME NEW j \in W, j > at[p], Cardinality(Within(W, at[p], j)) = k
      PROVE  j = at[p + k]
  <2>1. PICK q \in 1 .. n : at[q] = j
    BY <1>0
  <2>2. q \in Nat /\ ~(q < p) /\ q # p
    <3>1. at[q] \in Nat /\ at[p] \in Nat /\ at[q] > at[p]
      BY <1>0, <1>2, <2>1
    <3>2. ~(at[q] < at[p]) /\ at[q] # at[p]
      BY <3>1
    <3>3. QED
      BY <1>0, <3>2
  <2>3. Cardinality(Within(W, at[p], at[q])) = q - p
    BY <1>1, <2>2, CountWithin
  <2>4. q = p + k
    BY <1>1, <1>2, <2>1, <2>2, <2>3
  <2>5. QED
    BY <2>1, <2>4
<1>3. at[p + k] > at[p] /\ Cardinality(Within(W, at[p], at[p + k])) = k
  <2>1. at[p] \in Nat /\ at[p + k] \in Nat /\ at[p] < at[p + k]
    BY <1>0, <1>1
  <2>2. PICK q \in 1 .. n : q = p + k /\ p <= q
    BY <1>1
  <2>3. Cardinality(Within(W, at[p], at[q])) = q - p
    BY <2>2, CountWithin
  <2>4. QED
    BY <1>1, <2>1, <2>2, <2>3
<1>4. QED
  BY <1>0, <1>1, <1>2, <1>3

\* The places after i are as many as the words of the list after the p-th.
LEMMA CountAfter ==
  ASSUME NEW at, NEW n, NEW W, Numbers(at, n, W), NEW p \in 1 .. n
  PROVE  Cardinality({j \in W : j > at[p]}) = n - p
<1>0. /\ n \in Nat /\ W \subseteq Nat /\ n \in 1 .. n /\ p <= n
      /\ \A i \in 1 .. n : at[i] \in W
      /\ \A i \in W : \E q \in 1 .. n : at[q] = i
      /\ \A i, j \in 1 .. n : i < j => at[i] < at[j]
  BY DEF Numbers
<1>1. \A j \in W : j <= at[n]
  <2> SUFFICES ASSUME NEW j \in W  PROVE j <= at[n]
    OBVIOUS
  <2>1. PICK q \in 1 .. n : at[q] = j
    BY <1>0
  <2>2. at[q] \in Nat /\ at[n] \in Nat /\ (q < n => at[q] < at[n])
    BY <1>0
  <2>3. QED
    BY <1>0, <2>1, <2>2
<1>2. {j \in W : j > at[p]} = Within(W, at[p], at[n])
  BY <1>1 DEF Within
<1>3. PICK q \in 1 .. n : q = n /\ p <= q
  BY <1>0
<1>4. Cardinality(Within(W, at[p], at[q])) = q - p
  BY <1>3, CountWithin
<1>5. QED
  BY <1>2, <1>3, <1>4

Told(rest, D) == [k \in D |-> <<rest[k].stem, rest[k].marks>>]

\* c words of s, those at the next places of W after i
After(s, W, i, c) ==
  [k \in 1 .. c |->
     LET j == CHOOSE j \in W : /\ j > i
                              /\ Cardinality({m \in W : m > i /\ m <= j}) = k
     IN  <<s[j].stem, s[j].marks>>]

\* rest is the words of s after the i-th place.
Follows(rest, s, i) ==
  Told(rest, DOMAIN rest)
    = After(s, WordsOf(s), i, Cardinality({j \in WordsOf(s) : j > i}))

LEMMA RestFollows ==
  ASSUME NEW s \in Message, NEW l, NEW at, Places(at, l, s, Len(s)),
         Numbers(at, Len(l), WordsOf(s)), NEW p \in 1 .. Len(l),
         NEW rest, rest = SubSeq(l, p + 1, Len(l))
  PROVE  Follows(rest, s, at[p])
<1>1. PICK n, W : n = Len(l) /\ W = WordsOf(s)
  OBVIOUS
<1>2. n \in Nat /\ p \in 1 .. n /\ Numbers(at, n, W)
  BY <1>1 DEF Numbers
<1>3. PICK c : c = n - p
  OBVIOUS
<1>4. Cardinality({j \in W : j > at[p]}) = c
  BY <1>2, <1>3, CountAfter, SMTT(60)
<1>5. ASSUME NEW k \in 1 .. c
      PROVE  /\ at[p + k] \in W
             /\ (CHOOSE j \in W : j > at[p] /\ Cardinality({m \in W : m > at[p] /\ m <= j}) = k)
                  = at[p + k]
  <2>1. /\ at[p + k] \in W
        /\ \A j \in W : j > at[p] /\ Cardinality(Within(W, at[p], j)) = k
                          <=> j = at[p + k]
    BY <1>2, <1>3, NthWithin
  <2>2. QED
    BY <2>1, Zenon DEF Within
<1>6. DOMAIN rest = 1 .. c /\ \A k \in 1 .. c : rest[k] = l[p + k]
  <2>1. Len(l) \in Nat /\ p + 1 \in Int /\ p \in Nat /\ p <= Len(l)
    BY <1>1, <1>2
  <2>2. \A i \in p + 1 .. Len(l) : l[i] \in Word
    <3> SUFFICES ASSUME NEW i \in p + 1 .. Len(l)  PROVE l[i] \in Word
      OBVIOUS
    <3>1. i \in 1 .. Len(l)
      BY <2>1
    <3>2. QED
      BY <3>1, ListedWord
  <2>3. PICK m \in Int, e \in Int : m = p + 1 /\ e = Len(l)
    BY <2>1
  <2>4. /\ SubSeq(l, m, e) \in Seq(Word)
        /\ Len(SubSeq(l, m, e)) = IF m <= e THEN e - m + 1 ELSE 0
        /\ \A i \in 1 .. e - m + 1 : SubSeq(l, m, e)[i] = l[m + i - 1]
    BY <2>2, <2>3, SubSeqProperties
  <2>5. rest = SubSeq(l, m, e) /\ e - m + 1 = c
    BY <1>1, <1>3, <2>1, <2>3
  <2>6. Len(rest) = c /\ DOMAIN rest = 1 .. c
    BY <1>1, <1>3, <2>1, <2>3, <2>4, <2>5
  <2>7. \A i \in 1 .. c : m + i - 1 = p + i
    BY <2>1, <2>3
  <2>8. QED
    BY <2>4, <2>5, <2>6, <2>7
<1>7. ASSUME NEW k \in 1 .. c
      PROVE  /\ rest[k].stem = s[at[p + k]].stem /\ rest[k].marks = s[at[p + k]].marks
  <2>1. p + k \in 1 .. Len(l)
    BY <1>1, <1>2, <1>3
  <2>2. l[p + k].stem = s[at[p + k]].stem /\ l[p + k].marks = s[at[p + k]].marks
    BY <2>1, ListedWord
  <2>3. QED
    BY <1>6, <2>2
<1>8. Follows(rest, s, at[p])
  <2>1. Told(rest, 1 .. c) = After(s, W, at[p], c)
    BY <1>5, <1>7, Zenon DEF Told, After
  <2>2. DOMAIN rest = 1 .. c
    BY <1>6
  <2>3. QED
    BY <1>1, <1>4, <2>1, <2>2 DEF Follows
<1>9. QED
  BY <1>8

\* No pattern of Bob's has Joe's topic.
LEMMA BobNeverIm ==
  ASSUME NEW punc, NEW key, NEW first, NEW n \in 1 .. 8
  PROVE  Patterns(punc, key, first)[n][2] # "im"
<1>1. PICK p : p = Patterns(punc, key, first)
  OBVIOUS
<1>2. /\ p[1][2] # "im" /\ p[2][2] # "im" /\ p[3][2] # "im" /\ p[4][2] # "im"
      /\ p[5][2] # "im" /\ p[6][2] # "im" /\ p[7][2] # "im" /\ p[8][2] # "im"
  BY <1>1, Zenon DEF Patterns
<1>3. \/ n = 1 \/ n = 2 \/ n = 3 \/ n = 4
      \/ n = 5 \/ n = 6 \/ n = 7 \/ n = 8
  OBVIOUS
<1>4. QED
  BY <1>1, <1>2, <1>3, Zenon

LEMMA TopicNeverIm ==
  ASSUME NEW l
  PROVE  Topic(l) # "im"
<1>1. PICK patterns : patterns = Patterns(first_punc(l), key_word(l), first_word(l))
  OBVIOUS
<1>2. Len(patterns) = 8 /\ patterns[8][1]
  BY <1>1 DEF Patterns
<1>3. PICK I : I = {n \in 1 .. 8 : patterns[n][1]}
  OBVIOUS
<1>4. I \in SUBSET Nat /\ 8 \in I /\ I \subseteq 1 .. 8
  BY <1>2, <1>3
<1>5. PICK m \in I : m = Min(I) /\ \A n \in I : m <= n
  BY <1>4, MinIsLeast
<1>6. SelectInSeq(patterns, LAMBDA p : p[1]) = m
  BY <1>2, <1>3, <1>4, <1>5 DEF SelectInSeq
<1>7. Topic(l) = patterns[m][2]
  BY <1>1, <1>6 DEF Topic
<1>8. patterns[m][2] # "im"
  BY <1>1, <1>4, <1>5, BobNeverIm
<1>9. QED
  BY <1>7, <1>8

\* Both bots greet by what rec_strlist cuts from the list, and by nothing else.
LEMMA BobGreets ==
  ASSUME NEW s, NEW answer \in bob_bot_response(s, 4),
         answer.topic \in {"greeting", "im"}
  PROVE  answer.rest \in rec_strlist(strlist(s))
<1>1. PICK l : l = strlist(s)
  OBVIOUS
<1>2. Topic(l) # "im"
  BY TopicNeverIm
<1>3. CASE Topic(l) = "greeting"
  <2>1. PICK rest \in rec_strlist(l) :
          answer = [topic |-> Topic(l), pick |-> 0, rest |-> rest]
    BY <1>1, <1>3 DEF bob_bot_response
  <2>2. QED
    BY <1>1, <2>1
<1>4. CASE Topic(l) # "greeting"
  <2>1. PICK i : answer = [topic |-> Topic(l),
                           pick |-> IF Topic(l) = "umm" THEN 0
                                    ELSE IF i \in 0 .. 2 THEN i ELSE 3,
                           rest |-> << >>]
    BY <1>1, <1>4 DEF bob_bot_response
  <2>2. answer.topic = Topic(l)
    BY <2>1
  <2>3. QED
    BY <1>2, <1>4, <2>2
<1>5. QED
  BY <1>3, <1>4

LEMMA JoeGreets ==
  ASSUME NEW s \in Message, NEW answer \in joe_bot_response(s),
         answer.topic \in {"greeting", "im"}
  PROVE  answer.rest \in rec_strlist(strlist(s))
<1>1. PICK l, key : l = strlist(s) /\ key = joe_key_words(l)
  OBVIOUS
<1>2. l # << >>
  BY <1>1 DEF joe_bot_response
<1>3. CASE is_math_mode(l)
  <2>1. answer = [speaks |-> TRUE, topic |-> "math", rest |-> << >>,
                  number |-> math_eval(Tail(l))]
    BY <1>1, <1>2, <1>3 DEF joe_bot_response
  <2>2. QED
    BY <2>1
<1>4. CASE ~is_math_mode(l) /\ key = "im"
  <2>1. PICK rest \in rec_strlist(l) :
          answer = [speaks |-> TRUE, topic |-> "im", rest |-> rest, number |-> {}]
    BY <1>1, <1>2, <1>4 DEF joe_bot_response
  <2>2. QED
    BY <1>1, <2>1
<1>5. CASE ~is_math_mode(l) /\ key # "im"
  <2>1. answer = [speaks |-> key # "none", topic |-> key, rest |-> << >>, number |-> {}]
    BY <1>1, <1>2, <1>5 DEF joe_bot_response
  <2>2. key = IF JoeWords(s) = {} THEN "none" ELSE s[Min(JoeWords(s))].stem
    BY <1>1, JoeHears
  <2>3. JoeWords(s) \in SUBSET Nat
    BY WordsAreNumbered DEF JoeWords
  <2>4. PICK J : J = JoeWords(s)
    OBVIOUS
  <2>5. J # {} => Min(J) \in J
    BY <2>3, <2>4, MinIsLeast
  <2>6. key # "greeting"
    BY <2>2, <2>4, <2>5 DEF JoeWords, Joes
  <2>7. QED
    BY <1>5, <2>1, <2>6
<1>6. QED
  BY <1>3, <1>4, <1>5

\* What rec_strlist cuts follows the first "im" without a mark.
LEMMA CutFollows ==
  ASSUME NEW s \in Message, NEW rest \in rec_strlist(strlist(s))
  PROVE  \E i \in WordsOf(s) : /\ Exactly(s[i], "im")
                               /\ \A j \in 1 .. i - 1 : ~Exactly(s[j], "im")
                               /\ Follows(rest, s, i)
<1>1. PICK l : l = strlist(s)
  OBVIOUS
<1>2. PICK at : Places(at, l, s, Len(s)) /\ Numbers(at, Len(l), WordsOf(s))
  BY <1>1, StrlistNumbers
<1>3. PICK p : p = im(l)
  OBVIOUS
<1>4. p # 0 /\ rest = SubSeq(l, p + 1, Len(l))
  BY <1>1, <1>3 DEF rec_strlist
<1>5. PICK J : J = Ims(s)
  OBVIOUS
<1>6. p \in 1 .. Len(l) /\ Min(J) \in J /\ at[p] = Min(J)
  BY <1>1, <1>2, <1>3, <1>4, <1>5, ImHears
<1>7. Follows(rest, s, at[p])
  BY <1>2, <1>4, <1>6, RestFollows
<1>8. WordsOf(s) \in SUBSET Nat /\ WordsOf(s) \subseteq 1 .. Len(s)
  BY WordsAreNumbered
<1>9. J \in SUBSET Nat /\ J \subseteq WordsOf(s)
  BY <1>5, <1>8 DEF Ims
<1>10. PICK i \in J : i = Min(J) /\ \A j \in J : i <= j
  BY <1>6, <1>9, MinIsLeast
<1>11. i \in WordsOf(s) /\ Exactly(s[i], "im")
  BY <1>5, <1>10 DEF Ims
<1>12. ASSUME NEW j \in 1 .. i - 1  PROVE ~Exactly(s[j], "im")
  <2>1. j \notin J /\ j \in 1 .. Len(s)
    BY <1>8, <1>9, <1>10, <1>11
  <2>2. DOMAIN s = 1 .. Len(s)
    BY DEF Message
  <2>3. Exactly(s[j], "im") => j \in WordsOf(s)
    BY <2>1, <2>2 DEF Exactly, Is, WordsOf, Blank
  <2>4. QED
    BY <1>5, <2>1, <2>3 DEF Ims
<1>13. QED
  BY <1>6, <1>7, <1>10, <1>11, <1>12

\* Bob and Joe greet by all that follows the first "im" without a mark, however
\* many blanks are between the words; for every vocabulary and messages of every
\* length.
THEOREM GreetingIsTheRest == Spec => []GreetingIsRest
<1>1. msg \in Message => GreetingIsRest
  <2> SUFFICES ASSUME msg \in Message,
                      NEW answer \in bob_bot_response(msg, 4) \cup joe_bot_response(msg),
                      answer.topic \in {"greeting", "im"}
               PROVE  \E i \in WordsOf(msg) :
                        /\ Exactly(msg[i], "im")
                        /\ \A j \in 1 .. i - 1 : ~Exactly(msg[j], "im")
                        /\ Follows(answer.rest, msg, i)
    BY Zenon DEF GreetingIsRest, Follows, Told, After
  <2>1. PICK s, rest : s = msg /\ rest = answer.rest
    OBVIOUS
  <2>2. rest \in rec_strlist(strlist(s))
    BY <2>1, BobGreets, JoeGreets
  <2>3. \E i \in WordsOf(s) : /\ Exactly(s[i], "im")
                              /\ \A j \in 1 .. i - 1 : ~Exactly(s[j], "im")
                              /\ Follows(rest, s, i)
    BY <2>1, <2>2, CutFollows
  <2>4. QED
    BY <2>1, <2>3
<1>2. QED
  BY <1>1, AlwaysMessage, PTL
=============================================================================
