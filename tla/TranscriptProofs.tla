--------------------------- MODULE TranscriptProofs ---------------------------
(***************************************************************************)
(* Theorems about Transcript: whatever messages a transcript holds, its    *)
(* repair is a transcript that providers accept.                           *)
(*                                                                         *)
(* The community modules define the concatenation of a sequence of         *)
(* sequences, FlattenSeq, as a recursive function.  What it computes is    *)
(* shown once, in FlattenLaid, by induction in the form of a least         *)
(* counterexample (NatMin): every part has its place in the result, and    *)
(* every element of the result comes from a part.  The rest is about       *)
(* places.                                                                 *)
(***************************************************************************)
EXTENDS Transcript, SequenceTheorems, WellFoundedInduction, TLAPS

\* A set of numbers has a least element.
LEMMA NatMin ==
    ASSUME NEW S \in SUBSET Nat, S # {}
    PROVE  \E m \in S : \A k \in S : m <= k
<1> DEFINE R == OpToRel(<, Nat)
<1>1. IsWellFoundedOn(R, Nat)
  BY NatLessThanWellFounded
<1>2. PICK m \in S : \A k \in S : ~ (<<k, m>> \in R)
  BY <1>1, WFMin
<1>3. \A k \in S : ~(k < m)
  BY <1>2 DEF OpToRel
<1> QED
  BY <1>3

\* Induction: a set that holds 0 and, with each number, the next, holds all.
LEMMA NatInd ==
    ASSUME NEW S \in SUBSET Nat, 0 \in S, \A n \in S : n + 1 \in S
    PROVE  S = Nat
<1> SUFFICES ASSUME Nat \ S # {} PROVE FALSE
  OBVIOUS
<1>1. PICK m \in Nat \ S : \A k \in Nat \ S : m <= k
  BY NatMin
<1>2. m # 0 /\ m - 1 \in Nat
  BY <1>1
<1>3. m - 1 \in S
  BY <1>1, <1>2
<1> QED
  BY <1>1, <1>2, <1>3

-----------------------------------------------------------------------------
(* FlattenSeq. *)

\* f concatenates the first parts of p, one by one.
Flattens(f, p, n) ==
    f = [i \in 1..n |-> IF i = 1 THEN p[i] ELSE f[i - 1] \o p[i]]

\* s is the concatenation of the first n parts of p, the part at i ends at
\* ends[i]: it has its elements there, and there are no others.
Laid(S, p, n, s, ends) ==
    /\ s \in Seq(S)
    /\ ends \in [0..n -> Nat]
    /\ ends[0] = 0
    /\ ends[n] = Len(s)
    /\ \A i, j \in 0..n : i <= j => ends[i] <= ends[j]
    /\ \A i \in 1..n : ends[i] = ends[i - 1] + Len(p[i])
    /\ \A i \in 1..n : \A j \in 1..Len(p[i]) : s[ends[i - 1] + j] = p[i][j]
    /\ \A k \in 1..Len(s) : \E i \in 1..n : ends[i - 1] < k /\ k <= ends[i]

\* The recursion has a solution.
LEMMA FlattenExists ==
    ASSUME NEW p, NEW n \in Nat
    PROVE  \E f : Flattens(f, p, n + 1)
<1> DEFINE T == {m \in Nat : \E f : Flattens(f, p, m + 1)}
<1>1. 0 \in T
  <2> DEFINE f == [i \in 1..1 |-> p[i]]
  <2>1. f = [i \in 1..1 |-> IF i = 1 THEN p[i] ELSE f[i - 1] \o p[i]]
    OBVIOUS
  <2> HIDE DEF f
  <2>2. Flattens(f, p, 0 + 1)
    BY <2>1 DEF Flattens
  <2> QED
    BY <2>2
<1>2. ASSUME NEW m \in T
      PROVE  m + 1 \in T
  <2>1. PICK f : Flattens(f, p, m + 1)
    OBVIOUS
  <2> DEFINE g == [i \in 1..(m + 2) |-> IF i = m + 2 THEN f[m + 1] \o p[m + 2] ELSE f[i]]
  <2>2. f = [i \in 1..(m + 1) |-> IF i = 1 THEN p[i] ELSE f[i - 1] \o p[i]]
    BY <2>1 DEF Flattens
  <2>3. ASSUME NEW i \in 1..(m + 2)
        PROVE  g[i] = IF i = 1 THEN p[i] ELSE g[i - 1] \o p[i]
    <3>1. CASE i = m + 2
      <4>1. i # 1 /\ i - 1 = m + 1 /\ i - 1 \in 1..(m + 2) /\ i - 1 # m + 2
        BY <3>1
      <4>2. g[i - 1] = f[m + 1] /\ g[i] = f[m + 1] \o p[m + 2]
        BY <3>1, <4>1
      <4> QED
        BY <3>1, <4>1, <4>2
    <3>2. CASE i # m + 2
      <4>1. i \in 1..(m + 1) /\ g[i] = f[i]
        BY <3>2
      <4>2. f[i] = IF i = 1 THEN p[i] ELSE f[i - 1] \o p[i]
        BY <2>2, <4>1
      <4>3. i # 1 => g[i - 1] = f[i - 1]
        BY <4>1
      <4> QED
        BY <4>1, <4>2, <4>3
    <3> QED
      BY <3>1, <3>2
  <2>4. g = [i \in 1..(m + 2) |-> g[i]]
    OBVIOUS
  <2> HIDE DEF g
  <2>5. g = [i \in 1..(m + 2) |-> IF i = 1 THEN p[i] ELSE g[i - 1] \o p[i]]
    BY <2>3, <2>4, Zenon
  <2>6. (m + 1) + 1 = m + 2 /\ m + 1 \in Nat
    OBVIOUS
  <2>7. Flattens(g, p, (m + 1) + 1)
    BY <2>5, <2>6 DEF Flattens
  <2> QED
    BY <2>6, <2>7
<1> HIDE DEF T
<1>3. T = Nat
  BY <1>1, <1>2, NatInd DEF T
<1> QED
  BY <1>3 DEF T

\* One part more.
LEMMA LaidNext ==
    ASSUME NEW S, NEW p, NEW n \in Nat, NEW s, NEW ends, Laid(S, p, n, s, ends),
           \A i \in 1..(n + 1) : p[i] \in Seq(S)
    PROVE  \E e : Laid(S, p, n + 1, s \o p[n + 1], e)
<1> DEFINE part == p[n + 1]
           t == s \o part
           e == [i \in 0..(n + 1) |-> IF i = n + 1 THEN Len(t) ELSE ends[i]]
<1>1. /\ s \in Seq(S) /\ ends \in [0..n -> Nat] /\ ends[0] = 0 /\ ends[n] = Len(s)
      /\ \A i, j \in 0..n : i <= j => ends[i] <= ends[j]
      /\ \A i \in 1..n : ends[i] = ends[i - 1] + Len(p[i])
      /\ \A i \in 1..n : \A j \in 1..Len(p[i]) : s[ends[i - 1] + j] = p[i][j]
      /\ \A k \in 1..Len(s) : \E i \in 1..n : ends[i - 1] < k /\ k <= ends[i]
  BY DEF Laid
<1>2. /\ t \in Seq(S) /\ Len(t) = Len(s) + Len(part) /\ Len(s) \in Nat /\ Len(part) \in Nat
      /\ \A i \in 1..Len(s) : t[i] = s[i]
      /\ \A j \in 1..Len(part) : t[Len(s) + j] = part[j]
  <2>1. part \in Seq(S)
    OBVIOUS
  <2> HIDE DEF part
  <2> QED
    BY <1>1, <2>1, ConcatProperties, LenProperties
<1> HIDE DEF t
<1>3. /\ e \in [0..(n + 1) -> Nat] /\ e[0] = 0 /\ e[n + 1] = Len(t)
      /\ \A i \in 0..n : e[i] = ends[i]
  BY <1>1, <1>2
<1> HIDE DEF e
<1>4. \A i, j \in 0..(n + 1) : i <= j => e[i] <= e[j]
  <2> SUFFICES ASSUME NEW i \in 0..(n + 1), NEW j \in 0..(n + 1), i <= j
               PROVE  e[i] <= e[j]
    OBVIOUS
  <2>1. CASE j = n + 1
    <3>1. CASE i = n + 1
      BY <1>2, <1>3, <2>1, <3>1
    <3>2. CASE i # n + 1
      <4>1. i \in 0..n /\ e[i] = ends[i] /\ ends[i] <= ends[n] /\ ends[i] \in Nat
        BY <1>1, <1>3, <3>2
      <4>2. e[j] = Len(s) + Len(part) /\ ends[n] = Len(s)
        BY <1>1, <1>2, <1>3, <2>1
      <4> QED
        BY <1>2, <4>1, <4>2
    <3> QED
      BY <3>1, <3>2
  <2>2. CASE j # n + 1
    <3>1. i \in 0..n /\ j \in 0..n
      BY <2>2
    <3>2. ends[i] <= ends[j] /\ e[i] = ends[i] /\ e[j] = ends[j]
      BY <1>1, <1>3, <3>1
    <3> QED
      BY <3>2
  <2> QED
    BY <2>1, <2>2
<1>5. ASSUME NEW i \in 1..(n + 1)
      PROVE  /\ e[i] = e[i - 1] + Len(p[i])
             /\ \A j \in 1..Len(p[i]) : t[e[i - 1] + j] = p[i][j]
  <2>1. CASE i = n + 1
    <3>1. i - 1 = n /\ n \in 0..n /\ p[i] = part
      BY <2>1
    <3>2. e[i - 1] = Len(s)
      BY <1>1, <1>3, <3>1
    <3> QED
      BY <1>2, <1>3, <2>1, <3>1, <3>2
  <2>2. CASE i # n + 1
    <3>1. i \in 1..n /\ i - 1 \in 0..n /\ i \in 0..n /\ n \in 0..n
      BY <2>2
    <3>2. e[i] = ends[i] /\ e[i - 1] = ends[i - 1] /\ ends[i] = ends[i - 1] + Len(p[i])
      BY <1>1, <1>3, <3>1
    <3>3. ends[i] <= Len(s) /\ ends[i - 1] \in Nat /\ ends[i] \in Nat
      BY <1>1, <3>1
    <3>4. ASSUME NEW j \in 1..Len(p[i])
          PROVE  t[e[i - 1] + j] = p[i][j]
      <4>0. Len(p[i]) \in Nat
        BY <3>1, LenProperties
      <4>1. ends[i - 1] + j \in 1..Len(s)
        <5> DEFINE a == ends[i - 1]
                   m == Len(p[i])
                   c == Len(s)
        <5>1. a \in Nat /\ m \in Nat /\ c \in Nat /\ a + m <= c /\ j \in 1..m
          BY <1>2, <3>2, <3>3, <4>0
        <5> HIDE DEF a, m, c
        <5>2. a + j \in 1..c
          BY <5>1
        <5> QED
          BY <5>2 DEF a, c
      <4> QED
        BY <1>1, <1>2, <3>1, <3>2, <4>1
    <3> QED
      BY <3>2, <3>4
  <2> QED
    BY <2>1, <2>2
<1>6. ASSUME NEW k \in 1..Len(t)
      PROVE  \E i \in 1..(n + 1) : e[i - 1] < k /\ k <= e[i]
  <2>1. CASE k <= Len(s)
    <3>1. PICK i \in 1..n : ends[i - 1] < k /\ k <= ends[i]
      BY <1>1, <1>2, <2>1
    <3>2. i \in 0..n /\ i - 1 \in 0..n /\ i \in 1..(n + 1)
      OBVIOUS
    <3> QED
      BY <1>3, <3>1, <3>2
  <2>2. CASE ~(k <= Len(s))
    <3>1. n + 1 \in 1..(n + 1) /\ (n + 1) - 1 = n /\ n \in 0..n
      OBVIOUS
    <3>2. e[(n + 1) - 1] = Len(s)
      BY <1>1, <1>3, <3>1
    <3> QED
      BY <1>2, <1>3, <2>2, <3>1, <3>2
  <2> QED
    BY <2>1, <2>2
<1>7. Laid(S, p, n + 1, t, e)
  BY <1>2, <1>3, <1>4, <1>5, <1>6 DEF Laid
<1> QED
  BY <1>7 DEF t

\* u concatenates the first parts of p, from none.
Concats(u, p, n) ==
    /\ u[0] = <<>>
    /\ \A i \in 1..n : u[i] = u[i - 1] \o p[i]

LEMMA ConcatsOf ==
    ASSUME NEW S, NEW n \in Nat, NEW p, \A i \in 1..n : p[i] \in Seq(S),
           NEW f, f = [i \in 1..n |-> IF i = 1 THEN p[i] ELSE f[i - 1] \o p[i]]
    PROVE  Concats([i \in 0..n |-> IF i = 0 THEN <<>> ELSE f[i]], p, n)
<1> DEFINE u == [i \in 0..n |-> IF i = 0 THEN <<>> ELSE f[i]]
<1>1. u[0] = <<>>
  OBVIOUS
<1>2. ASSUME NEW i \in 1..n PROVE u[i] = u[i - 1] \o p[i]
  <2>1. u[i] = f[i] /\ i - 1 \in 0..n
    OBVIOUS
  <2>2. f[i] = IF i = 1 THEN p[i] ELSE f[i - 1] \o p[i]
    OBVIOUS
  <2>3. CASE i = 1
    <3>1. u[i - 1] = <<>>
      BY <2>3
    <3>2. <<>> \o p[i] = p[i]
      BY ConcatEmptySeq
    <3> QED
      BY <2>1, <2>2, <2>3, <3>1, <3>2
  <2>4. CASE i # 1
    <3>1. u[i - 1] = f[i - 1]
      BY <2>1, <2>4
    <3> QED
      BY <2>1, <2>2, <2>4, <3>1
  <2> QED
    BY <2>3, <2>4
<1> QED
  BY <1>1, <1>2 DEF Concats

\* What it ends with is the concatenation of all of them.
LEMMA ConcatsLaid ==
    ASSUME NEW S, NEW n \in Nat, NEW p, \A i \in 1..n : p[i] \in Seq(S), NEW u, Concats(u, p, n)
    PROVE  \E ends : Laid(S, p, n, u[n], ends)
<1> DEFINE none == [i \in 0..0 |-> 0]
           T == {m \in Nat : m <= n => \E ends : Laid(S, p, m, u[m], ends)}
<1>1. 0 \in T
  <2>1. Laid(S, p, 0, <<>>, none)
    BY EmptySeq DEF Laid
  <2> QED
    BY <2>1 DEF Concats
<1>2. ASSUME NEW m \in T PROVE m + 1 \in T
  <2> SUFFICES ASSUME m + 1 <= n PROVE \E ends : Laid(S, p, m + 1, u[m + 1], ends)
    OBVIOUS
  <2>1. m + 1 \in 1..n /\ m <= n /\ (m + 1) - 1 = m
    OBVIOUS
  <2>2. PICK ends : Laid(S, p, m, u[m], ends)
    BY <2>1
  <2>3. u[m + 1] = u[m] \o p[m + 1]
    BY <2>1 DEF Concats
  <2>4. \A i \in 1..(m + 1) : p[i] \in Seq(S)
    BY <2>1
  <2> QED
    BY <2>1, <2>2, <2>3, <2>4, LaidNext
<1> HIDE DEF T
<1>3. T = Nat
  BY <1>1, <1>2, NatInd DEF T
<1> QED
  BY <1>3 DEF T

\* FlattenSeq concatenates all the parts.
LEMMA FlattenLaid ==
    ASSUME NEW S, NEW p \in Seq(Seq(S))
    PROVE  \E ends : Laid(S, p, Len(p), FlattenSeq(p), ends)
<1> DEFINE n == Len(p)
<1>0. n \in Nat /\ \A i \in 1..n : p[i] \in Seq(S)
  BY LenProperties
<1> DEFINE none == [i \in 0..0 |-> 0]
<1>1. Laid(S, p, 0, <<>>, none)
  BY EmptySeq DEF Laid
<1>2. CASE n = 0
  <2>1. FlattenSeq(p) = p
    BY <1>2 DEF FlattenSeq
  <2>2. p = <<>>
    BY <1>2, EmptySeq
  <2> QED
    BY <1>1, <1>2, <2>1, <2>2
<1>3. CASE n # 0
  <2>1. \E f : Flattens(f, p, n)
    <3>1. n - 1 \in Nat /\ (n - 1) + 1 = n
      BY <1>0, <1>3
    <3> QED
      BY <3>1, FlattenExists
  <2> DEFINE f == CHOOSE g : Flattens(g, p, n)
  <2>2. Flattens(f, p, n)
    BY <2>1
  <2>3. f = CHOOSE g : g = [i \in 1..n |-> IF i = 1 THEN p[i] ELSE g[i - 1] \o p[i]]
    BY DEF Flattens
  <2>4. FlattenSeq(p) = f[n]
    BY <1>3, <2>3 DEF FlattenSeq
  <2> HIDE DEF f
  <2>5. f = [i \in 1..n |-> IF i = 1 THEN p[i] ELSE f[i - 1] \o p[i]]
    BY <2>2 DEF Flattens
  <2> DEFINE u == [i \in 0..n |-> IF i = 0 THEN <<>> ELSE f[i]]
  <2>6. Concats(u, p, n)
    BY <1>0, <2>5, ConcatsOf
  <2>7. u[n] = f[n]
    BY <1>0, <1>3
  <2> HIDE DEF u
  <2> QED
    BY <1>0, <2>4, <2>6, <2>7, ConcatsLaid
<1> QED
  BY <1>2, <1>3

-----------------------------------------------------------------------------
(* Blocks. *)

\* The messages that the program writes: only an answer of the model asks for
\* calls.
Written == {m \in Message : m.role # "assistant" => m.calls = <<>>}

LEMMA HeadFacts ==
    ASSUME NEW ms, NEW i \in Nat
    PROVE  /\ HeadOf(ms, i) \in 0..i
           /\ HeadOf(ms, i) > 0 => ms[HeadOf(ms, i)].role # "tool"
           /\ \A k \in (HeadOf(ms, i) + 1)..i : ms[k].role = "tool"
<1> DEFINE S == {0} \cup {h \in 1..i : ms[h].role # "tool"}
           T == {k \in Nat : k <= i /\ i - k \in S}
<1>1. i \in T
  OBVIOUS
<1>2. PICK k \in T : \A l \in T : k <= l
  <2>1. T \in SUBSET Nat /\ T # {}
    BY <1>1
  <2> HIDE DEF T
  <2> QED
    BY <2>1, NatMin
<1>3. i - k \in S /\ i - k \in 0..i
  OBVIOUS
<1>4. \A l \in (i - k + 1)..i : ms[l].role = "tool"
  <2> SUFFICES ASSUME NEW l \in (i - k + 1)..i, ms[l].role # "tool" PROVE FALSE
    OBVIOUS
  <2>1. l \in 1..i /\ l \in S /\ i - (i - l) = l
    BY <1>3
  <2>2. i - l \in T
    BY <2>1
  <2> QED
    BY <1>2, <2>1, <2>2
<1>5. \E h \in 0..i : /\ h > 0 => ms[h].role # "tool"
                      /\ \A l \in (h + 1)..i : ms[l].role = "tool"
  <2>1. i - k > 0 => ms[i - k].role # "tool"
    BY <1>3
  <2> QED
    BY <1>3, <1>4, <2>1
<1> QED
  BY <1>5 DEF HeadOf

\* The last message before i, or at it, that is not a tool row.
LEMMA HeadIs ==
    ASSUME NEW ms, NEW i \in Nat, NEW h \in 1..i, ms[h].role # "tool",
           \A k \in (h + 1)..i : ms[k].role = "tool"
    PROVE  HeadOf(ms, i) = h
BY HeadFacts

Stays(ms, i) == ms[i].role = "tool" => Answers(ms, i)

AllStay(ms) == \A i \in DOMAIN ms : Stays(ms, i)

\* ends[i] is the place in ds of the message at i, if it stays.
Drops(ms, ds, ends) ==
    /\ ds \in Seq(Written)
    /\ ends \in [0..Len(ms) -> Nat]
    /\ \A i, j \in 0..Len(ms) : i <= j => ends[i] <= ends[j]
    /\ \A i \in 1..Len(ms) : Stays(ms, i) =>
           ends[i] = ends[i - 1] + 1 /\ ends[i] \in 1..Len(ds) /\ ds[ends[i]] = ms[i]
    /\ \A k \in 1..Len(ds) : \E i \in 1..Len(ms) : Stays(ms, i) /\ ends[i] = k

LEMMA DropsPlaces ==
    ASSUME NEW ms \in Seq(Written)
    PROVE  \E ends : Drops(ms, DropOrphans(ms), ends)
<1> DEFINE n == Len(ms)
           p == [i \in 1..n |-> IF Stays(ms, i) THEN <<ms[i]>> ELSE <<>>]
           ds == FlattenSeq(p)
<1>0. n \in Nat /\ DOMAIN ms = 1..n /\ \A i \in 1..n : ms[i] \in Written
  BY LenProperties
<1>1. DropOrphans(ms) = ds
  BY <1>0 DEF DropOrphans, Stays
<1>2. \A i \in 1..n : p[i] = IF Stays(ms, i) THEN <<ms[i]>> ELSE <<>>
  OBVIOUS
<1>3. p \in Seq(Seq(Written)) /\ Len(p) = n
  <2>1. \A i \in 1..n : (IF Stays(ms, i) THEN <<ms[i]>> ELSE <<>>) \in Seq(Written)
    BY <1>0
  <2> QED
    BY <1>0, <2>1
<1> HIDE DEF p, ds
<1>4. PICK ends : Laid(Written, p, n, ds, ends)
  BY <1>3, FlattenLaid DEF ds
<1>5. /\ ds \in Seq(Written) /\ ends \in [0..n -> Nat] /\ ends[n] = Len(ds)
      /\ \A i, j \in 0..n : i <= j => ends[i] <= ends[j]
      /\ \A i \in 1..n : ends[i] = ends[i - 1] + Len(p[i])
      /\ \A i \in 1..n : \A j \in 1..Len(p[i]) : ds[ends[i - 1] + j] = p[i][j]
      /\ \A k \in 1..Len(ds) : \E i \in 1..n : ends[i - 1] < k /\ k <= ends[i]
  BY <1>4 DEF Laid
<1>6. ASSUME NEW i \in 1..n, Stays(ms, i)
      PROVE  ends[i] = ends[i - 1] + 1 /\ ends[i] \in 1..Len(ds) /\ ds[ends[i]] = ms[i]
  <2>0. p[i] = <<ms[i]>>
    BY <1>2, <1>6, Zenon
  <2>1. Len(p[i]) = 1 /\ p[i][1] = ms[i] /\ 1 \in 1..Len(p[i])
    BY <2>0
  <2>2. i \in 0..n /\ i - 1 \in 0..n /\ n \in 0..n /\ i <= n
    BY <1>0
  <2>3. ends[i] = ends[i - 1] + Len(p[i]) /\ ends[i - 1] \in Nat /\ ends[i] <= ends[n]
    BY <1>5, <2>2
  <2>4. ds[ends[i - 1] + 1] = p[i][1]
    BY <1>5, <2>1
  <2>5. ends[i] = ends[i - 1] + 1
    BY <2>1, <2>3
  <2>6. ends[i] \in 1..Len(ds)
    <3> DEFINE e == ends[i - 1]
               c == Len(ds)
    <3>1. e \in Nat /\ c \in Nat /\ e + 1 <= c
      BY <1>5, <2>3, <2>5, LenProperties
    <3> HIDE DEF e, c
    <3>2. e + 1 \in 1..c
      BY <3>1
    <3> QED
      BY <2>5, <3>2 DEF e, c
  <2>7. ds[ends[i]] = ms[i]
    BY <2>1, <2>4, <2>5
  <2> QED
    BY <2>5, <2>6, <2>7
<1>7. ASSUME NEW k \in 1..Len(ds)
      PROVE  \E i \in 1..n : Stays(ms, i) /\ ends[i] = k
  <2>1. PICK i \in 1..n : ends[i - 1] < k /\ k <= ends[i]
    BY <1>5
  <2>2. i \in 0..n /\ i - 1 \in 0..n
    BY <1>0
  <2>3. ends[i] = ends[i - 1] + Len(p[i]) /\ ends[i - 1] \in Nat /\ ends[i] \in Nat
    BY <1>5, <2>2
  <2>4. Stays(ms, i)
    <3> SUFFICES ASSUME ~Stays(ms, i) PROVE FALSE
      OBVIOUS
    <3>1. p[i] = <<>>
      BY <1>2, Zenon
    <3>2. Len(p[i]) = 0
      BY <3>1
    <3> QED
      BY <2>1, <2>3, <3>2
  <2>5. ends[i] = ends[i - 1] + 1
    BY <1>6, <2>4
  <2> QED
    BY <2>1, <2>3, <2>4, <2>5
<1>8. Drops(ms, ds, ends)
  BY <1>5, <1>6, <1>7 DEF Drops
<1> QED
  BY <1>1, <1>8

\* Without the orphans every tool row answers a call of its block: a row that
\* stays keeps its block, because no other message is dropped.
LEMMA OrphansGone ==
    ASSUME NEW ms \in Seq(Written)
    PROVE  DropOrphans(ms) \in Seq(Written) /\ AllStay(DropOrphans(ms))
<1> DEFINE n == Len(ms)
           ds == DropOrphans(ms)
<1>0. n \in Nat /\ DOMAIN ms = 1..n
  BY LenProperties
<1>1. PICK ends : Drops(ms, ds, ends)
  BY DropsPlaces
<1> HIDE DEF ds
<1>2. /\ ds \in Seq(Written) /\ ends \in [0..n -> Nat]
      /\ \A i, j \in 0..n : i <= j => ends[i] <= ends[j]
      /\ \A i \in 1..n : Stays(ms, i) =>
             ends[i] = ends[i - 1] + 1 /\ ends[i] \in 1..Len(ds) /\ ds[ends[i]] = ms[i]
      /\ \A k \in 1..Len(ds) : \E i \in 1..n : Stays(ms, i) /\ ends[i] = k
  BY <1>1 DEF Drops
<1>3. ASSUME NEW k \in 1..Len(ds), ds[k].role = "tool"
      PROVE  Answers(ds, k)
  <2>0. PICK i \in 1..n : Stays(ms, i) /\ ends[i] = k
    BY <1>2
  <2>1. Stays(ms, i) /\ ends[i] = k /\ ds[k] = ms[i]
    BY <1>2, <2>0
  <2> DEFINE h == HeadOf(ms, i)
  <2>2. h > 0 /\ ms[h].role = "assistant" /\ ms[i].call \in Range(ms[h].calls)
    BY <1>3, <2>1 DEF Stays, Answers
  <2>3. h \in 1..i /\ h \in 1..n /\ \A j \in (h + 1)..i : ms[j].role = "tool"
    BY <1>0, <2>2, HeadFacts
  <2> HIDE DEF h
  <2>4. Stays(ms, h)
    BY <2>2 DEF Stays
  <2> DEFINE g == ends[h]
  <2>5. g \in 1..k /\ ds[g] = ms[h] /\ k \in Nat
    BY <1>0, <1>2, <2>1, <2>3, <2>4
  <2>6. ASSUME NEW l \in (g + 1)..k PROVE ds[l].role = "tool"
    <3>1. l \in 1..Len(ds)
      BY <2>5
    <3>0. PICK j \in 1..n : Stays(ms, j) /\ ends[j] = l
      BY <1>2, <3>1
    <3>2. Stays(ms, j) /\ ends[j] = l /\ ends[j] = ends[j - 1] + 1 /\ ds[l] = ms[j]
      BY <1>2, <3>0
    <3>3. j > h
      <4> SUFFICES ASSUME j <= h PROVE FALSE
        BY <2>3, <3>2
      <4>1. ends[j] <= ends[h]
        BY <1>0, <1>2, <2>3
      <4> QED
        BY <2>5, <3>2, <4>1
    <3>4. j <= i
      <4> SUFFICES ASSUME i <= j - 1 PROVE FALSE
        BY <2>1, <3>2
      <4>0. i \in 0..n /\ j - 1 \in 0..n
        BY <1>0
      <4>1. ends[i] <= ends[j - 1] /\ ends[j - 1] \in Nat
        BY <1>2, <4>0
      <4> QED
        BY <2>1, <2>5, <3>2, <4>1
    <3>5. j \in (h + 1)..i
      BY <2>3, <3>3, <3>4
    <3> QED
      BY <2>3, <3>2, <3>5
  <2>7. HeadOf(ds, k) = g
    BY <2>2, <2>5, <2>6, HeadIs
  <2> QED
    BY <2>1, <2>2, <2>5, <2>7 DEF Answers
<1>4. DOMAIN ds = 1..Len(ds)
  BY <1>2, LenProperties
<1> QED
  BY <1>2, <1>3, <1>4 DEF AllStay, Stays, ds

\* What a concatenation holds is what its parts hold.
LEMMA FlattenElements ==
    ASSUME NEW S, NEW p \in Seq(Seq(S))
    PROVE  /\ FlattenSeq(p) \in Seq(S)
           /\ \A k \in 1..Len(FlattenSeq(p)) :
                 \E i \in 1..Len(p) : \E j \in 1..Len(p[i]) : FlattenSeq(p)[k] = p[i][j]
           /\ \A i \in 1..Len(p) : \A j \in 1..Len(p[i]) :
                 \E k \in 1..Len(FlattenSeq(p)) : FlattenSeq(p)[k] = p[i][j]
<1> DEFINE n == Len(p)
           s == FlattenSeq(p)
<1>0. n \in Nat /\ \A i \in 1..n : p[i] \in Seq(S) /\ Len(p[i]) \in Nat
  BY LenProperties
<1>1. PICK ends : Laid(S, p, n, s, ends)
  BY FlattenLaid
<1> HIDE DEF s
<1>2. /\ s \in Seq(S) /\ ends \in [0..n -> Nat] /\ ends[n] = Len(s)
      /\ \A i, j \in 0..n : i <= j => ends[i] <= ends[j]
      /\ \A i \in 1..n : ends[i] = ends[i - 1] + Len(p[i])
      /\ \A i \in 1..n : \A j \in 1..Len(p[i]) : s[ends[i - 1] + j] = p[i][j]
      /\ \A k \in 1..Len(s) : \E i \in 1..n : ends[i - 1] < k /\ k <= ends[i]
  BY <1>1 DEF Laid
<1>3. ASSUME NEW k \in 1..Len(s)
      PROVE  \E i \in 1..n : \E j \in 1..Len(p[i]) : s[k] = p[i][j]
  <2>1. PICK i \in 1..n : ends[i - 1] < k /\ k <= ends[i]
    BY <1>2
  <2>2. i - 1 \in 0..n /\ i \in 0..n
    OBVIOUS
  <2>3. ends[i - 1] \in Nat /\ ends[i] = ends[i - 1] + Len(p[i]) /\ Len(p[i]) \in Nat
    BY <1>0, <1>2, <2>2
  <2> DEFINE j == k - ends[i - 1]
  <2>4. j \in 1..Len(p[i]) /\ ends[i - 1] + j = k
    <3> DEFINE e == ends[i - 1]
               m == Len(p[i])
    <3>1. e \in Nat /\ m \in Nat /\ e < k /\ k <= e + m /\ k \in Int
      BY <2>1, <2>3
    <3> HIDE DEF e, m
    <3>2. k - e \in 1..m /\ e + (k - e) = k
      BY <3>1
    <3> QED
      BY <3>2 DEF e, m
  <2>5. s[k] = p[i][j]
    BY <1>2, <2>4
  <2> QED
    BY <2>4, <2>5
<1>4. ASSUME NEW i \in 1..n, NEW j \in 1..Len(p[i])
      PROVE  \E k \in 1..Len(s) : s[k] = p[i][j]
  <2>1. i - 1 \in 0..n /\ i \in 0..n /\ n \in 0..n /\ i <= n
    BY <1>0
  <2>2. ends[i - 1] \in Nat /\ ends[i] = ends[i - 1] + Len(p[i]) /\ ends[i] <= Len(s) /\ Len(p[i]) \in Nat
    BY <1>0, <1>2, <2>1
  <2>3. Len(s) \in Nat /\ j <= Len(p[i]) /\ j >= 1 /\ j \in Nat
    BY <1>0, <1>2, LenProperties
  <2>4. ends[i - 1] + j \in 1..Len(s)
    <3> DEFINE e == ends[i - 1]
               m == Len(p[i])
               c == Len(s)
    <3>1. e \in Nat /\ m \in Nat /\ c \in Nat /\ e + m <= c /\ j \in 1..m
      BY <2>2, <2>3
    <3> HIDE DEF e, m, c
    <3>2. e + j \in 1..c
      BY <3>1
    <3> QED
      BY <3>2 DEF e, c
  <2> QED
    BY <1>2, <2>4
<1> QED
  BY <1>2, <1>3, <1>4 DEF s

\* The placeholders at i: rows for calls of the block, and one for each call
\* that has no row yet.
LEMMA StubsFacts ==
    ASSUME NEW ds \in Seq(Written), NEW i \in 1..Len(ds)
    PROVE  /\ Stubs(ds, i) \in Seq(Written)
           /\ \A l \in 1..Len(Stubs(ds, i)) :
                 /\ Stubs(ds, i)[l].role = "tool" /\ Stubs(ds, i)[l].of = NoTurn
                 /\ HeadOf(ds, i) > 0
                 /\ Stubs(ds, i)[l].call \in Range(ds[HeadOf(ds, i)].calls)
           /\ HeadOf(ds, i) > 0 =>
                 \A c \in Range(ds[HeadOf(ds, i)].calls) :
                    \/ \E k \in (HeadOf(ds, i) + 1)..i : ds[k].call = c
                    \/ \E l \in 1..Len(Stubs(ds, i)) : Stubs(ds, i)[l].call = c
<1> DEFINE h == HeadOf(ds, i)
           calls == ds[h].calls
           answered == {ds[k].call : k \in (h + 1)..i}
           stub(c) == ToolRow(c, IF c.tool = AskUser THEN "pending" ELSE "interrupted")
           p == [j \in DOMAIN calls |-> IF calls[j] \in answered THEN <<>> ELSE <<stub(calls[j])>>]
           s == Stubs(ds, i)
<1>1. CASE h = 0
  <2>1. s = <<>>
    BY <1>1 DEF Stubs
  <2> HIDE DEF h
  <2>2. <<>> \in Seq(Written) /\ Len(<<>>) = 0
    OBVIOUS
  <2> QED
    BY <1>1, <2>1, <2>2 DEF h
<1>2. CASE h # 0
  <2>1. h \in 1..Len(ds)
    <3>1. i \in Nat /\ Len(ds) \in Nat
      BY LenProperties
    <3> QED
      BY <1>2, <3>1, HeadFacts
  <2>2. calls \in Seq(Call)
    <3>1. ds[h] \in Written
      BY <2>1
    <3> QED
      BY <3>1 DEF Written, Message
  <2>3. s = FlattenSeq(p)
    BY <1>2 DEF Stubs
  <2> HIDE DEF s, h
  <2> DEFINE n == Len(calls)
  <2>4. n \in Nat /\ DOMAIN calls = 1..n /\ \A j \in 1..n : calls[j] \in Call
    BY <2>2, LenProperties
  <2>5. \A c \in Call : stub(c) \in Written /\ stub(c).call = c /\ stub(c).role = "tool" /\ stub(c).of = NoTurn
    BY DEF ToolRow, Written, Message, Body
  <2> HIDE DEF stub, calls, answered
  <2>6. /\ DOMAIN p = 1..n
        /\ \A j \in 1..n : p[j] = IF calls[j] \in answered THEN <<>> ELSE <<stub(calls[j])>>
    BY <2>4
  <2>7. p \in Seq(Seq(Written)) /\ Len(p) = n
    <3>1. \A j \in 1..n : (IF calls[j] \in answered THEN <<>> ELSE <<stub(calls[j])>>) \in Seq(Written)
      BY <2>4, <2>5
    <3> QED
      BY <2>4, <3>1
  <2> HIDE DEF p
  <2>8. /\ s \in Seq(Written)
        /\ \A k \in 1..Len(s) : \E j \in 1..n : \E l \in 1..Len(p[j]) : s[k] = p[j][l]
        /\ \A j \in 1..n : \A l \in 1..Len(p[j]) : \E k \in 1..Len(s) : s[k] = p[j][l]
    <3> DEFINE q == FlattenSeq(p)
               m == Len(p)
    <3>1. /\ q \in Seq(Written)
          /\ \A k \in 1..Len(q) : \E j \in 1..m : \E l \in 1..Len(p[j]) : q[k] = p[j][l]
          /\ \A j \in 1..m : \A l \in 1..Len(p[j]) : \E k \in 1..Len(q) : q[k] = p[j][l]
      BY <2>7, FlattenElements
    <3>2. q = s /\ m = n
      BY <2>3, <2>7
    <3> HIDE DEF q, m, n
    <3> QED
      BY <3>1, <3>2
  <2>9. ASSUME NEW k \in 1..Len(s)
        PROVE  s[k].role = "tool" /\ s[k].of = NoTurn /\ s[k].call \in Range(calls)
    <3>1. PICK j \in 1..n : \E l \in 1..Len(p[j]) : s[k] = p[j][l]
      BY <2>8
    <3>2. PICK l \in 1..Len(p[j]) : s[k] = p[j][l]
      BY <3>1
    <3>3. p[j] = <<>> \/ p[j] = <<stub(calls[j])>>
      BY <2>6, Zenon
    <3>4. s[k] = stub(calls[j])
      BY <3>2, <3>3
    <3>5. calls[j] \in Range(calls) /\ calls[j] \in Call
      BY <2>4 DEF Range
    <3> QED
      BY <2>5, <3>4, <3>5
  <2>10. ASSUME NEW c \in Range(calls), c \notin answered
         PROVE  \E k \in 1..Len(s) : s[k].call = c
    <3>1. PICK j \in 1..n : calls[j] = c
      BY <2>4 DEF Range
    <3>2. p[j] = <<stub(c)>>
      BY <2>6, <2>10, <3>1
    <3>3. 1 \in 1..Len(p[j]) /\ p[j][1] = stub(c)
      <4> DEFINE e == stub(c)
      <4>1. p[j] = <<e>>
        BY <3>2
      <4> HIDE DEF e
      <4>2. Len(p[j]) = 1 /\ p[j][1] = e
        BY <4>1
      <4> QED
        BY <4>2 DEF e
    <3>4. PICK k \in 1..Len(s) : s[k] = p[j][1]
      BY <2>8, <3>3
    <3>5. s[k] = stub(c) /\ c \in Call
      BY <2>4, <3>1, <3>3, <3>4
    <3> QED
      BY <2>5, <3>5
  <2>11. h > 0
    BY <2>1
  <2>12. \A c \in Range(calls) :
            (\E k \in (h + 1)..i : ds[k].call = c) \/ (\E l \in 1..Len(s) : s[l].call = c)
    BY <2>10 DEF answered
  <2> QED
    BY <2>8, <2>9, <2>11, <2>12 DEF s, h, calls
<1> QED
  BY <1>1, <1>2

-----------------------------------------------------------------------------
(* Placeholders. *)

\* A block of rows ends at i.
Closes(ds, i) == i = Len(ds) \/ ds[i + 1].role # "tool"

\* What is added after the message at i.
Added(ds, i) == IF Closes(ds, i) THEN Stubs(ds, i) ELSE <<>>

\* The message at i of ds is at ends[i - 1] + 1 of ts, and what is added after
\* it ends at ends[i].
Adds(ds, ts, ends) ==
    /\ ts \in Seq(Written)
    /\ ends \in [0..Len(ds) -> Nat]
    /\ ends[Len(ds)] = Len(ts)
    /\ \A i, j \in 0..Len(ds) : i <= j => ends[i] <= ends[j]
    /\ \A i \in 1..Len(ds) :
         /\ ends[i] = ends[i - 1] + 1 + Len(Added(ds, i))
         /\ ts[ends[i - 1] + 1] = ds[i]
         /\ \A j \in 1..Len(Added(ds, i)) : ts[ends[i - 1] + 1 + j] = Added(ds, i)[j]
    /\ \A k \in 1..Len(ts) : \E i \in 1..Len(ds) : ends[i - 1] < k /\ k <= ends[i]

LEMMA AddedFacts ==
    ASSUME NEW ds \in Seq(Written), NEW i \in 1..Len(ds)
    PROVE  /\ Added(ds, i) \in Seq(Written) /\ Len(Added(ds, i)) \in Nat
           /\ \A l \in 1..Len(Added(ds, i)) :
                 /\ Added(ds, i)[l].role = "tool" /\ Added(ds, i)[l].of = NoTurn
                 /\ HeadOf(ds, i) > 0
                 /\ Added(ds, i)[l].call \in Range(ds[HeadOf(ds, i)].calls)
<1>1. CASE Closes(ds, i)
  <2>1. Added(ds, i) = Stubs(ds, i)
    BY <1>1 DEF Added
  <2>2. Stubs(ds, i) \in Seq(Written)
    BY StubsFacts
  <2>3. Len(Stubs(ds, i)) \in Nat
    BY <2>2, LenProperties
  <2> QED
    BY <2>1, <2>3, StubsFacts
<1>2. CASE ~Closes(ds, i)
  <2>1. Added(ds, i) = <<>>
    BY <1>2 DEF Added
  <2> QED
    BY <2>1
<1> QED
  BY <1>1, <1>2

\* The pass over a transcript that adds placeholders concatenates each message
\* and what is added after it.
LEMMA AddStubsLaid ==
    ASSUME NEW ds \in Seq(Written), NEW q,
           \A i \in 1..Len(ds) : q[i] \in Seq(Written) /\ q[i] = <<ds[i]>> \o Added(ds, i)
    PROVE  \E ends : Laid(Written, q, Len(ds), AddStubs(ds), ends)
<1> DEFINE n == Len(ds)
           next(u, i) == IF i = 0 THEN <<>> ELSE u[i - 1] \o (<<ds[i]>> \o Added(ds, i))
           Solves(u) == u = [i \in 0..n |-> next(u, i)]
<1>0. n \in Nat /\ \A i \in 1..n : q[i] \in Seq(Written) /\ q[i] = <<ds[i]>> \o Added(ds, i)
  BY LenProperties
<1>1. ASSUME NEW u
      PROVE  Concats(u, q, n) <=> u[0] = <<>> /\ \A i \in 1..n : u[i] = next(u, i)
  <2>1. ASSUME NEW i \in 1..n PROVE next(u, i) = u[i - 1] \o q[i]
    <3>1. i # 0
      BY <1>0
    <3>2. q[i] = <<ds[i]>> \o Added(ds, i)
      BY <1>0
    <3> QED
      BY <3>1, <3>2, Zenon
  <2> HIDE DEF next
  <2> QED
    BY <2>1, Zenon DEF Concats
<1>2. \E u : Solves(u)
  <2>1. PICK f : Flattens(f, q, n + 1)
    BY <1>0, FlattenExists
  <2> DEFINE u == [i \in 0..n |-> IF i = 0 THEN <<>> ELSE f[i]]
             g == [i \in 1..n |-> f[i]]
  <2>2. Concats([i \in 0..n |-> IF i = 0 THEN <<>> ELSE g[i]], q, n)
    <3>1. f = [i \in 1..(n + 1) |-> IF i = 1 THEN q[i] ELSE f[i - 1] \o q[i]]
      BY <2>1 DEF Flattens
    <3>2. \A i \in 1..n : g[i] = IF i = 1 THEN q[i] ELSE g[i - 1] \o q[i]
      <4> SUFFICES ASSUME NEW i \in 1..n PROVE g[i] = IF i = 1 THEN q[i] ELSE g[i - 1] \o q[i]
        OBVIOUS
      <4>1. i \in 1..(n + 1) /\ (i # 1 => i - 1 \in 1..n)
        BY <1>0
      <4>2. f[i] = IF i = 1 THEN q[i] ELSE f[i - 1] \o q[i]
        BY <3>1, <4>1
      <4> QED
        BY <4>1, <4>2
    <3>3. g = [i \in 1..n |-> g[i]]
      OBVIOUS
    <3> HIDE DEF g
    <3>4. g = [i \in 1..n |-> IF i = 1 THEN q[i] ELSE g[i - 1] \o q[i]]
      BY <3>2, <3>3, Zenon
    <3> QED
      BY <1>0, <3>4, ConcatsOf
  <2>3. u = [i \in 0..n |-> IF i = 0 THEN <<>> ELSE g[i]]
    OBVIOUS
  <2>4. u = [i \in 0..n |-> u[i]]
    OBVIOUS
  <2> HIDE DEF u, g
  <2>5. u[0] = <<>> /\ \A i \in 1..n : u[i] = next(u, i)
    <3>1. Concats(u, q, n)
      BY <2>2, <2>3, Zenon
    <3> HIDE DEF next
    <3> QED
      BY <1>1, <3>1, Zenon
  <2>6. \A i \in 0..n : u[i] = next(u, i)
    <3>1. \A i \in 0..n : i = 0 \/ i \in 1..n
      BY <1>0
    <3> QED
      BY <2>5, <3>1
  <2> HIDE DEF next
  <2>7. Solves(u)
    BY <2>4, <2>6, Zenon
  <2> QED
    BY <2>7
<1> DEFINE v == CHOOSE u : Solves(u)
<1>3. Solves(v)
  BY <1>2
<1>4. AddStubs(ds) = v[n]
  BY DEF AddStubs, Added, Closes
<1> HIDE DEF v
<1>5. v[0] = <<>> /\ \A i \in 1..n : v[i] = next(v, i)
  <2> HIDE DEF next
  <2>1. \A i \in 0..n : v[i] = next(v, i)
    BY <1>3
  <2>2. 0 \in 0..n /\ \A i \in 1..n : i \in 0..n
    BY <1>0
  <2> QED
    BY <2>1, <2>2 DEF next
<1>6. Concats(v, q, n)
  BY <1>1, <1>5
<1> QED
  BY <1>0, <1>4, <1>6, ConcatsLaid

LEMMA AddsPlaces ==
    ASSUME NEW ds \in Seq(Written)
    PROVE  \E ends : Adds(ds, AddStubs(ds), ends)
<1> DEFINE n == Len(ds)
           q == [i \in 1..n |-> <<ds[i]>> \o Added(ds, i)]
           ts == AddStubs(ds)
<1>0. n \in Nat /\ DOMAIN ds = 1..n /\ \A i \in 1..n : ds[i] \in Written
  BY LenProperties
<1>2. ASSUME NEW i \in 1..n
      PROVE  /\ <<ds[i]>> \o Added(ds, i) \in Seq(Written)
             /\ Len(<<ds[i]>> \o Added(ds, i)) = 1 + Len(Added(ds, i))
             /\ (<<ds[i]>> \o Added(ds, i))[1] = ds[i]
             /\ \A j \in 1..Len(Added(ds, i)) : (<<ds[i]>> \o Added(ds, i))[1 + j] = Added(ds, i)[j]
  <2> DEFINE a == Added(ds, i)
             m == <<ds[i]>>
  <2>1. a \in Seq(Written) /\ Len(a) \in Nat
    BY AddedFacts
  <2>2. m \in Seq(Written) /\ Len(m) = 1 /\ m[1] = ds[i]
    BY <1>0
  <2> HIDE DEF a, m
  <2>3. /\ m \o a \in Seq(Written) /\ Len(m \o a) = Len(m) + Len(a)
        /\ \A j \in 1..Len(m) : (m \o a)[j] = m[j]
        /\ \A j \in 1..Len(a) : (m \o a)[Len(m) + j] = a[j]
    <3> DEFINE S == Written
    <3>1. a \in Seq(S) /\ m \in Seq(S)
      BY <2>1, <2>2
    <3> HIDE DEF S
    <3>2. /\ m \o a \in Seq(S) /\ Len(m \o a) = Len(m) + Len(a)
          /\ \A j \in 1..Len(m) : (m \o a)[j] = m[j]
          /\ \A j \in 1..Len(a) : (m \o a)[Len(m) + j] = a[j]
      BY <3>1, ConcatProperties
    <3> QED
      BY <3>2 DEF S
  <2>4. /\ m \o a \in Seq(Written) /\ Len(m \o a) = 1 + Len(a)
        /\ (m \o a)[1] = ds[i]
        /\ \A j \in 1..Len(a) : (m \o a)[1 + j] = a[j]
    BY <2>2, <2>3
  <2> QED
    BY <2>4 DEF m, a
<1>3. \A i \in 1..n : q[i] = <<ds[i]>> \o Added(ds, i)
  OBVIOUS
<1>4. q \in Seq(Seq(Written)) /\ Len(q) = n
  <2> DEFINE e(i) == <<ds[i]>> \o Added(ds, i)
  <2>1. \A i \in 1..n : e(i) \in Seq(Written)
    BY <1>2
  <2>2. q = [i \in 1..n |-> e(i)]
    OBVIOUS
  <2> HIDE DEF e, q
  <2> QED
    BY <1>0, <2>1, <2>2
<1> HIDE DEF q, ts
<1>5. PICK ends : Laid(Written, q, n, ts, ends)
  BY <1>2, <1>3, AddStubsLaid DEF ts
<1>6. /\ ts \in Seq(Written) /\ ends \in [0..n -> Nat] /\ ends[n] = Len(ts)
      /\ \A i, j \in 0..n : i <= j => ends[i] <= ends[j]
      /\ \A i \in 1..n : ends[i] = ends[i - 1] + Len(q[i])
      /\ \A i \in 1..n : \A j \in 1..Len(q[i]) : ts[ends[i - 1] + j] = q[i][j]
      /\ \A k \in 1..Len(ts) : \E i \in 1..n : ends[i - 1] < k /\ k <= ends[i]
  BY <1>5 DEF Laid
<1>7. ASSUME NEW i \in 1..n
      PROVE  /\ ends[i] = ends[i - 1] + 1 + Len(Added(ds, i))
             /\ ts[ends[i - 1] + 1] = ds[i]
             /\ \A j \in 1..Len(Added(ds, i)) : ts[ends[i - 1] + 1 + j] = Added(ds, i)[j]
  <2> DEFINE a == Added(ds, i)
             b == q[i]
  <2>0. Len(a) \in Nat
    BY AddedFacts
  <2>1. Len(b) = 1 + Len(a) /\ b[1] = ds[i] /\ \A j \in 1..Len(a) : b[1 + j] = a[j]
    <3> DEFINE w == <<ds[i]>> \o a
    <3>1. Len(w) = 1 + Len(a) /\ w[1] = ds[i] /\ \A j \in 1..Len(a) : w[1 + j] = a[j]
      BY <1>2
    <3>2. b = w
      BY <1>3, Zenon
    <3> HIDE DEF w, a, b
    <3> QED
      BY <3>1, <3>2
  <2>2. i - 1 \in 0..n
    BY <1>0
  <2>3. ends[i - 1] \in Nat /\ ends[i] = ends[i - 1] + Len(b)
    BY <1>6, <2>2
  <2>4. \A j \in 1..Len(b) : ts[ends[i - 1] + j] = b[j]
    BY <1>6
  <2> HIDE DEF a, b
  <2>5. ASSUME NEW j \in 1..Len(a) PROVE ts[ends[i - 1] + 1 + j] = a[j]
    <3>1. 1 + j \in 1..Len(b)
      BY <2>0, <2>1
    <3>2. ends[i - 1] + (1 + j) = ends[i - 1] + 1 + j
      <4> DEFINE e == ends[i - 1]
      <4>1. e \in Nat /\ j \in Int
        BY <2>3, <2>0
      <4> HIDE DEF e
      <4>2. e + (1 + j) = e + 1 + j
        BY <4>1
      <4> QED
        BY <4>2 DEF e
    <3> QED
      BY <2>1, <2>4, <3>1, <3>2
  <2>6. 1 \in 1..Len(b)
    BY <2>0, <2>1
  <2>7. ends[i] = ends[i - 1] + 1 + Len(a)
    <3> DEFINE e == ends[i - 1]
               m == Len(a)
    <3>1. e \in Nat /\ m \in Nat /\ Len(b) = 1 + m /\ ends[i] = e + Len(b)
      BY <2>0, <2>1, <2>3
    <3> HIDE DEF e, m
    <3>2. ends[i] = e + 1 + m
      BY <3>1
    <3> QED
      BY <3>2 DEF e, m
  <2>8. ts[ends[i - 1] + 1] = ds[i]
    BY <2>1, <2>4, <2>6
  <2> QED
    BY <2>5, <2>7, <2>8 DEF a
<1>8. Adds(ds, ts, ends)
  BY <1>6, <1>7 DEF Adds
<1> QED
  BY <1>8 DEF ts

\* Where a message and what is added after it are, and whose block that is.
LEMMA AddsHead ==
    ASSUME NEW ds \in Seq(Written), AllStay(ds), NEW ts, NEW ends, Adds(ds, ts, ends),
           NEW i \in 1..Len(ds), NEW k \in (ends[i - 1] + 1)..ends[i]
    PROVE  /\ k \in 1..Len(ts) /\ HeadOf(ds, i) \in 1..i
           /\ HeadOf(ts, k) = ends[HeadOf(ds, i) - 1] + 1
           /\ k = ends[i - 1] + 1
              \/ \E j \in 1..Len(Added(ds, i)) : k = ends[i - 1] + 1 + j /\ ts[k] = Added(ds, i)[j]
<1> DEFINE n == Len(ds)
           h == HeadOf(ds, i)
<1>0. n \in Nat /\ DOMAIN ds = 1..n
  BY LenProperties
<1>1. /\ ts \in Seq(Written)
      /\ ends \in [0..n -> Nat]
      /\ ends[n] = Len(ts)
      /\ \A a, b \in 0..n : a <= b => ends[a] <= ends[b]
      /\ \A a \in 1..n :
           /\ ends[a] = ends[a - 1] + 1 + Len(Added(ds, a))
           /\ ts[ends[a - 1] + 1] = ds[a]
           /\ \A j \in 1..Len(Added(ds, a)) : ts[ends[a - 1] + 1 + j] = Added(ds, a)[j]
      /\ \A l \in 1..Len(ts) : \E a \in 1..n : ends[a - 1] < l /\ l <= ends[a]
  BY DEF Adds
<1>2. \A a \in 1..n : ends[a - 1] \in Nat /\ ends[a] \in Nat /\ Len(Added(ds, a)) \in Nat
  <2> TAKE a \in 1..n
  <2>1. a - 1 \in 0..n /\ a \in 0..n
    BY <1>0
  <2> QED
    BY <1>1, <2>1, AddedFacts
\* A place in what belongs to a message is the message's or that of a row.
<1>3. ASSUME NEW a \in 1..n, NEW l \in Nat, ends[a - 1] < l, l <= ends[a]
      PROVE  l = ends[a - 1] + 1
             \/ \E j \in 1..Len(Added(ds, a)) : l = ends[a - 1] + 1 + j /\ ts[l] = Added(ds, a)[j]
  <2>1. CASE l = ends[a - 1] + 1
    BY <2>1
  <2>2. CASE l # ends[a - 1] + 1
    <3>1. /\ ends[a] = ends[a - 1] + 1 + Len(Added(ds, a))
          /\ \A i_ \in 1..Len(Added(ds, a)) : ts[ends[a - 1] + 1 + i_] = Added(ds, a)[i_]
      BY <1>1
    <3> DEFINE e == ends[a - 1]
               m == Len(Added(ds, a))
               j == l - e - 1
    <3>2. e \in Nat /\ m \in Nat /\ e < l /\ l <= e + 1 + m /\ l # e + 1
      BY <1>2, <1>3, <2>2, <3>1
    <3> HIDE DEF e, m
    <3>3. j \in 1..m /\ l = e + 1 + j
      BY <3>2
    <3> HIDE DEF j
    <3>4. ts[l] = Added(ds, a)[j]
      BY <3>1, <3>3 DEF e, m
    <3> QED
      BY <3>3, <3>4 DEF e, m
  <2> QED
    BY <2>1, <2>2
<1>4. k \in 1..Len(ts) /\ k \in Nat /\ ends[i - 1] < k /\ k <= ends[i]
  <2>1. i \in 0..n /\ n \in 0..n /\ i <= n
    BY <1>0
  <2>2. ends[i] <= Len(ts)
    BY <1>1, <2>1
  <2>3. ends[i - 1] \in Nat /\ ends[i] \in Nat /\ Len(ts) \in Nat
    BY <1>1, <1>2, LenProperties
  <2> DEFINE a == ends[i - 1]
             b == ends[i]
             m == Len(ts)
  <2>4. b <= m /\ a \in Nat /\ b \in Nat /\ m \in Nat /\ k \in (a + 1)..b
    BY <2>2, <2>3
  <2> HIDE DEF a, b, m
  <2>5. k \in 1..m /\ k \in Nat /\ a < k /\ k <= b
    BY <2>4
  <2> QED
    BY <2>5 DEF a, b, m
<1>5. h \in 1..i /\ ds[h].role # "tool" /\ \A j \in (h + 1)..i : ds[j].role = "tool"
  <2>1. i \in Nat
    BY <1>0
  <2>2. CASE ds[i].role = "tool"
    <3>1. h > 0
      BY <1>0, <2>2 DEF AllStay, Stays, Answers
    <3> QED
      BY <2>1, <3>1, HeadFacts
  <2>3. CASE ds[i].role # "tool"
    <3>1. i \in 1..i /\ \A j \in (i + 1)..i : ds[j].role = "tool"
      BY <2>1
    <3>2. h = i
      BY <2>1, <2>3, <3>1, HeadIs
    <3> QED
      BY <2>1, <2>3, <3>2
  <2> QED
    BY <2>2, <2>3
<1> HIDE DEF h
<1> DEFINE g == ends[h - 1] + 1
<1>6. h \in 1..n /\ h \in 0..n /\ i - 1 \in 0..n /\ h \in Nat /\ i \in Nat
  BY <1>0, <1>5
<1>7. g \in 1..k /\ ts[g] = ds[h] /\ ends[h - 1] \in Nat
  <2>1. ts[g] = ds[h] /\ ends[h - 1] \in Nat /\ ends[h] \in Nat /\ Len(Added(ds, h)) \in Nat
        /\ ends[h] = ends[h - 1] + 1 + Len(Added(ds, h))
    BY <1>1, <1>2, <1>6
  <2>2. CASE h = i
    BY <1>4, <2>1, <2>2
  <2>3. CASE h # i
    <3>1. h <= i - 1
      BY <1>5, <1>6, <2>3
    <3>2. ends[h] <= ends[i - 1]
      BY <1>1, <1>6, <3>1
    <3>3. ends[i - 1] \in Nat
      BY <1>2
    <3>4. g <= k
      BY <1>4, <2>1, <3>2, <3>3
    <3> QED
      BY <1>4, <2>1, <3>4
  <2> QED
    BY <2>2, <2>3
<1>8. ASSUME NEW l \in (g + 1)..k PROVE ts[l].role = "tool"
  <2>1. l \in 1..Len(ts) /\ l \in Nat /\ l > g /\ l <= k
    BY <1>4, <1>7, LenProperties
  <2>2. PICK a \in 1..n : ends[a - 1] < l /\ l <= ends[a]
    BY <1>1, <2>1
  <2>3. ends[a - 1] \in Nat /\ ends[a] \in Nat /\ a \in 0..n /\ a - 1 \in 0..n /\ a \in Nat
    BY <1>0, <1>2
  <2>4. h <= a
    <3> SUFFICES ASSUME a <= h - 1 PROVE FALSE
      BY <1>6, <2>3
    <3>1. h - 1 \in 0..n
      BY <1>6
    <3>2. ends[a] <= ends[h - 1]
      BY <1>1, <2>3, <3>1
    <3> QED
      BY <1>7, <2>1, <2>2, <2>3, <3>2
  <2>5. a <= i
    <3> SUFFICES ASSUME i <= a - 1 PROVE FALSE
      BY <1>6, <2>3
    <3>1. i \in 0..n /\ ends[i] <= ends[a - 1]
      BY <1>1, <1>6, <2>3
    <3> QED
      BY <1>2, <1>4, <2>1, <2>2, <2>3, <3>1
  <2>6. CASE l = ends[a - 1] + 1
    <3>1. a # h
      BY <1>7, <2>1, <2>6
    <3>2. a \in (h + 1)..i
      BY <1>6, <2>3, <2>4, <2>5, <3>1
    <3>3. ds[a].role = "tool"
      BY <1>5, <3>2
    <3>4. ts[l] = ds[a]
      BY <1>1, <2>6
    <3> QED
      BY <3>3, <3>4, Zenon
  <2>7. CASE \E j \in 1..Len(Added(ds, a)) : l = ends[a - 1] + 1 + j /\ ts[l] = Added(ds, a)[j]
    BY <2>7, AddedFacts
  <2> QED
    BY <1>3, <2>1, <2>2, <2>6, <2>7
<1>9. HeadOf(ts, k) = g
  BY <1>4, <1>5, <1>7, <1>8, HeadIs
<1>10. k = ends[i - 1] + 1
       \/ \E j \in 1..Len(Added(ds, i)) : k = ends[i - 1] + 1 + j /\ ts[k] = Added(ds, i)[j]
  BY <1>3, <1>4
<1> QED
  BY <1>4, <1>5, <1>9, <1>10 DEF h

\* With them every call of an answer has a row in its block.
LEMMA StubsRepair ==
    ASSUME NEW ds \in Seq(Written), AllStay(ds)
    PROVE  AddStubs(ds) \in Seq(Written) /\ WellFormed(AddStubs(ds))
<1> DEFINE n == Len(ds)
           ts == AddStubs(ds)
<1>0. n \in Nat /\ DOMAIN ds = 1..n /\ \A i \in 1..n : ds[i] \in Written
  BY LenProperties
<1>1. PICK ends : Adds(ds, ts, ends)
  BY AddsPlaces
<1> HIDE DEF ts
<1>2. /\ ts \in Seq(Written)
      /\ ends \in [0..n -> Nat]
      /\ \A a, b \in 0..n : a <= b => ends[a] <= ends[b]
      /\ \A a \in 1..n :
           /\ ends[a] = ends[a - 1] + 1 + Len(Added(ds, a))
           /\ ts[ends[a - 1] + 1] = ds[a]
           /\ \A j \in 1..Len(Added(ds, a)) : ts[ends[a - 1] + 1 + j] = Added(ds, a)[j]
      /\ \A l \in 1..Len(ts) : \E a \in 1..n : ends[a - 1] < l /\ l <= ends[a]
  BY <1>1 DEF Adds
<1>3. DOMAIN ts = 1..Len(ts) /\ Len(ts) \in Nat
  BY <1>2, LenProperties
<1>4. ASSUME NEW a \in 1..n
      PROVE  /\ ends[a - 1] \in Nat /\ ends[a] \in Nat /\ Len(Added(ds, a)) \in Nat
             /\ ends[a - 1] + 1 \in (ends[a - 1] + 1)..ends[a]
             /\ \A j \in 1..Len(Added(ds, a)) : ends[a - 1] + 1 + j \in (ends[a - 1] + 1)..ends[a]
  <2>1. a - 1 \in 0..n /\ a \in 0..n
    BY <1>0
  <2>2. ends[a - 1] \in Nat /\ ends[a] \in Nat /\ Len(Added(ds, a)) \in Nat
    BY <1>2, <2>1, AddedFacts
  <2> DEFINE e == ends[a - 1]
             m == Len(Added(ds, a))
             f == ends[a]
  <2>3. f = e + 1 + m
    BY <1>2
  <2>4. e \in Nat /\ f \in Nat /\ m \in Nat
    BY <2>2
  <2> HIDE DEF e, m, f
  <2>5. e + 1 \in (e + 1)..f /\ \A j \in 1..m : e + 1 + j \in (e + 1)..f
    BY <2>3, <2>4
  <2> QED
    BY <2>2, <2>5 DEF e, m, f
\* Every message belongs to one of ds.
<1>5. ASSUME NEW k \in 1..Len(ts)
      PROVE  \E i \in 1..n : k \in (ends[i - 1] + 1)..ends[i]
  <2>1. PICK i \in 1..n : ends[i - 1] < k /\ k <= ends[i]
    BY <1>2
  <2>2. k \in (ends[i - 1] + 1)..ends[i]
    BY <1>4, <2>1
  <2> QED
    BY <2>2
<1>6. ASSUME NEW k \in 1..Len(ts), ts[k].role = "tool"
      PROVE  Answers(ts, k)
  <2>1. PICK i \in 1..n : k \in (ends[i - 1] + 1)..ends[i]
    BY <1>5
  <2> DEFINE h == HeadOf(ds, i)
  <2>2. /\ h \in 1..i /\ HeadOf(ts, k) = ends[h - 1] + 1
        /\ k = ends[i - 1] + 1
           \/ \E j \in 1..Len(Added(ds, i)) : k = ends[i - 1] + 1 + j /\ ts[k] = Added(ds, i)[j]
    BY <1>1, <2>1, AddsHead
  <2>3. h \in 1..n
    BY <1>0, <2>2
  <2>4. ends[h - 1] + 1 > 0 /\ ts[ends[h - 1] + 1] = ds[h]
    <3> HIDE DEF h
    <3>1. ends[h - 1] \in Nat
      BY <1>4, <2>3
    <3>2. ts[ends[h - 1] + 1] = ds[h]
      BY <1>2, <2>3
    <3> QED
      BY <3>1, <3>2
  <2>5. ds[h].role = "assistant" /\ ts[k].call \in Range(ds[h].calls)
    <3>1. CASE k = ends[i - 1] + 1
      <4>1. ts[k] = ds[i]
        BY <1>2, <3>1
      <4>2. Answers(ds, i)
        BY <1>0, <1>6, <4>1 DEF AllStay, Stays
      <4> QED
        BY <4>1, <4>2 DEF Answers
    <3>2. CASE \E j \in 1..Len(Added(ds, i)) : k = ends[i - 1] + 1 + j /\ ts[k] = Added(ds, i)[j]
      <4>1. ts[k].call \in Range(ds[h].calls)
        BY <3>2, AddedFacts
      <4>2. ds[h].calls # <<>>
        BY <4>1 DEF Range
      <4> QED
        BY <1>0, <2>3, <4>1, <4>2 DEF Written
    <3> QED
      BY <2>2, <3>1, <3>2
  <2> QED
    BY <2>2, <2>4, <2>5 DEF Answers
<1>7. ASSUME NEW k \in 1..Len(ts), NEW c \in Range(ts[k].calls)
      PROVE  \E l \in (k + 1)..Len(ts) : ts[l].call = c /\ HeadOf(ts, l) = k
  <2>1. PICK i \in 1..n : k \in (ends[i - 1] + 1)..ends[i]
    BY <1>5
  <2>2. ts[k].calls # <<>> /\ ts[k] \in Written
    BY <1>2, <1>7 DEF Range
  <2>3. ts[k].role = "assistant"
    BY <2>2 DEF Written
  <2>4. k = ends[i - 1] + 1 /\ ts[k] = ds[i]
    <3>1. k = ends[i - 1] + 1
          \/ \E j \in 1..Len(Added(ds, i)) : k = ends[i - 1] + 1 + j /\ ts[k] = Added(ds, i)[j]
      BY <1>1, <2>1, AddsHead
    <3>2. ~ \E j \in 1..Len(Added(ds, i)) : k = ends[i - 1] + 1 + j /\ ts[k] = Added(ds, i)[j]
      BY <2>3, AddedFacts
    <3> QED
      BY <1>2, <3>1, <3>2
  <2>5. ds[i].role = "assistant" /\ c \in Range(ds[i].calls)
    BY <2>3, <2>4, <1>7
  <2> DEFINE E == {e \in i..n : Closes(ds, e)}
  <2>6. PICK e \in E : \A d \in E : e <= d
    <3>1. n \in E /\ E \in SUBSET Nat
      BY <1>0 DEF Closes
    <3> HIDE DEF E
    <3> QED
      BY <3>1, NatMin
  <2>7. e \in 1..n /\ i \in Nat /\ e \in Nat /\ i <= e
    BY <1>0
  <2>8. ASSUME NEW l \in (i + 1)..e PROVE ds[l].role = "tool"
    <3>1. l - 1 \in i..n /\ l - 1 < e /\ (l - 1) + 1 = l
      BY <1>0, <2>7
    <3>2. l - 1 \notin E
      BY <2>6, <2>7, <3>1
    <3> QED
      BY <3>1, <3>2 DEF Closes
  <2>9. \A l \in i..e : HeadOf(ds, l) = i
    <3> TAKE l \in i..e
    <3>1. l \in Nat /\ i \in 1..l /\ ds[i].role # "tool" /\ \A j \in (i + 1)..l : ds[j].role = "tool"
      BY <2>5, <2>7, <2>8
    <3> QED
      BY <3>1, HeadIs
  <2>10. HeadOf(ds, e) = i /\ i > 0 /\ Added(ds, e) = Stubs(ds, e)
    BY <2>7, <2>9 DEF Added
  <2> HIDE DEF E
  <2>11. \/ \E a \in (i + 1)..e : ds[a].call = c
         \/ \E l \in 1..Len(Stubs(ds, e)) : Stubs(ds, e)[l].call = c
    BY <2>5, <2>7, <2>10, StubsFacts
  <2>12. CASE \E a \in (i + 1)..e : ds[a].call = c
    <3>1. PICK a \in (i + 1)..e : ds[a].call = c
      BY <2>12
    <3>2. a \in 1..n /\ a \in i..e /\ i <= a - 1 /\ a - 1 \in 0..n /\ i \in 0..n
      BY <1>0, <2>7
    <3> DEFINE l == ends[a - 1] + 1
    <3>3. l \in (ends[a - 1] + 1)..ends[a] /\ ts[l] = ds[a]
      BY <1>2, <1>4, <3>2
    <3>4. l \in 1..Len(ts) /\ HeadOf(ts, l) = ends[i - 1] + 1
      <4>1. HeadOf(ds, a) = i
        BY <2>9, <3>2
      <4> HIDE DEF l
      <4> QED
        BY <1>1, <3>2, <3>3, <4>1, AddsHead
    <3>5. k < l
      <4>1. ends[i] <= ends[a - 1]
        BY <1>2, <3>2
      <4> QED
        BY <1>4, <2>1, <3>2, <4>1
    <3>6. l \in (k + 1)..Len(ts)
      BY <1>3, <3>4, <3>5
    <3> QED
      BY <2>4, <3>1, <3>3, <3>4, <3>6
  <2>13. CASE \E j \in 1..Len(Stubs(ds, e)) : Stubs(ds, e)[j].call = c
    <3>1. PICK j \in 1..Len(Added(ds, e)) : Added(ds, e)[j].call = c
      BY <2>10, <2>13
    <3> DEFINE l == ends[e - 1] + 1 + j
    <3>2. l \in (ends[e - 1] + 1)..ends[e]
      BY <1>4, <2>7
    <3>3. ts[l] = Added(ds, e)[j]
      BY <1>2, <2>7
    <3>4. ends[i - 1] <= ends[e - 1]
      <4>1. i - 1 \in 0..n /\ e - 1 \in 0..n /\ i - 1 <= e - 1
        BY <1>0, <2>7
      <4> QED
        BY <1>2, <4>1
    <3>5. k < l
      <4> DEFINE a == ends[i - 1]
                 b == ends[e - 1]
      <4>1. a \in Nat /\ b \in Nat /\ a <= b /\ k = a + 1 /\ l = b + 1 + j /\ j \in Nat /\ j >= 1
        BY <1>4, <2>4, <2>7, <3>4
      <4> HIDE DEF a, b, l
      <4> QED
        BY <4>1
    <3> HIDE DEF l
    <3>6. l \in 1..Len(ts) /\ HeadOf(ts, l) = ends[i - 1] + 1
      BY <1>1, <2>7, <2>10, <3>2, AddsHead
    <3>7. l \in (k + 1)..Len(ts)
      BY <1>3, <3>5, <3>6
    <3> QED
      BY <2>4, <3>1, <3>3, <3>6, <3>7
  <2> QED
    BY <2>11, <2>12, <2>13
<1>8. WellFormed(ts)
  BY <1>3, <1>6, <1>7 DEF WellFormed
<1> QED
  BY <1>2, <1>8 DEF ts

\* Whatever a transcript holds, its repair is one that a provider accepts: rows
\* only after the message whose calls they answer, and one for every call
\* (agent/query.py before call_model, AgentController._save_conversation).
THEOREM RepairWellFormed ==
    ASSUME NEW ms \in Seq(Written)
    PROVE  Repair(ms) \in Seq(Written) /\ WellFormed(Repair(ms))
BY OrphansGone, StubsRepair DEF Repair

-----------------------------------------------------------------------------
(* Where the numbers of steer messages can come from. *)

\* The steer messages that a transcript holds.
Heard(ms) == {ms[i].of : i \in DOMAIN ms} \cap Nat

LEMMA OrphansHeard ==
    ASSUME NEW ms \in Seq(Written)
    PROVE  Heard(DropOrphans(ms)) \subseteq Heard(ms)
<1> DEFINE ds == DropOrphans(ms)
<1>1. PICK ends : Drops(ms, ds, ends)
  BY DropsPlaces
<1> HIDE DEF ds
<1>2. DOMAIN ms = 1..Len(ms) /\ DOMAIN ds = 1..Len(ds)
  BY <1>1, LenProperties DEF Drops
<1>3. \A k \in 1..Len(ds) : \E i \in 1..Len(ms) : ds[k] = ms[i]
  <2> TAKE k \in 1..Len(ds)
  <2>1. PICK i \in 1..Len(ms) : Stays(ms, i) /\ ends[i] = k
    BY <1>1 DEF Drops
  <2> QED
    BY <1>1, <2>1 DEF Drops
<1>4. Heard(ds) \subseteq Heard(ms)
  BY <1>2, <1>3 DEF Heard
<1> QED
  BY <1>4 DEF ds

LEMMA StubsHeard ==
    ASSUME NEW ds \in Seq(Written), AllStay(ds)
    PROVE  Heard(AddStubs(ds)) \subseteq Heard(ds)
<1> DEFINE n == Len(ds)
           ts == AddStubs(ds)
<1>1. PICK ends : Adds(ds, ts, ends)
  BY AddsPlaces
<1> HIDE DEF ts
<1>2. DOMAIN ds = 1..n /\ DOMAIN ts = 1..Len(ts) /\ n \in Nat
  BY <1>1, LenProperties DEF Adds
<1>3. ASSUME NEW k \in 1..Len(ts), ts[k].of \in Nat
      PROVE  \E i \in 1..n : ts[k].of = ds[i].of
  <2>1. PICK i \in 1..n : ends[i - 1] < k /\ k <= ends[i]
    BY <1>1 DEF Adds
  <2>2. ends[i - 1] \in Nat /\ ends[i] \in Nat
    <3>1. i - 1 \in 0..n /\ i \in 0..n
      BY <1>2
    <3> QED
      BY <1>1, <3>1 DEF Adds
  <2>3. k \in (ends[i - 1] + 1)..ends[i]
    BY <2>1, <2>2
  <2>4. k = ends[i - 1] + 1
        \/ \E j \in 1..Len(Added(ds, i)) : k = ends[i - 1] + 1 + j /\ ts[k] = Added(ds, i)[j]
    BY <1>1, <2>3, AddsHead
  <2>5. CASE k = ends[i - 1] + 1
    BY <1>1, <2>5 DEF Adds
  <2>6. CASE \E j \in 1..Len(Added(ds, i)) : k = ends[i - 1] + 1 + j /\ ts[k] = Added(ds, i)[j]
    <3>1. ts[k].of = NoTurn
      BY <2>6, AddedFacts
    <3> QED
      BY <1>3, <3>1, TurnAssumption
  <2> QED
    BY <2>4, <2>5, <2>6
<1>4. Heard(ts) \subseteq Heard(ds)
  BY <1>2, <1>3 DEF Heard
<1> QED
  BY <1>4 DEF ts

\* A repair makes up no message but placeholders.
LEMMA RepairHeard ==
    ASSUME NEW ms \in Seq(Written)
    PROVE  Heard(Repair(ms)) \subseteq Heard(ms)
<1>1. Heard(DropOrphans(ms)) \subseteq Heard(ms)
  BY OrphansHeard
<1>2. DropOrphans(ms) \in Seq(Written) /\ AllStay(DropOrphans(ms))
  BY OrphansGone
<1> QED
  BY <1>1, <1>2, StubsHeard DEF Repair

LEMMA UserWritten ==
    ASSUME NEW of \in Turn \cup Nat
    PROVE  User(of) \in Written /\ User(of).of = of
BY DEF User, Written, Message, Body

LEMMA AssistantWritten ==
    ASSUME NEW cs \in Seq(Call), NEW t \in Turn
    PROVE  Assistant(cs, t) \in Written /\ Assistant(cs, t).of = t
BY DEF Assistant, Written, Message, Body

LEMMA ToolRowWritten ==
    ASSUME NEW c \in Call \cup {NoCall}, NEW body \in Body
    PROVE  ToolRow(c, body) \in Written /\ ToolRow(c, body).of = NoTurn
BY DEF ToolRow, Written, Message

\* One message more, of a turn or of nobody.
LEMMA AppendHeard ==
    ASSUME NEW ms \in Seq(Written), NEW m \in Written
    PROVE  /\ Append(ms, m) \in Seq(Written) /\ Len(Append(ms, m)) = Len(ms) + 1
           /\ \A i \in 1..Len(ms) : Append(ms, m)[i] = ms[i]
           /\ Append(ms, m)[Len(ms) + 1] = m
           /\ m.of \notin Nat => Heard(Append(ms, m)) = Heard(ms)
<1> DEFINE ns == Append(ms, m)
<1>1. /\ ns \in Seq(Written) /\ Len(ns) = Len(ms) + 1
      /\ \A i \in 1..Len(ms) : ns[i] = ms[i]
      /\ ns[Len(ms) + 1] = m
  BY AppendProperties
<1>2. DOMAIN ns = 1..(Len(ms) + 1) /\ DOMAIN ms = 1..Len(ms) /\ Len(ms) \in Nat
  BY <1>1, LenProperties
<1> HIDE DEF ns
<1>3. ASSUME m.of \notin Nat PROVE Heard(ns) = Heard(ms)
  <2>1. Heard(ns) \subseteq Heard(ms)
    <3> SUFFICES ASSUME NEW i \in 1..(Len(ms) + 1), ns[i].of \in Nat
                 PROVE  \E j \in 1..Len(ms) : ms[j].of = ns[i].of
      BY <1>2 DEF Heard
    <3>1. i # Len(ms) + 1
      BY <1>1, <1>3
    <3>2. i \in 1..Len(ms)
      BY <1>2, <3>1
    <3> QED
      BY <1>1, <3>2
  <2>2. Heard(ms) \subseteq Heard(ns)
    <3> SUFFICES ASSUME NEW i \in 1..Len(ms), ms[i].of \in Nat
                 PROVE  \E j \in 1..(Len(ms) + 1) : ns[j].of = ms[i].of
      BY <1>2 DEF Heard
    <3>1. i \in 1..(Len(ms) + 1)
      BY <1>2
    <3> QED
      BY <1>1, <3>1
  <2> QED
    BY <2>1, <2>2
<1> QED
  BY <1>1, <1>3 DEF ns

\* A reply is a row, or the body of one.
LEMMA ReplyHeard ==
    ASSUME NEW ms \in Seq(Written), NEW c \in Call
    PROVE  WithReply(ms, c) \in Seq(Written) /\ Heard(WithReply(ms, c)) = Heard(ms)
<1> DEFINE open == {i \in DOMAIN ms : ms[i].role = "tool" /\ ms[i].call = c /\ ms[i].body = "pending"}
<1>1. CASE open = {}
  <2>1. WithReply(ms, c) = Append(ms, ToolRow(c, "reply"))
    BY <1>1 DEF WithReply
  <2>2. ToolRow(c, "reply") \in Written /\ ToolRow(c, "reply").of \notin Nat
    BY ToolRowWritten, TurnAssumption DEF Body
  <2> QED
    BY <2>1, <2>2, AppendHeard
<1>2. CASE open # {}
  <2> DEFINE i == Min(open)
  <2>1. i \in open
    <3>1. open \in SUBSET Nat
      BY LenProperties
    <3> HIDE DEF open
    <3>2. \E x \in open : \A y \in open : x =< y
      BY <1>2, <3>1, NatMin
    <3> QED
      BY <3>2 DEF Min
  <2>2. i \in 1..Len(ms) /\ DOMAIN ms = 1..Len(ms)
    BY <2>1, LenProperties
  <2> DEFINE m == [ms[i] EXCEPT !.body = "reply"]
             ns == [ms EXCEPT ![i] = m]
  <2>3. WithReply(ms, c) = ns
    BY <1>2 DEF WithReply
  <2> HIDE DEF i, open
  <2>4. ms[i] \in Written
    BY <2>2
  <2>5. m \in Written /\ m.of = ms[i].of
    BY <2>4 DEF Written, Message, Body
  <2> HIDE DEF m
  <2>6. ns \in Seq(Written) /\ DOMAIN ns = DOMAIN ms /\ \A j \in DOMAIN ms : ns[j].of = ms[j].of
    BY <2>2, <2>5
  <2> HIDE DEF ns
  <2>7. Heard(ns) = Heard(ms)
    BY <2>6 DEF Heard
  <2> QED
    BY <2>3, <2>6, <2>7
<1> QED
  BY <1>1, <1>2
=============================================================================
