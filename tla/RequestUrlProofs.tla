--------------------------- MODULE RequestUrlProofs ---------------------------
(***************************************************************************)
(* What a server reads out of a URL and a form is what the request was     *)
(* given, and the request goes to the server it was meant for, for strings *)
(* of any length and any bytes.  The loops over strings are recursive      *)
(* functions: each is described by its first value and its step, and what  *)
(* it computes follows by induction over the prefixes of its argument.     *)
(***************************************************************************)
EXTENDS RequestUrl, TLAPS, WellFoundedInduction, SequenceTheorems

Text == Seq(Byte)

Pairs == Seq(Text \X Text)

----------------------------------------------------------------------------
(* Induction over the naturals, for a set *)

LEMMA Induction ==
  ASSUME NEW S, 0 \in S, \A n \in Nat : n \in S => n + 1 \in S
  PROVE  Nat \subseteq S
<1> DEFINE R == OpToRel(<, Nat)
           T == Nat \ S
<1>1. \A x \in Nat, y \in Nat : y < x => <<y, x>> \in R
  BY DEF OpToRel
<1>2. IsWellFoundedOn(R, Nat)
  BY NatLessThanWellFounded
<1> HIDE DEF R
<1> SUFFICES ASSUME T # {} PROVE FALSE
  OBVIOUS
<1>3. PICK x \in T : \A y \in T : ~ (<<y, x>> \in R)
  <2>1. T \in SUBSET Nat
    OBVIOUS
  <2> HIDE DEF T
  <2> QED
    BY <1>2, <2>1, WFMin
<1>4. x # 0 /\ x - 1 \in Nat /\ x - 1 < x /\ (x - 1) + 1 = x
  BY <1>3
<1>5. x - 1 \in S
  BY <1>1, <1>3, <1>4
<1> QED
  BY <1>3, <1>4, <1>5

\* Up to a bound.
LEMMA InductionTo ==
  ASSUME NEW N \in Nat, NEW S, 0 \in S, \A n \in 0..(N - 1) : n \in S => n + 1 \in S
  PROVE  \A n \in 0..N : n \in S
<1> DEFINE T == {n \in Nat : n <= N => n \in S}
<1>1. 0 \in T
  OBVIOUS
<1>2. ASSUME NEW n \in Nat, n \in T PROVE n + 1 \in T
  <2> SUFFICES ASSUME n + 1 <= N PROVE n + 1 \in S
    OBVIOUS
  <2>1. n \in 0..(N - 1) /\ n \in S
    BY <1>2
  <2> QED
    BY <2>1
<1>3. Nat \subseteq T
  <2> HIDE DEF T
  <2> QED
    BY <1>1, <1>2, Induction
<1> QED
  BY <1>3

\* The first number with a property.
LEMMA Least ==
  ASSUME NEW N \in Nat, NEW S, N \in S
  PROVE  \E n \in 0..N : n \in S /\ \A k \in 0..(n - 1) : k \notin S
<1> SUFFICES ASSUME \A n \in 0..N : n \in S => \E k \in 0..(n - 1) : k \in S PROVE FALSE
  OBVIOUS
<1> DEFINE T == {n \in 0..N : \A k \in 0..n : k \notin S}
<1>1. 0 \in T
  OBVIOUS
<1>2. ASSUME NEW n \in 0..(N - 1), n \in T PROVE n + 1 \in T
  <2>1. n + 1 \in 0..N /\ \A k \in 0..((n + 1) - 1) : k \notin S
    BY <1>2
  <2> QED
    BY <2>1
<1>3. \A n \in 0..N : n \in T
  <2> HIDE DEF T
  <2> QED
    BY <1>1, <1>2, InductionTo
<1> QED
  BY <1>3

----------------------------------------------------------------------------
(* Loops over a sequence: f[0] is where one starts, and f[i] follows from f[i - 1] *)

IsLoop(f, s, start, step) ==
  f[0] = start /\ \A i \in 1..Len(s) : f[i] = step[<<f[i - 1], s[i]>>]

LEMMA LoopExists ==
  ASSUME NEW A, NEW B, NEW s \in Seq(A), NEW start \in B, NEW step \in [B \X A -> B]
  PROVE  \E f \in [0..Len(s) -> B] : IsLoop(f, s, start, step)
<1> DEFINE N == Len(s)
           Good(f, n) == f[0] = start /\ \A i \in 1..n : f[i] = step[<<f[i - 1], s[i]>>]
           S == {n \in 0..N : \E f \in [0..n -> B] : Good(f, n)}
<1>0. N \in Nat /\ \A i \in 1..N : s[i] \in A
  OBVIOUS
<1> HIDE DEF N
<1>1. 0 \in S
  <2>1. [i \in 0..0 |-> start] \in [0..0 -> B] /\ Good([i \in 0..0 |-> start], 0)
    OBVIOUS
  <2>2. 0 \in 0..N
    BY <1>0
  <2> HIDE DEF Good
  <2> QED
    BY <2>1, <2>2
<1>2. ASSUME NEW n \in 0..(N - 1), n \in S PROVE n + 1 \in S
  <2>1. PICK f \in [0..n -> B] : Good(f, n)
    BY <1>2
  <2> DEFINE g == [i \in 0..(n + 1) |-> IF i = n + 1 THEN step[<<f[n], s[n + 1]>>] ELSE f[i]]
  <2>2. n \in Nat /\ n + 1 \in 1..N /\ f[n] \in B /\ s[n + 1] \in A
    BY <1>0
  <2>3. step[<<f[n], s[n + 1]>>] \in B
    BY <2>2
  <2>4. g \in [0..(n + 1) -> B]
    BY <2>2, <2>3
  <2>5. g[0] = start
    BY <2>1, <2>2
  <2>6. ASSUME NEW i \in 1..(n + 1) PROVE g[i] = step[<<g[i - 1], s[i]>>]
    <3>1. /\ i - 1 \in 0..(n + 1) /\ i - 1 # n + 1 /\ i \in 0..(n + 1)
          /\ i = n + 1 \/ (i \in 1..n /\ i # n + 1)
      BY <2>2
    <3>2. g[i - 1] = f[i - 1]
      BY <3>1, Zenon
    <3>3. CASE i = n + 1
      <4>1. g[i] = step[<<f[n], s[n + 1]>>] /\ i - 1 = n
        BY <3>1, <3>3, <2>2
      <4> QED
        BY <4>1, <3>2, <3>3
    <3>4. CASE i \in 1..n /\ i # n + 1
      <4>1. g[i] = f[i]
        BY <3>1, <3>4, Zenon
      <4>2. f[i] = step[<<f[i - 1], s[i]>>]
        BY <3>4, <2>1
      <4> QED
        BY <4>1, <4>2, <3>2
    <3> QED
      BY <3>1, <3>3, <3>4
  <2>7. Good(g, n + 1)
    BY <2>5, <2>6
  <2> HIDE DEF g, Good
  <2> QED
    BY <2>4, <2>7, <2>2
<1>3. \A n \in 0..N : n \in S
  <2> HIDE DEF S
  <2> QED
    BY <1>0, <1>1, <1>2, InductionTo
<1>4. PICK f \in [0..N -> B] : Good(f, N)
  <2>1. N \in S
    <3>1. N \in 0..N
      BY <1>0
    <3> HIDE DEF S
    <3> QED
      BY <1>3, <3>1
  <2> QED
    BY <2>1, Zenon
<1> QED
  BY <1>4 DEF N, IsLoop

Follows(f, g, n) ==
  f[0] = g[0] /\ \A i \in 1..n : f[i - 1] = g[i - 1] => f[i] = g[i]

LEMMA LoopUnique ==
  ASSUME NEW N \in Nat, NEW f, NEW g, Follows(f, g, N)
  PROVE  \A i \in 0..N : f[i] = g[i]
<1> DEFINE S == {i \in 0..N : f[i] = g[i]}
<1>1. 0 \in S
  BY DEF Follows
<1>2. ASSUME NEW n \in 0..(N - 1), n \in S PROVE n + 1 \in S
  <2>1. n + 1 \in 1..N /\ (n + 1) - 1 = n /\ f[n] = g[n]
    BY <1>2
  <2>2. f[(n + 1) - 1] = g[(n + 1) - 1] => f[n + 1] = g[n + 1]
    BY <2>1 DEF Follows
  <2> QED
    BY <2>1, <2>2
<1>3. \A n \in 0..N : n \in S
  <2> HIDE DEF S
  <2> QED
    BY <1>1, <1>2, InductionTo
<1> QED
  BY <1>3
----------------------------------------------------------------------------
(* Sequences *)

\* Two sequences with the same elements are the same.
LEMMA SameSeq ==
  ASSUME NEW S, NEW s \in Seq(S), NEW T, NEW t \in Seq(T), Len(s) = Len(t), \A i \in 1..Len(s) : s[i] = t[i]
  PROVE  s = t
<1>1. s = [i \in 1..Len(s) |-> s[i]] /\ t = [i \in 1..Len(t) |-> t[i]]
  OBVIOUS
<1> QED
  BY <1>1

LEMMA ConcatIs ==
  ASSUME NEW S, NEW s \in Seq(S), NEW t \in Seq(S)
  PROVE  /\ s \o t \in Seq(S) /\ Len(s) \in Nat /\ Len(t) \in Nat /\ Len(s \o t) = Len(s) + Len(t)
         /\ \A i \in 1..Len(s) : (s \o t)[i] = s[i]
         /\ \A i \in 1..Len(t) : (s \o t)[Len(s) + i] = t[i]
OBVIOUS

LEMMA SubSeqIs ==
  ASSUME NEW S, NEW s \in Seq(S), NEW m \in Int, NEW n \in Int, m >= 1, n <= Len(s)
  PROVE  /\ SubSeq(s, m, n) \in Seq(S)
         /\ Len(SubSeq(s, m, n)) = IF m <= n THEN n - m + 1 ELSE 0
         /\ \A i \in 1..Len(SubSeq(s, m, n)) : SubSeq(s, m, n)[i] = s[m + i - 1]
OBVIOUS

LEMMA SuffixIs ==
  ASSUME NEW S, NEW s \in Seq(S), NEW i \in 0..Len(s)
  PROVE  /\ SubSeq(s, i + 1, Len(s)) \in Seq(S)
         /\ Len(SubSeq(s, i + 1, Len(s))) = Len(s) - i
         /\ \A k \in 1..(Len(s) - i) : SubSeq(s, i + 1, Len(s))[k] = s[i + k]
<1>1. Len(s) \in Nat /\ i \in Int /\ i + 1 \in Int /\ i + 1 >= 1 /\ i <= Len(s)
  OBVIOUS
<1>2. /\ SubSeq(s, i + 1, Len(s)) \in Seq(S)
      /\ Len(SubSeq(s, i + 1, Len(s))) = IF i + 1 <= Len(s) THEN Len(s) - (i + 1) + 1 ELSE 0
      /\ \A k \in 1..Len(SubSeq(s, i + 1, Len(s))) : SubSeq(s, i + 1, Len(s))[k] = s[(i + 1) + k - 1]
  BY <1>1, SubSeqIs
<1>3. (IF i + 1 <= Len(s) THEN Len(s) - (i + 1) + 1 ELSE 0) = Len(s) - i
  BY <1>1
<1>4. \A k \in 1..(Len(s) - i) : (i + 1) + k - 1 = i + k
  BY <1>1
<1> QED
  BY <1>2, <1>3, <1>4

LEMMA ConcatAssoc ==
  ASSUME NEW S, NEW s \in Seq(S), NEW t \in Seq(S), NEW u \in Seq(S)
  PROVE  (s \o t) \o u = s \o (t \o u)
OBVIOUS

LEMMA ConcatAppend ==
  ASSUME NEW S, NEW s \in Seq(S), NEW t \in Seq(S), NEW x \in S
  PROVE  s \o Append(t, x) = Append(s \o t, x)
<1>1. s \o t \in Seq(S) /\ <<x>> \in Seq(S)
  OBVIOUS
<1>2. Append(t, x) = t \o <<x>> /\ Append(s \o t, x) = (s \o t) \o <<x>>
  BY <1>1, AppendIsConcat
<1> QED
  BY <1>1, <1>2, ConcatAssoc

LEMMA SuffixConcat ==
  ASSUME NEW S, NEW s \in Seq(S), NEW t \in Seq(S), NEW i \in 0..Len(s)
  PROVE  SubSeq(s \o t, i + 1, Len(s \o t)) = SubSeq(s, i + 1, Len(s)) \o t
<1>0. /\ Len(s) \in Nat /\ Len(t) \in Nat /\ i \in Nat /\ i <= Len(s)
      /\ s \o t \in Seq(S) /\ Len(s \o t) = Len(s) + Len(t)
      /\ \A k \in 1..Len(s) : (s \o t)[k] = s[k]
      /\ \A k \in 1..Len(t) : (s \o t)[Len(s) + k] = t[k]
  BY ConcatIs
<1> DEFINE u == SubSeq(s \o t, i + 1, Len(s \o t))
           v == SubSeq(s, i + 1, Len(s))
<1>1. /\ v \in Seq(S) /\ Len(v) = Len(s) - i
      /\ \A k \in 1..Len(v) : v[k] = s[i + k]
  BY SuffixIs
<1>2. /\ u \in Seq(S) /\ Len(u) = (Len(s) + Len(t)) - i
      /\ \A k \in 1..Len(u) : u[k] = (s \o t)[i + k]
  <2>1. i \in 0..Len(s \o t) /\ s \o t \in Seq(S)
    BY <1>0
  <2>2. /\ u \in Seq(S) /\ Len(u) = Len(s \o t) - i
        /\ \A k \in 1..(Len(s \o t) - i) : u[k] = (s \o t)[i + k]
    BY <2>1, SuffixIs
  <2> QED
    BY <2>2, <1>0
<1> HIDE DEF u, v
<1>3. /\ v \o t \in Seq(S) /\ Len(v \o t) = Len(v) + Len(t)
      /\ \A k \in 1..Len(v) : (v \o t)[k] = v[k]
      /\ \A k \in 1..Len(t) : (v \o t)[Len(v) + k] = t[k]
  <2>1. v \in Seq(S) /\ t \in Seq(S)
    BY <1>0, <1>1
  <2> QED
    BY <2>1, ConcatIs
<1>4. ASSUME NEW k \in 1..Len(u) PROVE u[k] = (v \o t)[k]
  <2>1. CASE k \in 1..Len(v)
    <3>1. i + k \in 1..Len(s)
      BY <2>1, <1>0, <1>1
    <3> QED
      BY <3>1, <2>1, <1>0, <1>1, <1>2, <1>3
  <2>2. CASE k \notin 1..Len(v)
    <3>0. /\ k \in Nat /\ k >= 1 /\ Len(v) \in Nat /\ i \in Nat /\ k > Len(v)
          /\ Len(v) = Len(s) - i /\ k <= (Len(s) + Len(t)) - i
      BY <2>2, <1>0, <1>1, <1>2
    <3>1. k - Len(v) \in 1..Len(t) /\ Len(v) + (k - Len(v)) = k /\ i + k = Len(s) + (k - Len(v))
      BY <3>0, <1>0
    <3>2. (v \o t)[Len(v) + (k - Len(v))] = t[k - Len(v)]
      BY <3>1, <1>3
    <3>3. (s \o t)[Len(s) + (k - Len(v))] = t[k - Len(v)]
      BY <3>1, <1>0
    <3> QED
      BY <3>1, <3>2, <3>3, <1>2
  <2> QED
    BY <2>1, <2>2
<1>5. Len(u) = Len(v \o t)
  <2>1. Len(v) = Len(s) - i /\ Len(u) = (Len(s) + Len(t)) - i /\ Len(v \o t) = Len(v) + Len(t)
    BY <1>1, <1>2, <1>3
  <2>2. i \in Int /\ Len(s) \in Int /\ Len(t) \in Int
    BY <1>0
  <2> QED
    BY <2>1, <2>2
<1>6. u = v \o t
  BY <1>2, <1>3, <1>4, <1>5, SameSeq
<1> QED
  BY <1>6 DEF u, v

LEMMA SplitAt ==
  ASSUME NEW S, NEW s \in Seq(S), NEW n \in 0..Len(s)
  PROVE  s = SubSeq(s, 1, n) \o SubSeq(s, n + 1, Len(s))
<1> DEFINE u == SubSeq(s, 1, n)
           v == SubSeq(s, n + 1, Len(s))
<1>1. /\ Len(s) \in Nat /\ n \in Nat /\ n <= Len(s)
      /\ u \in Seq(S) /\ Len(u) = n /\ \A k \in 1..n : u[k] = s[k]
  OBVIOUS
<1>2. v \in Seq(S) /\ Len(v) = Len(s) - n /\ \A k \in 1..(Len(s) - n) : v[k] = s[n + k]
  BY SuffixIs
<1> HIDE DEF u, v
<1>3. /\ u \o v \in Seq(S) /\ Len(u \o v) = Len(u) + Len(v)
      /\ \A k \in 1..Len(u) : (u \o v)[k] = u[k]
      /\ \A k \in 1..Len(v) : (u \o v)[Len(u) + k] = v[k]
  BY <1>1, <1>2, ConcatIs
<1>4. Len(u \o v) = Len(s)
  BY <1>1, <1>2, <1>3
<1>5. ASSUME NEW k \in 1..Len(s) PROVE s[k] = (u \o v)[k]
  <2>1. CASE k <= n
    <3>1. k \in 1..n /\ k \in 1..Len(u)
      BY <2>1, <1>1
    <3> QED
      BY <3>1, <1>1, <1>3
  <2>2. CASE k > n
    <3>1. k - n \in 1..(Len(s) - n) /\ n + (k - n) = k
      BY <2>2, <1>1
    <3>2. (u \o v)[n + (k - n)] = v[k - n] /\ v[k - n] = s[n + (k - n)]
      BY <3>1, <1>1, <1>2, <1>3
    <3> QED
      BY <3>1, <3>2
  <2>3. k <= n \/ k > n
    BY <1>1
  <2> QED
    BY <2>1, <2>2, <2>3
<1>6. s = u \o v
  BY <1>3, <1>4, <1>5, SameSeq
<1> QED
  BY <1>6 DEF u, v

----------------------------------------------------------------------------
(* FlattenSeq of the community modules *)

Flattens(f, s) ==
  f[0] = <<>> /\ \A i \in 1..Len(s) : f[i] = f[i - 1] \o s[i]

LEMMA FlattenIs ==
  ASSUME NEW S, NEW s \in Seq(Seq(S)), NEW f \in [0..Len(s) -> Seq(S)], Flattens(f, s)
  PROVE  FlattenSeq(s) = f[Len(s)]
<1> DEFINE N == Len(s)
           e == [i \in 1..N |-> f[i]]
           fl[i \in 1..N] == IF i = 1 THEN s[i] ELSE fl[i - 1] \o s[i]
<1>0. N \in Nat /\ \A i \in 1..N : s[i] \in Seq(S)
  OBVIOUS
<1>a. f[0] = <<>> /\ \A i \in 1..N : f[i] = f[i - 1] \o s[i]
  BY DEF Flattens
<1>1. CASE N = 0
  <2>1. s = <<>> /\ FlattenSeq(s) = s
    BY <1>1 DEF FlattenSeq
  <2> QED
    BY <2>1, <1>1, <1>a
<1>2. CASE N # 0
  <2>1. FlattenSeq(s) = fl[N]
    BY <1>2 DEF FlattenSeq
  <2>2. ASSUME NEW i \in 1..N PROVE e[i] = IF i = 1 THEN s[i] ELSE e[i - 1] \o s[i]
    <3>1. CASE i = 1
      <4>1. f[i] = f[i - 1] \o s[i] /\ s[i] \in Seq(S)
        BY <1>0, <1>a, Zenon
      <4>a. f[i - 1] = <<>>
        BY <3>1, <1>a
      <4>2. <<>> \o s[i] = s[i]
        BY <4>1, ConcatEmptySeq
      <4>3. e[i] = f[i]
        OBVIOUS
      <4> HIDE DEF e
      <4> QED
        BY <3>1, <4>1, <4>2, <4>3, <4>a
    <3>2. CASE i # 1
      <4>1. i - 1 \in 1..N
        BY <3>2, <1>0
      <4> QED
        BY <3>2, <4>1, <1>a
    <3> QED
      BY <3>1, <3>2
  <2>3. e = [i \in 1..N |-> IF i = 1 THEN s[i] ELSE e[i - 1] \o s[i]]
    <3> DEFINE r == [i \in 1..N |-> IF i = 1 THEN s[i] ELSE e[i - 1] \o s[i]]
    <3>1. \A i \in 1..N : e[i] = r[i]
      BY <2>2
    <3>2. e = [i \in 1..N |-> e[i]] /\ r = [i \in 1..N |-> r[i]]
      OBVIOUS
    <3> HIDE DEF e, r
    <3>3. e = r
      BY <3>1, <3>2
    <3> QED
      BY <3>3 DEF r
  <2> HIDE DEF e
  <2>4. fl = [i \in 1..N |-> IF i = 1 THEN s[i] ELSE fl[i - 1] \o s[i]]
    BY <2>3, Zenon
  <2> HIDE DEF fl
  <2> DEFINE e0 == [i \in 0..N |-> IF i = 0 THEN <<>> ELSE e[i]]
             fl0 == [i \in 0..N |-> IF i = 0 THEN <<>> ELSE fl[i]]
  <2>5. ASSUME NEW i \in 1..N, e0[i - 1] = fl0[i - 1] PROVE e0[i] = fl0[i]
    <3>1. CASE i = 1
      BY <3>1, <2>3, <2>4
    <3>2. CASE i # 1
      <4>1. i - 1 \in 1..N /\ i - 1 \in 0..N /\ i - 1 # 0 /\ i \in 0..N /\ i # 0
        BY <3>2, <1>0
      <4>2. e[i - 1] = fl[i - 1]
        BY <4>1, <2>5, Zenon
      <4>3. e[i] = e[i - 1] \o s[i] /\ fl[i] = fl[i - 1] \o s[i]
        BY <2>3, <2>4, <3>2, Zenon
      <4>4. e0[i] = e[i] /\ fl0[i] = fl[i]
        BY <4>1, Zenon
      <4> QED
        BY <4>2, <4>3, <4>4
    <3> QED
      BY <3>1, <3>2
  <2>6. e0[0] = fl0[0] /\ N \in 0..N
    BY <1>0
  <2>7. e0[N] = e[N] /\ fl0[N] = fl[N]
    BY <2>6, <1>2, Zenon
  <2>9. e[N] = f[N]
    <3>1. N \in 1..N
      BY <1>0, <1>2
    <3> HIDE DEF N
    <3> QED
      BY <3>1 DEF e
  <2> HIDE DEF e0, fl0, N
  <2>8. \A i \in 0..N : e0[i] = fl0[i]
    <3>1. Follows(e0, fl0, N)
      BY <2>5, <2>6 DEF Follows
    <3> QED
      BY <3>1, <1>0, LoopUnique
  <2> QED
    BY <2>1, <2>6, <2>7, <2>8, <2>9 DEF N
<1> QED
  BY <1>1, <1>2

LEMMA FlattenAppend ==
  ASSUME NEW S, NEW s \in Seq(Seq(S)), NEW t \in Seq(S)
  PROVE  /\ FlattenSeq(s) \in Seq(S)
         /\ FlattenSeq(Append(s, t)) = FlattenSeq(s) \o t
<1> DEFINE step == [p \in Seq(S) \X Seq(S) |-> p[1] \o p[2]]
           N == Len(s)
           a == Append(s, t)
<1>1. step \in [Seq(S) \X Seq(S) -> Seq(S)] /\ <<>> \in Seq(S)
  OBVIOUS
<1>2. /\ a \in Seq(Seq(S)) /\ N \in Nat /\ Len(a) = N + 1 /\ a[N + 1] = t
      /\ \A i \in 1..N : a[i] = s[i] /\ a[i] \in Seq(S)
  OBVIOUS
<1>3. \A b \in Seq(S), c \in Seq(S) : step[<<b, c>>] = b \o c
  OBVIOUS
<1> HIDE DEF step, a, N
<1>4. PICK f \in [0..Len(a) -> Seq(S)] : IsLoop(f, a, <<>>, step)
  <2>1. a \in Seq(Seq(S))
    BY <1>2
  <2>2. step \in [Seq(S) \X Seq(S) -> Seq(S)]
    BY <1>1
  <2>3. <<>> \in Seq(S)
    BY <1>1
  <2> QED
    BY <2>1, <2>2, <2>3, LoopExists
<1>5. ASSUME NEW i \in 1..(N + 1) PROVE f[i] = f[i - 1] \o a[i]
  <2>1. i \in 1..Len(a) /\ i - 1 \in 0..Len(a) /\ a[i] \in Seq(S)
    BY <1>2
  <2>2. f[i - 1] \in Seq(S) /\ f[i] = step[<<f[i - 1], a[i]>>]
    BY <1>4, <2>1 DEF IsLoop
  <2> QED
    BY <2>1, <2>2, <1>3
<1>6. FlattenSeq(a) = f[N + 1]
  <2>1. \A i \in 1..Len(a) : f[i] = f[i - 1] \o a[i]
    BY <1>2, <1>5
  <2>2. Flattens(f, a)
    BY <2>1, <1>4 DEF Flattens, IsLoop
  <2>3. FlattenSeq(a) = f[Len(a)]
    BY <1>2, <1>4, <2>2, FlattenIs
  <2> QED
    BY <2>3, <1>2
<1> DEFINE g == [i \in 0..N |-> f[i]]
<1>7. g \in [0..Len(s) -> Seq(S)] /\ g[0] = <<>> /\ g[N] = f[N]
  <2>1. 0 \in 0..N /\ N \in 0..N /\ \A i \in 0..N : i \in 0..Len(a)
    BY <1>2
  <2>2. f[0] = <<>>
    BY <1>4 DEF IsLoop
  <2>3. \A i \in 0..N : f[i] \in Seq(S)
    BY <2>1, <1>4
  <2> QED
    BY <2>1, <2>2, <2>3 DEF N
<1>8. ASSUME NEW i \in 1..Len(s) PROVE g[i] = g[i - 1] \o s[i]
  <2>1. i \in 1..(N + 1) /\ i \in 1..N /\ i \in 0..N /\ i - 1 \in 0..N
    BY <1>2 DEF N
  <2>2. g[i] = f[i] /\ g[i - 1] = f[i - 1] /\ a[i] = s[i]
    BY <2>1, <1>2, Zenon
  <2> QED
    BY <2>1, <2>2, <1>5
<1> HIDE DEF g
<1>9. FlattenSeq(s) = f[N]
  <2>1. Flattens(g, s)
    BY <1>7, <1>8 DEF Flattens
  <2> QED
    BY <1>7, <2>1, FlattenIs DEF N
<1>10. N + 1 \in 1..(N + 1) /\ N \in 0..Len(a) /\ (N + 1) - 1 = N
  BY <1>2
<1>11. f[N + 1] = f[N] \o t /\ f[N] \in Seq(S)
  BY <1>2, <1>4, <1>5, <1>10
<1> QED
  BY <1>6, <1>9, <1>11 DEF a

LEMMA FlattenEmpty == FlattenSeq(<<>>) = <<>>
BY DEF FlattenSeq

----------------------------------------------------------------------------
(* UriEncode and Decode *)

HexDigits == (48..57) \cup (65..70)

LEMMA Bytes ==
  ASSUME NEW c \in Byte
  PROVE  /\ Escaped(c) \in Text
         /\ \A i \in 1..Len(Escaped(c)) : IsUnreserved(Escaped(c)[i]) \/ Escaped(c)[i] = Percent
         /\ IF IsUnreserved(c) THEN Escaped(c) = <<c>> /\ c # Percent /\ c # Plus
            ELSE \E a \in HexDigits, b \in HexDigits :
                   Escaped(c) = <<Percent, a, b>> /\ 16 * DigitValue(a) + DigitValue(b) = c
<1>1. CASE IsUnreserved(c)
  <2>1. Escaped(c) = <<c>>
    BY <1>1 DEF Escaped
  <2>2. c # Percent /\ c # Plus
    BY <1>1 DEF IsUnreserved, Percent, Plus
  <2>3. <<c>> \in Seq(Byte) /\ Len(<<c>>) = 1 /\ <<c>>[1] = c
    OBVIOUS
  <2>4. \A i \in 1..Len(<<c>>) : <<c>>[i] = c
    OBVIOUS
  <2> QED
    BY <1>1, <2>1, <2>2, <2>3, <2>4 DEF Text
<1>2. CASE ~IsUnreserved(c)
  <2> DEFINE a == HexDigit(c \div 16)
             b == HexDigit(c % 16)
  <2>1. c \div 16 \in 0..15 /\ c % 16 \in 0..15 /\ c = 16 * (c \div 16) + (c % 16)
    <3>1. c \in Nat /\ c < 256
      BY DEF Byte
    <3>2. c % 16 \in 0..15
      BY <3>1
    <3>3. c = 16 * (c \div 16) + (c % 16)
      BY <3>1
    <3>4. c \div 16 \in Int
      BY <3>1
    <3> QED
      BY <3>1, <3>2, <3>3, <3>4
  <2>2. \A n \in 0..15 : /\ HexDigit(n) \in HexDigits /\ DigitValue(HexDigit(n)) = n
                         /\ IsUnreserved(HexDigit(n)) /\ HexDigit(n) \in Byte
    BY DEF HexDigit, HexDigits, DigitValue, IsUnreserved, Byte
  <2>3. /\ a \in HexDigits /\ DigitValue(a) = c \div 16 /\ IsUnreserved(a) /\ a \in Byte
        /\ b \in HexDigits /\ DigitValue(b) = c % 16 /\ IsUnreserved(b) /\ b \in Byte
    BY <2>1, <2>2
  <2>4. Escaped(c) = <<Percent, a, b>> /\ Percent \in Byte
    BY <1>2 DEF Escaped, Percent, Byte
  <2> HIDE DEF a, b
  <2>5. 16 * DigitValue(a) + DigitValue(b) = c
    <3> HIDE DEF HexDigits
    <3> QED
      BY <2>1, <2>3
  <2>6. \A i \in 1..Len(Escaped(c)) : IsUnreserved(Escaped(c)[i]) \/ Escaped(c)[i] = Percent
    BY <2>3, <2>4
  <2>7. Escaped(c) \in Text
    BY <2>3, <2>4 DEF Text
  <2> QED
    BY <1>2, <2>3, <2>4, <2>5, <2>6, <2>7
<1> QED
  BY <1>1, <1>2

\* Every percent sign begins an escape that ends in the text.
Whole(s) ==
  \A i \in 1..Len(s) :
    s[i] = Percent => i + 2 <= Len(s) /\ s[i + 1] \in HexDigits /\ s[i + 2] \in HexDigits

LEMMA EncodeAppend ==
  ASSUME NEW s \in Text, NEW c \in Byte
  PROVE  UriEncode(s) \in Text /\ UriEncode(Append(s, c)) = UriEncode(s) \o Escaped(c)
<1> DEFINE e == [i \in DOMAIN s |-> Escaped(s[i])]
           d == [i \in DOMAIN Append(s, c) |-> Escaped(Append(s, c)[i])]
<1>1. e \in Seq(Text)
  <2>1. \A i \in 1..Len(s) : Escaped(s[i]) \in Text
    BY Bytes DEF Text
  <2>2. e = [i \in 1..Len(s) |-> Escaped(s[i])] /\ Len(s) \in Nat
    BY DEF Text
  <2> QED
    BY <2>1, <2>2
<1>2. d = Append(e, Escaped(c))
  <2>1. /\ Len(s) \in Nat /\ DOMAIN s = 1..Len(s)
        /\ DOMAIN Append(s, c) = 1..(Len(s) + 1)
        /\ Append(s, c)[Len(s) + 1] = c /\ \A i \in 1..Len(s) : Append(s, c)[i] = s[i]
    BY DEF Text
  <2>2. Append(e, Escaped(c)) = [i \in 1..(Len(s) + 1) |-> IF i = Len(s) + 1 THEN Escaped(c) ELSE e[i]]
    BY <1>1, <2>1
  <2>3. \A i \in 1..(Len(s) + 1) : Escaped(Append(s, c)[i]) = IF i = Len(s) + 1 THEN Escaped(c) ELSE e[i]
    BY <2>1
  <2> QED
    BY <2>1, <2>2, <2>3
<1>3. UriEncode(s) = FlattenSeq(e) /\ UriEncode(Append(s, c)) = FlattenSeq(d)
  BY DEF UriEncode
<1>4. e \in Seq(Seq(Byte)) /\ Escaped(c) \in Seq(Byte)
  BY <1>1, Bytes DEF Text
<1> HIDE DEF e, d
<1> QED
  BY <1>2, <1>3, <1>4, FlattenAppend DEF Text

LEMMA EncodeEmpty == UriEncode(<<>>) = <<>>
BY FlattenEmpty DEF UriEncode

LEMMA DecodedType ==
  ASSUME NEW s \in Text, NEW i \in 1..Len(s)
  PROVE  Decoded(s, i) \in Seq(Int)
<1>1. Len(s) \in Nat /\ \A k \in 1..Len(s) : s[k] \in Int
  <2>1. Len(s) \in Nat /\ \A k \in 1..Len(s) : s[k] \in Byte
    BY DEF Text
  <2>2. \A c \in Byte : c \in Int
    BY DEF Byte
  <2> QED
    BY <2>1, <2>2
<1>2. ASSUME IsEscape(s, i) PROVE 16 * DigitValue(s[i + 1]) + DigitValue(s[i + 2]) \in Int
  <2>1. \A c \in Int : DigitValue(c) \in Int
    BY DEF DigitValue
  <2>2. i + 1 \in 1..Len(s) /\ i + 2 \in 1..Len(s)
    BY <1>1, <1>2 DEF IsEscape
  <2>3. DigitValue(s[i + 1]) \in Int /\ DigitValue(s[i + 2]) \in Int
    BY <1>1, <2>1, <2>2
  <2> QED
    BY <2>3
<1>3. \A n \in Int : <<n>> \in Seq(Int)
  OBVIOUS
<1>4. (IF s[i] = Plus THEN Space ELSE s[i]) \in Int
  BY <1>1 DEF Space
<1>5. <<>> \in Seq(Int)
  OBVIOUS
<1>6. CASE IsEscape(s, i - 1) \/ IsEscape(s, i - 2)
  BY <1>5, <1>6 DEF Decoded
<1>7. CASE ~(IsEscape(s, i - 1) \/ IsEscape(s, i - 2)) /\ IsEscape(s, i)
  BY <1>2, <1>3, <1>7 DEF Decoded
<1>8. CASE ~(IsEscape(s, i - 1) \/ IsEscape(s, i - 2)) /\ ~IsEscape(s, i)
  BY <1>3, <1>4, <1>8 DEF Decoded
<1> QED
  BY <1>6, <1>7, <1>8

\* What follows a text with whole escapes changes nothing in it.
LEMMA DecodedKept ==
  ASSUME NEW s \in Text, Whole(s), NEW t \in Text
  PROVE  /\ \A i \in 1..Len(s) : Decoded(s \o t, i) = Decoded(s, i)
         /\ ~IsEscape(s \o t, Len(s)) /\ ~IsEscape(s \o t, Len(s) - 1)
<1>1. /\ Len(s) \in Nat /\ Len(t) \in Nat /\ Len(s \o t) = Len(s) + Len(t)
      /\ \A i \in 1..Len(s) : (s \o t)[i] = s[i]
  BY ConcatIs DEF Text
<1>2. ASSUME NEW i \in Int, i <= Len(s) PROVE IsEscape(s \o t, i) <=> IsEscape(s, i)
  <2>1. CASE i \in 1..Len(s) /\ s[i] = Percent
    <3>1. i + 2 <= Len(s)
      BY <2>1 DEF Whole
    <3>2. /\ i \in 1..(Len(s) - 2) /\ i \in 1..(Len(s \o t) - 2)
          /\ i + 1 \in 1..Len(s) /\ i + 2 \in 1..Len(s)
      BY <3>1, <1>1, <2>1
    <3> QED
      BY <3>2, <1>1, <2>1 DEF IsEscape
  <2>2. CASE i \in 1..Len(s) /\ s[i] # Percent
    BY <2>2, <1>1 DEF IsEscape
  <2>3. CASE i < 1
    BY <2>3, <1>1 DEF IsEscape
  <2> QED
    BY <2>1, <2>2, <2>3, <1>1, <1>2
<1>3. ASSUME NEW i \in 1..Len(s) PROVE Decoded(s \o t, i) = Decoded(s, i)
  <2>1. /\ IsEscape(s \o t, i) <=> IsEscape(s, i)
        /\ IsEscape(s \o t, i - 1) <=> IsEscape(s, i - 1)
        /\ IsEscape(s \o t, i - 2) <=> IsEscape(s, i - 2)
    BY <1>1, <1>2
  <2>2. (s \o t)[i] = s[i]
    BY <1>1
  <2>3. IsEscape(s, i) => (s \o t)[i + 1] = s[i + 1] /\ (s \o t)[i + 2] = s[i + 2]
    BY <1>1 DEF IsEscape
  <2>4. CASE IsEscape(s, i - 1) \/ IsEscape(s, i - 2)
    BY <2>1, <2>4 DEF Decoded
  <2>5. CASE ~(IsEscape(s, i - 1) \/ IsEscape(s, i - 2)) /\ IsEscape(s, i)
    BY <2>1, <2>3, <2>5 DEF Decoded
  <2>6. CASE ~(IsEscape(s, i - 1) \/ IsEscape(s, i - 2)) /\ ~IsEscape(s, i)
    BY <2>1, <2>2, <2>6 DEF Decoded
  <2> QED
    BY <2>4, <2>5, <2>6
<1>4. ~IsEscape(s, Len(s)) /\ ~IsEscape(s, Len(s) - 1)
  BY <1>1 DEF IsEscape
<1>5. ~IsEscape(s \o t, Len(s)) /\ ~IsEscape(s \o t, Len(s) - 1)
  BY <1>1, <1>2, <1>4
<1> QED
  BY <1>3, <1>5

DecodedOf(s) == [i \in DOMAIN s |-> Decoded(s, i)]

LEMMA DecodedOfIs ==
  ASSUME NEW s \in Text
  PROVE  /\ DecodedOf(s) \in Seq(Seq(Int)) /\ Len(DecodedOf(s)) = Len(s)
         /\ \A i \in 1..Len(s) : DecodedOf(s)[i] = Decoded(s, i)
         /\ Decode(s) = FlattenSeq(DecodedOf(s))
<1>1. DecodedOf(s) = [i \in 1..Len(s) |-> Decoded(s, i)] /\ Len(s) \in Nat
  BY DEF DecodedOf, Text
<1>2. \A i \in 1..Len(s) : Decoded(s, i) \in Seq(Int)
  BY DecodedType
<1>3. DecodedOf(s) \in Seq(Seq(Int)) /\ Len(DecodedOf(s)) = Len(s)
  BY <1>1, <1>2
<1>4. Decode(s) = FlattenSeq(DecodedOf(s))
  BY DEF Decode, DecodedOf
<1> QED
  BY <1>1, <1>3, <1>4

\* A byte that needs no escape.
LEMMA DecodePlain ==
  ASSUME NEW s \in Text, Whole(s), NEW c \in Byte, c # Percent, c # Plus
  PROVE  Whole(s \o <<c>>) /\ Decode(s \o <<c>>) = Append(Decode(s), c)
<1> DEFINE t == s \o <<c>>
           n == Len(s)
<1>1. /\ <<c>> \in Text /\ t \in Text /\ n \in Nat /\ Len(t) = n + 1 /\ t[n + 1] = c
      /\ \A i \in 1..n : t[i] = s[i]
  BY DEF Text
<1>2. Whole(t)
  <2> SUFFICES ASSUME NEW i \in 1..Len(t), t[i] = Percent
               PROVE  i + 2 <= Len(t) /\ t[i + 1] \in HexDigits /\ t[i + 2] \in HexDigits
    BY DEF Whole
  <2>1. i \in 1..n /\ s[i] = Percent
    BY <1>1
  <2>2. i + 2 <= n /\ s[i + 1] \in HexDigits /\ s[i + 2] \in HexDigits
    BY <2>1 DEF Whole
  <2>3. i + 1 \in 1..n /\ i + 2 \in 1..n
    BY <1>1, <2>1, <2>2
  <2> QED
    BY <1>1, <2>2, <2>3
<1>3. /\ \A i \in 1..n : Decoded(t, i) = Decoded(s, i)
      /\ ~IsEscape(t, n) /\ ~IsEscape(t, n - 1)
  BY <1>1, DecodedKept
<1>4. ~IsEscape(t, n + 1)
  BY <1>1 DEF IsEscape
<1>5. Decoded(t, n + 1) = <<c>>
  <2>1. (n + 1) - 1 = n /\ (n + 1) - 2 = n - 1
    BY <1>1
  <2> HIDE DEF t, n
  <2> QED
    BY <2>1, <1>1, <1>3, <1>4 DEF Decoded
<1>6. DecodedOf(t) = Append(DecodedOf(s), <<c>>)
  <2>1. <<c>> \in Seq(Int)
    BY DEF Byte
  <2>2. /\ DecodedOf(s) \in Seq(Seq(Int)) /\ Len(DecodedOf(s)) = n
        /\ \A i \in 1..n : DecodedOf(s)[i] = Decoded(s, i)
    BY DecodedOfIs
  <2>3. /\ DecodedOf(t) \in Seq(Seq(Int)) /\ Len(DecodedOf(t)) = n + 1
        /\ \A i \in 1..(n + 1) : DecodedOf(t)[i] = Decoded(t, i)
    BY <1>1, DecodedOfIs
  <2> DEFINE u == Append(DecodedOf(s), <<c>>)
  <2>4. /\ u \in Seq(Seq(Int)) /\ Len(u) = n + 1 /\ u[n + 1] = <<c>>
        /\ \A i \in 1..n : u[i] = DecodedOf(s)[i]
    BY <2>1, <2>2
  <2>5. \A i \in 1..(n + 1) : i \in 1..n \/ i = n + 1
    BY <1>1
  <2> HIDE DEF u, t, n
  <2>6. \A i \in 1..(n + 1) : DecodedOf(t)[i] = u[i]
    BY <1>3, <1>5, <2>2, <2>3, <2>4, <2>5
  <2>7. DecodedOf(t) = u
    BY <2>3, <2>4, <2>6, SameSeq
  <2> QED
    BY <2>7 DEF u
<1>7. FlattenSeq(DecodedOf(t)) = FlattenSeq(DecodedOf(s)) \o <<c>> /\ FlattenSeq(DecodedOf(s)) \in Seq(Int)
  <2>1. <<c>> \in Seq(Int) /\ DecodedOf(s) \in Seq(Seq(Int))
    BY DecodedOfIs DEF Byte
  <2> QED
    BY <2>1, <1>6, FlattenAppend
<1>8. Decode(t) = Decode(s) \o <<c>> /\ Decode(s) \in Seq(Int)
  BY <1>1, <1>7, DecodedOfIs
<1>9. c \in Int
  BY DEF Byte
<1> QED
  BY <1>2, <1>8, <1>9, AppendIsConcat

\* A byte written as an escape.
LEMMA DecodeEscape ==
  ASSUME NEW s \in Text, Whole(s), NEW a \in HexDigits, NEW b \in HexDigits
  PROVE  /\ Whole(s \o <<Percent, a, b>>)
         /\ Decode(s \o <<Percent, a, b>>) = Append(Decode(s), 16 * DigitValue(a) + DigitValue(b))
<1> DEFINE e == <<Percent, a, b>>
           t == s \o e
           n == Len(s)
           c == 16 * DigitValue(a) + DigitValue(b)
<1>0. /\ Percent \in Byte /\ a \in Byte /\ b \in Byte /\ a # Percent /\ b # Percent
      /\ IsHexDigit(a) /\ IsHexDigit(b) /\ ~IsHexDigit(Percent) /\ c \in Int
  BY DEF HexDigits, Percent, Byte, IsHexDigit, DigitValue
<1>1. /\ e \in Text /\ t \in Text /\ n \in Nat /\ Len(t) = n + 3
      /\ t[n + 1] = Percent /\ t[n + 2] = a /\ t[n + 3] = b
      /\ \A i \in 1..n : t[i] = s[i]
  <2>1. e \in Seq(Byte) /\ Len(e) = 3 /\ e[1] = Percent /\ e[2] = a /\ e[3] = b
    BY <1>0
  <2> HIDE DEF e
  <2>2. /\ t \in Text /\ n \in Nat /\ Len(t) = n + 3 /\ \A i \in 1..n : t[i] = s[i]
        /\ \A i \in 1..3 : t[n + i] = e[i]
    <3>1. s \in Seq(Byte)
      BY DEF Text
    <3>2. /\ s \o e \in Seq(Byte) /\ Len(s) \in Nat /\ Len(s \o e) = Len(s) + Len(e)
          /\ \A i \in 1..Len(s) : (s \o e)[i] = s[i]
          /\ \A i \in 1..Len(e) : (s \o e)[Len(s) + i] = e[i]
      <4>1. e \in Seq(Byte)
        BY <2>1
      <4> QED
        BY <3>1, <4>1, SMTT(30)
    <3> HIDE DEF n
    <3> QED
      BY <2>1, <3>2 DEF Text, n
  <2> HIDE DEF t, n
  <2>3. t[n + 1] = e[1] /\ t[n + 2] = e[2] /\ t[n + 3] = e[3]
    BY <2>2
  <2> QED
    BY <2>1, <2>2, <2>3 DEF Text
<1> HIDE DEF e, c
<1>2. Whole(t)
  <2> SUFFICES ASSUME NEW i \in 1..Len(t), t[i] = Percent
               PROVE  i + 2 <= Len(t) /\ t[i + 1] \in HexDigits /\ t[i + 2] \in HexDigits
    BY DEF Whole
  <2> HIDE DEF t
  <2>1. (i \in 1..n /\ s[i] = Percent) \/ i = n + 1
    <3>1. i \in 1..n \/ i = n + 1 \/ i = n + 2 \/ i = n + 3
      BY <1>1
    <3> QED
      BY <1>0, <1>1, <3>1
  <2>2. CASE i \in 1..n /\ s[i] = Percent
    <3>1. i + 2 <= n /\ s[i + 1] \in HexDigits /\ s[i + 2] \in HexDigits
      BY <2>2 DEF Whole
    <3>2. i + 1 \in 1..n /\ i + 2 \in 1..n
      BY <1>1, <2>2, <3>1
    <3> QED
      BY <1>1, <3>1, <3>2
  <2>3. CASE i = n + 1
    <3>1. i + 1 = n + 2 /\ i + 2 = n + 3
      BY <1>1, <2>3
    <3> QED
      BY <1>1, <3>1
  <2> QED
    BY <2>1, <2>2, <2>3
<1>3. /\ \A i \in 1..n : Decoded(t, i) = Decoded(s, i)
      /\ ~IsEscape(t, n) /\ ~IsEscape(t, n - 1)
  BY <1>1, DecodedKept
<1> HIDE DEF t
<1>4. IsEscape(t, n + 1)
  <2>1. n + 1 \in 1..(Len(t) - 2) /\ (n + 1) + 1 = n + 2 /\ (n + 1) + 2 = n + 3
    BY <1>1
  <2> QED
    BY <2>1, <1>0, <1>1 DEF IsEscape
<1> HIDE DEF n
<1>5. Decoded(t, n + 1) = <<c>>
  <2>1. (n + 1) - 1 = n /\ (n + 1) - 2 = n - 1 /\ (n + 1) + 1 = n + 2 /\ (n + 1) + 2 = n + 3
    BY <1>1
  <2> QED
    BY <2>1, <1>1, <1>3, <1>4 DEF Decoded, c
<1>6. Decoded(t, n + 2) = <<>> /\ Decoded(t, n + 3) = <<>>
  <2>1. (n + 2) - 1 = n + 1 /\ (n + 3) - 2 = n + 1
    BY <1>1
  <2> QED
    BY <2>1, <1>4 DEF Decoded
<1> DEFINE u1 == Append(DecodedOf(s), <<c>>)
           u2 == Append(u1, <<>>)
           u3 == Append(u2, <<>>)
<1>7. <<c>> \in Seq(Int) /\ <<>> \in Seq(Int)
  BY <1>0
<1>8. /\ DecodedOf(s) \in Seq(Seq(Int)) /\ Len(DecodedOf(s)) = n
      /\ \A i \in 1..n : DecodedOf(s)[i] = Decoded(s, i)
  BY DecodedOfIs DEF n
<1>9. /\ u1 \in Seq(Seq(Int)) /\ Len(u1) = n + 1 /\ u1[n + 1] = <<c>>
      /\ \A i \in 1..n : u1[i] = DecodedOf(s)[i]
  BY <1>7, <1>8
<1> HIDE DEF u1
<1>10. /\ u2 \in Seq(Seq(Int)) /\ Len(u2) = n + 2 /\ u2[n + 2] = <<>>
       /\ \A i \in 1..(n + 1) : u2[i] = u1[i]
  BY <1>1, <1>7, <1>9
<1> HIDE DEF u2
<1>11. /\ u3 \in Seq(Seq(Int)) /\ Len(u3) = n + 3 /\ u3[n + 3] = <<>>
       /\ \A i \in 1..(n + 2) : u3[i] = u2[i]
  BY <1>1, <1>7, <1>10
<1> HIDE DEF u3
<1>12. DecodedOf(t) = u3
  <2>1. /\ DecodedOf(t) \in Seq(Seq(Int)) /\ Len(DecodedOf(t)) = n + 3
        /\ \A i \in 1..(n + 3) : DecodedOf(t)[i] = Decoded(t, i)
    BY <1>1, DecodedOfIs
  <2>2. ASSUME NEW i \in 1..(n + 3) PROVE Decoded(t, i) = u3[i]
    <3>1. i \in 1..n \/ i = n + 1 \/ i = n + 2 \/ i = n + 3
      BY <1>1
    <3>2. CASE i \in 1..n
      <4>1. i \in 1..(n + 1) /\ i \in 1..(n + 2)
        BY <3>2, <1>1
      <4> QED
        BY <4>1, <3>2, <1>3, <1>8, <1>9, <1>10, <1>11
    <3>3. CASE i = n + 1
      <4>1. i \in 1..(n + 1) /\ i \in 1..(n + 2)
        BY <3>3, <1>1
      <4> QED
        BY <4>1, <3>3, <1>5, <1>9, <1>10, <1>11
    <3>4. CASE i = n + 2
      <4>1. i \in 1..(n + 2)
        BY <3>4, <1>1
      <4> QED
        BY <4>1, <3>4, <1>6, <1>10, <1>11
    <3>5. CASE i = n + 3
      BY <3>5, <1>6, <1>11
    <3> QED
      BY <3>1, <3>2, <3>3, <3>4, <3>5
  <2>3. \A i \in 1..(n + 3) : DecodedOf(t)[i] = u3[i]
    BY <2>1, <2>2
  <2> QED
    BY <2>1, <2>3, <1>11, SameSeq
<1>13. /\ FlattenSeq(u1) = FlattenSeq(DecodedOf(s)) \o <<c>>
       /\ FlattenSeq(DecodedOf(s)) \in Seq(Int)
  BY <1>7, <1>8, FlattenAppend DEF u1
<1>14. FlattenSeq(u2) = FlattenSeq(u1) \o <<>> /\ FlattenSeq(u1) \in Seq(Int)
  BY <1>7, <1>9, FlattenAppend DEF u2
<1>15. FlattenSeq(u3) = FlattenSeq(u2) \o <<>> /\ FlattenSeq(u2) \in Seq(Int)
  BY <1>7, <1>10, FlattenAppend DEF u3
<1>16. FlattenSeq(u3) = FlattenSeq(u1)
  BY <1>14, <1>15, ConcatEmptySeq
<1>17. Decode(t) = FlattenSeq(u3) /\ Decode(s) = FlattenSeq(DecodedOf(s))
  BY <1>1, <1>12, DecodedOfIs
<1>18. Decode(t) = Append(Decode(s), c)
  BY <1>0, <1>13, <1>16, <1>17, AppendIsConcat
<1> QED
  BY <1>2, <1>18 DEF t, e, c

\* What UriEncode writes has none of a query's separators.
Quoted(s) == \A i \in 1..Len(s) : IsUnreserved(s[i]) \/ s[i] = Percent

LEMMA QuotedAppend ==
  ASSUME NEW s \in Text, Quoted(s), NEW t \in Text, Quoted(t)
  PROVE  Quoted(s \o t)
<1>1. /\ Len(s) \in Nat /\ Len(t) \in Nat /\ Len(s \o t) = Len(s) + Len(t)
      /\ \A i \in 1..Len(s) : (s \o t)[i] = s[i]
      /\ \A i \in 1..Len(t) : (s \o t)[Len(s) + i] = t[i]
  BY ConcatIs DEF Text
<1> SUFFICES ASSUME NEW i \in 1..Len(s \o t)
             PROVE  IsUnreserved((s \o t)[i]) \/ (s \o t)[i] = Percent
  BY DEF Quoted
<1>2. CASE i \in 1..Len(s)
  BY <1>1, <1>2 DEF Quoted
<1>3. CASE i \notin 1..Len(s)
  <2>1. i - Len(s) \in 1..Len(t) /\ i = Len(s) + (i - Len(s))
    BY <1>1, <1>3
  <2> QED
    BY <2>1, <1>1 DEF Quoted
<1> QED
  BY <1>2, <1>3

\* UriEncode is undone by Decode, for every name and value.
LEMMA DecodeEncode ==
  ASSUME NEW s \in Text
  PROVE  UriEncode(s) \in Text /\ Quoted(UriEncode(s)) /\ Decode(UriEncode(s)) = s
<1> DEFINE Good(x) == /\ UriEncode(x) \in Text /\ Quoted(UriEncode(x)) /\ Whole(UriEncode(x))
                      /\ Decode(UriEncode(x)) = x
           S == {n \in 0..Len(s) : Good(SubSeq(s, 1, n))}
<1>0. Len(s) \in Nat /\ \A n \in 0..Len(s) : SubSeq(s, 1, n) \in Text
  BY DEF Text
<1>1. 0 \in S
  <2>1. SubSeq(s, 1, 0) = <<>> /\ <<>> \in Text
    BY DEF Text
  <2>2. UriEncode(<<>>) = <<>>
    BY EncodeEmpty
  <2>3. Decode(<<>>) = <<>>
    <3>1. DecodedOf(<<>>) = <<>> /\ Decode(<<>>) = FlattenSeq(DecodedOf(<<>>))
      BY DEF DecodedOf, Decode
    <3> QED
      BY <3>1, FlattenEmpty
  <2>4. Quoted(<<>>) /\ Whole(<<>>)
    BY DEF Quoted, Whole
  <2>5. Good(SubSeq(s, 1, 0))
    BY <2>1, <2>2, <2>3, <2>4
  <2> QED
    BY <2>5, <1>0
<1>2. ASSUME NEW n \in 0..(Len(s) - 1), n \in S PROVE n + 1 \in S
  <2> DEFINE x == SubSeq(s, 1, n)
             c == s[n + 1]
             out == UriEncode(x)
  <2>1. c \in Byte /\ x \in Text /\ SubSeq(s, 1, n + 1) = Append(x, c) /\ n + 1 \in 0..Len(s)
    BY DEF Text
  <2>2. out \in Text /\ Quoted(out) /\ Whole(out) /\ Decode(out) = x
    BY <1>2
  <2> HIDE DEF x, c
  <2>3. UriEncode(Append(x, c)) = out \o Escaped(c)
    BY <2>1, EncodeAppend
  <2> HIDE DEF out
  <2>4. Quoted(out \o Escaped(c)) /\ out \o Escaped(c) \in Text
    <3>1. Escaped(c) \in Text /\ Quoted(Escaped(c))
      BY <2>1, Bytes DEF Quoted
    <3>2. Quoted(out \o Escaped(c))
      BY <3>1, <2>2, QuotedAppend
    <3> QED
      BY <3>1, <3>2, <2>2, ConcatIs DEF Text
  <2>5. Whole(out \o Escaped(c)) /\ Decode(out \o Escaped(c)) = Append(x, c)
    <3>1. CASE IsUnreserved(c)
      <4>1. Escaped(c) = <<c>> /\ c # Percent /\ c # Plus
        BY <2>1, <3>1, Bytes
      <4> QED
        BY <4>1, <2>1, <2>2, DecodePlain
    <3>2. CASE ~IsUnreserved(c)
      <4>1. PICK a \in HexDigits, b \in HexDigits :
              Escaped(c) = <<Percent, a, b>> /\ 16 * DigitValue(a) + DigitValue(b) = c
        BY <2>1, <3>2, Bytes
      <4> QED
        BY <4>1, <2>2, DecodeEscape
    <3> QED
      BY <3>1, <3>2
  <2>6. Good(SubSeq(s, 1, n + 1))
    BY <2>1, <2>3, <2>4, <2>5
  <2> QED
    BY <2>1, <2>6
<1>3. Len(s) \in S
  <2> HIDE DEF S
  <2>1. \A n \in 0..Len(s) : n \in S
    BY <1>0, <1>1, <1>2, InductionTo
  <2> QED
    BY <2>1, <1>0
<1>4. SubSeq(s, 1, Len(s)) = s
  BY DEF Text
<1> QED
  BY <1>3, <1>4

----------------------------------------------------------------------------
(* Before and After *)

LEMMA FirstOfIs ==
  ASSUME NEW s \in Text, NEW C
  PROVE  /\ FirstOf(s, C) \in 1..(Len(s) + 1)
         /\ FirstOf(s, C) <= Len(s) => s[FirstOf(s, C)] \in C
         /\ \A k \in 1..(FirstOf(s, C) - 1) : s[k] \notin C
<1> DEFINE N == Len(s)
           S == {n \in 0..N : n = N \/ s[n + 1] \in C}
<1>1. N \in Nat /\ N \in S
  BY DEF Text
<1>2. PICK n \in 0..N : n \in S /\ \A k \in 0..(n - 1) : k \notin S
  <2> HIDE DEF S
  <2> QED
    BY <1>1, Least
<1>3. /\ n + 1 \in 1..(N + 1) /\ (n + 1 <= N => s[n + 1] \in C)
      /\ \A k \in 1..((n + 1) - 1) : s[k] \notin C
  <2>1. n + 1 <= N => s[n + 1] \in C
    BY <1>1, <1>2
  <2>2. ASSUME NEW k \in 1..((n + 1) - 1) PROVE s[k] \notin C
    <3>1. k - 1 \in 0..(n - 1) /\ k - 1 \in 0..N /\ k - 1 # N /\ (k - 1) + 1 = k
      BY <1>1
    <3>2. k - 1 \notin S
      BY <3>1, <1>2
    <3> QED
      BY <3>1, <3>2
  <2> QED
    BY <2>1, <2>2, <1>1
<1> QED
  BY <1>3 DEF FirstOf

LEMMA FirstOfUnique ==
  ASSUME NEW s \in Text, NEW C, NEW i \in 1..(Len(s) + 1), i <= Len(s) => s[i] \in C,
         \A k \in 1..(i - 1) : s[k] \notin C
  PROVE  FirstOf(s, C) = i
<1> DEFINE j == FirstOf(s, C)
<1>1. /\ j \in 1..(Len(s) + 1) /\ (j <= Len(s) => s[j] \in C)
      /\ \A k \in 1..(j - 1) : s[k] \notin C
  BY FirstOfIs
<1>2. Len(s) \in Nat
  BY DEF Text
<1> HIDE DEF j
<1>3. ~(i < j)
  <2> SUFFICES ASSUME i < j PROVE FALSE
    OBVIOUS
  <2>1. i \in 1..(j - 1) /\ i <= Len(s)
    BY <1>1, <1>2
  <2> QED
    BY <2>1, <1>1
<1>4. ~(j < i)
  <2> SUFFICES ASSUME j < i PROVE FALSE
    OBVIOUS
  <2>1. j \in 1..(i - 1) /\ j <= Len(s)
    BY <1>1, <1>2
  <2> QED
    BY <2>1, <1>1
<1> QED
  BY <1>1, <1>2, <1>3, <1>4 DEF j

LEMMA BeforeIs ==
  ASSUME NEW s \in Text, NEW C
  PROVE  /\ Before(s, C) \in Text /\ After(s, C) \in Text
         /\ HasNone(s, C) => Before(s, C) = s /\ After(s, C) = <<>>
<1>1. FirstOf(s, C) \in 1..(Len(s) + 1) /\ Len(s) \in Nat /\ s \in Seq(Byte) /\ DOMAIN s = 1..Len(s)
  BY FirstOfIs DEF Text
<1>2. ASSUME HasNone(s, C) PROVE FirstOf(s, C) = Len(s) + 1
  <2>1. \A k \in 1..((Len(s) + 1) - 1) : s[k] \notin C
    BY <1>1, <1>2 DEF HasNone
  <2>2. Len(s) + 1 \in 1..(Len(s) + 1) /\ ~(Len(s) + 1 <= Len(s))
    BY <1>1
  <2> QED
    BY <2>1, <2>2, FirstOfUnique
<1>3. Before(s, C) \in Text /\ After(s, C) \in Text
  BY <1>1 DEF Before, After, Text
<1>4. ASSUME HasNone(s, C) PROVE Before(s, C) = s /\ After(s, C) = <<>>
  <2>1. SubSeq(s, 1, (Len(s) + 1) - 1) = s
    BY <1>1
  <2>2. SubSeq(s, (Len(s) + 1) + 1, Len(s)) = <<>>
    BY <1>1
  <2> QED
    BY <2>1, <2>2, <1>2, <1>4 DEF Before, After
<1> QED
  BY <1>3, <1>4

\* What follows a place of C changes nothing in what is before the first.
LEMMA BeforeKept ==
  ASSUME NEW s \in Text, NEW t \in Text, NEW C, ~HasNone(s, C)
  PROVE  Before(s \o t, C) = Before(s, C) /\ After(s \o t, C) = After(s, C) \o t
<1> DEFINE i == FirstOf(s, C)
<1>1. /\ Len(s) \in Nat /\ Len(t) \in Nat /\ Len(s \o t) = Len(s) + Len(t) /\ s \o t \in Text
      /\ \A k \in 1..Len(s) : (s \o t)[k] = s[k]
      /\ \A k \in 1..Len(t) : (s \o t)[Len(s) + k] = t[k]
      /\ DOMAIN s = 1..Len(s) /\ s \in Seq(Byte) /\ t \in Seq(Byte)
  BY ConcatIs DEF Text
<1>2. i \in 1..(Len(s) + 1) /\ (i <= Len(s) => s[i] \in C) /\ \A k \in 1..(i - 1) : s[k] \notin C
  BY FirstOfIs
<1> HIDE DEF i
<1>3. i \in 1..Len(s)
  <2>1. PICK k \in 1..Len(s) : s[k] \in C
    BY <1>1 DEF HasNone
  <2> QED
    BY <2>1, <1>1, <1>2
<1>4. FirstOf(s \o t, C) = i
  <2>1. i \in 1..(Len(s \o t) + 1) /\ (s \o t)[i] \in C
    BY <1>1, <1>2, <1>3
  <2>2. \A k \in 1..(i - 1) : (s \o t)[k] \notin C
    BY <1>1, <1>2, <1>3
  <2> QED
    BY <2>1, <2>2, <1>1, FirstOfUnique
<1>5. SubSeq(s \o t, 1, i - 1) = SubSeq(s, 1, i - 1)
  BY <1>1, <1>3
<1>6. SubSeq(s \o t, i + 1, Len(s \o t)) = SubSeq(s, i + 1, Len(s)) \o t
  <2>1. i \in 0..Len(s)
    BY <1>3
  <2> QED
    BY <1>1, <2>1, SuffixConcat
<1> QED
  BY <1>4, <1>5, <1>6 DEF Before, After, i

\* What precedes the first place of C is left out of what is after it.
LEMMA AfterSkips ==
  ASSUME NEW s \in Text, NEW t \in Text, NEW C, HasNone(s, C)
  PROVE  Before(s \o t, C) = s \o Before(t, C) /\ After(s \o t, C) = After(t, C)
<1> DEFINE i == FirstOf(t, C)
           n == Len(s)
<1>1. /\ n \in Nat /\ Len(t) \in Nat /\ Len(s \o t) = n + Len(t) /\ s \o t \in Text
      /\ \A k \in 1..n : (s \o t)[k] = s[k]
      /\ \A k \in 1..Len(t) : (s \o t)[n + k] = t[k]
      /\ DOMAIN s = 1..n /\ s \in Seq(Byte) /\ t \in Seq(Byte)
  BY ConcatIs DEF Text
<1>2. i \in 1..(Len(t) + 1) /\ (i <= Len(t) => t[i] \in C) /\ \A k \in 1..(i - 1) : t[k] \notin C
  BY FirstOfIs
<1> HIDE DEF i
<1>3. FirstOf(s \o t, C) = n + i
  <2>1. n + i \in 1..(Len(s \o t) + 1) /\ (n + i <= Len(s \o t) => (s \o t)[n + i] \in C)
    <3> HIDE DEF n
    <3> QED
      BY <1>1, <1>2
  <2>2. ASSUME NEW k \in 1..((n + i) - 1) PROVE (s \o t)[k] \notin C
    <3> HIDE DEF n
    <3>1. CASE k \in 1..n
      BY <3>1, <1>1 DEF HasNone
    <3>2. CASE k \notin 1..n
      <4>1. k - n \in 1..(i - 1) /\ k - n \in 1..Len(t) /\ n + (k - n) = k
        BY <3>2, <1>1, <1>2
      <4>2. (s \o t)[n + (k - n)] = t[k - n] /\ t[k - n] \notin C
        BY <4>1, <1>1, <1>2
      <4> QED
        BY <4>1, <4>2
    <3> QED
      BY <3>1, <3>2
  <2> QED
    BY <2>1, <2>2, <1>1, FirstOfUnique
<1>4. SubSeq(s \o t, 1, (n + i) - 1) = s \o SubSeq(t, 1, i - 1)
  BY <1>1, <1>2
<1>5. SubSeq(s \o t, (n + i) + 1, Len(s \o t)) = SubSeq(t, i + 1, Len(t))
  BY <1>1, <1>2
<1> QED
  BY <1>3, <1>4, <1>5 DEF Before, After, i

LEMMA AtFirst ==
  ASSUME NEW C, NEW c \in C, c \in Byte, NEW t \in Text
  PROVE  Before(<<c>> \o t, C) = <<>> /\ After(<<c>> \o t, C) = t
<1>1. /\ t \in Seq(Byte) /\ <<c>> \o t \in Seq(Byte) /\ (<<c>> \o t)[1] = c
      /\ Len(<<c>> \o t) = 1 + Len(t) /\ Len(t) \in Nat
  BY DEF Text
<1>2. FirstOf(<<c>> \o t, C) = 1
  <2>1. <<c>> \o t \in Text /\ 1 \in 1..(Len(<<c>> \o t) + 1) /\ (<<c>> \o t)[1] \in C
    BY <1>1 DEF Text
  <2>2. \A k \in 1..(1 - 1) : (<<c>> \o t)[k] \notin C
    OBVIOUS
  <2> QED
    BY <2>1, <2>2, FirstOfUnique
<1>3. SubSeq(<<c>> \o t, 1, 1 - 1) = <<>> /\ SubSeq(<<c>> \o t, 1 + 1, Len(<<c>> \o t)) = t
  BY <1>1
<1> QED
  BY <1>2, <1>3 DEF Before, After

LEMMA NoneOf ==
  ASSUME NEW s \in Text, NEW t \in Text, NEW C
  PROVE  HasNone(s \o t, C) <=> HasNone(s, C) /\ HasNone(t, C)
<1>1. /\ Len(s) \in Nat /\ Len(t) \in Nat /\ Len(s \o t) = Len(s) + Len(t)
      /\ \A k \in 1..Len(s) : (s \o t)[k] = s[k]
      /\ \A k \in 1..Len(t) : (s \o t)[Len(s) + k] = t[k]
      /\ DOMAIN s = 1..Len(s) /\ DOMAIN t = 1..Len(t) /\ DOMAIN (s \o t) = 1..Len(s \o t)
  BY ConcatIs DEF Text
<1>2. ASSUME HasNone(s \o t, C) PROVE HasNone(s, C) /\ HasNone(t, C)
  <2>1. \A k \in 1..Len(s) : k \in 1..Len(s \o t)
    BY <1>1
  <2>2. \A k \in 1..Len(t) : Len(s) + k \in 1..Len(s \o t)
    BY <1>1
  <2> QED
    BY <2>1, <2>2, <1>1, <1>2 DEF HasNone
<1>3. ASSUME HasNone(s, C), HasNone(t, C) PROVE HasNone(s \o t, C)
  <2> SUFFICES ASSUME NEW k \in 1..Len(s \o t) PROVE (s \o t)[k] \notin C
    BY <1>1 DEF HasNone
  <2>1. CASE k \in 1..Len(s)
    BY <2>1, <1>1, <1>3 DEF HasNone
  <2>2. CASE k \notin 1..Len(s)
    <3>1. k - Len(s) \in 1..Len(t) /\ Len(s) + (k - Len(s)) = k
      BY <2>2, <1>1
    <3>2. (s \o t)[Len(s) + (k - Len(s))] = t[k - Len(s)] /\ t[k - Len(s)] \notin C
      BY <3>1, <1>1, <1>3 DEF HasNone
    <3> QED
      BY <3>1, <3>2
  <2> QED
    BY <2>1, <2>2
<1> QED
  BY <1>2, <1>3

----------------------------------------------------------------------------
(* Loops over a sequence with one element more *)

\* f is the loop over s, and g the one over s and c.
OneMore(f, g, s, c, start, step) ==
  /\ IsLoop(f, s, start, step) /\ IsLoop(g, Append(s, c), start, step)
  /\ g[Len(Append(s, c))] = step[<<f[Len(s)], c>>]

LEMMA LoopAppend ==
  ASSUME NEW A, NEW B, NEW s \in Seq(A), NEW c \in A, NEW start \in B, NEW step \in [B \X A -> B]
  PROVE  \E f \in [0..Len(s) -> B], g \in [0..Len(Append(s, c)) -> B] :
           OneMore(f, g, s, c, start, step)
<1> DEFINE t == Append(s, c)
           n == Len(s)
<1>1. /\ t \in Seq(A) /\ n \in Nat /\ Len(t) = n + 1 /\ t[n + 1] = c
      /\ \A i \in 1..n : t[i] = s[i]
  OBVIOUS
<1> HIDE DEF t
<1>2. PICK g \in [0..Len(t) -> B] : IsLoop(g, t, start, step)
  BY <1>1, LoopExists
<1> DEFINE f == [i \in 0..n |-> g[i]]
<1>3. \A i \in 0..n : i \in 0..Len(t) /\ g[i] \in B
  BY <1>1, <1>2
<1>4. f \in [0..n -> B] /\ \A i \in 0..n : f[i] = g[i]
  BY <1>3
<1>5. IsLoop(f, s, start, step)
  <2>1. f[0] = start
    <3>1. 0 \in 0..n
      BY <1>1
    <3> QED
      BY <3>1, <1>2 DEF IsLoop
  <2>2. ASSUME NEW i \in 1..n PROVE f[i] = step[<<f[i - 1], s[i]>>]
    <3>1. i \in 0..n /\ i - 1 \in 0..n /\ i \in 1..Len(t)
      BY <1>1
    <3>2. g[i] = step[<<g[i - 1], t[i]>>]
      BY <3>1, <1>2 DEF IsLoop
    <3> HIDE DEF f
    <3> QED
      BY <3>1, <3>2, <1>1, <1>4
  <2> HIDE DEF f
  <2> QED
    BY <2>1, <2>2 DEF IsLoop
<1>6. g[Len(t)] = step[<<f[n], c>>]
  <2>1. n + 1 \in 1..Len(t) /\ (n + 1) - 1 = n /\ n \in 0..n
    BY <1>1
  <2>2. g[n + 1] = step[<<g[(n + 1) - 1], t[n + 1]>>]
    BY <2>1, <1>2 DEF IsLoop
  <2> HIDE DEF f
  <2> QED
    BY <2>1, <2>2, <1>1, <1>4
<1> HIDE DEF f
<1> QED
  BY <1>2, <1>4, <1>5, <1>6 DEF t, OneMore

\* The function rec takes the steps of f as long as the two agree.
Repeats(rec, f, s, step) ==
  \A i \in 1..Len(s) : f[i - 1] = rec[i - 1] => rec[i] = step[<<f[i - 1], s[i]>>]

LEMMA LoopIs ==
  ASSUME NEW s, Len(s) \in Nat, NEW start, NEW step, NEW f, IsLoop(f, s, start, step),
         NEW rec, rec[0] = start, Repeats(rec, f, s, step)
  PROVE  f[Len(s)] = rec[Len(s)]
<1>1. Follows(f, rec, Len(s))
  BY DEF Follows, IsLoop, Repeats
<1>2. Len(s) \in Nat /\ Len(s) \in 0..Len(s)
  OBVIOUS
<1>3. \A i \in 0..Len(s) : f[i] = rec[i]
  BY <1>1, <1>2, LoopUnique
<1> QED
  BY <1>2, <1>3

----------------------------------------------------------------------------
(* Reader: the pairs of a form or a query *)

LEMMA DecodeType ==
  ASSUME NEW s \in Text
  PROVE  Decode(s) \in Seq(Int)
<1>1. DecodedOf(s) \in Seq(Seq(Int)) /\ Decode(s) = FlattenSeq(DecodedOf(s)) /\ <<>> \in Seq(Int)
  BY DecodedOfIs
<1> QED
  BY <1>1, FlattenAppend

ReadType == [pairs : Seq(Seq(Int) \X Seq(Int)), piece : Text]

Nothing == [pairs |-> <<>>, piece |-> <<>>]

Reads(r, c) ==
  IF c = Ampersand THEN [pairs |-> Taken(r), piece |-> <<>>]
  ELSE [r EXCEPT !.piece = Append(@, c)]

LEMMA TakenType ==
  ASSUME NEW r \in ReadType
  PROVE  Taken(r) \in Seq(Seq(Int) \X Seq(Int))
<1>1. r.pairs \in Seq(Seq(Int) \X Seq(Int)) /\ r.piece \in Text
  BY DEF ReadType
<1>2. PairOf(r.piece) \in Seq(Int) \X Seq(Int)
  <2>1. Before(r.piece, {Equals}) \in Text /\ After(r.piece, {Equals}) \in Text
    BY <1>1, BeforeIs
  <2> QED
    BY <2>1, DecodeType DEF PairOf
<1> QED
  BY <1>1, <1>2 DEF Taken

LEMMA ReadsType ==
  ASSUME NEW r \in ReadType, NEW c \in Byte
  PROVE  Reads(r, c) \in ReadType
<1>1. CASE c = Ampersand
  BY <1>1, TakenType DEF Reads, ReadType, Text
<1>2. CASE c # Ampersand
  BY <1>2 DEF Reads, ReadType, Text
<1> QED
  BY <1>1, <1>2

ReadStep == [p \in ReadType \X Byte |-> Reads(p[1], p[2])]

LEMMA ReaderIs ==
  ASSUME NEW s \in Text, NEW f \in [0..Len(s) -> ReadType], IsLoop(f, s, Nothing, ReadStep)
  PROVE  Reader(s) = f[Len(s)]
<1> DEFINE N == Len(s)
           body(g) == [i \in 0..N |->
                         IF i = 0 THEN [pairs |-> <<>>, piece |-> <<>>]
                         ELSE IF s[i] = Ampersand THEN [pairs |-> Taken(g[i - 1]), piece |-> <<>>]
                         ELSE [g[i - 1] EXCEPT !.piece = Append(@, s[i])]]
           rd[i \in 0..N] ==
             IF i = 0 THEN [pairs |-> <<>>, piece |-> <<>>]
             ELSE IF s[i] = Ampersand THEN [pairs |-> Taken(rd[i - 1]), piece |-> <<>>]
             ELSE [rd[i - 1] EXCEPT !.piece = Append(@, s[i])]
<1>0. N \in Nat /\ s \in Seq(Byte) /\ \A i \in 1..N : s[i] \in Byte
  BY DEF Text
<1>1. Reader(s) = rd[N]
  BY DEF Reader
<1>2. f = body(f)
  <2>1. f = [i \in 0..N |-> f[i]] /\ body(f) = [i \in 0..N |-> body(f)[i]]
    OBVIOUS
  <2>2. ASSUME NEW i \in 0..N PROVE f[i] = body(f)[i]
    <3>1. CASE i = 0
      BY <3>1 DEF IsLoop, Nothing
    <3>2. CASE i # 0
      <4>1. i \in 1..N /\ i - 1 \in 0..N
        BY <3>2, <1>0
      <4>2. f[i] = ReadStep[<<f[i - 1], s[i]>>]
        BY <4>1 DEF IsLoop
      <4>3. f[i - 1] \in ReadType /\ s[i] \in Byte
        BY <4>1, <1>0
      <4>4. ReadStep[<<f[i - 1], s[i]>>] = Reads(f[i - 1], s[i])
        BY <4>3 DEF ReadStep
      <4> QED
        BY <4>2, <4>4, <3>2 DEF Reads
    <3> QED
      BY <3>1, <3>2
  <2> HIDE DEF body
  <2> QED
    BY <2>1, <2>2
<1>3. rd = body(rd)
  BY <1>2, Zenon
<1> HIDE DEF rd
<1>4. rd[0] = Nothing
  <2>1. 0 \in 0..N
    BY <1>0
  <2> QED
    BY <2>1, <1>3 DEF Nothing
<1>5. ASSUME NEW i \in 1..N, f[i - 1] = rd[i - 1] PROVE rd[i] = ReadStep[<<f[i - 1], s[i]>>]
  <2>1. i \in 0..N /\ i - 1 \in 0..N /\ i # 0
    BY <1>0
  <2>2. f[i - 1] \in ReadType /\ s[i] \in Byte
    BY <2>1, <1>0
  <2>3. rd[i] = body(rd)[i]
    BY <1>3, Zenon
  <2>4. rd[i] = Reads(rd[i - 1], s[i])
    BY <2>1, <2>3 DEF Reads
  <2>5. ReadStep[<<f[i - 1], s[i]>>] = Reads(f[i - 1], s[i])
    BY <2>2 DEF ReadStep
  <2> QED
    BY <2>4, <2>5, <1>5
<1> HIDE DEF body
<1>6. f[Len(s)] = rd[Len(s)]
  <2>1. Repeats(rd, f, s, ReadStep)
    BY <1>5 DEF Repeats
  <2> QED
    BY <1>0, <1>4, <2>1, LoopIs
<1> QED
  BY <1>1, <1>6

LEMMA ReaderAppend ==
  ASSUME NEW s \in Text, NEW c \in Byte
  PROVE  Reader(s) \in ReadType /\ Reader(Append(s, c)) = Reads(Reader(s), c)
<1> DEFINE t == Append(s, c)
<1>1. ReadStep \in [ReadType \X Byte -> ReadType]
  BY ReadsType DEF ReadStep
<1>2. Nothing \in ReadType /\ s \in Seq(Byte) /\ t \in Text
  BY DEF Nothing, ReadType, Text
<1>a. PICK f \in [0..Len(s) -> ReadType], g \in [0..Len(t) -> ReadType] :
        OneMore(f, g, s, c, Nothing, ReadStep)
  BY <1>1, <1>2, LoopAppend
<1>3. /\ IsLoop(f, s, Nothing, ReadStep) /\ IsLoop(g, t, Nothing, ReadStep)
      /\ g[Len(t)] = ReadStep[<<f[Len(s)], c>>]
  BY <1>a DEF OneMore
<1> HIDE DEF t
<1>4. Reader(s) = f[Len(s)] /\ Reader(t) = g[Len(t)]
  BY <1>2, <1>3, ReaderIs
<1>5. f[Len(s)] \in ReadType
  BY <1>2
<1>6. ReadStep[<<f[Len(s)], c>>] = Reads(f[Len(s)], c)
  BY <1>5 DEF ReadStep
<1> QED
  BY <1>3, <1>4, <1>5, <1>6 DEF t

LEMMA ReaderEmpty == Reader(<<>>) = Nothing
<1>1. <<>> \in Text /\ Len(<<>>) = 0
  BY DEF Text
<1>2. [i \in 0..0 |-> Nothing] \in [0..Len(<<>>) -> ReadType]
  BY <1>1 DEF Nothing, ReadType
<1>3. IsLoop([i \in 0..0 |-> Nothing], <<>>, Nothing, ReadStep)
  BY <1>1 DEF IsLoop
<1> QED
  BY <1>1, <1>2, <1>3, ReaderIs

LEMMA ReadsOf ==
  ASSUME NEW p, NEW q, NEW c, c # Ampersand
  PROVE  Reads([pairs |-> p, piece |-> q], c) = [pairs |-> p, piece |-> Append(q, c)]
<1> DEFINE r == [pairs |-> p, piece |-> q]
<1>1. Reads(r, c) = [r EXCEPT !.piece = Append(r.piece, c)]
  BY DEF Reads
<1>2. r.piece = q
  OBVIOUS
<1> DEFINE a == Append(q, c)
<1>3. [r EXCEPT !.piece = a] = [pairs |-> p, piece |-> a]
  <2> HIDE DEF a
  <2> QED
    OBVIOUS
<1> HIDE DEF r
<1>4. Reads(r, c) = [pairs |-> p, piece |-> a]
  BY <1>1, <1>2, <1>3
<1> HIDE DEF a
<1> QED
  BY <1>4 DEF r, a

\* A piece with no separator is read as it is.
LEMMA ReadPiece ==
  ASSUME NEW s \in Text, Reader(s).piece = <<>>, NEW p \in Text, HasNone(p, {Ampersand})
  PROVE  Reader(s \o p) = [pairs |-> Reader(s).pairs, piece |-> p]
<1> DEFINE Good(q) == Reader(s \o q) = [pairs |-> Reader(s).pairs, piece |-> q]
           S == {n \in 0..Len(p) : Good(SubSeq(p, 1, n))}
<1>0. /\ Len(p) \in Nat /\ s \in Seq(Byte) /\ p \in Seq(Byte) /\ DOMAIN p = 1..Len(p)
      /\ Reader(s) \in ReadType
  <2>1. 97 \in Byte
    BY DEF Byte
  <2> QED
    BY <2>1, ReaderAppend DEF Text
<1>1. 0 \in S
  <2>1. SubSeq(p, 1, 0) = <<>> /\ s \o <<>> = s
    BY <1>0
  <2>2. Reader(s) = [pairs |-> Reader(s).pairs, piece |-> <<>>]
    BY <1>0 DEF ReadType
  <2>3. Good(SubSeq(p, 1, 0))
    BY <2>1, <2>2
  <2>4. 0 \in 0..Len(p)
    BY <1>0
  <2> HIDE DEF Good
  <2> QED
    BY <2>3, <2>4
<1>2. ASSUME NEW n \in 0..(Len(p) - 1), n \in S PROVE n + 1 \in S
  <2> DEFINE q == SubSeq(p, 1, n)
             c == p[n + 1]
  <2>1. c \in Byte /\ q \in Seq(Byte) /\ SubSeq(p, 1, n + 1) = Append(q, c) /\ n + 1 \in 0..Len(p)
    BY <1>0
  <2>2. c # Ampersand
    BY <1>0, <2>1 DEF HasNone
  <2>3. Reader(s \o q) = [pairs |-> Reader(s).pairs, piece |-> q]
    BY <1>2
  <2> HIDE DEF q, c
  <2>4. s \o Append(q, c) = Append(s \o q, c) /\ s \o q \in Text
    <3>1. s \o q \in Seq(Byte)
      BY <1>0, <2>1, ConcatIs
    <3>2. s \o Append(q, c) = Append(s \o q, c)
      <4>1. s \in Seq(Byte) /\ q \in Seq(Byte) /\ c \in Byte
        BY <1>0, <2>1
      <4> QED
        BY <4>1, SMTT(30)
    <3> QED
      BY <3>1, <3>2 DEF Text
  <2>5. Reader(Append(s \o q, c)) = Reads(Reader(s \o q), c)
    BY <2>1, <2>4, ReaderAppend
  <2>6. Reads(Reader(s \o q), c) = [pairs |-> Reader(s).pairs, piece |-> Append(q, c)]
    <3> DEFINE p0 == Reader(s).pairs
    <3>1. Reader(s \o q) = [pairs |-> p0, piece |-> q]
      BY <2>3
    <3> HIDE DEF p0
    <3>2. Reads([pairs |-> p0, piece |-> q], c) = [pairs |-> p0, piece |-> Append(q, c)]
      BY <2>2, ReadsOf
    <3> QED
      BY <3>1, <3>2 DEF p0
  <2>7. Good(SubSeq(p, 1, n + 1))
    BY <2>1, <2>4, <2>5, <2>6
  <2> QED
    BY <2>1, <2>7
<1>3. Len(p) \in S
  <2> HIDE DEF S
  <2>1. \A n \in 0..Len(p) : n \in S
    BY <1>0, <1>1, <1>2, InductionTo
  <2> QED
    BY <2>1, <1>0
<1>4. SubSeq(p, 1, Len(p)) = p
  BY <1>0
<1> QED
  BY <1>3, <1>4

LEMMA ReadPairsType ==
  ASSUME NEW s \in Text
  PROVE  ReadPairs(s) \in Seq(Seq(Int) \X Seq(Int))
<1>1. 97 \in Byte
  BY DEF Byte
<1> QED
  BY <1>1, ReaderAppend, TakenType DEF ReadPairs

LEMMA TakenOf ==
  ASSUME NEW q, NEW p
  PROVE  Taken([pairs |-> q, piece |-> p]) = IF p = <<>> THEN q ELSE Append(q, PairOf(p))
BY DEF Taken

\* A piece after a separator, and the first piece.
LEMMA ReadOne ==
  ASSUME NEW p \in Text, p # <<>>, HasNone(p, {Ampersand})
  PROVE  /\ ReadPairs(p) = <<PairOf(p)>>
         /\ \A s \in Text : ReadPairs((s \o <<Ampersand>>) \o p) = Append(ReadPairs(s), PairOf(p))
<1>1. ReadPairs(p) = <<PairOf(p)>>
  <2>1. <<>> \in Text /\ <<>> \o p = p
    BY DEF Text
  <2>2. Reader(<<>>).piece = <<>> /\ Reader(<<>>).pairs = <<>>
    BY ReaderEmpty DEF Nothing
  <2>3. Reader(<<>> \o p) = [pairs |-> <<>>, piece |-> p]
    BY <2>1, <2>2, ReadPiece
  <2>4. Append(<<>>, PairOf(p)) = <<PairOf(p)>>
    OBVIOUS
  <2>5. ReadPairs(p) = Taken([pairs |-> <<>>, piece |-> p])
    BY <2>1, <2>3 DEF ReadPairs
  <2> QED
    BY <2>4, <2>5, TakenOf
<1>2. ASSUME NEW s \in Text PROVE ReadPairs((s \o <<Ampersand>>) \o p) = Append(ReadPairs(s), PairOf(p))
  <2>1. Ampersand \in Byte
    BY DEF Ampersand, Byte
  <2>2. s \o <<Ampersand>> = Append(s, Ampersand) /\ Append(s, Ampersand) \in Text
    BY <2>1 DEF Text
  <2>3. Reader(Append(s, Ampersand)) = [pairs |-> Taken(Reader(s)), piece |-> <<>>]
    BY <2>1, ReaderAppend DEF Reads
  <2> DEFINE t == Append(s, Ampersand)
             q == Taken(Reader(s))
  <2>4. t \in Text /\ Reader(t) = [pairs |-> q, piece |-> <<>>]
    BY <2>2, <2>3
  <2>5. Reader(t).piece = <<>> /\ Reader(t).pairs = q
    <3> HIDE DEF t, q
    <3> QED
      BY <2>4
  <2> HIDE DEF t
  <2>6. Reader(t \o p) = [pairs |-> q, piece |-> p]
    BY <2>4, <2>5, ReadPiece
  <2>7. ReadPairs(t \o p) = Taken([pairs |-> q, piece |-> p]) /\ ReadPairs(s) = q
    BY <2>6 DEF ReadPairs
  <2> HIDE DEF q
  <2> QED
    BY <2>2, <2>7, TakenOf DEF t
<1> QED
  BY <1>1, <1>2

LEMMA ReadNone ==
  /\ ReadPairs(<<>>) = <<>>
  /\ \A s \in Text : ReadPairs(s \o <<Ampersand>>) = ReadPairs(s)
<1>1. ReadPairs(<<>>) = <<>>
  BY ReaderEmpty DEF ReadPairs, Taken, Nothing
<1>2. ASSUME NEW s \in Text PROVE ReadPairs(s \o <<Ampersand>>) = ReadPairs(s)
  <2>1. Ampersand \in Byte
    BY DEF Ampersand, Byte
  <2>2. s \o <<Ampersand>> = Append(s, Ampersand)
    BY <2>1 DEF Text
  <2>3. Reader(Append(s, Ampersand)) = [pairs |-> Taken(Reader(s)), piece |-> <<>>]
    BY <2>1, ReaderAppend DEF Reads
  <2>4. ReadPairs(s \o <<Ampersand>>) = Taken([pairs |-> Taken(Reader(s)), piece |-> <<>>])
    BY <2>2, <2>3 DEF ReadPairs
  <2> QED
    BY <2>4, TakenOf DEF ReadPairs
<1> QED
  BY <1>1, <1>2

----------------------------------------------------------------------------
(* Pair, WithPair and BuildFormBody *)

LEMMA QuotedHasNone ==
  ASSUME NEW s \in Text, Quoted(s)
  PROVE  HasNone(s, {Ampersand, Equals, QuestionMark, Hash})
<1>1. DOMAIN s = 1..Len(s)
  BY DEF Text
<1>2. \A c : IsUnreserved(c) \/ c = Percent => c \notin {Ampersand, Equals, QuestionMark, Hash}
  BY DEF IsUnreserved, Percent, Ampersand, Equals, QuestionMark, Hash
<1> QED
  BY <1>1, <1>2 DEF HasNone, Quoted

\* A pair is read as it was written, and none of its bytes separates it from another.
LEMMA PairIs ==
  ASSUME NEW name \in Text, NEW value \in Text
  PROVE  /\ Pair(name, value) \in Text /\ Pair(name, value) # <<>>
         /\ HasNone(Pair(name, value), {Ampersand, QuestionMark, Hash})
         /\ PairOf(Pair(name, value)) = <<name, value>>
<1> DEFINE a == UriEncode(name)
           b == UriEncode(value)
           e == <<Equals>>
<1>1. /\ a \in Text /\ HasNone(a, {Ampersand, Equals, QuestionMark, Hash}) /\ Decode(a) = name
      /\ b \in Text /\ HasNone(b, {Ampersand, Equals, QuestionMark, Hash}) /\ Decode(b) = value
  BY DecodeEncode, QuotedHasNone
<1>2. Equals \in Byte /\ Equals \notin {Ampersand, QuestionMark, Hash}
  BY DEF Equals, Byte, Ampersand, QuestionMark, Hash
<1>3. e \in Text /\ HasNone(e, {Ampersand, QuestionMark, Hash})
  BY <1>2 DEF Text, HasNone
<1>4. Pair(name, value) = (a \o e) \o b
  BY DEF Pair
<1> HIDE DEF a, b
<1>5. (a \o e) \o b = a \o (e \o b)
  BY <1>1, <1>3, ConcatAssoc DEF Text
<1>6. a \o e \in Text /\ (a \o e) \o b \in Text /\ (a \o e) \o b # <<>> /\ e \o b \in Text
  BY <1>1, <1>2 DEF Text
<1>7. HasNone((a \o e) \o b, {Ampersand, QuestionMark, Hash})
  <2>1. HasNone(a, {Ampersand, QuestionMark, Hash}) /\ HasNone(b, {Ampersand, QuestionMark, Hash})
    BY <1>1 DEF HasNone
  <2>2. HasNone(a \o e, {Ampersand, QuestionMark, Hash})
    BY <2>1, <1>1, <1>3, NoneOf
  <2> QED
    BY <2>1, <2>2, <1>1, <1>6, NoneOf
<1>8. Before(e \o b, {Equals}) = <<>> /\ After(e \o b, {Equals}) = b
  BY <1>1, <1>2, AtFirst
<1>9. HasNone(a, {Equals})
  BY <1>1 DEF HasNone
<1>10. Before(a \o (e \o b), {Equals}) = a \o <<>> /\ After(a \o (e \o b), {Equals}) = b
  <2> DEFINE t == e \o b
  <2>1. t \in Text /\ a \in Text
    BY <1>1, <1>6
  <2>2. Before(t, {Equals}) = <<>> /\ After(t, {Equals}) = b
    BY <1>8
  <2> HIDE DEF t
  <2>3. Before(a \o t, {Equals}) = a \o Before(t, {Equals}) /\ After(a \o t, {Equals}) = After(t, {Equals})
    BY <2>1, <1>9, AfterSkips
  <2> QED
    BY <2>2, <2>3 DEF t
<1>11. a \o <<>> = a
  BY <1>1, ConcatEmptySeq DEF Text
<1>12. PairOf((a \o e) \o b) = <<name, value>>
  BY <1>1, <1>5, <1>10, <1>11 DEF PairOf
<1> QED
  BY <1>4, <1>6, <1>7, <1>12

LEMMA WithPairType ==
  ASSUME NEW text \in Text, NEW name \in Text, NEW value \in Text
  PROVE  WithPair(text, name, value) \in Text
<1>1. Pair(name, value) \in Text /\ Ampersand \in Byte
  BY PairIs DEF Ampersand, Byte
<1>2. text \o <<Ampersand>> \in Text
  BY <1>1 DEF Text
<1> QED
  BY <1>1, <1>2, ConcatIs DEF WithPair, Text

FormStep == [p \in Text \X (Text \X Text) |-> WithPair(p[1], p[2][1], p[2][2])]

LEMMA FormStepIs ==
  ASSUME NEW text \in Text, NEW f \in Text \X Text
  PROVE  FormStep[<<text, f>>] = WithPair(text, f[1], f[2])
BY DEF FormStep

LEMMA FormIs ==
  ASSUME NEW s \in Pairs, NEW f \in [0..Len(s) -> Text], IsLoop(f, s, <<>>, FormStep)
  PROVE  BuildFormBody(s) = f[Len(s)]
<1> DEFINE N == Len(s)
           form(g) == [i \in 0..N |-> IF i = 0 THEN <<>> ELSE WithPair(g[i - 1], s[i][1], s[i][2])]
           body[i \in 0..N] == IF i = 0 THEN <<>> ELSE WithPair(body[i - 1], s[i][1], s[i][2])
<1>0. N \in Nat /\ s \in Seq(Text \X Text) /\ \A i \in 1..N : s[i] \in Text \X Text
  BY DEF Pairs
<1>1. BuildFormBody(s) = body[N]
  BY DEF BuildFormBody
<1>2. f = form(f)
  <2>1. f = [i \in 0..N |-> f[i]] /\ form(f) = [i \in 0..N |-> form(f)[i]]
    OBVIOUS
  <2>2. ASSUME NEW i \in 0..N PROVE f[i] = form(f)[i]
    <3>1. CASE i = 0
      BY <3>1 DEF IsLoop
    <3>2. CASE i # 0
      <4>1. i \in 1..N /\ i - 1 \in 0..N
        BY <3>2, <1>0
      <4>2. f[i] = FormStep[<<f[i - 1], s[i]>>]
        BY <4>1 DEF IsLoop
      <4>3. f[i - 1] \in Text /\ s[i] \in Text \X Text
        BY <4>1, <1>0
      <4>4. FormStep[<<f[i - 1], s[i]>>] = WithPair(f[i - 1], s[i][1], s[i][2])
        BY <4>3, FormStepIs
      <4> QED
        BY <4>2, <4>4, <3>2
    <3> QED
      BY <3>1, <3>2
  <2> HIDE DEF form
  <2> QED
    BY <2>1, <2>2
<1>3. body = form(body)
  BY <1>2, Zenon
<1> HIDE DEF body
<1>4. body[0] = <<>>
  <2>1. 0 \in 0..N
    BY <1>0
  <2> QED
    BY <2>1, <1>3
<1>5. ASSUME NEW i \in 1..N, f[i - 1] = body[i - 1] PROVE body[i] = FormStep[<<f[i - 1], s[i]>>]
  <2>1. i \in 0..N /\ i - 1 \in 0..N /\ i # 0
    BY <1>0
  <2>2. f[i - 1] \in Text /\ s[i] \in Text \X Text
    BY <2>1, <1>0
  <2>3. body[i] = form(body)[i]
    BY <1>3, Zenon
  <2>4. body[i] = WithPair(body[i - 1], s[i][1], s[i][2])
    BY <2>1, <2>3
  <2>5. FormStep[<<f[i - 1], s[i]>>] = WithPair(f[i - 1], s[i][1], s[i][2])
    BY <2>2, FormStepIs
  <2> QED
    BY <2>4, <2>5, <1>5
<1> HIDE DEF form
<1>6. f[Len(s)] = body[Len(s)]
  <2>1. Repeats(body, f, s, FormStep)
    BY <1>5 DEF Repeats
  <2> QED
    BY <1>0, <1>4, <2>1, LoopIs
<1> QED
  BY <1>1, <1>6

LEMMA FormAppend ==
  ASSUME NEW s \in Pairs, NEW c \in Text \X Text
  PROVE  /\ BuildFormBody(s) \in Text
         /\ BuildFormBody(Append(s, c)) = WithPair(BuildFormBody(s), c[1], c[2])
<1> DEFINE t == Append(s, c)
<1>1. FormStep \in [Text \X (Text \X Text) -> Text]
  BY WithPairType DEF FormStep
<1>2. <<>> \in Text /\ s \in Seq(Text \X Text) /\ t \in Pairs
  BY DEF Text, Pairs
<1>3. PICK f \in [0..Len(s) -> Text], g \in [0..Len(t) -> Text] :
        OneMore(f, g, s, c, <<>>, FormStep)
  BY <1>1, <1>2, LoopAppend
<1>4. /\ IsLoop(f, s, <<>>, FormStep) /\ IsLoop(g, t, <<>>, FormStep)
      /\ g[Len(t)] = FormStep[<<f[Len(s)], c>>]
  BY <1>3 DEF OneMore
<1> HIDE DEF t
<1>5. BuildFormBody(s) = f[Len(s)] /\ BuildFormBody(t) = g[Len(t)]
  BY <1>2, <1>4, FormIs
<1>6. f[Len(s)] \in Text
  BY <1>2
<1> QED
  BY <1>4, <1>5, <1>6, FormStepIs DEF t

LEMMA FormEmpty == BuildFormBody(<<>>) = <<>>
<1>1. <<>> \in Pairs /\ <<>> \in Text /\ Len(<<>>) = 0
  BY DEF Pairs, Text
<1>2. [i \in 0..0 |-> <<>>] \in [0..Len(<<>>) -> Text]
  BY <1>1
<1>3. IsLoop([i \in 0..0 |-> <<>>], <<>>, <<>>, FormStep)
  BY <1>1 DEF IsLoop
<1> QED
  BY <1>1, <1>2, <1>3, FormIs

ReadAs(s, pairs) ==
  /\ ReadPairs(s) = pairs
  /\ \A t \in Text : ReadPairs((t \o <<Ampersand>>) \o s) = ReadPairs(t) \o pairs

\* The pairs read from a text that WithPair wrote.
LEMMA WithPairRead ==
  ASSUME NEW s \in Text, NEW pairs \in Pairs, ReadAs(s, pairs), s = <<>> <=> pairs = <<>>,
         HasNone(s, {QuestionMark, Hash}), NEW f \in Text \X Text
  PROVE  /\ WithPair(s, f[1], f[2]) \in Text /\ WithPair(s, f[1], f[2]) # <<>>
         /\ HasNone(WithPair(s, f[1], f[2]), {QuestionMark, Hash})
         /\ ReadAs(WithPair(s, f[1], f[2]), Append(pairs, f))
<1> DEFINE p == Pair(f[1], f[2])
           sep == <<Ampersand>>
<1>a. f[1] \in Text /\ f[2] \in Text /\ f = <<f[1], f[2]>>
  OBVIOUS
<1>b. /\ p \in Text /\ p # <<>> /\ HasNone(p, {Ampersand, QuestionMark, Hash})
      /\ PairOf(p) = <<f[1], f[2]>>
  BY <1>a, PairIs
<1>1. p \in Text /\ p # <<>> /\ HasNone(p, {Ampersand, QuestionMark, Hash}) /\ PairOf(p) = f
  BY <1>a, <1>b
<1>2. Ampersand \in Byte /\ sep \in Text /\ HasNone(sep, {QuestionMark, Hash})
  BY DEF Ampersand, Byte, QuestionMark, Hash, Text, HasNone
<1>3. HasNone(p, {Ampersand}) /\ HasNone(p, {QuestionMark, Hash})
  BY <1>1 DEF HasNone
<1>4. WithPair(s, f[1], f[2]) = IF s = <<>> THEN s \o p ELSE (s \o sep) \o p
  BY DEF WithPair
<1>5. /\ ReadPairs(p) = <<f>>
      /\ \A t \in Text : ReadPairs((t \o sep) \o p) = Append(ReadPairs(t), f)
  BY <1>1, <1>3, ReadOne
<1>6. Text \subseteq Seq(Int)
  <2>1. Byte \subseteq Int
    BY DEF Byte
  <2>2. ASSUME NEW x \in Text PROVE x \in Seq(Int)
    <3>1. x = [i \in 1..Len(x) |-> x[i]] /\ Len(x) \in Nat /\ \A i \in 1..Len(x) : x[i] \in Int
      BY <2>1 DEF Text
    <3> QED
      BY <3>1
  <2> QED
    BY <2>2
<1>7. pairs \in Seq(Seq(Int) \X Seq(Int)) /\ f \in Seq(Int) \X Seq(Int)
  BY <1>6 DEF Pairs
<1>8. ASSUME NEW x \in Seq(Seq(Int) \X Seq(Int)) PROVE Append(x \o pairs, f) = x \o Append(pairs, f)
  <2> DEFINE V == Seq(Int) \X Seq(Int)
  <2>1. x \in Seq(V) /\ pairs \in Seq(V) /\ f \in V /\ <<f>> \in Seq(V)
    BY <1>7
  <2> HIDE DEF V
  <2>2. x \o pairs \in Seq(V)
    BY <2>1
  <2>3. Append(x \o pairs, f) = (x \o pairs) \o <<f>> /\ Append(pairs, f) = pairs \o <<f>>
    BY <2>1, <2>2, AppendIsConcat
  <2> QED
    BY <2>1, <2>3, ConcatAssoc
<1> HIDE DEF p
<1>9. CASE s = <<>>
  <2>1. WithPair(s, f[1], f[2]) = p /\ Append(pairs, f) = <<f>> /\ pairs = <<>>
    BY <1>1, <1>4, <1>9, ConcatEmptySeq DEF Text
  <2>2. ASSUME NEW t \in Text PROVE ReadPairs((t \o sep) \o p) = ReadPairs(t) \o <<f>>
    <3>1. ReadPairs(t) \in Seq(Seq(Int) \X Seq(Int))
      BY ReadPairsType
    <3>2. Append(ReadPairs(t), f) = ReadPairs(t) \o <<f>>
      BY <3>1, <1>7, AppendIsConcat
    <3> QED
      BY <3>2, <1>5
  <2> QED
    BY <2>1, <2>2, <1>1, <1>3, <1>5 DEF ReadAs
<1>10. CASE s # <<>>
  <2> DEFINE u == (s \o sep) \o p
  <2>1. WithPair(s, f[1], f[2]) = u
    BY <1>4, <1>10
  <2>2. s \o sep \in Text /\ u \in Text /\ u # <<>>
    BY <1>1, <1>2 DEF Text
  <2>3. HasNone(u, {QuestionMark, Hash})
    <3>1. HasNone(s \o sep, {QuestionMark, Hash})
      BY <1>2, NoneOf
    <3> QED
      BY <3>1, <2>2, <1>1, <1>3, NoneOf
  <2>4. ReadPairs(u) = Append(pairs, f)
    BY <1>5 DEF ReadAs
  <2>5. ASSUME NEW t \in Text PROVE ReadPairs((t \o sep) \o u) = ReadPairs(t) \o Append(pairs, f)
    <3> DEFINE v == (t \o sep) \o s
    <3>1. t \o sep \in Text /\ v \in Text
      BY <1>2 DEF Text
    <3>2. (t \o sep) \o u = (v \o sep) \o p
      <4>1. (t \o sep) \o u = ((t \o sep) \o (s \o sep)) \o p
        <5> DEFINE x == t \o sep
                   y == s \o sep
        <5>1. x \in Seq(Byte) /\ y \in Seq(Byte) /\ p \in Seq(Byte)
          BY <3>1, <2>2, <1>1 DEF Text
        <5> HIDE DEF x, y
        <5>2. x \o (y \o p) = (x \o y) \o p
          BY <5>1, SMTT(30)
        <5> QED
          BY <5>2 DEF x, y, u
      <4>2. (t \o sep) \o (s \o sep) = v \o sep
        BY <3>1, <1>2, ConcatAssoc DEF Text
      <4> QED
        BY <4>1, <4>2
    <3>3. ReadPairs(v) = ReadPairs(t) \o pairs
      BY DEF ReadAs
    <3> HIDE DEF v, u
    <3>4. ReadPairs((v \o sep) \o p) = Append(ReadPairs(v), f)
      BY <3>1, <1>5
    <3>5. Append(ReadPairs(t) \o pairs, f) = ReadPairs(t) \o Append(pairs, f)
      BY <1>8, ReadPairsType
    <3> QED
      BY <3>2, <3>3, <3>4, <3>5
  <2> HIDE DEF u
  <2> QED
    BY <2>1, <2>2, <2>3, <2>4, <2>5 DEF ReadAs
<1> QED
  BY <1>9, <1>10

\* What BuildFormBody writes is read as the fields it was given, and so is what
\* SetQuery writes.
LEMMA FormRead ==
  ASSUME NEW s \in Pairs
  PROVE  /\ BuildFormBody(s) \in Text /\ (BuildFormBody(s) = <<>> <=> s = <<>>)
         /\ HasNone(BuildFormBody(s), {QuestionMark, Hash})
         /\ ReadAs(BuildFormBody(s), s)
<1> DEFINE Good(q) == /\ BuildFormBody(q) \in Text /\ (BuildFormBody(q) = <<>> <=> q = <<>>)
                      /\ HasNone(BuildFormBody(q), {QuestionMark, Hash})
                      /\ ReadAs(BuildFormBody(q), q)
           S == {n \in 0..Len(s) : Good(SubSeq(s, 1, n))}
<1>0. Len(s) \in Nat /\ s \in Seq(Text \X Text)
  BY DEF Pairs
<1>1. 0 \in S
  <2>1. SubSeq(s, 1, 0) = <<>> /\ <<>> \in Text
    BY <1>0 DEF Text
  <2>2. ASSUME NEW t \in Text PROVE ReadPairs((t \o <<Ampersand>>) \o <<>>) = ReadPairs(t) \o <<>>
    <3>1. t \o <<Ampersand>> \in Text
      BY DEF Text, Ampersand, Byte
    <3>2. (t \o <<Ampersand>>) \o <<>> = t \o <<Ampersand>>
      BY <3>1, ConcatEmptySeq DEF Text
    <3>3. ReadPairs(t) \o <<>> = ReadPairs(t)
      BY ReadPairsType, ConcatEmptySeq
    <3> QED
      BY <3>2, <3>3, ReadNone
  <2>3. HasNone(<<>>, {QuestionMark, Hash})
    BY DEF HasNone
  <2>4. Good(<<>>)
    BY <2>1, <2>2, <2>3, FormEmpty, ReadNone DEF ReadAs
  <2>5. 0 \in 0..Len(s)
    BY <1>0
  <2> HIDE DEF Good
  <2> QED
    BY <2>1, <2>4, <2>5
<1>2. ASSUME NEW n \in 0..(Len(s) - 1), n \in S PROVE n + 1 \in S
  <2> DEFINE q == SubSeq(s, 1, n)
             f == s[n + 1]
  <2>1. /\ f \in Text \X Text /\ q \in Pairs /\ SubSeq(s, 1, n + 1) = Append(q, f)
        /\ n + 1 \in 0..Len(s) /\ Append(q, f) # <<>>
    BY <1>0 DEF Pairs
  <2>2. Good(q)
    BY <1>2
  <2> HIDE DEF q, f
  <2>3. BuildFormBody(Append(q, f)) = WithPair(BuildFormBody(q), f[1], f[2])
    BY <2>1, FormAppend
  <2>4. Good(Append(q, f))
    BY <2>1, <2>2, <2>3, WithPairRead
  <2> HIDE DEF Good
  <2> QED
    BY <2>1, <2>4
<1>3. Len(s) \in S
  <2> HIDE DEF S
  <2>1. \A n \in 0..Len(s) : n \in S
    BY <1>0, <1>1, <1>2, InductionTo
  <2> QED
    BY <2>1, <1>0
<1>4. SubSeq(s, 1, Len(s)) = s
  BY <1>0
<1> QED
  BY <1>3, <1>4

----------------------------------------------------------------------------
(* JoinUrl and AppendQuery *)

LEMMA WithoutSlashesIs ==
  ASSUME NEW base \in Text
  PROVE  \E n \in 0..Len(base) :
           /\ WithoutSlashes(base) = SubSeq(base, 1, n)
           /\ \A k \in (n + 1)..Len(base) : base[k] = Slash
<1> DEFINE N == Len(base)
           S == {m \in 0..N : m = N \/ base[N - m] # Slash}
           Kept(n) == (n > 0 => base[n] # Slash) /\ \A k \in (n + 1)..Len(base) : base[k] = Slash
<1>1. N \in Nat /\ N \in S
  BY DEF Text
<1>2. PICK m \in 0..N : m \in S /\ \A k \in 0..(m - 1) : k \notin S
  <2> HIDE DEF S
  <2> QED
    BY <1>1, Least
<1>3. N - m \in 0..N /\ Kept(N - m)
  <2>1. N - m \in 0..N /\ (N - m > 0 => base[N - m] # Slash)
    BY <1>1, <1>2
  <2>2. ASSUME NEW k \in ((N - m) + 1)..N PROVE base[k] = Slash
    <3>1. N - k \in 0..(m - 1) /\ N - k \in 0..N /\ N - k # N /\ N - (N - k) = k
      BY <1>1
    <3>2. N - k \notin S
      BY <3>1, <1>2
    <3> QED
      BY <3>1, <3>2
  <2> QED
    BY <2>1, <2>2
<1> DEFINE n == CHOOSE n \in 0..Len(base) : Kept(n)
<1>4. n \in 0..Len(base) /\ Kept(n)
  <2> HIDE DEF Kept
  <2> QED
    BY <1>3
<1>5. WithoutSlashes(base) = SubSeq(base, 1, n)
  BY DEF WithoutSlashes
<1> HIDE DEF n
<1> QED
  BY <1>4, <1>5

LEMMA NoneAfter ==
  ASSUME NEW s \in Text, NEW C, NEW D, HasNone(s, D)
  PROVE  HasNone(After(s, C), D)
<1> DEFINE i == FirstOf(s, C)
<1>1. i \in 1..(Len(s) + 1) /\ Len(s) \in Nat /\ s \in Seq(Byte) /\ DOMAIN s = 1..Len(s)
  BY FirstOfIs DEF Text
<1>2. CASE i \in 0..Len(s)
  <2>1. /\ SubSeq(s, i + 1, Len(s)) \in Seq(Byte) /\ Len(SubSeq(s, i + 1, Len(s))) = Len(s) - i
        /\ \A k \in 1..(Len(s) - i) : SubSeq(s, i + 1, Len(s))[k] = s[i + k]
    BY <1>1, <1>2, SuffixIs
  <2>2. After(s, C) = SubSeq(s, i + 1, Len(s))
    BY DEF After
  <2> HIDE DEF i
  <2>3. \A k \in 1..(Len(s) - i) : i + k \in 1..Len(s)
    BY <1>1
  <2>4. DOMAIN SubSeq(s, i + 1, Len(s)) = 1..(Len(s) - i)
    BY <2>1
  <2> QED
    BY <2>1, <2>2, <2>3, <2>4, <1>1 DEF HasNone
<1>3. CASE i = Len(s) + 1
  <2>1. SubSeq(s, (Len(s) + 1) + 1, Len(s)) = <<>>
    BY <1>1
  <2> QED
    BY <2>1, <1>3 DEF After, HasNone
<1> HIDE DEF i
<1> QED
  BY <1>1, <1>2, <1>3

LEMMA ReadQueryIs ==
  ASSUME NEW url \in Text, HasNone(url, {Hash})
  PROVE  After(url, {QuestionMark}) \in Text /\ ReadQuery(url) = ReadPairs(After(url, {QuestionMark}))
<1>1. After(url, {QuestionMark}) \in Text /\ HasNone(After(url, {QuestionMark}), {Hash})
  BY BeforeIs, NoneAfter
<1>2. Before(After(url, {QuestionMark}), {Hash}) = After(url, {QuestionMark})
  BY <1>1, BeforeIs
<1> QED
  BY <1>1, <1>2 DEF ReadQuery

LEMMA AppendQueryIs ==
  ASSUME NEW url \in Text, NEW query \in Text
  PROVE  /\ query = <<>> => AppendQuery(url, query) = url
         /\ query # <<>> /\ ~HasNone(url, {QuestionMark}) =>
              AppendQuery(url, query) = (url \o <<Ampersand>>) \o query
         /\ query # <<>> /\ HasNone(url, {QuestionMark}) =>
              AppendQuery(url, query) = (url \o <<QuestionMark>>) \o query
<1>1. Contains(url, QuestionMark) <=> ~HasNone(url, {QuestionMark})
  <2>1. DOMAIN url = 1..Len(url)
    BY DEF Text
  <2> QED
    BY <2>1 DEF Contains, HasNone
<1> QED
  BY <1>1 DEF AppendQuery

\* The parameters are read after those the URL had already.
LEMMA AppendQueryRead ==
  ASSUME NEW url \in Text, HasNone(url, {Hash}), NEW pairs \in Pairs
  PROVE  ReadQuery(AppendQuery(url, BuildFormBody(pairs))) = ReadQuery(url) \o pairs
<1> DEFINE q == BuildFormBody(pairs)
           u == AppendQuery(url, q)
           r == After(url, {QuestionMark})
           amp == <<Ampersand>>
           mark == <<QuestionMark>>
<1>1. /\ q \in Text /\ (q = <<>> <=> pairs = <<>>) /\ HasNone(q, {QuestionMark, Hash})
      /\ ReadAs(q, pairs)
  BY FormRead
<1>2. r \in Text /\ ReadQuery(url) = ReadPairs(r) /\ ReadPairs(r) \in Seq(Seq(Int) \X Seq(Int))
  BY ReadQueryIs, ReadPairsType
<1>3. /\ amp \in Text /\ mark \in Text /\ HasNone(amp, {Hash}) /\ HasNone(mark, {Hash})
      /\ QuestionMark \in Byte
  BY DEF Ampersand, QuestionMark, Hash, Byte, Text, HasNone
<1>4. HasNone(q, {Hash})
  BY <1>1 DEF HasNone
<1> HIDE DEF q, r
<1>5. CASE pairs = <<>>
  <2>1. u = url
    BY <1>1, <1>5, AppendQueryIs
  <2>2. ReadPairs(r) \o <<>> = ReadPairs(r)
    BY <1>2, ConcatEmptySeq
  <2> QED
    BY <2>1, <2>2, <1>2, <1>5 DEF q
<1>6. CASE pairs # <<>> /\ ~HasNone(url, {QuestionMark})
  <2> HIDE DEF amp
  <2>1. u = (url \o amp) \o q
    BY <1>1, <1>6, AppendQueryIs DEF amp
  <2>2. amp \o q \in Text /\ (url \o amp) \o q = url \o (amp \o q) /\ (r \o amp) \o q = r \o (amp \o q)
    <3>1. amp \in Seq(Byte) /\ q \in Seq(Byte) /\ url \in Seq(Byte) /\ r \in Seq(Byte)
      BY <1>1, <1>2, <1>3 DEF Text, amp
    <3>2. amp \o q \in Seq(Byte)
      BY <3>1, ConcatIs
    <3>3. (url \o amp) \o q = url \o (amp \o q)
      BY <3>1, ConcatAssoc
    <3>4. (r \o amp) \o q = r \o (amp \o q)
      BY <3>1, ConcatAssoc
    <3> QED
      BY <3>2, <3>3, <3>4 DEF Text
  <2>3. u \in Text /\ HasNone(u, {Hash})
    <3>1. url \o amp \in Text /\ HasNone(url \o amp, {Hash})
      BY <1>3, NoneOf, ConcatIs DEF Text
    <3>2. (url \o amp) \o q \in Text
      BY <3>1, <1>1, ConcatIs DEF Text
    <3>3. HasNone((url \o amp) \o q, {Hash})
      BY <3>1, <1>1, <1>4, NoneOf
    <3> QED
      BY <2>1, <3>2, <3>3
  <2>4. After(u, {QuestionMark}) = (r \o amp) \o q
    <3>1. After(url \o (amp \o q), {QuestionMark}) = After(url, {QuestionMark}) \o (amp \o q)
      BY <2>2, <1>6, BeforeKept
    <3> QED
      BY <3>1, <2>1, <2>2 DEF r
  <2>5. ReadPairs((r \o amp) \o q) = ReadPairs(r) \o pairs
    BY <1>1, <1>2 DEF ReadAs, amp
  <2>6. ReadQuery(u) = ReadPairs(After(u, {QuestionMark}))
    BY <2>3, ReadQueryIs
  <2> QED
    BY <2>4, <2>5, <2>6, <1>2 DEF q
<1>7. CASE pairs # <<>> /\ HasNone(url, {QuestionMark})
  <2> HIDE DEF mark
  <2>1. u = (url \o mark) \o q
    BY <1>1, <1>7, AppendQueryIs DEF mark
  <2>2. mark \o q \in Text /\ (url \o mark) \o q = url \o (mark \o q)
    BY <1>1, <1>3, ConcatAssoc, ConcatIs DEF Text
  <2>3. u \in Text /\ HasNone(u, {Hash})
    <3>1. url \o mark \in Text /\ HasNone(url \o mark, {Hash})
      BY <1>3, NoneOf, ConcatIs DEF Text
    <3>2. (url \o mark) \o q \in Text
      BY <3>1, <1>1, ConcatIs DEF Text
    <3>3. HasNone((url \o mark) \o q, {Hash})
      BY <3>1, <1>1, <1>4, NoneOf
    <3> QED
      BY <2>1, <3>2, <3>3
  <2>4. After(u, {QuestionMark}) = q
    <3>1. After(mark \o q, {QuestionMark}) = q
      BY <1>1, <1>3, AtFirst DEF mark
    <3>2. After(url \o (mark \o q), {QuestionMark}) = After(mark \o q, {QuestionMark})
      BY <2>2, <1>7, AfterSkips
    <3> QED
      BY <3>1, <3>2, <2>1, <2>2
  <2>5. ReadPairs(q) = pairs
    BY <1>1 DEF ReadAs
  <2>6. ReadQuery(u) = ReadPairs(After(u, {QuestionMark}))
    BY <2>3, ReadQueryIs
  <2>7. ReadPairs(r) = <<>>
    BY <1>7, BeforeIs, ReadNone DEF r
  <2>8. <<>> \o pairs = pairs
    BY ConcatEmptySeq DEF Pairs
  <2> QED
    BY <2>4, <2>5, <2>6, <2>7, <2>8, <1>2 DEF q
<1> QED
  BY <1>5, <1>6, <1>7

\* What JoinUrl puts after a base URL without its slashes.
Rest(path) == IF path = <<>> \/ Head(path) = Slash THEN path ELSE <<Slash>> \o path

LEMMA RestIs ==
  ASSUME NEW path \in Text
  PROVE  /\ Rest(path) \in Text /\ (Rest(path) = <<>> \/ Rest(path)[1] = Slash)
         /\ \A C : Slash \notin C =>
              /\ HasNone(path, C) => HasNone(Rest(path), C)
              /\ After(Rest(path), C) = After(path, C)
<1> DEFINE slash == <<Slash>>
<1>1. slash \in Text /\ path \in Seq(Byte) /\ (path # <<>> => Head(path) = path[1])
  BY DEF Text, Slash, Byte
<1>2. \A C : Slash \notin C => HasNone(slash, C)
  BY DEF HasNone
<1>3. CASE path = <<>> \/ Head(path) = Slash
  BY <1>1, <1>3 DEF Rest
<1>4. CASE ~(path = <<>> \/ Head(path) = Slash)
  <2>1. Rest(path) = slash \o path
    BY <1>4 DEF Rest
  <2>2. slash \o path \in Text /\ (slash \o path)[1] = Slash
    BY <1>1 DEF Text
  <2> HIDE DEF slash
  <2>3. ASSUME NEW C, Slash \notin C
        PROVE  /\ HasNone(path, C) => HasNone(slash \o path, C)
               /\ After(slash \o path, C) = After(path, C)
    <3>1. HasNone(slash, C)
      BY <1>2, <2>3
    <3> QED
      BY <3>1, <1>1, NoneOf, AfterSkips
  <2> QED
    BY <2>1, <2>2, <2>3
<1> QED
  BY <1>3, <1>4

\* A base URL with no query adds none.
LEMMA JoinRead ==
  ASSUME NEW base \in Text, HasNone(base, {QuestionMark, Hash}), NEW path \in Text, HasNone(path, {Hash})
  PROVE  /\ JoinUrl(base, path) \in Text /\ HasNone(JoinUrl(base, path), {Hash})
         /\ ReadQuery(JoinUrl(base, path)) = ReadQuery(path)
<1>1. CASE IsAbsoluteUrl(path) \/ base = <<>>
  BY <1>1 DEF JoinUrl
<1>2. CASE ~(IsAbsoluteUrl(path) \/ base = <<>>)
  <2> DEFINE w == WithoutSlashes(base)
             x == Rest(path)
  <2>1. JoinUrl(base, path) = w \o x
    BY <1>2 DEF JoinUrl, Rest
  <2>2. PICK n \in 0..Len(base) : w = SubSeq(base, 1, n)
    BY WithoutSlashesIs
  <2>3. w \in Text /\ HasNone(w, {Hash}) /\ HasNone(w, {QuestionMark})
    <3>1. /\ SubSeq(base, 1, n) \in Text /\ n \in Nat /\ n <= Len(base) /\ DOMAIN base = 1..Len(base)
          /\ DOMAIN SubSeq(base, 1, n) = 1..n /\ \A k \in 1..n : SubSeq(base, 1, n)[k] = base[k]
      BY DEF Text
    <3>2. \A k \in 1..n : base[k] \notin {Hash} /\ base[k] \notin {QuestionMark}
      BY <3>1 DEF HasNone
    <3> QED
      BY <3>1, <3>2, <2>2 DEF HasNone
  <2>4. /\ x \in Text /\ HasNone(x, {Hash})
        /\ After(x, {QuestionMark}) = After(path, {QuestionMark})
    <3>1. Slash \notin {Hash} /\ Slash \notin {QuestionMark}
      BY DEF Slash, Hash, QuestionMark
    <3> QED
      BY <3>1, RestIs
  <2> HIDE DEF w, x
  <2>5. w \o x \in Text /\ HasNone(w \o x, {Hash})
    BY <2>3, <2>4, NoneOf, ConcatIs DEF Text
  <2>6. After(w \o x, {QuestionMark}) = After(path, {QuestionMark})
    BY <2>3, <2>4, AfterSkips
  <2>7. ReadQuery(w \o x) = ReadPairs(After(w \o x, {QuestionMark}))
    BY <2>5, ReadQueryIs
  <2>8. ReadQuery(path) = ReadPairs(After(path, {QuestionMark}))
    BY ReadQueryIs
  <2> QED
    BY <2>1, <2>5, <2>6, <2>7, <2>8
<1> QED
  BY <1>1, <1>2

----------------------------------------------------------------------------
(* Server *)

SchemeAt(u, i) ==
  i \in DOMAIN u /\ IsSchemeEnd(u, i) /\ \A k \in 1..(i - 1) : u[k] \notin Ends

LEMMA ServerIs ==
  ASSUME NEW u \in Text, NEW i, SchemeAt(u, i)
  PROVE  Server(u) = <<SubSeq(u, 1, i - 1), Before(SubSeq(u, i + 3, Len(u)), Ends)>>
<1> DEFINE First(k) == IsSchemeEnd(u, k) /\ \A l \in 1..(k - 1) : ~IsSchemeEnd(u, l)
           j == CHOOSE k \in DOMAIN u : First(k)
<1>1. DOMAIN u = 1..Len(u) /\ Len(u) \in Nat
  BY DEF Text
<1>2. i \in 1..Len(u) /\ i + 2 <= Len(u) /\ u[i] # Slash
  BY <1>1 DEF SchemeAt, IsSchemeEnd, Colon, Slash
<1>3. ASSUME NEW l \in 1..(i - 1) PROVE ~IsSchemeEnd(u, l)
  <2> SUFFICES ASSUME IsSchemeEnd(u, l) PROVE FALSE
    OBVIOUS
  <2>1. u[l + 1] = Slash /\ l + 1 \in 1..i
    BY <1>2 DEF IsSchemeEnd
  <2>2. l + 1 # i
    BY <1>2, <2>1
  <2>3. l + 1 \in 1..(i - 1)
    BY <1>2, <2>1, <2>2
  <2> QED
    BY <2>1, <2>3 DEF SchemeAt, Ends
<1>4. First(i) /\ i \in DOMAIN u
  BY <1>3 DEF SchemeAt
<1>5. j \in DOMAIN u /\ First(j)
  <2> HIDE DEF First
  <2> QED
    BY <1>4
<1>6. Server(u) = <<SubSeq(u, 1, j - 1), Before(SubSeq(u, j + 3, Len(u)), Ends)>>
  BY DEF Server
<1> HIDE DEF j
<1>7. ~(i < j) /\ ~(j < i)
  <2>1. ASSUME i < j PROVE FALSE
    <3>1. i \in 1..(j - 1)
      BY <2>1, <1>1, <1>2, <1>5
    <3> QED
      BY <3>1, <1>4, <1>5
  <2>2. ASSUME j < i PROVE FALSE
    <3>1. j \in 1..(i - 1)
      BY <2>2, <1>1, <1>2, <1>5
    <3> QED
      BY <3>1, <1>4, <1>5
  <2> QED
    BY <2>1, <2>2
<1>8. i = j
  BY <1>1, <1>2, <1>5, <1>7
<1> QED
  BY <1>6, <1>8

\* What can follow a host without becoming a part of it.
Delimits(t) == t = <<>> \/ t[1] \in Ends

LEMMA BeforeDelimited ==
  ASSUME NEW s \in Text, NEW t \in Text, Delimits(t) \/ ~HasNone(s, Ends)
  PROVE  Before(s \o t, Ends) = Before(s, Ends)
<1>1. CASE ~HasNone(s, Ends)
  BY <1>1, BeforeKept
<1>2. CASE HasNone(s, Ends) /\ t = <<>>
  <2>1. s \o <<>> = s
    BY ConcatEmptySeq DEF Text
  <2> QED
    BY <2>1, <1>2
<1>3. CASE HasNone(s, Ends) /\ t # <<>> /\ t[1] \in Ends
  <2>1. Len(t) \in Nat /\ Len(t) >= 1 /\ t \in Seq(Byte) /\ s \in Seq(Byte)
    BY <1>3 DEF Text
  <2>2. FirstOf(t, Ends) = 1
    <3>1. 1 \in 1..(Len(t) + 1)
      BY <2>1
    <3>2. \A k \in 1..(1 - 1) : t[k] \notin Ends
      OBVIOUS
    <3> QED
      BY <3>1, <3>2, <1>3, FirstOfUnique
  <2>3. SubSeq(t, 1, 1 - 1) = <<>>
    BY <2>1
  <2>4. Before(t, Ends) = <<>>
    BY <2>2, <2>3 DEF Before
  <2>5. Before(s \o t, Ends) = s \o Before(t, Ends)
    BY <1>3, AfterSkips
  <2>6. s \o <<>> = s /\ Before(s, Ends) = s
    BY <2>1, <1>3, ConcatEmptySeq, BeforeIs
  <2> QED
    BY <2>4, <2>5, <2>6
<1> QED
  BY <1>1, <1>2, <1>3 DEF Delimits

\* The server is named before the path, the query and the fragment.
LEMMA ServerConcat ==
  ASSUME NEW u \in Text, NEW i, SchemeAt(u, i), NEW t \in Text,
         Delimits(t) \/ \E k \in (i + 3)..Len(u) : u[k] \in Ends
  PROVE  SchemeAt(u \o t, i) /\ Server(u \o t) = Server(u)
<1> DEFINE v == u \o t
           r == SubSeq(u, i + 3, Len(u))
<1>1. /\ v \in Text /\ Len(u) \in Nat /\ Len(t) \in Nat /\ Len(v) = Len(u) + Len(t)
      /\ \A k \in 1..Len(u) : v[k] = u[k]
      /\ DOMAIN u = 1..Len(u) /\ DOMAIN v = 1..Len(v) /\ u \in Seq(Byte) /\ t \in Seq(Byte)
  <2>1. u \in Seq(Byte) /\ t \in Seq(Byte)
    BY DEF Text
  <2>2. /\ v \in Seq(Byte) /\ Len(u) \in Nat /\ Len(t) \in Nat /\ Len(v) = Len(u) + Len(t)
        /\ \A k \in 1..Len(u) : v[k] = u[k]
    BY <2>1, ConcatIs
  <2> HIDE DEF v
  <2> QED
    BY <2>1, <2>2 DEF Text
<1>2. /\ i \in 1..Len(u) /\ i + 2 <= Len(u) /\ IsSchemeEnd(u, i)
      /\ \A k \in 1..(i - 1) : u[k] \notin Ends
  BY <1>1 DEF SchemeAt, IsSchemeEnd
<1> HIDE DEF v
<1>3. SchemeAt(v, i)
  <2>1. i \in DOMAIN v /\ i + 2 <= Len(v)
    BY <1>1, <1>2
  <2>2. v[i] = u[i] /\ v[i + 1] = u[i + 1] /\ v[i + 2] = u[i + 2]
    <3>1. i + 1 \in 1..Len(u) /\ i + 2 \in 1..Len(u)
      BY <1>1, <1>2
    <3> QED
      BY <3>1, <1>1, <1>2
  <2>3. \A k \in 1..(i - 1) : k \in 1..Len(u)
    BY <1>1, <1>2
  <2> QED
    BY <2>1, <2>2, <2>3, <1>1, <1>2 DEF SchemeAt, IsSchemeEnd
<1>4. SubSeq(v, 1, i - 1) = SubSeq(u, 1, i - 1)
  BY <1>1, <1>2 DEF v
<1>5. i + 2 \in 0..Len(u) /\ (i + 2) + 1 = i + 3
  BY <1>1, <1>2
<1>6. SubSeq(v, i + 3, Len(v)) = r \o t
  <2>1. SubSeq(u \o t, (i + 2) + 1, Len(u \o t)) = SubSeq(u, (i + 2) + 1, Len(u)) \o t
    BY <1>1, <1>5, SuffixConcat
  <2> QED
    BY <2>1, <1>5 DEF v
<1>7. /\ r \in Text /\ Len(r) = Len(u) - (i + 2)
      /\ \A k \in 1..(Len(u) - (i + 2)) : r[k] = u[(i + 2) + k]
  <2>1. /\ SubSeq(u, (i + 2) + 1, Len(u)) \in Seq(Byte)
        /\ Len(SubSeq(u, (i + 2) + 1, Len(u))) = Len(u) - (i + 2)
        /\ \A k \in 1..(Len(u) - (i + 2)) : SubSeq(u, (i + 2) + 1, Len(u))[k] = u[(i + 2) + k]
    BY <1>1, <1>5, SuffixIs
  <2> QED
    BY <2>1, <1>5 DEF Text
<1> HIDE DEF r
<1>8. ASSUME NEW k \in (i + 3)..Len(u), u[k] \in Ends PROVE ~HasNone(r, Ends)
  <2>1. k - (i + 2) \in 1..(Len(u) - (i + 2)) /\ (i + 2) + (k - (i + 2)) = k
    BY <1>1, <1>2
  <2>2. r[k - (i + 2)] = u[(i + 2) + (k - (i + 2))] /\ DOMAIN r = 1..Len(r)
    BY <2>1, <1>7 DEF Text
  <2>3. r[k - (i + 2)] \in Ends /\ k - (i + 2) \in DOMAIN r
    BY <2>1, <2>2, <1>7, <1>8
  <2> QED
    BY <2>3 DEF HasNone
<1>9. Before(r \o t, Ends) = Before(r, Ends)
  BY <1>7, <1>8, BeforeDelimited
<1>10. Server(v) = <<SubSeq(v, 1, i - 1), Before(SubSeq(v, i + 3, Len(v)), Ends)>>
  BY <1>1, <1>3, ServerIs
<1>11. Server(u) = <<SubSeq(u, 1, i - 1), Before(r, Ends)>>
  BY ServerIs DEF r
<1>12. Server(v) = Server(u)
  BY <1>4, <1>6, <1>9, <1>10, <1>11
<1> QED
  BY <1>3, <1>12 DEF v

LEMMA SchemeIs ==
  ASSUME NEW u \in Text
  PROVE  HasScheme(u) <=> \E i : SchemeAt(u, i)
BY DEF HasScheme, SchemeAt

LEMMA AppendQueryServer ==
  ASSUME NEW u \in Text, HasScheme(u), NEW query \in Text
  PROVE  Server(AppendQuery(u, query)) = Server(u)
<1>1. PICK i : SchemeAt(u, i)
  BY SchemeIs
<1>2. query \in Seq(Byte) /\ u \in Seq(Byte) /\ DOMAIN u = 1..Len(u) /\ Len(u) \in Nat
  BY DEF Text
<1>3. CASE query = <<>>
  BY <1>3, AppendQueryIs
<1>4. CASE query # <<>> /\ HasNone(u, {QuestionMark})
  <2> DEFINE mark == <<QuestionMark>>
  <2>1. mark \in Seq(Byte) /\ mark \o query \in Text /\ (mark \o query)[1] = QuestionMark
    BY <1>2 DEF QuestionMark, Byte, Text
  <2>2. AppendQuery(u, query) = (u \o mark) \o query
    BY <1>4, AppendQueryIs
  <2>3. Delimits(mark \o query)
    BY <2>1 DEF Delimits, Ends
  <2> HIDE DEF mark
  <2>4. (u \o mark) \o query = u \o (mark \o query)
    BY <1>2, <2>1, ConcatAssoc
  <2> QED
    BY <2>1, <2>2, <2>3, <2>4, <1>1, ServerConcat
<1>5. CASE query # <<>> /\ ~HasNone(u, {QuestionMark})
  <2> DEFINE amp == <<Ampersand>>
  <2>1. amp \in Seq(Byte)
    BY DEF Ampersand, Byte
  <2>2. AppendQuery(u, query) = (u \o amp) \o query
    BY <1>5, AppendQueryIs
  <2> HIDE DEF amp
  <2>3. (u \o amp) \o query = u \o (amp \o query) /\ amp \o query \in Text
    BY <1>2, <2>1, ConcatAssoc, ConcatIs DEF Text
  <2>4. PICK k \in 1..Len(u) : u[k] = QuestionMark
    BY <1>2, <1>5 DEF HasNone
  <2>5. k \in (i + 3)..Len(u)
    <3>1. /\ i \in 1..Len(u) /\ u[i] = Colon /\ u[i + 1] = Slash /\ u[i + 2] = Slash
          /\ \A l \in 1..(i - 1) : u[l] \notin Ends
      BY <1>1, <1>2 DEF SchemeAt, IsSchemeEnd
    <3>2. k # i /\ k # i + 1 /\ k # i + 2
      BY <2>4, <3>1 DEF Colon, Slash, QuestionMark
    <3>3. k \notin 1..(i - 1)
      BY <2>4, <3>1 DEF Ends
    <3> QED
      BY <3>1, <3>2, <3>3, <1>2
  <2>6. \E l \in (i + 3)..Len(u) : u[l] \in Ends
    BY <2>4, <2>5 DEF Ends
  <2> QED
    BY <2>2, <2>3, <2>6, <1>1, ServerConcat
<1> QED
  BY <1>3, <1>4, <1>5

\* JoinUrl takes off no slash of "://" from a base URL that names a host, and what
\* it appends comes after the host.
LEMMA JoinServer ==
  ASSUME NEW base \in Text, HasScheme(base), Server(base)[2] # <<>>,
         NEW path \in Text, ~IsAbsoluteUrl(path)
  PROVE  /\ JoinUrl(base, path) \in Text /\ HasScheme(JoinUrl(base, path))
         /\ Server(JoinUrl(base, path)) = Server(base)
<1>1. PICK i : SchemeAt(base, i)
  BY SchemeIs
<1>2. /\ base \in Seq(Byte) /\ DOMAIN base = 1..Len(base) /\ Len(base) \in Nat
      /\ i \in 1..Len(base) /\ i + 2 <= Len(base)
      /\ base[i] = Colon /\ base[i + 1] = Slash /\ base[i + 2] = Slash
      /\ \A l \in 1..(i - 1) : base[l] \notin Ends
  BY <1>1 DEF Text, SchemeAt, IsSchemeEnd
<1>3. PICK n \in 0..Len(base) : /\ WithoutSlashes(base) = SubSeq(base, 1, n)
                                /\ \A k \in (n + 1)..Len(base) : base[k] = Slash
  BY WithoutSlashesIs
<1> DEFINE w == SubSeq(base, 1, n)
           z == SubSeq(base, n + 1, Len(base))
           x == Rest(path)
<1>4. n >= i + 3
  <2> SUFFICES ASSUME n < i + 3 PROVE FALSE
    BY <1>2
  <2> DEFINE r == SubSeq(base, i + 3, Len(base))
  <2>1. Before(r, Ends) # <<>>
    BY <1>1, ServerIs
  <2>2. i + 2 \in 0..Len(base) /\ (i + 2) + 1 = i + 3
    BY <1>2
  <2>3. /\ SubSeq(base, (i + 2) + 1, Len(base)) \in Seq(Byte)
        /\ Len(SubSeq(base, (i + 2) + 1, Len(base))) = Len(base) - (i + 2)
        /\ \A k \in 1..(Len(base) - (i + 2)) :
             SubSeq(base, (i + 2) + 1, Len(base))[k] = base[(i + 2) + k]
    BY <1>2, <2>2, SuffixIs
  <2>4. /\ r \in Text /\ Len(r) = Len(base) - (i + 2)
        /\ \A k \in 1..(Len(base) - (i + 2)) : r[k] = base[(i + 2) + k]
    BY <2>2, <2>3 DEF Text
  <2> HIDE DEF r
  <2>5. Delimits(r)
    <3>1. CASE Len(base) = i + 2
      BY <3>1, <2>4, <1>2 DEF Delimits, Text
    <3>2. CASE Len(base) > i + 2
      <4>1. 1 \in 1..(Len(base) - (i + 2)) /\ (i + 2) + 1 \in (n + 1)..Len(base)
        BY <3>2, <1>2
      <4>2. r[1] = Slash
        BY <4>1, <2>4, <1>3
      <4> QED
        BY <4>2 DEF Delimits, Ends
    <3>3. Len(base) = i + 2 \/ Len(base) > i + 2
      <4>1. i \in Int /\ Len(base) \in Int /\ i + 2 <= Len(base)
        BY <1>2
      <4> QED
        BY <4>1
    <3> QED
      BY <3>1, <3>2, <3>3
  <2>6. Before(<<>> \o r, Ends) = Before(<<>>, Ends) /\ <<>> \o r = r /\ Before(<<>>, Ends) = <<>>
    <3>1. <<>> \in Text /\ HasNone(<<>>, Ends)
      BY DEF Text, HasNone
    <3>2. <<>> \o r = r
      BY <2>4, ConcatEmptySeq DEF Text
    <3> QED
      BY <3>1, <3>2, <2>4, <2>5, BeforeDelimited, BeforeIs
  <2> QED
    BY <2>1, <2>6
<1>5. /\ w \in Text /\ Len(w) = n /\ \A k \in 1..n : w[k] = base[k]
  BY <1>2 DEF Text
<1>6. z \in Text /\ Delimits(z)
  <2>1. z \in Seq(Byte) /\ Len(z) = Len(base) - n /\ \A k \in 1..(Len(base) - n) : z[k] = base[n + k]
    BY <1>2, SuffixIs
  <2> HIDE DEF z
  <2>2. CASE n = Len(base)
    BY <2>1, <2>2, <1>2 DEF Delimits, Text
  <2>3. CASE n < Len(base)
    <3>1. 1 \in 1..(Len(base) - n) /\ n + 1 \in (n + 1)..Len(base)
      BY <2>3, <1>2
    <3>2. z[1] = Slash
      BY <3>1, <2>1, <1>3
    <3> QED
      BY <3>2, <2>1 DEF Delimits, Ends, Text
  <2>4. n = Len(base) \/ n < Len(base)
    <3>1. n \in Int /\ Len(base) \in Int /\ n <= Len(base)
      BY <1>2
    <3> QED
      BY <3>1
  <2>5. z \in Text
    BY <2>1 DEF Text
  <2> QED
    BY <2>2, <2>3, <2>4, <2>5
<1>7. base = w \o z
  BY <1>2, SplitAt
<1> HIDE DEF w, z
<1>8. SchemeAt(w, i)
  <2>1. i \in 1..n /\ i + 1 \in 1..n /\ i + 2 \in 1..n /\ \A l \in 1..(i - 1) : l \in 1..n
    BY <1>2, <1>4
  <2>2. DOMAIN w = 1..n /\ i + 2 <= n
    BY <1>4, <1>5, <1>2 DEF Text
  <2> QED
    BY <2>1, <2>2, <1>2, <1>5 DEF SchemeAt, IsSchemeEnd
<1>9. Server(base) = Server(w)
  BY <1>5, <1>6, <1>7, <1>8, ServerConcat
<1>10. x \in Text /\ Delimits(x)
  BY RestIs DEF Delimits, Ends
<1> HIDE DEF x
<1>11. SchemeAt(w \o x, i) /\ Server(w \o x) = Server(w) /\ w \o x \in Text
  BY <1>5, <1>8, <1>10, ServerConcat, ConcatIs DEF Text
<1>12. JoinUrl(base, path) = w \o x
  <2>1. base # <<>>
    BY <1>2
  <2> QED
    BY <2>1, <1>3 DEF JoinUrl, Rest, w, x
<1> QED
  BY <1>9, <1>11, <1>12, SchemeIs

----------------------------------------------------------------------------
(* The invariant *)

RequestType ==
  [state : {"none", "building", "sent"}, base : Text, path : Text, query : Text,
   formFields : Pairs, url : Text, body : Text]

\* The query is what a form with the parameters as its fields would be, and what was
\* sent is what Send made of the request.
UrlInvariant ==
  /\ baseUrl \in BaseUrls
  /\ request \in RequestType
  /\ params \in Pairs /\ fields \in Pairs
  /\ request.query = BuildFormBody(params)
  /\ request.formFields = fields
  /\ request.state = "sent" =>
       /\ request.url = AppendQuery(JoinUrl(request.base, request.path), request.query)
       /\ request.body = BuildFormBody(request.formFields)

LEMMA InputsAreText ==
  BaseUrls \subseteq Text /\ Paths \subseteq Text /\ Names \subseteq Text /\ Values \subseteq Text
BY RequestUrlAssumption DEF Text

LEMMA JoinType ==
  ASSUME NEW base \in Text, NEW path \in Text
  PROVE  JoinUrl(base, path) \in Text
<1>1. PICK n \in 0..Len(base) : WithoutSlashes(base) = SubSeq(base, 1, n)
  BY WithoutSlashesIs
<1>2. WithoutSlashes(base) \in Seq(Byte) /\ Rest(path) \in Seq(Byte)
  BY <1>1, RestIs DEF Text
<1>3. WithoutSlashes(base) \o Rest(path) \in Text
  BY <1>2, ConcatIs DEF Text
<1> QED
  BY <1>3 DEF JoinUrl, Rest

LEMMA AppendQueryType ==
  ASSUME NEW url \in Text, NEW query \in Text
  PROVE  AppendQuery(url, query) \in Text
<1>1. Ampersand \in Byte /\ QuestionMark \in Byte
  BY DEF Ampersand, QuestionMark, Byte
<1>2. (url \o <<Ampersand>>) \o query \in Text /\ (url \o <<QuestionMark>>) \o query \in Text
  BY <1>1 DEF Text
<1> QED
  BY <1>2, AppendQueryIs

LEMMA NoRequestType == NoRequest \in RequestType /\ <<>> \in Pairs
<1>1. <<>> \in Text /\ <<>> \in Pairs
  BY DEF Text, Pairs
<1> QED
  BY <1>1 DEF NoRequest, RequestType

LEMMA InitUrlInvariant == Init => UrlInvariant
<1> SUFFICES ASSUME Init PROVE UrlInvariant
  OBVIOUS
<1>1. request = NoRequest /\ params = <<>> /\ fields = <<>> /\ baseUrl \in BaseUrls
  BY DEF Init
<1>2. NoRequest.query = <<>> /\ NoRequest.formFields = <<>> /\ NoRequest.state = "none"
  BY DEF NoRequest
<1> QED
  BY <1>1, <1>2, NoRequestType, FormEmpty DEF UrlInvariant

LEMMA PathUrlInvariant ==
  ASSUME UrlInvariant, NEW path \in Paths, Client_Request(path)
  PROVE  UrlInvariant'
<1> DEFINE r == [NoRequest EXCEPT !.state = "building", !.base = baseUrl, !.path = path]
<1>1. request' = r /\ params' = <<>> /\ fields' = <<>> /\ baseUrl' = baseUrl
  BY DEF Client_Request
<1>2. baseUrl \in Text /\ path \in Text /\ baseUrl \in BaseUrls
  BY InputsAreText DEF UrlInvariant
<1>3. r \in RequestType
  BY <1>2, NoRequestType DEF RequestType
<1>4. r.query = <<>> /\ r.formFields = <<>> /\ r.state = "building"
  BY DEF NoRequest
<1> HIDE DEF r
<1> QED
  BY <1>1, <1>2, <1>3, <1>4, NoRequestType, FormEmpty DEF UrlInvariant

LEMMA QueryUrlInvariant ==
  ASSUME UrlInvariant, NEW name \in Names, NEW value \in Values, SetQuery(name, value)
  PROVE  UrlInvariant'
<1> DEFINE f == <<name, value>>
           r == [request EXCEPT !.query = WithPair(request.query, name, value)]
<1>1. request' = r /\ params' = Append(params, f) /\ fields' = fields /\ baseUrl' = baseUrl
  BY DEF SetQuery
<1>2. name \in Text /\ value \in Text /\ f \in Text \X Text /\ f[1] = name /\ f[2] = value
  BY InputsAreText
<1>3. /\ baseUrl \in BaseUrls /\ request \in RequestType /\ params \in Pairs /\ fields \in Pairs
      /\ request.query = BuildFormBody(params) /\ request.formFields = fields
  BY DEF UrlInvariant
<1>4. request.state = "building"
  BY DEF SetQuery, CanCall
<1> HIDE DEF f
<1>5. BuildFormBody(Append(params, f)) = WithPair(request.query, name, value)
  BY <1>2, <1>3, FormAppend
<1>6. WithPair(request.query, name, value) \in Text
  BY <1>2, <1>3, WithPairType DEF RequestType
<1>7. /\ r \in RequestType /\ r.query = WithPair(request.query, name, value)
      /\ r.formFields = request.formFields /\ r.state = "building"
  BY <1>3, <1>4, <1>6 DEF RequestType
<1>8. Append(params, f) \in Pairs
  BY <1>2, <1>3 DEF Pairs
<1> HIDE DEF r
<1> QED
  BY <1>1, <1>3, <1>5, <1>7, <1>8 DEF UrlInvariant

LEMMA FieldUrlInvariant ==
  ASSUME UrlInvariant, NEW name \in Names, NEW value \in Values, AddFormField(name, value)
  PROVE  UrlInvariant'
<1> DEFINE f == <<name, value>>
           r == [request EXCEPT !.formFields = Append(request.formFields, f)]
<1>1. request' = r /\ fields' = Append(fields, f) /\ params' = params /\ baseUrl' = baseUrl
  BY DEF AddFormField
<1>2. f \in Text \X Text
  BY InputsAreText
<1>3. /\ baseUrl \in BaseUrls /\ request \in RequestType /\ params \in Pairs /\ fields \in Pairs
      /\ request.query = BuildFormBody(params) /\ request.formFields = fields
  BY DEF UrlInvariant
<1>4. request.state = "building"
  BY DEF AddFormField, CanCall
<1> HIDE DEF f
<1>5. Append(fields, f) \in Pairs
  BY <1>2, <1>3 DEF Pairs
<1>6. /\ r \in RequestType /\ r.query = request.query /\ r.formFields = Append(fields, f)
      /\ r.state = "building"
  BY <1>3, <1>4, <1>5 DEF RequestType
<1> HIDE DEF r
<1> QED
  BY <1>1, <1>3, <1>5, <1>6 DEF UrlInvariant

LEMMA SendUrlInvariant ==
  ASSUME UrlInvariant, Send
  PROVE  UrlInvariant'
<1> DEFINE join == JoinUrl(request.base, request.path)
           url == AppendQuery(join, request.query)
           body == BuildFormBody(request.formFields)
           r == [request EXCEPT !.state = "sent", !.url = url, !.body = body]
<1>1. request' = r /\ params' = params /\ fields' = fields /\ baseUrl' = baseUrl
  BY DEF Send
<1>2. /\ baseUrl \in BaseUrls /\ request \in RequestType /\ params \in Pairs /\ fields \in Pairs
      /\ request.query = BuildFormBody(params) /\ request.formFields = fields
  BY DEF UrlInvariant
<1>3. request.base \in Text /\ request.path \in Text /\ request.query \in Text
  BY <1>2 DEF RequestType
<1>4. url \in Text /\ body \in Text
  BY <1>2, <1>3, JoinType, AppendQueryType, FormRead
<1>5. r \in RequestType
  <2> HIDE DEF url, body
  <2> QED
    BY <1>2, <1>4 DEF RequestType
<1>6. /\ r.query = request.query /\ r.formFields = request.formFields
      /\ r.base = request.base /\ r.path = request.path /\ r.url = url /\ r.body = body
  <2> HIDE DEF url, body
  <2> QED
    BY <1>2 DEF RequestType
<1> HIDE DEF r
<1> QED
  BY <1>1, <1>2, <1>5, <1>6 DEF UrlInvariant

LEMMA NextUrlInvariant == UrlInvariant /\ [Next]_vars => UrlInvariant'
<1> SUFFICES ASSUME UrlInvariant, [Next]_vars PROVE UrlInvariant'
  OBVIOUS
<1>1. ASSUME NEW url \in BaseUrls, SetBaseUrl(url) PROVE UrlInvariant'
  BY <1>1 DEF SetBaseUrl, UrlInvariant
<1>2. ASSUME NEW path \in Paths, Client_Request(path) PROVE UrlInvariant'
  BY <1>2, PathUrlInvariant
<1>3. ASSUME NEW name \in Names, NEW value \in Values, SetQuery(name, value) PROVE UrlInvariant'
  BY <1>3, QueryUrlInvariant
<1>4. ASSUME NEW name \in Names, NEW value \in Values, AddFormField(name, value)
      PROVE  UrlInvariant'
  BY <1>4, FieldUrlInvariant
<1>5. ASSUME Send PROVE UrlInvariant'
  BY <1>5, SendUrlInvariant
<1>6. ASSUME FreeRequest PROVE UrlInvariant'
  <2>1. request' = NoRequest /\ params' = <<>> /\ fields' = <<>> /\ baseUrl' = baseUrl
    BY <1>6 DEF FreeRequest
  <2>2. NoRequest.query = <<>> /\ NoRequest.formFields = <<>> /\ NoRequest.state = "none"
    BY DEF NoRequest
  <2> QED
    BY <2>1, <2>2, NoRequestType, FormEmpty DEF UrlInvariant
<1>7. ASSUME UNCHANGED vars PROVE UrlInvariant'
  BY <1>7 DEF vars, UrlInvariant
<1> QED
  BY <1>1, <1>2, <1>3, <1>4, <1>5, <1>6, <1>7 DEF Next

\* Every state of a request satisfies the invariant: the query holds the parameters of
\* SetQuery in the order of the calls, and the URL and the body are made from what the
\* request was given (natives.cpp, uri.cpp).
THEOREM UrlInvariantHolds == Spec => []UrlInvariant
<1> QED
  BY InitUrlInvariant, NextUrlInvariant, PTL DEF Spec

LEMMA InvariantReadBack == UrlInvariant => ReadBack
<1> SUFFICES ASSUME UrlInvariant, request.state = "sent" PROVE ReadBack
  BY DEF ReadBack, Sent
<1>1. /\ request \in RequestType /\ params \in Pairs /\ fields \in Pairs
      /\ request.query = BuildFormBody(params) /\ request.formFields = fields
      /\ request.url = AppendQuery(JoinUrl(request.base, request.path), request.query)
      /\ request.body = BuildFormBody(request.formFields)
  BY DEF UrlInvariant
<1>2. request.base \in Text /\ request.path \in Text
  BY <1>1 DEF RequestType
<1>3. ReadPairs(request.body) = fields
  BY <1>1, FormRead DEF ReadAs
<1>4. ASSUME HasNone(request.base, {QuestionMark, Hash}), HasNone(request.path, {Hash})
      PROVE  ReadQuery(request.url) = ReadQuery(request.path) \o params
  <2> DEFINE join == JoinUrl(request.base, request.path)
  <2>1. join \in Text /\ HasNone(join, {Hash}) /\ ReadQuery(join) = ReadQuery(request.path)
    BY <1>2, <1>4, JoinRead
  <2> HIDE DEF join
  <2>2. ReadQuery(AppendQuery(join, BuildFormBody(params))) = ReadQuery(join) \o params
    BY <1>1, <2>1, AppendQueryRead
  <2> QED
    BY <1>1, <2>1, <2>2 DEF join
<1> QED
  BY <1>3, <1>4 DEF ReadBack

\* A server reads out of a form the fields it was given, and out of a URL the parameters
\* of the path and then those of SetQuery, whatever bytes their names and values have.
THEOREM ReadBackHolds == Spec => []ReadBack
<1> QED
  BY UrlInvariantHolds, InvariantReadBack, PTL

LEMMA InvariantServerKept == UrlInvariant => ServerKept
<1> SUFFICES ASSUME UrlInvariant, request.state = "sent" PROVE ServerKept
  BY DEF ServerKept, Sent
<1> DEFINE join == JoinUrl(request.base, request.path)
<1>1. /\ request \in RequestType /\ params \in Pairs
      /\ request.query \in Text /\ request.base \in Text /\ request.path \in Text
      /\ request.url = AppendQuery(join, request.query)
  BY DEF UrlInvariant, RequestType
<1>2. ASSUME HasScheme(request.path) PROVE Server(request.url) = Server(request.path)
  <2>1. IsAbsoluteUrl(request.path)
    BY <1>2 DEF HasScheme, IsAbsoluteUrl
  <2>2. join = request.path
    BY <2>1 DEF JoinUrl
  <2> QED
    BY <1>1, <1>2, <2>2, AppendQueryServer
<1>3. ASSUME ~IsAbsoluteUrl(request.path), HasScheme(request.base), Server(request.base)[2] # <<>>
      PROVE  Server(request.url) = Server(request.base)
  <2>1. join \in Text /\ HasScheme(join) /\ Server(join) = Server(request.base)
    BY <1>1, <1>3, JoinServer
  <2> HIDE DEF join
  <2> QED
    BY <1>1, <2>1, AppendQueryServer
<1> QED
  BY <1>2, <1>3 DEF ServerKept

\* A request goes to the server its path names, or to that of the base URL its client
\* had, whatever the path and the parameters are.
THEOREM ServerKeptHolds == Spec => []ServerKept
<1> QED
  BY UrlInvariantHolds, InvariantServerKept, PTL
=============================================================================
