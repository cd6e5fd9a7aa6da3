------------------------- MODULE RequestConfigProofs -------------------------
(***************************************************************************)
(* What libcurl is told is what the calls asked for, for any calls in any  *)
(* order, any number of them and of attempts, and any names of headers.    *)
(***************************************************************************)
EXTENDS RequestConfig, TLAPS, WellFoundedInduction, FiniteSetTheorems, SequenceTheorems

----------------------------------------------------------------------------
(* Selecting from a sequence *)

\* How many of I are not after i.
Rank(I, i) == Cardinality({k \in I : k <= i})

LEMMA Finite ==
  ASSUME NEW n \in Nat, NEW I \in SUBSET (1..n)
  PROVE  IsFiniteSet(I) /\ Cardinality(I) \in Nat
<1>1. IsFiniteSet(1..n)
  BY FS_Interval
<1> QED
  BY <1>1, FS_Subset, FS_CardinalityType

LEMMA RankGrows ==
  ASSUME NEW n \in Nat, NEW I \in SUBSET (1..n)
  PROVE  /\ \A i \in I : Rank(I, i) \in 1..Cardinality(I)
         /\ \A i, k \in I : i < k => Rank(I, i) < Rank(I, k)
<1> DEFINE UpTo(i) == {k \in I : k <= i}
<1>0. \A i \in I : i \in Int
  OBVIOUS
<1>1. \A i \in I : UpTo(i) \in SUBSET I /\ UpTo(i) \in SUBSET (1..n) /\ i \in UpTo(i)
  <2> TAKE i \in I
  <2>1. i <= i
    BY <1>0
  <2> QED
    BY <2>1
<1>2. \A i \in I : /\ IsFiniteSet(UpTo(i)) /\ Cardinality(UpTo(i)) \in Nat
                   /\ Cardinality(UpTo(i)) <= Cardinality(I) /\ Cardinality(UpTo(i)) # 0
  <2> TAKE i \in I
  <2> HIDE DEF UpTo
  <2>1. IsFiniteSet(UpTo(i)) /\ Cardinality(UpTo(i)) \in Nat
    BY <1>1, Finite
  <2>2. Cardinality(UpTo(i)) <= Cardinality(I)
    BY <1>1, Finite, FS_Subset
  <2>3. UpTo(i) # {}
    BY <1>1
  <2> QED
    BY <2>1, <2>2, <2>3, FS_EmptySet
<1>3. ASSUME NEW i \in I, NEW k \in I, i < k
      PROVE  Cardinality(UpTo(i)) < Cardinality(UpTo(k))
  <2>0. \A x \in I : x <= i => x <= k
    BY <1>0, <1>3
  <2>1. UpTo(i) \in SUBSET UpTo(k)
    BY <2>0
  <2>2. ~ (k <= i) /\ k \in UpTo(k)
    BY <1>0, <1>1, <1>3
  <2> HIDE DEF UpTo
  <2>3. UpTo(i) # UpTo(k)
    BY <2>2 DEF UpTo
  <2>4. /\ Cardinality(UpTo(i)) <= Cardinality(UpTo(k))
        /\ Cardinality(UpTo(i)) # Cardinality(UpTo(k))
    BY <1>2, <2>1, <2>3, FS_Subset
  <2> QED
    BY <1>2, <2>4
<1>4. \A i \in I : Rank(I, i) = Cardinality(UpTo(i))
  BY DEF Rank
<1>5. Cardinality(I) \in Nat
  BY Finite
<1> HIDE DEF UpTo
<1> QED
  BY <1>2, <1>3, <1>4, <1>5

\* The ranks are all the numbers there are.
LEMMA RankReaches ==
  ASSUME NEW n \in Nat, NEW I \in SUBSET (1..n), NEW m \in 1..Cardinality(I)
  PROVE  \E i \in I : Rank(I, i) = m
<1> DEFINE T == 1..Cardinality(I)
           f == [i \in I |-> Rank(I, i)]
<1>1. IsFiniteSet(I) /\ Cardinality(I) \in Nat
  BY Finite
<1>2. IsFiniteSet(T) /\ Cardinality(T) = Cardinality(I)
  BY <1>1, FS_Interval
<1>3. f \in [I -> T]
  BY RankGrows
<1>4. \A i, k \in I : i # k => f[i] # f[k]
  <2> TAKE i, k \in I
  <2>1. i < k \/ k < i \/ i = k
    OBVIOUS
  <2>2. Rank(I, i) \in Int /\ Rank(I, k) \in Int
    <3>1. \A x \in I : Rank(I, x) \in 1..Cardinality(I)
      BY RankGrows
    <3> QED
      BY <1>1, <3>1
  <2>3. /\ i < k => Rank(I, i) < Rank(I, k)
        /\ k < i => Rank(I, k) < Rank(I, i)
    BY RankGrows
  <2> QED
    BY <2>1, <2>2, <2>3
<1> HIDE DEF f, T
<1>5. f \in Injection(I, T)
  BY <1>3, <1>4 DEF Injection, IsInjective
<1>6. f \in Surjection(I, T)
  BY <1>1, <1>2, <1>5, FS_Injection
<1>7. \A t \in T : \E i \in I : f[i] = t
  BY <1>6 DEF Surjection
<1> QED
  BY <1>7 DEF f, T

LEMMA KeptIs ==
  ASSUME NEW S, NEW s \in Seq(S), NEW I \in SUBSET (1..Len(s))
  PROVE  /\ Kept(s, I) \in Seq(S) /\ Len(Kept(s, I)) = Cardinality(I)
         /\ DOMAIN Kept(s, I) = 1..Cardinality(I)
         /\ \A i \in I : Kept(s, I)[Rank(I, i)] = s[i]
<1>1. Len(s) \in Nat /\ \A i \in I : s[i] \in S
  OBVIOUS
<1>2. Cardinality(I) \in Nat
  BY <1>1, Finite
<1> DEFINE at(m) == CHOOSE i \in I : Rank(I, i) = m
<1>3. Kept(s, I) = [m \in 1..Cardinality(I) |-> s[at(m)]]
  BY DEF Kept, Rank
<1>4. \A m \in 1..Cardinality(I) : at(m) \in I /\ Rank(I, at(m)) = m
  <2> TAKE m \in 1..Cardinality(I)
  <2>1. \E i \in I : Rank(I, i) = m
    BY <1>1, RankReaches
  <2> QED
    BY <2>1
<1>5. ASSUME NEW i \in I
      PROVE  Rank(I, i) \in 1..Cardinality(I) /\ at(Rank(I, i)) = i
  <2>1. Rank(I, i) \in 1..Cardinality(I)
    BY <1>1, RankGrows
  <2>2. at(Rank(I, i)) \in I /\ Rank(I, at(Rank(I, i))) = Rank(I, i)
    BY <1>4, <2>1
  <2> DEFINE k == at(Rank(I, i))
  <2>3. k \in I /\ Rank(I, k) = Rank(I, i)
    BY <2>2
  <2> HIDE DEF k
  <2>4. Rank(I, k) \in Int /\ k \in Int /\ i \in Int
    BY <2>3, <1>1, <1>2, <2>1
  <2>5. ~ (k < i) /\ ~ (i < k)
    <3>1. \A x, y \in I : x < y => Rank(I, x) < Rank(I, y)
      BY <1>1, RankGrows
    <3> QED
      BY <2>3, <2>4, <3>1
  <2>6. k = i
    BY <2>4, <2>5
  <2> QED
    BY <2>1, <2>6 DEF k
<1> HIDE DEF at
<1>6. Kept(s, I) \in [1..Cardinality(I) -> S]
  BY <1>1, <1>3, <1>4
<1>7. Kept(s, I) \in Seq(S) /\ Len(Kept(s, I)) = Cardinality(I)
  <2> DEFINE t == Kept(s, I)
             c == Cardinality(I)
  <2>1. t \in [1..c -> S] /\ c \in Nat
    BY <1>2, <1>6
  <2> HIDE DEF t, c
  <2>2. t \in Seq(S) /\ Len(t) = c
    BY <2>1
  <2> QED
    BY <2>2 DEF t, c
<1> QED
  BY <1>3, <1>5, <1>7

LEMMA KeptAppend ==
  ASSUME NEW S, NEW s \in Seq(S), NEW x \in S, NEW I \in SUBSET (1..Len(s))
  PROVE  /\ Kept(Append(s, x), I) = Kept(s, I)
         /\ Kept(Append(s, x), I \cup {Len(s) + 1}) = Append(Kept(s, I), x)
<1> DEFINE t == Append(s, x)
           n == Len(s)
           J == I \cup {n + 1}
           c == Cardinality(I)
<1>0. n \in Nat /\ I \in SUBSET (1..n) /\ \A i \in I : i \in 1..(n + 1) /\ i <= n + 1 /\ i # n + 1
  OBVIOUS
<1>1. /\ t \in Seq(S) /\ Len(t) = n + 1 /\ t[n + 1] = x
      /\ \A i \in I : t[i] = s[i]
      /\ J \in SUBSET (1..(n + 1)) /\ I \in SUBSET (1..(n + 1))
  <2>1. t \in Seq(S) /\ Len(t) = n + 1 /\ t[n + 1] = x
    OBVIOUS
  <2>2. \A i \in I : t[i] = s[i]
    BY <1>0
  <2> HIDE DEF n
  <2>3. n + 1 \in 1..(n + 1)
    BY <1>0
  <2>4. J \in SUBSET (1..(n + 1)) /\ I \in SUBSET (1..(n + 1))
    BY <1>0, <2>3
  <2> QED
    BY <2>1, <2>2, <2>4
<1> HIDE DEF t
<1>2. /\ Kept(s, I) \in Seq(S) /\ Len(Kept(s, I)) = c /\ DOMAIN Kept(s, I) = 1..c
      /\ \A i \in I : Kept(s, I)[Rank(I, i)] = s[i]
  BY KeptIs
<1>3. /\ Kept(t, I) \in Seq(S) /\ Len(Kept(t, I)) = c /\ DOMAIN Kept(t, I) = 1..c
      /\ \A i \in I : Kept(t, I)[Rank(I, i)] = t[i]
  <2> HIDE DEF n, J
  <2> QED
    BY <1>1, KeptIs
<1>4. /\ Kept(t, J) \in Seq(S) /\ Len(Kept(t, J)) = Cardinality(J)
      /\ DOMAIN Kept(t, J) = 1..Cardinality(J)
      /\ \A i \in J : Kept(t, J)[Rank(J, i)] = t[i]
  <2> HIDE DEF n, J
  <2> QED
    BY <1>1, KeptIs
<1>5. c \in Nat /\ Cardinality(J) = c + 1
  <2>1. IsFiniteSet(I) /\ c \in Nat /\ n + 1 \notin I
    BY <1>0, Finite
  <2> QED
    BY <2>1, FS_AddElement
<1>6. \A i \in I : Rank(J, i) = Rank(I, i)
  <2> TAKE i \in I
  <2>1. ~ (n + 1 <= i)
    BY <1>0
  <2>2. {k \in J : k <= i} = {k \in I : k <= i}
    BY <2>1
  <2> QED
    BY <2>2 DEF Rank
<1>7. Rank(J, n + 1) = c + 1
  <2>1. n + 1 <= n + 1
    BY <1>0
  <2>2. {k \in J : k <= n + 1} = J
    BY <1>0, <2>1
  <2> QED
    BY <1>5, <2>2 DEF Rank
<1>8. \A m \in 1..c : \E i \in I : Rank(I, i) = m
  BY <1>0, RankReaches
<1>9. Kept(t, I) = Kept(s, I)
  <2>1. \A m \in 1..c : Kept(t, I)[m] = Kept(s, I)[m]
    BY <1>1, <1>2, <1>3, <1>8
  <2> HIDE DEF c, n
  <2> QED
    BY <1>2, <1>3, <2>1
<1>10. Kept(t, J) = Append(Kept(s, I), x)
  <2> DEFINE a == Append(Kept(s, I), x)
             b == Kept(t, J)
             d == Kept(s, I)
  <2>1. \A m \in 1..c : b[m] = d[m]
    <3> TAKE m \in 1..c
    <3>1. PICK i \in I : Rank(I, i) = m
      BY <1>8
    <3>2. d[m] = s[i]
      BY <1>2, <3>1
    <3>3. i \in J /\ Rank(J, i) = m /\ t[i] = s[i]
      BY <1>1, <1>6, <3>1
    <3>4. b[m] = t[i]
      BY <1>4, <3>3
    <3> QED
      BY <3>2, <3>3, <3>4
  <2>2. b[c + 1] = x
    <3>1. n + 1 \in J
      OBVIOUS
    <3>2. b[Rank(J, n + 1)] = t[n + 1]
      BY <1>4, <3>1
    <3> QED
      BY <1>1, <1>7, <3>2
  <2>3. a \in Seq(S) /\ Len(a) = c + 1 /\ a[c + 1] = x /\ \A m \in 1..c : a[m] = d[m]
    <3> HIDE DEF c
    <3> QED
      BY <1>2, <1>5
  <2>4. b \in Seq(S) /\ Len(b) = c + 1
    BY <1>4, <1>5
  <2> HIDE DEF a, b, c, d
  <2>5. \A m \in 1..(c + 1) : a[m] = b[m]
    <3> TAKE m \in 1..(c + 1)
    <3>1. m \in 1..c \/ m = c + 1
      BY <1>5
    <3> QED
      BY <2>1, <2>2, <2>3, <3>1
  <2>6. a = b
    BY <2>3, <2>4, <2>5
  <2> QED
    BY <2>6 DEF a, b, d
<1> QED
  BY <1>9, <1>10 DEF t

----------------------------------------------------------------------------
(* The last of some calls *)

\* A set of numbers up to n has a greatest element: n less it is the least.
LEMMA Greatest ==
  ASSUME NEW n \in Nat, NEW S \in SUBSET (1..n), S # {}
  PROVE  \E i \in S : \A k \in S : k <= i
<1> DEFINE R == OpToRel(<, Nat)
           T == {n - i : i \in S}
<1>1. \A x \in Nat, y \in Nat : y < x => <<y, x>> \in R
  BY DEF OpToRel
<1>2. IsWellFoundedOn(R, Nat)
  BY NatLessThanWellFounded
<1>3. T \in SUBSET Nat /\ T # {}
  <2>1. \A i \in S : n - i \in Nat
    OBVIOUS
  <2>2. PICK i : i \in S
    OBVIOUS
  <2> QED
    BY <2>1, <2>2
<1> HIDE DEF R
<1>4. PICK x \in T : \A y \in T : ~ (<<y, x>> \in R)
  <2> HIDE DEF T
  <2> QED
    BY <1>2, <1>3, WFMin
<1>5. \A y \in T : ~ (y < x)
  BY <1>1, <1>3, <1>4
<1>6. PICK i \in S : x = n - i
  BY <1>4
<1>7. \A k \in S : ~ (n - k < n - i)
  BY <1>5, <1>6
<1>8. \A k \in S : k \in Int /\ i \in Int
  OBVIOUS
<1> QED
  BY <1>7, <1>8

LEMMA LastOfIs ==
  ASSUME NEW C, NEW s \in Seq(Calls), NEW i \in DOMAIN s, s[i] \in C,
         \A k \in (i + 1)..Len(s) : s[k] \notin C
  PROVE  LastOf(s, C) = <<s[i]>>
<1> DEFINE last == CHOOSE m \in DOMAIN s : s[m] \in C /\ \A k \in (m + 1)..Len(s) : s[k] \notin C
<1>1. last \in DOMAIN s /\ s[last] \in C /\ \A k \in (last + 1)..Len(s) : s[k] \notin C
  OBVIOUS
<1>2. LastOf(s, C) = <<s[last]>>
  BY DEF LastOf
<1> HIDE DEF last
<1>3. DOMAIN s = 1..Len(s) /\ Len(s) \in Nat
  OBVIOUS
<1>4. last = i
  BY <1>1, <1>3
<1> QED
  BY <1>2, <1>4

LEMMA LastOfNone ==
  ASSUME NEW C, NEW s, \A i \in DOMAIN s : s[i] \notin C
  PROVE  LastOf(s, C) = <<>>
BY DEF LastOf

LEMMA LastOfAppend ==
  ASSUME NEW C, NEW s \in Seq(Calls), NEW c \in Calls
  PROVE  LastOf(Append(s, c), C) = IF c \in C THEN <<c>> ELSE LastOf(s, C)
<1> DEFINE t == Append(s, c)
           n == Len(s)
<1>1. /\ t \in Seq(Calls) /\ n \in Nat /\ Len(t) = n + 1
      /\ DOMAIN t = 1..(n + 1) /\ DOMAIN s = 1..n
      /\ t[n + 1] = c /\ \A i \in 1..n : t[i] = s[i]
  OBVIOUS
<1> HIDE DEF t, n
<1>2. ASSUME c \in C PROVE LastOf(t, C) = <<c>>
  <2>1. n + 1 \in DOMAIN t /\ \A k \in (n + 1 + 1)..Len(t) : t[k] \notin C
    BY <1>1
  <2> QED
    BY <1>1, <1>2, <2>1, LastOfIs
<1>3. ASSUME c \notin C PROVE LastOf(t, C) = LastOf(s, C)
  <2> DEFINE S == {i \in 1..n : s[i] \in C}
  <2>1. CASE S = {}
    <3>1. \A i \in DOMAIN s : s[i] \notin C
      BY <1>1, <2>1
    <3>2. \A i \in DOMAIN t : t[i] \notin C
      <4> TAKE i \in DOMAIN t
      <4>1. i \in 1..n \/ i = n + 1
        BY <1>1
      <4> QED
        BY <1>1, <1>3, <3>1, <4>1
    <3> QED
      BY <3>1, <3>2, LastOfNone
  <2>2. CASE S # {}
    <3>1. PICK i \in S : \A k \in S : k <= i
      <4>1. S \in SUBSET (1..n)
        OBVIOUS
      <4> HIDE DEF S
      <4> QED
        BY <1>1, <2>2, <4>1, Greatest
    <3>2. i \in 1..n /\ s[i] \in C /\ t[i] = s[i]
      BY <1>1, <3>1
    <3>3. \A k \in (i + 1)..n : k \in 1..n /\ ~ (k <= i)
      BY <1>1, <3>2
    <3>4. \A k \in (i + 1)..n : s[k] \notin C
      BY <3>1, <3>3
    <3>5. \A k \in (i + 1)..(n + 1) : t[k] \notin C
      <4> TAKE k \in (i + 1)..(n + 1)
      <4>1. k \in (i + 1)..n \/ k = n + 1
        BY <1>1, <3>2
      <4> QED
        BY <1>1, <1>3, <3>3, <3>4, <4>1
    <3>6. i \in DOMAIN s /\ i \in DOMAIN t
      BY <1>1, <3>2
    <3>7. LastOf(s, C) = <<s[i]>>
      BY <1>1, <3>2, <3>4, <3>6, LastOfIs DEF n
    <3>8. LastOf(t, C) = <<t[i]>>
      BY <1>1, <3>2, <3>5, <3>6, LastOfIs
    <3> QED
      BY <3>2, <3>7, <3>8
  <2> QED
    BY <2>1, <2>2
<1> QED
  BY <1>2, <1>3 DEF t

----------------------------------------------------------------------------
(* What one more call asks for *)

\* The calls for authentication, and those that start a body from nothing.
AuthCallsMade == {c \in Calls : c.op \in AuthOps}

BodyCallsMade == {c \in Calls : c.op \in BodyOps}

AuthAfter(c, auth) ==
  IF c.op \notin AuthOps THEN auth
  ELSE IF c.arg = "" THEN NoAuth
  ELSE IF c.op = "SetBasicAuth"
  THEN [scheme |-> "basic", name |-> c.arg, secret |-> c.value]
  ELSE [scheme |-> "bearer", name |-> "", secret |-> c.arg]

AuthOfLast(last) ==
  CASE last = <<>> \/ (last # <<>> /\ last[1].arg = "") -> NoAuth
    [] last # <<>> /\ last[1].arg # "" /\ last[1].op = "SetBasicAuth" ->
         [scheme |-> "basic", name |-> last[1].arg, secret |-> last[1].value]
    [] OTHER -> [scheme |-> "bearer", name |-> "", secret |-> last[1].arg]

LEMMA AuthAskedAppend ==
  ASSUME NEW s \in Seq(Calls), NEW c \in Calls
  PROVE  AuthAsked(Append(s, c)) = AuthAfter(c, AuthAsked(s))
<1>1. \A t : AuthAsked(t) = AuthOfLast(LastOf(t, AuthCallsMade))
  BY DEF AuthAsked, AuthOfLast, AuthCallsMade
<1>2. CASE c.op \in AuthOps
  <2>1. LastOf(Append(s, c), AuthCallsMade) = <<c>>
    BY <1>2, LastOfAppend DEF AuthCallsMade
  <2>2. <<c>> # <<>> /\ <<c>>[1] = c
    OBVIOUS
  <2>3. AuthOfLast(<<c>>) = AuthAfter(c, AuthAsked(s))
    BY <1>2, <2>2 DEF AuthOfLast, AuthAfter, AuthOps
  <2> QED
    BY <1>1, <2>1, <2>3
<1>3. CASE c.op \notin AuthOps
  <2>1. LastOf(Append(s, c), AuthCallsMade) = LastOf(s, AuthCallsMade)
    BY <1>3, LastOfAppend DEF AuthCallsMade
  <2> QED
    BY <1>1, <1>3, <2>1 DEF AuthAfter
<1> QED
  BY <1>2, <1>3

LEMMA HeaderAskedAppend ==
  ASSUME NEW s \in Seq(Calls), NEW c \in Calls, NEW n
  PROVE  HeaderAsked(Append(s, c), n) =
           IF c \notin AboutHeader(n) THEN HeaderAsked(s, n)
           ELSE IF c.op = "SetHeader" THEN <<c>> ELSE <<>>
<1>1. CASE c \in AboutHeader(n)
  <2>1. LastOf(Append(s, c), AboutHeader(n)) = <<c>>
    BY <1>1, LastOfAppend
  <2>2. <<c>> # <<>> /\ <<c>>[1] = c
    OBVIOUS
  <2> QED
    BY <1>1, <2>1, <2>2 DEF HeaderAsked
<1>2. CASE c \notin AboutHeader(n)
  <2>1. LastOf(Append(s, c), AboutHeader(n)) = LastOf(s, AboutHeader(n))
    BY <1>2, LastOfAppend
  <2> QED
    BY <1>2, <2>1 DEF HeaderAsked
<1> QED
  BY <1>1, <1>2

\* Where the fields of a body are among the calls s.
FieldsAt(s) ==
  {i \in DOMAIN s : s[i].op \in FormOps /\ \A k \in (i + 1)..Len(s) : s[k].op \notin BodyOps}

LEMMA FieldsAskedAppend ==
  ASSUME NEW s \in Seq(Calls), NEW c \in Calls
  PROVE  /\ FieldsAsked(s) \in Seq(Calls)
         /\ FieldsAsked(Append(s, c)) =
              IF c.op \in BodyOps THEN <<>>
              ELSE IF c.op \in FormOps THEN Append(FieldsAsked(s), c) ELSE FieldsAsked(s)
<1> DEFINE t == Append(s, c)
           n == Len(s)
           I == FieldsAt(s)
<1>1. /\ t \in Seq(Calls) /\ n \in Nat /\ Len(t) = n + 1
      /\ DOMAIN t = 1..(n + 1) /\ DOMAIN s = 1..n
      /\ t[n + 1] = c /\ \A i \in 1..n : t[i] = s[i]
  OBVIOUS
<1>2. /\ I \in SUBSET (1..Len(s))
      /\ FieldsAsked(s) = Kept(s, I) /\ FieldsAsked(t) = Kept(t, FieldsAt(t))
  BY DEF FieldsAt, FieldsAsked
<1>3. FieldsAsked(s) \in Seq(Calls)
  BY <1>2, KeptIs
<1>4. /\ Kept(t, I) = Kept(s, I)
      /\ Kept(t, I \cup {n + 1}) = Append(Kept(s, I), c)
  <2> HIDE DEF I
  <2> QED
    BY <1>2, KeptAppend, SMTT(30)
<1> HIDE DEF t, n
<1>5. CASE c.op \in BodyOps
  <2>1. \A i \in 1..n : n + 1 \in (i + 1)..(n + 1)
    BY <1>1
  <2>2. \A i \in 1..(n + 1) : i \in 1..n \/ i = n + 1
    BY <1>1
  <2>3. c.op \notin FormOps
    BY <1>5 DEF BodyOps, FormOps
  <2>4. FieldsAt(t) = {}
    BY <1>1, <1>5, <2>1, <2>2, <2>3 DEF FieldsAt
  <2>5. Kept(t, {}) = <<>>
    <3>1. Cardinality({}) = 0 /\ {} \in SUBSET (1..Len(t))
      BY FS_EmptySet
    <3>2. Kept(t, {}) \in Seq(Calls) /\ Len(Kept(t, {})) = 0
      BY <1>1, <3>1, KeptIs
    <3> QED
      BY <3>2
  <2> QED
    BY <1>2, <1>3, <1>5, <2>4, <2>5 DEF t
<1>6. CASE c.op \notin BodyOps
  <2>1. \A i \in 1..n : (\A k \in (i + 1)..(n + 1) : t[k].op \notin BodyOps)
                          <=> (\A k \in (i + 1)..n : s[k].op \notin BodyOps)
    <3> TAKE i \in 1..n
    <3>1. /\ \A k \in (i + 1)..(n + 1) : k \in (i + 1)..n \/ k = n + 1
          /\ \A k \in (i + 1)..n : k \in 1..n /\ k \in (i + 1)..(n + 1)
      BY <1>1
    <3> QED
      BY <1>1, <1>6, <3>1
  <2>2. \A i \in 1..(n + 1) : i \in 1..n \/ i = n + 1
    BY <1>1
  <2>3. \A i \in 1..n : i \in 1..(n + 1) /\ i # n + 1
    BY <1>1
  <2>4. n + 1 \in 1..(n + 1) /\ \A k : k \notin (n + 1 + 1)..(n + 1)
    BY <1>1
  <2>5. \A i \in 1..n : i \in FieldsAt(t) <=> i \in I
    BY <1>1, <2>1, <2>3 DEF FieldsAt, n
  <2>6. n + 1 \in FieldsAt(t) <=> c.op \in FormOps
    BY <1>1, <2>4 DEF FieldsAt
  <2>7. FieldsAt(t) \subseteq 1..(n + 1) /\ I \subseteq 1..n
    BY <1>1 DEF FieldsAt
  <2>8. FieldsAt(t) = IF c.op \in FormOps THEN I \cup {n + 1} ELSE I
    <3> DEFINE F == FieldsAt(t)
    <3>1. \A i : i \in F => i \in 1..n \/ i = n + 1
      BY <2>2, <2>7
    <3>2. /\ \A i : i \in I => i \in 1..n
          /\ \A i \in 1..n : i \in F <=> i \in I
          /\ n + 1 \in F <=> c.op \in FormOps
      BY <2>5, <2>6, <2>7
    <3> HIDE DEF I, F
    <3>3. \A i : i \in F <=> i \in I \/ (c.op \in FormOps /\ i = n + 1)
      BY <2>3, <3>1, <3>2
    <3>4. F = IF c.op \in FormOps THEN I \cup {n + 1} ELSE I
      BY <3>3
    <3> QED
      BY <3>4 DEF F
  <2> QED
    BY <1>2, <1>3, <1>4, <1>6, <2>8 DEF t
<1> QED
  BY <1>5, <1>6

\* A body made of the last call that set one and of the fields since.
BodyOfLast(fields, last) ==
  IF fields # <<>>
  THEN [kind |-> IF \E i \in DOMAIN fields : fields[i].op = "AddFormFile"
                 THEN "Multipart" ELSE "Form",
        data |-> fields]
  ELSE IF last # <<>>
  THEN [kind |-> IF last[1].op = "SetBody" THEN "Memory" ELSE "File", data |-> <<last[1].arg>>]
  ELSE [kind |-> "None", data |-> <<>>]

LEMMA BodyAskedIs ==
  ASSUME NEW s
  PROVE  BodyAsked(s) = BodyOfLast(FieldsAsked(s), LastOf(s, BodyCallsMade))
BY DEF BodyAsked, BodyOfLast, BodyCallsMade

\* The calls on a client ask for no body.
LEMMA ClientAsksNoBody ==
  ASSUME NEW s \in Seq({c \in Calls : c.op \in AuthOps \cup HeaderOps})
  PROVE  /\ s \in Seq(Calls) /\ FieldsAsked(s) = <<>>
         /\ BodyAsked(s) = [kind |-> "None", data |-> <<>>]
<1>1. /\ s \in Seq(Calls) /\ DOMAIN s = 1..Len(s)
      /\ \A i \in DOMAIN s : s[i] \in Calls /\ s[i].op \in AuthOps \cup HeaderOps
  OBVIOUS
<1>2. \A i \in DOMAIN s : s[i].op \notin BodyOps /\ s[i].op \notin FormOps
  BY <1>1 DEF AuthOps, HeaderOps, BodyOps, FormOps
<1>3. FieldsAt(s) = {}
  BY <1>2 DEF FieldsAt
<1>4. Cardinality({}) = 0 /\ {} \in SUBSET (1..Len(s))
  BY FS_EmptySet
<1>5. Kept(s, {}) \in Seq(Calls) /\ Len(Kept(s, {})) = 0
  BY <1>1, <1>4, KeptIs
<1>6. FieldsAsked(s) = <<>>
  <2>1. FieldsAsked(s) = Kept(s, FieldsAt(s))
    BY DEF FieldsAsked, FieldsAt
  <2> QED
    BY <1>3, <1>5, <2>1
<1>7. LastOf(s, BodyCallsMade) = <<>>
  BY <1>2, LastOfNone DEF BodyCallsMade
<1> QED
  BY <1>1, <1>6, <1>7, BodyAskedIs DEF BodyOfLast

----------------------------------------------------------------------------
(* Header lists *)

\* A list with at most one line for the header n.
AtMostOnce(headers, n) ==
  LinesOf(headers, n) = {} \/ \E i \in DOMAIN headers : LinesOf(headers, n) = {i}

LEMMA LinesOfAppend ==
  ASSUME NEW h \in Seq(Lines), NEW line \in Lines, NEW n
  PROVE  /\ Append(h, line) \in Seq(Lines)
         /\ Len(h) \in Nat /\ DOMAIN h = 1..Len(h) /\ Len(Append(h, line)) = Len(h) + 1
         /\ DOMAIN Append(h, line) = 1..(Len(h) + 1)
         /\ \A i \in DOMAIN h : i \in DOMAIN Append(h, line) /\ Append(h, line)[i] = h[i]
         /\ Append(h, line)[Len(h) + 1] = line
         /\ LinesOf(Append(h, line), n) =
              LinesOf(h, n) \cup (IF Folded[line.name] = n THEN {Len(h) + 1} ELSE {})
<1> DEFINE t == Append(h, line)
           k == Len(h)
<1>1. /\ t \in Seq(Lines) /\ k \in Nat /\ Len(t) = k + 1
      /\ DOMAIN t = 1..(k + 1) /\ DOMAIN h = 1..k
      /\ t[k + 1] = line /\ \A i \in 1..k : t[i] = h[i]
  OBVIOUS
<1> HIDE DEF t, k
<1>2. \A i \in 1..k : i \in 1..(k + 1)
  BY <1>1
<1>3. \A i \in 1..(k + 1) : i \in 1..k \/ i = k + 1
  BY <1>1
<1>4. k + 1 \in 1..(k + 1)
  BY <1>1
<1>5. LinesOf(t, n) = LinesOf(h, n) \cup (IF Folded[line.name] = n THEN {k + 1} ELSE {})
  BY <1>1, <1>2, <1>3, <1>4 DEF LinesOf
<1> QED
  BY <1>1, <1>2, <1>5 DEF t, k

LEMMA SetHeaderSets ==
  ASSUME NEW headers \in Seq(Lines), NEW name \in DOMAIN Folded, NEW value \in Texts,
         AtMostOnce(headers, Folded[name])
  PROVE  /\ SetHeader(headers, name, value) \in Seq(Lines)
         /\ \A n : n # Folded[name] =>
              /\ LinesOf(SetHeader(headers, name, value), n) = LinesOf(headers, n)
              /\ \A i \in LinesOf(headers, n) :
                   i \in DOMAIN SetHeader(headers, name, value)
                   /\ SetHeader(headers, name, value)[i] = headers[i]
         /\ \E i \in DOMAIN SetHeader(headers, name, value) :
              /\ LinesOf(SetHeader(headers, name, value), Folded[name]) = {i}
              /\ SetHeader(headers, name, value)[i].value = value
<1> DEFINE new == SetHeader(headers, name, value)
           at == LinesOf(headers, Folded[name])
           line == [name |-> name, value |-> value]
<1>1. at = {i \in DOMAIN headers : EqualsIgnoreCase(headers[i].name, name)}
  BY DEF LinesOf, EqualsIgnoreCase
<1>2. new = IF at = {} THEN Append(headers, line)
            ELSE [headers EXCEPT ![CHOOSE i \in at : \A k \in at : i <= k].value = value]
  BY <1>1 DEF SetHeader
<1>3. line \in Lines
  BY DEF Lines
<1>4. /\ headers \in [1..Len(headers) -> Lines] /\ Len(headers) \in Nat
      /\ DOMAIN headers = 1..Len(headers)
  OBVIOUS
<1>5. CASE at = {}
  <2> HIDE DEF line
  <2>1. new = Append(headers, line)
    BY <1>2, <1>5
  <2>2. line.name = name /\ line.value = value
    BY DEF line
  <2> HIDE DEF new
  <2>3. \A n : LinesOf(new, n) = LinesOf(headers, n)
                  \cup (IF Folded[name] = n THEN {Len(headers) + 1} ELSE {})
    BY <1>3, <2>1, <2>2, LinesOfAppend
  <2>4. /\ new \in Seq(Lines) /\ Len(headers) + 1 \in DOMAIN new
        /\ new[Len(headers) + 1] = line
        /\ \A i \in DOMAIN headers : i \in DOMAIN new /\ new[i] = headers[i]
    BY <1>3, <1>4, <2>1, LinesOfAppend
  <2>5. \A n : LinesOf(headers, n) \subseteq DOMAIN headers
    BY DEF LinesOf
  <2>6. LinesOf(new, Folded[name]) = {Len(headers) + 1}
    BY <1>5, <2>3
  <2>7. \A n : n # Folded[name] => LinesOf(new, n) = LinesOf(headers, n)
    BY <2>3
  <2>8. \A n : \A i \in LinesOf(headers, n) : i \in DOMAIN new /\ new[i] = headers[i]
    BY <2>4, <2>5
  <2>9. new[Len(headers) + 1].value = value
    BY <2>2, <2>4
  <2> QED
    BY <2>4, <2>6, <2>7, <2>8, <2>9 DEF new
<1>6. CASE at # {}
  <2>1. PICK i \in DOMAIN headers : at = {i}
    BY <1>6 DEF AtMostOnce
  <2>2. (CHOOSE m \in at : \A k \in at : m <= k) = i
    <3>1. i <= i
      BY <1>4
    <3> HIDE DEF at
    <3> QED
      BY <2>1, <3>1
  <2>3. new = [headers EXCEPT ![i] = [headers[i] EXCEPT !.value = value]]
    BY <1>2, <1>6, <2>2
  <2>4. /\ headers[i] \in Lines /\ [headers[i] EXCEPT !.value = value] \in Lines
        /\ [headers[i] EXCEPT !.value = value].name = headers[i].name
        /\ [headers[i] EXCEPT !.value = value].value = value
    BY <1>4 DEF Lines
  <2> DEFINE changed == [headers[i] EXCEPT !.value = value]
  <2> HIDE DEF new, changed
  <2>5. /\ new \in Seq(Lines) /\ DOMAIN new = DOMAIN headers
        /\ new[i] = changed /\ \A k \in DOMAIN headers : k # i => new[k] = headers[k]
    BY <1>4, <2>3, <2>4 DEF changed
  <2>6. \A k \in DOMAIN headers : new[k].name = headers[k].name
    BY <2>4, <2>5 DEF changed
  <2>7. \A n : LinesOf(new, n) = LinesOf(headers, n)
    BY <2>5, <2>6 DEF LinesOf
  <2>8. new[i].value = value
    BY <2>4, <2>5 DEF changed
  <2>9. \A n : n # Folded[name] => \A k \in LinesOf(headers, n) : k \in DOMAIN headers /\ k # i
    <3>1. i \in at
      BY <2>1
    <3> QED
      BY <3>1 DEF LinesOf
  <2> QED
    BY <2>1, <2>5, <2>7, <2>8, <2>9 DEF new
<1> QED
  BY <1>5, <1>6

LEMMA RemoveHeaderRemoves ==
  ASSUME NEW headers \in Seq(Lines), NEW name
  PROVE  /\ RemoveHeader(headers, name) \in Seq(Lines)
         /\ LinesOf(RemoveHeader(headers, name), Folded[name]) = {}
         /\ \A n, own : n # Folded[name] /\ LineAsAsked(headers, n, own) =>
                         LineAsAsked(RemoveHeader(headers, name), n, own)
<1> DEFINE new == RemoveHeader(headers, name)
           I == DOMAIN headers \ LinesOf(headers, Folded[name])
<1>1. DOMAIN headers = 1..Len(headers) /\ Len(headers) \in Nat
  OBVIOUS
<1>2. new = Kept(headers, I)
  <2>1. I = {i \in DOMAIN headers : ~EqualsIgnoreCase(headers[i].name, name)}
    BY DEF LinesOf, EqualsIgnoreCase
  <2> QED
    BY <2>1 DEF RemoveHeader
<1>3. I \in SUBSET (1..Len(headers))
  BY <1>1
<1>4. \A i \in I : i \in DOMAIN headers /\ Folded[headers[i].name] # Folded[name]
  BY DEF LinesOf
<1>5. \A i \in DOMAIN headers : Folded[headers[i].name] # Folded[name] => i \in I
  BY DEF LinesOf
<1> HIDE DEF I, new
<1>6. /\ new \in Seq(Lines) /\ DOMAIN new = 1..Cardinality(I)
      /\ \A i \in I : new[Rank(I, i)] = headers[i]
  BY <1>2, <1>3, KeptIs
<1>7. /\ \A i \in I : Rank(I, i) \in DOMAIN new
      /\ \A m \in DOMAIN new : \E i \in I : Rank(I, i) = m
  BY <1>1, <1>3, <1>6, RankGrows, RankReaches
<1>8. \A m \in DOMAIN new : \E i \in I : Rank(I, i) = m /\ new[m] = headers[i]
  BY <1>6, <1>7
<1>9. LinesOf(new, Folded[name]) = {}
  BY <1>4, <1>8 DEF LinesOf
<1>10. ASSUME NEW n, n # Folded[name], LinesOf(headers, n) = {}
       PROVE  LinesOf(new, n) = {}
  BY <1>4, <1>8, <1>10 DEF LinesOf
<1>11. ASSUME NEW n, n # Folded[name], NEW i \in DOMAIN headers, LinesOf(headers, n) = {i}
       PROVE  \E m \in DOMAIN new : LinesOf(new, n) = {m} /\ new[m] = headers[i]
  <2>1. Folded[headers[i].name] = n /\ i \in I
    BY <1>5, <1>11 DEF LinesOf
  <2>2. Rank(I, i) \in DOMAIN new /\ new[Rank(I, i)] = headers[i]
    BY <1>6, <1>7, <2>1
  <2>3. \A m \in DOMAIN new : Folded[new[m].name] = n => m = Rank(I, i)
    BY <1>4, <1>8, <1>11 DEF LinesOf
  <2>4. LinesOf(new, n) = {Rank(I, i)}
    BY <2>1, <2>2, <2>3 DEF LinesOf
  <2> QED
    BY <2>2, <2>4
<1>12. ASSUME NEW n, NEW own, n # Folded[name], LineAsAsked(headers, n, own)
       PROVE  LineAsAsked(new, n, own)
  <2>1. CASE own = <<>>
    BY <1>10, <1>12, <2>1 DEF LineAsAsked
  <2>2. CASE own # <<>>
    <3>1. PICK i \in DOMAIN headers : LinesOf(headers, n) = {i} /\ headers[i].value = own[1].value
      BY <1>12, <2>2 DEF LineAsAsked
    <3>2. PICK m \in DOMAIN new : LinesOf(new, n) = {m} /\ new[m] = headers[i]
      BY <1>11, <1>12, <3>1
    <3> QED
      BY <2>2, <3>1, <3>2 DEF LineAsAsked
  <2> QED
    BY <2>1, <2>2
<1> QED
  BY <1>6, <1>9, <1>12 DEF new

----------------------------------------------------------------------------
(* A call on a client or a request *)

ConfigFields == {"user", "password", "bearer", "headers"}

FoldedNames == {Folded[m] : m \in DOMAIN Folded}

LEMMA CallTypes ==
  ASSUME NEW c \in Calls
  PROVE  /\ c.op \in AuthOps \cup HeaderOps \cup BodyOps \cup FormOps
         /\ c.op \in HeaderOps =>
              c.arg \in DOMAIN Folded /\ (Trimmed[c.arg] # "" => Trimmed[c.arg] \in DOMAIN Folded)
         /\ c.value \in Texts
BY RequestConfigAssumption DEF Texts

\* Setting the user or the token leaves the headers, and the other way round.
LEMMA ConfiguredAuth ==
  ASSUME NEW conf, ConfigFields \subseteq DOMAIN conf,
         NEW c \in Calls, c.op \in AuthOps \cup HeaderOps
  PROVE  /\ ConfigFields \subseteq DOMAIN Configured(conf, c)
         /\ ApplyAuth(Configured(conf, c)) = AuthAfter(c, ApplyAuth(conf))
         /\ c.op \in AuthOps => Configured(conf, c).headers = conf.headers
<1>1. CASE c.op = "SetBasicAuth"
  <2>1. Configured(conf, c) = WithBasicAuth(conf, c)
    BY <1>1 DEF Configured
  <2>2. /\ DOMAIN Configured(conf, c) = DOMAIN conf
        /\ Configured(conf, c).user = c.arg /\ Configured(conf, c).password = c.value
        /\ Configured(conf, c).bearer = "" /\ Configured(conf, c).headers = conf.headers
    BY <2>1 DEF WithBasicAuth, ConfigFields
  <2> QED
    BY <1>1, <2>2 DEF ApplyAuth, AuthAfter, AuthOps
<1>2. CASE c.op = "SetBearerToken"
  <2>1. Configured(conf, c) = WithBearerToken(conf, c)
    BY <1>2 DEF Configured
  <2>2. /\ DOMAIN Configured(conf, c) = DOMAIN conf
        /\ Configured(conf, c).user = "" /\ Configured(conf, c).bearer = c.arg
        /\ Configured(conf, c).headers = conf.headers
    BY <2>1 DEF WithBearerToken, ConfigFields
  <2> QED
    BY <1>2, <2>2 DEF ApplyAuth, AuthAfter, AuthOps
<1>3. CASE c.op \in HeaderOps
  <2>1. \/ Configured(conf, c) = conf
        \/ \E h : Configured(conf, c) = [conf EXCEPT !.headers = h]
    BY <1>3 DEF Configured, HeaderOps
  <2>2. /\ DOMAIN Configured(conf, c) = DOMAIN conf
        /\ Configured(conf, c).user = conf.user /\ Configured(conf, c).password = conf.password
        /\ Configured(conf, c).bearer = conf.bearer
    BY <2>1 DEF ConfigFields
  <2>3. c.op \notin AuthOps
    BY <1>3 DEF AuthOps, HeaderOps
  <2> QED
    BY <2>2, <2>3 DEF ApplyAuth, AuthAfter
<1> QED
  BY <1>1, <1>2, <1>3 DEF AuthOps

\* A call that is not about a header changes neither its line nor what is asked.
LEMMA LineStays ==
  ASSUME NEW headers, NEW new, NEW n, NEW own, LineAsAsked(headers, n, own),
         LinesOf(new, n) = LinesOf(headers, n),
         \A i \in LinesOf(headers, n) : i \in DOMAIN new /\ new[i] = headers[i]
  PROVE  LineAsAsked(new, n, own)
<1>1. CASE own = <<>>
  BY <1>1 DEF LineAsAsked
<1>2. CASE own # <<>>
  <2>1. PICK i \in DOMAIN headers : LinesOf(headers, n) = {i} /\ headers[i].value = own[1].value
    BY <1>2 DEF LineAsAsked
  <2>2. i \in DOMAIN new /\ new[i] = headers[i]
    BY <2>1
  <2> QED
    BY <1>2, <2>1, <2>2 DEF LineAsAsked
<1> QED
  BY <1>1, <1>2

LEMMA ConfiguredHeaders ==
  ASSUME NEW conf, NEW s \in Seq(Calls), ConfigAsAsked(conf, s),
         NEW c \in Calls, c.op \in AuthOps \cup HeaderOps
  PROVE  /\ Configured(conf, c).headers \in Seq(Lines)
         /\ \A n \in FoldedNames :
              LineAsAsked(Configured(conf, c).headers, n, HeaderAsked(Append(s, c), n))
<1> DEFINE headers == conf.headers
           new == Configured(conf, c).headers
<1>1. /\ headers \in Seq(Lines) /\ "headers" \in DOMAIN conf /\ ConfigFields \subseteq DOMAIN conf
      /\ \A n \in FoldedNames : LineAsAsked(headers, n, HeaderAsked(s, n))
  BY DEF ConfigAsAsked, FoldedNames, ConfigFields
<1>2. \A n : HeaderAsked(Append(s, c), n) =
               IF c \notin AboutHeader(n) THEN HeaderAsked(s, n)
               ELSE IF c.op = "SetHeader" THEN <<c>> ELSE <<>>
  BY HeaderAskedAppend
<1>3. CASE c.op \in AuthOps
  <2>1. new = headers
    BY <1>1, <1>3, ConfiguredAuth
  <2>2. \A n : c \notin AboutHeader(n)
    BY <1>3 DEF AboutHeader, AuthOps
  <2> QED
    BY <1>1, <1>2, <2>1, <2>2
<1>4. CASE c.op = "RemoveHeader"
  <2>1. new = RemoveHeader(headers, c.arg)
    BY <1>1, <1>4 DEF Configured
  <2>2. \A n : c \in AboutHeader(n) <=> n = Folded[c.arg]
    BY <1>4 DEF AboutHeader
  <2> HIDE DEF headers, new
  <2>3. new \in Seq(Lines) /\ LinesOf(new, Folded[c.arg]) = {}
    BY <1>1, <2>1, RemoveHeaderRemoves
  <2>4. ASSUME NEW n \in FoldedNames
        PROVE  LineAsAsked(new, n, HeaderAsked(Append(s, c), n))
    <3>1. CASE n = Folded[c.arg]
      <4>1. HeaderAsked(Append(s, c), n) = <<>>
        BY <1>2, <1>4, <2>2, <3>1
      <4> QED
        BY <2>3, <3>1, <4>1 DEF LineAsAsked
    <3>2. CASE n # Folded[c.arg]
      <4>1. HeaderAsked(Append(s, c), n) = HeaderAsked(s, n)
            /\ LineAsAsked(headers, n, HeaderAsked(s, n))
        BY <1>1, <1>2, <2>2, <3>2
      <4> QED
        BY <1>1, <2>1, <3>2, <4>1, RemoveHeaderRemoves
    <3> QED
      BY <3>1, <3>2
  <2> QED
    BY <2>3, <2>4 DEF new
<1>5. CASE c.op = "SetHeader" /\ Trimmed[c.arg] = ""
  <2>1. new = headers
    BY <1>5 DEF Configured
  <2>2. \A n : c \notin AboutHeader(n)
    BY <1>5 DEF AboutHeader
  <2> QED
    BY <1>1, <1>2, <2>1, <2>2
<1>6. CASE c.op = "SetHeader" /\ Trimmed[c.arg] # ""
  <2> DEFINE name == Trimmed[c.arg]
  <2>1. new = SetHeader(headers, name, c.value)
    BY <1>1, <1>6 DEF Configured
  <2>2. \A n : c \in AboutHeader(n) <=> n = Folded[name]
    BY <1>6 DEF AboutHeader
  <2>3. name \in DOMAIN Folded /\ c.value \in Texts /\ Folded[name] \in FoldedNames
    BY <1>6, CallTypes DEF HeaderOps, FoldedNames
  <2> HIDE DEF headers, new, name
  <2>4. AtMostOnce(headers, Folded[name])
    BY <1>1, <2>3 DEF LineAsAsked, AtMostOnce
  <2>5. new \in Seq(Lines)
    BY <1>1, <2>1, <2>3, <2>4, SetHeaderSets
  <2>6. ASSUME NEW n \in FoldedNames
        PROVE  LineAsAsked(new, n, HeaderAsked(Append(s, c), n))
    <3>1. CASE n = Folded[name]
      <4>1. HeaderAsked(Append(s, c), n) = <<c>> /\ <<c>> # <<>> /\ <<c>>[1] = c
        BY <1>2, <1>6, <2>2, <3>1
      <4>2. \E i \in DOMAIN new : LinesOf(new, n) = {i} /\ new[i].value = c.value
        BY <1>1, <2>1, <2>3, <2>4, <3>1, SetHeaderSets
      <4> QED
        BY <4>1, <4>2 DEF LineAsAsked
    <3>2. CASE n # Folded[name]
      <4>1. HeaderAsked(Append(s, c), n) = HeaderAsked(s, n)
            /\ LineAsAsked(headers, n, HeaderAsked(s, n))
        BY <1>1, <1>2, <2>2, <3>2
      <4>2. /\ LinesOf(new, n) = LinesOf(headers, n)
            /\ \A i \in LinesOf(headers, n) : i \in DOMAIN new /\ new[i] = headers[i]
        BY <1>1, <2>1, <2>3, <2>4, <3>2, SetHeaderSets
      <4> QED
        BY <4>1, <4>2, LineStays
    <3> QED
      BY <3>1, <3>2
  <2> QED
    BY <2>5, <2>6 DEF new
<1> QED
  BY <1>3, <1>4, <1>5, <1>6 DEF HeaderOps

LEMMA ConfiguredAsAsked ==
  ASSUME NEW conf, NEW s \in Seq(Calls), ConfigAsAsked(conf, s),
         NEW c \in Calls, c.op \in AuthOps \cup HeaderOps
  PROVE  ConfigAsAsked(Configured(conf, c), Append(s, c))
<1>1. ConfigFields \subseteq DOMAIN conf /\ ApplyAuth(conf) = AuthAsked(s)
  BY DEF ConfigAsAsked, ConfigFields
<1>2. /\ ConfigFields \subseteq DOMAIN Configured(conf, c)
      /\ ApplyAuth(Configured(conf, c)) = AuthAsked(Append(s, c))
  BY <1>1, ConfiguredAuth, AuthAskedAppend
<1> QED
  BY <1>2, ConfiguredHeaders DEF ConfigAsAsked, ConfigFields, FoldedNames

\* The other calls ask for nothing of a configuration.
LEMMA ConfigStays ==
  ASSUME NEW conf, NEW s \in Seq(Calls), ConfigAsAsked(conf, s),
         NEW c \in Calls, c.op \in BodyOps \cup FormOps
  PROVE  ConfigAsAsked(conf, Append(s, c))
<1>1. c.op \notin AuthOps /\ \A n : c \notin AboutHeader(n)
  BY DEF BodyOps, FormOps, AuthOps, AboutHeader
<1>2. AuthAsked(Append(s, c)) = AuthAsked(s)
  BY <1>1, AuthAskedAppend DEF AuthAfter
<1>3. \A n : HeaderAsked(Append(s, c), n) = HeaderAsked(s, n)
  BY <1>1, HeaderAskedAppend
<1> QED
  BY <1>2, <1>3 DEF ConfigAsAsked

----------------------------------------------------------------------------
(* Specifications *)

SpecFields == {"config", "kind", "method", "body", "contentType", "file", "fields"}

LEMMA ConfiguredSpec ==
  ASSUME NEW spec, NEW s \in Seq(Calls), SpecAsAsked(spec, s),
         NEW c \in Calls, c.op \in AuthOps \cup HeaderOps
  PROVE  SpecAsAsked([spec EXCEPT !.config = Configured(spec.config, c)], Append(s, c))
<1> DEFINE new == [spec EXCEPT !.config = Configured(spec.config, c)]
<1>1. /\ DOMAIN new = DOMAIN spec /\ new.config = Configured(spec.config, c)
      /\ new.kind = spec.kind /\ new.method = spec.method /\ new.body = spec.body
      /\ new.contentType = spec.contentType /\ new.file = spec.file /\ new.fields = spec.fields
  BY DEF SpecAsAsked
<1> HIDE DEF new
<1>2. ConfigAsAsked(new.config, Append(s, c))
  BY <1>1, ConfiguredAsAsked DEF SpecAsAsked
<1>3. c.op \notin BodyOps /\ c.op \notin FormOps
  BY DEF AuthOps, HeaderOps, BodyOps, FormOps
<1>4. FieldsAsked(Append(s, c)) = FieldsAsked(s)
  BY <1>3, FieldsAskedAppend
<1>5. LastOf(Append(s, c), BodyCallsMade) = LastOf(s, BodyCallsMade)
  BY <1>3, LastOfAppend DEF BodyCallsMade
<1>6. BodyAsked(Append(s, c)) = BodyAsked(s)
  BY <1>4, <1>5, BodyAskedIs
<1>7. ApplyBody(new) = ApplyBody(spec)
  BY <1>1 DEF ApplyBody
<1>8. SpecAsAsked(new, Append(s, c))
  BY <1>1, <1>2, <1>4, <1>6, <1>7 DEF SpecAsAsked
<1> QED
  BY <1>8 DEF new

LEMMA WithBodySpec ==
  ASSUME NEW spec, NEW s \in Seq(Calls), SpecAsAsked(spec, s),
         NEW c \in Calls, c.op \in BodyOps
  PROVE  SpecAsAsked(WithBody(spec, c), Append(s, c))
<1> DEFINE new == WithBody(spec, c)
<1>1. /\ DOMAIN new = DOMAIN spec /\ new.config = spec.config /\ new.method = spec.method
      /\ new.contentType = c.value /\ new.fields = <<>>
      /\ c.op = "SetBody" => new.kind = "Memory" /\ new.body = c.arg
      /\ c.op # "SetBody" => new.kind = "File" /\ new.file = c.arg
  <2>1. CASE c.op = "SetBody"
    <3>1. new = [spec EXCEPT !.kind = "Memory", !.body = c.arg, !.contentType = c.value,
                             !.file = "", !.fields = <<>>]
      BY <2>1 DEF WithBody
    <3> HIDE DEF new
    <3> QED
      BY <2>1, <3>1 DEF SpecAsAsked
  <2>2. CASE c.op # "SetBody"
    <3>1. new = [spec EXCEPT !.kind = "File", !.file = c.arg, !.contentType = c.value,
                             !.body = "", !.fields = <<>>]
      BY <2>2 DEF WithBody
    <3> HIDE DEF new
    <3> QED
      BY <2>2, <3>1 DEF SpecAsAsked
  <2> QED
    BY <2>1, <2>2
<1> HIDE DEF new
<1>2. ConfigAsAsked(new.config, Append(s, c))
  BY <1>1, ConfigStays DEF SpecAsAsked
<1>3. FieldsAsked(Append(s, c)) = <<>>
  BY FieldsAskedAppend
<1>4. LastOf(Append(s, c), BodyCallsMade) = <<c>> /\ <<c>> # <<>> /\ <<c>>[1] = c
  BY LastOfAppend DEF BodyCallsMade
<1>5. BodyAsked(Append(s, c)) =
        [kind |-> IF c.op = "SetBody" THEN "Memory" ELSE "File", data |-> <<c.arg>>]
  BY <1>3, <1>4, BodyAskedIs DEF BodyOfLast
<1>6. ApplyBody(new) = BodyAsked(Append(s, c))
  BY <1>1, <1>5 DEF ApplyBody
<1>7. c.value \in Texts
  BY CallTypes
<1>8. SpecAsAsked(new, Append(s, c))
  BY <1>1, <1>2, <1>3, <1>6, <1>7 DEF SpecAsAsked
<1> QED
  BY <1>8 DEF new

\* Among the fields is a file exactly if the body is multipart.
LEMMA KindOfFields ==
  ASSUME NEW spec, NEW s, SpecAsAsked(spec, s)
  PROVE  /\ spec.kind = BodyAsked(s).kind
         /\ spec.kind = "Multipart" <=>
              \E i \in DOMAIN FieldsAsked(s) : FieldsAsked(s)[i].op = "AddFormFile"
<1>1. spec.kind = BodyAsked(s).kind
  <2>1. ApplyBody(spec).kind = spec.kind
    BY DEF ApplyBody
  <2> QED
    BY <2>1 DEF SpecAsAsked
<1>2. CASE FieldsAsked(s) = <<>>
  <2>1. BodyAsked(s).kind \in {"None", "Memory", "File"}
    BY <1>2, BodyAskedIs DEF BodyOfLast
  <2>2. DOMAIN FieldsAsked(s) = {}
    BY <1>2
  <2> QED
    BY <1>1, <2>1, <2>2
<1>3. CASE FieldsAsked(s) # <<>>
  <2>1. BodyAsked(s).kind = IF \E i \in DOMAIN FieldsAsked(s) : FieldsAsked(s)[i].op = "AddFormFile"
                            THEN "Multipart" ELSE "Form"
    BY <1>3, BodyAskedIs DEF BodyOfLast
  <2> QED
    BY <1>1, <2>1
<1> QED
  BY <1>1, <1>2, <1>3

LEMMA WithFieldSpec ==
  ASSUME NEW spec, NEW s \in Seq(Calls), SpecAsAsked(spec, s),
         NEW c \in Calls, c.op \in FormOps
  PROVE  SpecAsAsked(WithField(spec, c), Append(s, c))
<1> DEFINE new == WithField(spec, c)
           f == FieldsAsked(s)
<1>1. /\ DOMAIN new = DOMAIN spec /\ new.config = spec.config /\ new.method = spec.method
      /\ new.contentType = spec.contentType /\ new.fields = Append(spec.fields, c)
      /\ new.kind = FormKind(spec, c.op = "AddFormFile")
  <2>1. new = [spec EXCEPT !.fields = Append(spec.fields, c),
                           !.kind = FormKind(spec, c.op = "AddFormFile"), !.body = "", !.file = ""]
    BY DEF WithField
  <2> HIDE DEF new
  <2> QED
    BY <2>1 DEF SpecAsAsked
<1> HIDE DEF new
<1>2. ConfigAsAsked(new.config, Append(s, c))
  BY <1>1, ConfigStays DEF SpecAsAsked
<1>3. c.op \notin BodyOps
  BY DEF BodyOps, FormOps
<1>4. f \in Seq(Calls) /\ FieldsAsked(Append(s, c)) = Append(f, c) /\ new.fields = Append(f, c)
  BY <1>1, <1>3, FieldsAskedAppend DEF SpecAsAsked
<1> HIDE DEF f
<1>5. /\ Append(f, c) # <<>>
      /\ (\E i \in DOMAIN Append(f, c) : Append(f, c)[i].op = "AddFormFile") <=>
           c.op = "AddFormFile" \/ \E i \in DOMAIN f : f[i].op = "AddFormFile"
  <2> DEFINE t == Append(f, c)
             n == Len(f)
  <2>1. /\ n \in Nat /\ Len(t) = n + 1 /\ DOMAIN t = 1..(n + 1) /\ DOMAIN f = 1..n
        /\ t[n + 1] = c /\ \A i \in 1..n : t[i] = f[i]
    BY <1>4
  <2> HIDE DEF t, n
  <2>2. /\ n + 1 \in 1..(n + 1) /\ \A i \in 1..n : i \in 1..(n + 1)
        /\ \A i \in 1..(n + 1) : i \in 1..n \/ i = n + 1
    BY <2>1
  <2>3. (\E i \in DOMAIN t : t[i].op = "AddFormFile") <=>
           c.op = "AddFormFile" \/ \E i \in DOMAIN f : f[i].op = "AddFormFile"
    BY <2>1, <2>2
  <2>4. t # <<>>
    BY <2>1, <2>2
  <2> QED
    BY <2>3, <2>4 DEF t
<1>6. new.kind = IF \E i \in DOMAIN Append(f, c) : Append(f, c)[i].op = "AddFormFile"
                 THEN "Multipart" ELSE "Form"
  <2>1. spec.kind = "Multipart" <=> \E i \in DOMAIN f : f[i].op = "AddFormFile"
    BY KindOfFields DEF f
  <2>2. new.kind = IF c.op = "AddFormFile" \/ spec.kind = "Multipart" THEN "Multipart" ELSE "Form"
    BY <1>1 DEF FormKind
  <2> QED
    BY <1>5, <2>1, <2>2
<1>7. BodyAsked(Append(s, c)) = [kind |-> new.kind, data |-> new.fields]
  BY <1>4, <1>5, <1>6, BodyAskedIs DEF BodyOfLast
<1>8. ApplyBody(new) = [kind |-> new.kind, data |-> new.fields]
  <2>1. new.kind \notin {"None", "Memory", "File"}
    BY <1>6
  <2> QED
    BY <2>1 DEF ApplyBody
<1>9. SpecAsAsked(new, Append(s, c))
  BY <1>1, <1>2, <1>4, <1>7, <1>8 DEF SpecAsAsked
<1> QED
  BY <1>9 DEF new

----------------------------------------------------------------------------
(* What an attempt tells libcurl *)

TypeLine(type) == [name |-> "Content-Type", value |-> type]

RangeLine == [name |-> "Range", value |-> "rest"]

ExpectLine == [name |-> "Expect", value |-> ""]

LEMMA BuiltLines ==
  /\ \A type \in Texts : TypeLine(type) \in Lines
  /\ RangeLine \in Lines /\ ExpectLine \in Lines
BY RequestConfigAssumption DEF TypeLine, RangeLine, ExpectLine, Lines, Texts

\* The headers of the configuration with the line of the body's type.
TypedHeaders ==
  IF HasContentType THEN Append(job.config.headers, TypeLine(job.contentType))
  ELSE job.config.headers

LEMMA BuildHeadersIs ==
  ASSUME job.config.headers \in Seq(Lines), job.contentType \in Texts, NEW resuming
  PROVE  /\ TypedHeaders \in Seq(Lines)
         /\ BuildHeaders(resuming) =
              Append(IF resuming THEN Append(TypedHeaders, RangeLine) ELSE TypedHeaders, ExpectLine)
<1> DEFINE h == job.config.headers
<1>1. /\ TypedHeaders \in Seq(Lines)
      /\ TypedHeaders =
           h \o (IF HasContentType THEN Line("Content-Type", job.contentType) ELSE <<>>)
  <2>1. CASE HasContentType
    <3>1. TypeLine(job.contentType) \in Lines
      BY BuiltLines
    <3>2. Append(h, TypeLine(job.contentType)) \in Seq(Lines)
          /\ Append(h, TypeLine(job.contentType)) = h \o <<TypeLine(job.contentType)>>
      BY <3>1, AppendIsConcat, AppendProperties, Zenon
    <3>3. TypedHeaders = Append(h, TypeLine(job.contentType))
      BY <2>1 DEF TypedHeaders
    <3>4. Line("Content-Type", job.contentType) = <<TypeLine(job.contentType)>>
      BY DEF Line, TypeLine
    <3> HIDE DEF h
    <3> QED
      BY <2>1, <3>2, <3>3, <3>4
  <2>2. CASE ~HasContentType
    <3>1. h \o <<>> = h
      BY ConcatEmptySeq
    <3> HIDE DEF h
    <3> QED
      BY <2>2, <3>1 DEF TypedHeaders, h
  <2> QED
    BY <2>1, <2>2
<1> DEFINE t == TypedHeaders
           r == IF resuming THEN Append(t, RangeLine) ELSE t
<1>2. BuildHeaders(resuming) =
        t \o (IF resuming THEN Line("Range", "rest") ELSE <<>>) \o Line("Expect", "")
  BY <1>1 DEF BuildHeaders
<1>3. t \in Seq(Lines)
  BY <1>1
<1> HIDE DEF t
<1>4. r \in Seq(Lines) /\ r = t \o (IF resuming THEN Line("Range", "rest") ELSE <<>>)
  <2>1. Append(t, RangeLine) \in Seq(Lines) /\ Append(t, RangeLine) = t \o <<RangeLine>>
        /\ t \o <<>> = t
    BY <1>3, BuiltLines, AppendIsConcat, ConcatEmptySeq
  <2> QED
    BY <1>3, <2>1 DEF Line, RangeLine
<1> HIDE DEF r
<1>5. Append(r, ExpectLine) = r \o Line("Expect", "")
  <2>1. Append(r, ExpectLine) = r \o <<ExpectLine>>
    BY <1>4, BuiltLines, AppendIsConcat
  <2> QED
    BY <2>1 DEF ExpectLine, Line
<1> QED
  BY <1>1, <1>2, <1>4, <1>5 DEF r, t

LEMMA OtherLine ==
  ASSUME NEW h \in Seq(Lines), NEW line \in Lines, NEW n, n # Folded[line.name]
  PROVE  /\ Append(h, line) \in Seq(Lines) /\ LinesOf(Append(h, line), n) = LinesOf(h, n)
         /\ \A i \in DOMAIN h : i \in DOMAIN Append(h, line) /\ Append(h, line)[i] = h[i]
<1>1. /\ Append(h, line) \in Seq(Lines)
      /\ \A i \in DOMAIN h : i \in DOMAIN Append(h, line) /\ Append(h, line)[i] = h[i]
  BY LinesOfAppend
<1>2. LinesOf(Append(h, line), n) =
        LinesOf(h, n) \cup (IF Folded[line.name] = n THEN {Len(h) + 1} ELSE {})
  BY LinesOfAppend
<1> DEFINE new == LinesOf(Append(h, line), n)
           old == LinesOf(h, n)
<1>3. new = old \cup {}
  BY <1>2
<1> HIDE DEF new, old
<1>4. new = old
  BY <1>3
<1> QED
  BY <1>1, <1>4 DEF new, old

\* The lines of a header, other than the two that BuildHeaders has for itself, are
\* those of the configuration, then that of the body's type.
LEMMA LinesBuilt ==
  ASSUME job.config.headers \in Seq(Lines), job.contentType \in Texts, NEW resuming,
         NEW n, n # Folded["Range"], n # Folded["Expect"]
  PROVE  /\ LinesOf(BuildHeaders(resuming), n) =
              LinesOf(job.config.headers, n) \cup
                (IF n = Folded["Content-Type"] /\ HasContentType
                 THEN {Len(job.config.headers) + 1} ELSE {})
         /\ \A i \in DOMAIN job.config.headers :
              BuildHeaders(resuming)[i] = job.config.headers[i]
<1> DEFINE h == job.config.headers
           t == TypedHeaders
           r == IF resuming THEN Append(t, RangeLine) ELSE t
           e == Append(r, ExpectLine)
           own == IF n = Folded["Content-Type"] /\ HasContentType THEN {Len(h) + 1} ELSE {}
<1>1. h \in Seq(Lines) /\ t \in Seq(Lines) /\ BuildHeaders(resuming) = e
  BY BuildHeadersIs
<1>2. LinesOf(t, n) = LinesOf(h, n) \cup own /\ \A i \in DOMAIN h : i \in DOMAIN t /\ t[i] = h[i]
  <2>1. CASE HasContentType
    <3>1. TypeLine(job.contentType) \in Lines /\ TypeLine(job.contentType).name = "Content-Type"
      BY BuiltLines DEF TypeLine
    <3>2. t = Append(h, TypeLine(job.contentType))
      BY <2>1 DEF TypedHeaders
    <3>3. own = IF Folded["Content-Type"] = n THEN {Len(h) + 1} ELSE {}
      BY <2>1
    <3> HIDE DEF h, t, own
    <3> QED
      BY <1>1, <3>1, <3>2, <3>3, LinesOfAppend
  <2>2. CASE ~HasContentType
    BY <2>2 DEF TypedHeaders
  <2> QED
    BY <2>1, <2>2
<1> HIDE DEF t, h, own
<1>3. /\ r \in Seq(Lines) /\ LinesOf(r, n) = LinesOf(t, n)
      /\ \A i \in DOMAIN t : i \in DOMAIN r /\ r[i] = t[i]
  <2>1. RangeLine \in Lines /\ n # Folded[RangeLine.name]
    BY BuiltLines DEF RangeLine
  <2>2. /\ Append(t, RangeLine) \in Seq(Lines) /\ LinesOf(Append(t, RangeLine), n) = LinesOf(t, n)
        /\ \A i \in DOMAIN t : i \in DOMAIN Append(t, RangeLine) /\ Append(t, RangeLine)[i] = t[i]
    BY <1>1, <2>1, OtherLine
  <2> QED
    BY <1>1, <2>2
<1> HIDE DEF r
<1>4. /\ LinesOf(e, n) = LinesOf(r, n)
      /\ \A i \in DOMAIN r : i \in DOMAIN e /\ e[i] = r[i]
  <2>1. ExpectLine \in Lines /\ n # Folded[ExpectLine.name]
    BY BuiltLines DEF ExpectLine
  <2> QED
    BY <1>3, <2>1, OtherLine
<1> HIDE DEF e
<1>5. LinesOf(e, n) = LinesOf(h, n) \cup own /\ \A i \in DOMAIN h : e[i] = h[i]
  BY <1>2, <1>3, <1>4
<1> QED
  BY <1>1, <1>5 DEF h, own

LEMMA WithoutRangeAppend ==
  ASSUME NEW s \in Seq(Lines), NEW line \in Lines
  PROVE  WithoutRange(Append(s, line)) =
           IF line.name = "Range" THEN WithoutRange(s) ELSE Append(WithoutRange(s), line)
<1> DEFINE n == Len(s)
           t == Append(s, line)
           I == {i \in DOMAIN s : s[i].name # "Range"}
           J == {i \in DOMAIN t : t[i].name # "Range"}
<1>1. /\ n \in Nat /\ DOMAIN s = 1..n /\ DOMAIN t = 1..(n + 1)
      /\ t[n + 1] = line /\ \A i \in 1..n : t[i] = s[i]
  OBVIOUS
<1>2. I \in SUBSET (1..n) /\ WithoutRange(s) = Kept(s, I) /\ WithoutRange(t) = Kept(t, J)
  BY <1>1 DEF WithoutRange
<1>3. J = I \cup (IF line.name = "Range" THEN {} ELSE {n + 1})
  <2> HIDE DEF n, t
  <2>1. /\ n + 1 \in 1..(n + 1) /\ \A i \in 1..n : i \in 1..(n + 1)
        /\ \A i \in 1..(n + 1) : i \in 1..n \/ i = n + 1
    BY <1>1
  <2>2. \A i : i \in J <=> i \in I \/ (i = n + 1 /\ line.name # "Range")
    BY <1>1, <2>1
  <2> QED
    BY <2>2
<1> HIDE DEF I, J
<1>4. Kept(t, I) = Kept(s, I) /\ Kept(t, I \cup {n + 1}) = Append(Kept(s, I), line)
  BY <1>2, KeptAppend
<1>5. I \cup {} = I
  OBVIOUS
<1> HIDE DEF n, t
<1>6. WithoutRange(t) =
        IF line.name = "Range" THEN WithoutRange(s) ELSE Append(WithoutRange(s), line)
  BY <1>2, <1>3, <1>4, <1>5
<1> QED
  BY <1>6 DEF t

\* Every attempt of a job has the same list, but for Range.
LEMMA BuiltAlike ==
  ASSUME job.config.headers \in Seq(Lines), job.contentType \in Texts, NEW resuming
  PROVE  WithoutRange(BuildHeaders(resuming)) = Append(WithoutRange(TypedHeaders), ExpectLine)
<1> DEFINE t == TypedHeaders
           r == IF resuming THEN Append(t, RangeLine) ELSE t
<1>1. t \in Seq(Lines) /\ BuildHeaders(resuming) = Append(r, ExpectLine)
  BY BuildHeadersIs
<1> HIDE DEF t
<1>2. RangeLine \in Lines /\ RangeLine.name = "Range" /\ ExpectLine \in Lines
      /\ ExpectLine.name = "Expect"
  BY BuiltLines DEF RangeLine, ExpectLine
<1>3. Append(t, RangeLine) \in Seq(Lines) /\ WithoutRange(Append(t, RangeLine)) = WithoutRange(t)
  BY <1>1, <1>2, WithoutRangeAppend
<1>4. r \in Seq(Lines) /\ WithoutRange(r) = WithoutRange(t)
  BY <1>1, <1>3
<1> HIDE DEF r
<1>5. WithoutRange(Append(r, ExpectLine)) = Append(WithoutRange(r), ExpectLine)
  BY <1>2, <1>4, WithoutRangeAppend
<1> QED
  BY <1>1, <1>4, <1>5 DEF t

\* What curl sends is the method of the request, whatever ApplyMethod leaves to it.
LEMMA MethodIsSent ==
  ASSUME job.kind \in {"None", "Memory", "File", "Form", "Multipart"}, job.method \in Methods
  PROVE  MethodSent(ApplyMethod) = job.method
<1>1. job.method \in {"GET", "HEAD", "POST", "PUT", "PATCH", "DELETE", "OPTIONS"}
  BY RequestConfigAssumption
<1>2. /\ ApplyMethod.custom = IF NativeMethod THEN "" ELSE job.method
      /\ ApplyMethod.noBody = (job.method = "HEAD")
      /\ job.kind = "None" => ApplyMethod.set = IF job.method = "POST" THEN "post" ELSE "get"
      /\ job.kind = "File" => ApplyMethod.set = "upload"
      /\ job.kind = "Multipart" => ApplyMethod.set = "mime"
      /\ job.kind \in {"Memory", "Form"} => ApplyMethod.set = "post"
  BY DEF ApplyMethod
<1>3. CASE ~NativeMethod
  BY <1>1, <1>2, <1>3 DEF MethodSent
<1>4. CASE NativeMethod /\ job.kind = "None"
  BY <1>1, <1>2, <1>4 DEF MethodSent, NativeMethod
<1>5. CASE NativeMethod /\ job.kind = "File"
  BY <1>1, <1>2, <1>5 DEF MethodSent, NativeMethod
<1>6. CASE NativeMethod /\ job.kind \in {"Memory", "Form", "Multipart"}
  BY <1>1, <1>2, <1>6 DEF MethodSent, NativeMethod
<1> QED
  BY <1>3, <1>4, <1>5, <1>6

----------------------------------------------------------------------------
(* The invariant implies the properties *)

LEMMA JobAsAsked ==
  ASSUME RequestInvariant, told # None
  PROVE  /\ SpecAsAsked(job, asked)
         /\ told = Told(told.resuming) /\ headerList = BuildHeaders(told.resuming)
         /\ job.config.headers \in Seq(Lines) /\ job.contentType \in Texts
<1>1. job # None /\ told = Told(told.resuming) /\ headerList = BuildHeaders(told.resuming)
  BY DEF RequestInvariant
<1>2. SpecAsAsked(job, asked)
  BY <1>1 DEF RequestInvariant
<1> QED
  BY <1>1, <1>2 DEF SpecAsAsked, ConfigAsAsked

LEMMA InvariantAuth ==
  ASSUME RequestInvariant
  PROVE  AuthAsAsked
<1> SUFFICES ASSUME told # None PROVE told.auth = AuthAsked(asked)
  BY DEF AuthAsAsked
<1>1. SpecAsAsked(job, asked) /\ told = Told(told.resuming)
  BY JobAsAsked
<1>2. told.auth = ApplyAuth(job.config)
  BY <1>1 DEF Told
<1> QED
  BY <1>1, <1>2 DEF SpecAsAsked, ConfigAsAsked

LEMMA InvariantSent ==
  ASSUME RequestInvariant
  PROVE  SentAsAsked
<1> SUFFICES ASSUME told # None
             PROVE  told.body = BodyAsked(asked) /\ MethodSent(told.method) = job.method
  BY DEF SentAsAsked
<1>1. SpecAsAsked(job, asked) /\ told = Told(told.resuming)
  BY JobAsAsked
<1>2. told.body = ApplyBody(job) /\ told.method = ApplyMethod
  BY <1>1 DEF Told
<1>3. job.kind = BodyAsked(asked).kind
  BY <1>1, KindOfFields
<1>4. BodyAsked(asked).kind \in {"None", "Memory", "File", "Form", "Multipart"}
  BY BodyAskedIs DEF BodyOfLast
<1>5. job.method \in Methods
  BY <1>1 DEF SpecAsAsked
<1> QED
  BY <1>1, <1>2, <1>3, <1>4, <1>5, MethodIsSent DEF SpecAsAsked

\* A call about a header, or none.
LEMMA OneOrNone ==
  ASSUME NEW s, NEW n
  PROVE  HeaderAsked(s, n) = <<>> \/ (HeaderAsked(s, n) # <<>> /\ Len(HeaderAsked(s, n)) = 1)
<1>1. \E x : LastOf(s, AboutHeader(n)) = <<x>> \/ LastOf(s, AboutHeader(n)) = <<>>
  BY DEF LastOf
<1> QED
  BY <1>1 DEF HeaderAsked

LEMMA InvariantHeaders ==
  ASSUME RequestInvariant
  PROVE  HeadersAsAsked
<1> SUFFICES ASSUME told # None,
                    NEW n \in {Folded[m] : m \in DOMAIN Folded} \ {Folded["Range"], Folded["Expect"]}
             PROVE  LET own == HeaderAsked(asked, n)
                        lines == LinesOf(headerList, n)
                    IN  /\ Cardinality(lines) =
                             Len(own) + IF n = Folded["Content-Type"] /\ HasContentType THEN 1 ELSE 0
                        /\ own # <<>> => \E i \in lines : /\ headerList[i].value = own[1].value
                                                         /\ \A k \in lines : i <= k
  BY DEF HeadersAsAsked
<1> DEFINE own == HeaderAsked(asked, n)
           lines == LinesOf(headerList, n)
           h == job.config.headers
           typed == n = Folded["Content-Type"] /\ HasContentType
<1>1. /\ h \in Seq(Lines) /\ job.contentType \in Texts /\ LineAsAsked(h, n, own)
      /\ headerList = BuildHeaders(told.resuming)
  BY JobAsAsked DEF SpecAsAsked, ConfigAsAsked
<1>2. /\ lines = LinesOf(h, n) \cup (IF typed THEN {Len(h) + 1} ELSE {})
      /\ \A i \in DOMAIN h : headerList[i] = h[i]
  BY <1>1, LinesBuilt
<1>3. Len(h) \in Nat /\ DOMAIN h = 1..Len(h)
  BY <1>1
<1>4. own = <<>> \/ (own # <<>> /\ Len(own) = 1)
  BY OneOrNone
<1>5. Len(<<>>) = 0
  OBVIOUS
<1> HIDE DEF own, lines, h, typed
<1>6. CASE own = <<>>
  <2>1. lines = IF typed THEN {Len(h) + 1} ELSE {}
    BY <1>1, <1>2, <1>6 DEF LineAsAsked
  <2>2. Cardinality(lines) = IF typed THEN 1 ELSE 0
    BY <2>1, FS_EmptySet, FS_Singleton
  <2>3. Cardinality(lines) = Len(own) + IF typed THEN 1 ELSE 0
    BY <1>5, <1>6, <2>2
  <2> QED
    BY <1>6, <2>3 DEF own, lines, typed
<1>7. CASE own # <<>>
  <2>1. PICK i \in DOMAIN h : LinesOf(h, n) = {i} /\ h[i].value = own[1].value
    BY <1>1, <1>7 DEF LineAsAsked
  <2>2. i \in Int /\ i <= Len(h)
    BY <1>3
  <2>3. lines = {i} \cup (IF typed THEN {Len(h) + 1} ELSE {})
    BY <1>2, <2>1
  <2>4. Cardinality(lines) = Len(own) + IF typed THEN 1 ELSE 0
    <3>1. IsFiniteSet({i}) /\ Cardinality({i}) = 1
      BY FS_Singleton
    <3>2. CASE typed
      <4>1. Len(h) + 1 \notin {i}
        BY <1>3, <2>2
      <4>2. Cardinality({i} \cup {Len(h) + 1}) = Cardinality({i}) + 1
        BY <3>1, <4>1, FS_AddElement
      <4> QED
        BY <1>4, <1>7, <2>3, <3>1, <3>2, <4>2
    <3>3. CASE ~typed
      <4>1. lines = {i}
        BY <2>3, <3>3
      <4>2. Cardinality(lines) = 1 /\ Len(own) = 1
        BY <1>4, <1>7, <3>1, <4>1
      <4>3. (IF typed THEN 1 ELSE 0) = 0
        BY <3>3
      <4> QED
        BY <4>2, <4>3
    <3> QED
      BY <3>2, <3>3
  <2>5. i \in lines /\ headerList[i].value = own[1].value
    BY <1>2, <2>1, <2>3
  <2>6. \A k \in lines : i <= k
    <3> TAKE k \in lines
    <3>1. k = i \/ k = Len(h) + 1
      BY <2>3
    <3> QED
      BY <1>3, <2>2, <3>1
  <2> QED
    BY <2>4, <2>5, <2>6 DEF own, lines, typed
<1> QED
  BY <1>6, <1>7

----------------------------------------------------------------------------
(* Every step keeps the invariant *)

LEMMA InitRequest ==
  ASSUME Init
  PROVE  RequestInvariant
<1>1. /\ config = NoConfig /\ request = None /\ job = None /\ told = None
      /\ calls = <<>> /\ asked = <<>>
  BY DEF Init
<1>2. asked \in Seq(Calls) /\ calls \in Seq({c \in Calls : c.op \in AuthOps \cup HeaderOps})
  BY <1>1
<1>3. \A C : LastOf(<<>>, C) = <<>>
  BY LastOfNone
<1>4. ApplyAuth(NoConfig) = AuthAsked(<<>>)
  BY <1>3 DEF ApplyAuth, NoConfig, AuthAsked
<1>5. \A n : HeaderAsked(<<>>, n) = <<>>
  BY <1>3 DEF HeaderAsked
<1>6. NoConfig.headers = <<>> /\ ConfigFields \subseteq DOMAIN NoConfig
  BY DEF NoConfig, ConfigFields
<1>7. \A n : LinesOf(<<>>, n) = {}
  BY DEF LinesOf
<1>8. <<>> \in Seq(Lines)
  OBVIOUS
<1>9. ConfigAsAsked(NoConfig, <<>>)
  BY <1>4, <1>5, <1>6, <1>7, <1>8 DEF ConfigAsAsked, LineAsAsked, ConfigFields
<1> QED
  BY <1>1, <1>2, <1>9 DEF RequestInvariant

LEMMA ClientCallRequest ==
  ASSUME RequestInvariant, NEW c \in Calls, Client_Call(c)
  PROVE  RequestInvariant'
<1> DEFINE ClientCalls == {d \in Calls : d.op \in AuthOps \cup HeaderOps}
<1>1. /\ c.op \in AuthOps \cup HeaderOps /\ config' = Configured(config, c)
      /\ calls' = Append(calls, c)
      /\ UNCHANGED <<request, job, headerList, told, asked>>
  BY DEF Client_Call
<1>2. calls \in Seq(ClientCalls) /\ ConfigAsAsked(config, calls) /\ calls \in Seq(Calls)
  <2>1. calls \in Seq(ClientCalls)
    BY DEF RequestInvariant
  <2>2. calls \in Seq(Calls)
    BY <2>1, ClientAsksNoBody
  <2> QED
    BY <2>1, <2>2 DEF RequestInvariant
<1>3. c \in ClientCalls
  BY <1>1
<1> HIDE DEF ClientCalls
<1>4. calls' \in Seq(ClientCalls) /\ ConfigAsAsked(config', calls')
  BY <1>1, <1>2, <1>3, ConfiguredAsAsked
<1>5. told' # None => told' = Told(told.resuming)' /\ headerList' = BuildHeaders(told.resuming)'
  BY <1>1 DEF RequestInvariant, Told, ApplyMethod, NativeMethod, BuildHeaders, HasContentType
<1> QED
  BY <1>1, <1>4, <1>5 DEF RequestInvariant, ClientCalls

\* A request starts from the configuration of its client, and without a body.
LEMMA ClientRequestRequest ==
  ASSUME RequestInvariant, NEW method \in Methods, Client_Request(method)
  PROVE  RequestInvariant'
<1>1. /\ request = None /\ job = None /\ request' = NewSpec(method) /\ asked' = calls
      /\ UNCHANGED <<config, job, headerList, told, calls>>
  BY DEF Client_Request
<1>2. told = None /\ told' = None /\ job' = None
  BY <1>1 DEF RequestInvariant
<1>3. /\ calls \in Seq(Calls) /\ FieldsAsked(calls) = <<>>
      /\ BodyAsked(calls) = [kind |-> "None", data |-> <<>>]
  <2>1. calls \in Seq({c \in Calls : c.op \in AuthOps \cup HeaderOps})
    BY DEF RequestInvariant
  <2> QED
    BY <2>1, ClientAsksNoBody
<1>4. ConfigAsAsked(config, calls)
  BY DEF RequestInvariant
<1>5. /\ DOMAIN NewSpec(method) = SpecFields /\ NewSpec(method).config = config
      /\ NewSpec(method).method = method /\ NewSpec(method).contentType = ""
      /\ NewSpec(method).fields = <<>> /\ NewSpec(method).kind = "None"
  BY DEF NewSpec, SpecFields
<1>6. ApplyBody(NewSpec(method)) = [kind |-> "None", data |-> <<>>]
  BY <1>5 DEF ApplyBody
<1>7. SpecAsAsked(request', asked')
  BY <1>1, <1>3, <1>4, <1>5, <1>6 DEF SpecAsAsked, SpecFields, Texts
<1>8. /\ asked' \in Seq(Calls) /\ ConfigAsAsked(config', calls')
      /\ calls' \in Seq({c \in Calls : c.op \in AuthOps \cup HeaderOps})
  BY <1>1, <1>3, <1>4 DEF RequestInvariant
<1> QED
  BY <1>1, <1>2, <1>7, <1>8 DEF RequestInvariant

LEMMA RequestCallRequest ==
  ASSUME RequestInvariant, NEW c \in Calls, Request_Call(c)
  PROVE  RequestInvariant'
<1>1. /\ request # None /\ asked' = Append(asked, c)
      /\ UNCHANGED <<config, job, headerList, told, calls>>
      /\ c.op \in BodyOps => request' = WithBody(request, c)
      /\ c.op \in FormOps => request' = WithField(request, c)
      /\ c.op \notin BodyOps /\ c.op \notin FormOps =>
           request' = [request EXCEPT !.config = Configured(request.config, c)]
  BY DEF Request_Call, BodyOps, FormOps
<1>2. job = None /\ told = None /\ SpecAsAsked(request, asked) /\ asked \in Seq(Calls)
  BY <1>1 DEF RequestInvariant
<1>3. SpecAsAsked(request', asked')
  <2>1. CASE c.op \in BodyOps
    BY <1>1, <1>2, <2>1, WithBodySpec
  <2>2. CASE c.op \in FormOps
    BY <1>1, <1>2, <2>2, WithFieldSpec
  <2>3. CASE c.op \notin BodyOps /\ c.op \notin FormOps
    <3>1. c.op \in AuthOps \cup HeaderOps
      BY <2>3, CallTypes
    <3> QED
      BY <1>1, <1>2, <2>3, <3>1, ConfiguredSpec
  <2> QED
    BY <2>1, <2>2, <2>3
<1>4. asked' \in Seq(Calls)
  BY <1>1, <1>2
<1>5. /\ ConfigAsAsked(config', calls')
      /\ calls' \in Seq({d \in Calls : d.op \in AuthOps \cup HeaderOps})
  BY <1>1 DEF RequestInvariant
<1> QED
  BY <1>1, <1>2, <1>3, <1>4, <1>5 DEF RequestInvariant

LEMMA RequestSendRequest ==
  ASSUME RequestInvariant, Request_Send
  PROVE  RequestInvariant'
<1> DEFINE type == "application/x-www-form-urlencoded"
<1>1. /\ request # None /\ request' = None /\ UNCHANGED <<config, headerList, told, calls, asked>>
      /\ job' = IF request.kind = "Form" THEN [request EXCEPT !.contentType = type] ELSE request
  BY DEF Request_Send
<1>2. told = None /\ SpecAsAsked(request, asked) /\ asked \in Seq(Calls)
  BY <1>1 DEF RequestInvariant
<1>3. SpecAsAsked(job', asked')
  <2> DEFINE new == [request EXCEPT !.contentType = type]
  <2>1. /\ DOMAIN new = DOMAIN request /\ new.config = request.config /\ new.kind = request.kind
        /\ new.method = request.method /\ new.body = request.body /\ new.contentType = type
        /\ new.file = request.file /\ new.fields = request.fields
    BY <1>2 DEF SpecAsAsked
  <2> HIDE DEF new
  <2>2. ApplyBody(new) = ApplyBody(request)
    BY <2>1 DEF ApplyBody
  <2>3. type \in Texts
    BY DEF Texts
  <2>4. SpecAsAsked(new, asked)
    BY <1>2, <2>1, <2>2, <2>3 DEF SpecAsAsked
  <2>5. job' = IF request.kind = "Form" THEN new ELSE request
    BY <1>1 DEF new
  <2> QED
    BY <1>1, <1>2, <2>4, <2>5
<1>4. /\ ConfigAsAsked(config', calls')
      /\ calls' \in Seq({d \in Calls : d.op \in AuthOps \cup HeaderOps})
  BY <1>1 DEF RequestInvariant
<1> QED
  BY <1>1, <1>2, <1>3, <1>4 DEF RequestInvariant

LEMMA BeginAttemptRequest ==
  ASSUME RequestInvariant, NEW resuming, BeginAttempt(resuming)
  PROVE  RequestInvariant'
<1>1. /\ job # None /\ headerList' = BuildHeaders(resuming) /\ told' = Told(resuming)
      /\ UNCHANGED <<config, request, job, calls, asked>>
  BY DEF BeginAttempt
<1>2. told'.resuming = resuming
  BY <1>1 DEF Told
<1>3. told' = Told(told.resuming)' /\ headerList' = BuildHeaders(told.resuming)'
  BY <1>1, <1>2 DEF Told, ApplyMethod, NativeMethod, BuildHeaders, HasContentType
<1> QED
  BY <1>1, <1>3 DEF RequestInvariant

LEMMA SameRequest ==
  ASSUME RequestInvariant, UNCHANGED vars
  PROVE  RequestInvariant'
BY DEF RequestInvariant, vars, Told, ApplyMethod, NativeMethod, BuildHeaders, HasContentType

LEMMA NextRequest ==
  ASSUME RequestInvariant, [Next]_vars
  PROVE  RequestInvariant'
<1>1. CASE \E c \in Calls : Client_Call(c)
  BY <1>1, ClientCallRequest
<1>2. CASE \E c \in Calls : Request_Call(c)
  BY <1>2, RequestCallRequest
<1>3. CASE \E method \in Methods : Client_Request(method)
  BY <1>3, ClientRequestRequest
<1>4. CASE Request_Send
  BY <1>4, RequestSendRequest
<1>5. CASE \E resuming \in BOOLEAN : BeginAttempt(resuming)
  BY <1>5, BeginAttemptRequest
<1>6. CASE Done \/ UNCHANGED vars
  BY <1>6, SameRequest DEF Done
<1> QED
  BY <1>1, <1>2, <1>3, <1>4, <1>5, <1>6 DEF Next

\* In every state the configuration, the request or the job are what the calls
\* made so far ask for, and the attempt was told all of the job.
THEOREM RequestInvariantHolds == Spec => []RequestInvariant
<1>1. Init => RequestInvariant
  BY InitRequest
<1>2. RequestInvariant /\ [Next]_vars => RequestInvariant'
  BY NextRequest
<1> QED
  BY <1>1, <1>2, PTL DEF Spec

----------------------------------------------------------------------------
(* The properties *)

\* Of all calls for authentication the last one decides, in every attempt of every
\* request (SetBasicAuth, SetBearerToken, ApplyAuth).
THEOREM LastAuthDecides == Spec => []AuthAsAsked
<1>1. RequestInvariant => AuthAsAsked
  BY InvariantAuth
<1> QED
  BY <1>1, RequestInvariantHolds, PTL

\* Each header goes out once, with the value of the last call about it in any
\* spelling, or not at all (SetHeader, RemoveHeader, BuildHeaders).
THEOREM LastHeaderDecides == Spec => []HeadersAsAsked
<1>1. RequestInvariant => HeadersAsAsked
  BY InvariantHeaders
<1> QED
  BY <1>1, RequestInvariantHolds, PTL

\* The body is that of the last call that set one, or all fields added since, and
\* the method is that of the request (SetBody, SetBodyFile, SetFormKind, ApplyMethod).
THEOREM LastBodyDecides == Spec => []SentAsAsked
<1>1. RequestInvariant => SentAsAsked
  BY InvariantSent
<1> QED
  BY <1>1, RequestInvariantHolds, PTL

LEMMA RetryAlike ==
  ASSUME RequestInvariant, [Next]_vars, told # None, told' # None
  PROVE  /\ told'.auth = told.auth /\ told'.method = told.method /\ told'.body = told.body
         /\ WithoutRange(headerList') = WithoutRange(headerList)
<1>1. CASE \E resuming \in BOOLEAN : BeginAttempt(resuming)
  <2>1. PICK resuming \in BOOLEAN : BeginAttempt(resuming)
    BY <1>1
  <2>2. told' = Told(resuming) /\ headerList' = BuildHeaders(resuming)
    BY <2>1 DEF BeginAttempt
  <2>3. /\ told = Told(told.resuming) /\ headerList = BuildHeaders(told.resuming)
        /\ job.config.headers \in Seq(Lines) /\ job.contentType \in Texts
    BY JobAsAsked
  <2>4. told'.auth = told.auth /\ told'.method = told.method /\ told'.body = told.body
    BY <2>2, <2>3 DEF Told
  <2>5. WithoutRange(headerList') = WithoutRange(headerList)
    BY <2>2, <2>3, BuiltAlike
  <2> QED
    BY <2>4, <2>5
<1>2. CASE ~\E resuming \in BOOLEAN : BeginAttempt(resuming)
  <2>1. told' = told /\ headerList' = headerList
    BY <1>2 DEF Next, Client_Call, Client_Request, Request_Call, Request_Send, Done, vars
  <2> QED
    BY <2>1
<1> QED
  BY <1>1, <1>2

\* A retry tells libcurl what the first attempt told it, but for Range: the list of
\* headers is built anew, and nobody has the specification any more (BuildHeaders, Send).
THEOREM RetriesRepeat == Spec => RetriesAlike
<1>1. RequestInvariant /\ [Next]_vars =>
        [told # None /\ told' # None =>
           /\ told'.auth = told.auth /\ told'.method = told.method /\ told'.body = told.body
           /\ WithoutRange(headerList') = WithoutRange(headerList)]_vars
  BY RetryAlike
<1> QED
  BY <1>1, RequestInvariantHolds, PTL DEF Spec, RetriesAlike
=============================================================================
