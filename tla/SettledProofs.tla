----------------------------- MODULE SettledProofs -----------------------------
(***************************************************************************)
(* What an apply leaves for the next one: every target finds what it has   *)
(* rendered, whatever the targets after it did, and has nothing to do.     *)
(***************************************************************************)
EXTENDS ConfigProofs
--------------------------------------------------------------------------------
(* The elements of a sequence that are selected. *)

\* f goes through the first n elements of s as Selected does.
IsSelection(f, s, S, n) ==
    f = [i \in 0..n |-> IF i = 0 THEN << >>
                        ELSE IF s[i] \in S THEN Append(f[i - 1], s[i]) ELSE f[i - 1]]

LEMMA SelectionExists ==
    ASSUME NEW s, NEW S
    PROVE  \A n \in Nat : \E f : IsSelection(f, s, S, n)
<1> DEFINE N == {n \in Nat : \E f : IsSelection(f, s, S, n)}
<1>1. 0 \in N
  <2>1. IsSelection([i \in 0..0 |-> << >>], s, S, 0)
    BY DEF IsSelection
  <2> QED
    BY <2>1
<1>2. ASSUME NEW n \in Nat, n \in N
      PROVE  n + 1 \in N
  <2>1. PICK f : IsSelection(f, s, S, n)
    BY <1>2
  <2> DEFINE last == IF s[n + 1] \in S THEN Append(f[n], s[n + 1]) ELSE f[n]
             g == [i \in 0..(n + 1) |-> IF i <= n THEN f[i] ELSE last]
             F == [i \in 0..(n + 1) |->
                     IF i = 0 THEN << >>
                     ELSE IF s[i] \in S THEN Append(g[i - 1], s[i]) ELSE g[i - 1]]
  <2>2. ASSUME NEW i \in 0..(n + 1)
        PROVE  g[i] = F[i]
    <3>1. CASE i = n + 1
      <4>1. g[i] = last /\ i - 1 = n /\ g[i - 1] = f[n] /\ i # 0
        BY <3>1
      <4> QED
        BY <3>1, <4>1
    <3>2. CASE i # n + 1 /\ i # 0
      <4>1. i \in 0..n /\ i - 1 \in 0..n /\ i - 1 <= n
        BY <3>2
      <4>2. f[i] = IF s[i] \in S THEN Append(f[i - 1], s[i]) ELSE f[i - 1]
        BY <2>1, <3>2, <4>1 DEF IsSelection
      <4> HIDE DEF last
      <4> QED
        BY <3>2, <4>1, <4>2
    <3>3. CASE i = 0
      <4>1. f[0] = << >>
        BY <2>1 DEF IsSelection
      <4> QED
        BY <3>3, <4>1
    <3> QED
      BY <3>1, <3>2, <3>3
  <2>3. g = F
    <3> HIDE DEF last
    <3> QED
      BY <2>2
  <2>4. IsSelection(g, s, S, n + 1)
    <3> HIDE DEF g
    <3> QED
      BY <2>3 DEF IsSelection
  <2> QED
    BY <2>4
<1> HIDE DEF N
<1>3. Nat \subseteq N
  BY <1>1, <1>2, NatSetInduction
<1> QED
  BY <1>3 DEF N

LEMMA SelectedIs ==
    ASSUME NEW T, NEW s \in Seq(T), NEW S
    PROVE  \E f : /\ Selected(s, S) = f[Len(s)] /\ f[0] = << >>
                  /\ \A i \in 1..Len(s) :
                       f[i] = IF s[i] \in S THEN Append(f[i - 1], s[i]) ELSE f[i - 1]
<1> DEFINE f == CHOOSE f : IsSelection(f, s, S, Len(s))
<1>1. Len(s) \in Nat
  OBVIOUS
<1>2. \E g : IsSelection(g, s, S, Len(s))
  BY <1>1, SelectionExists
<1>3. IsSelection(f, s, S, Len(s))
  BY <1>2
<1>4. Selected(s, S) = f[Len(s)]
  BY Zenon DEF Selected, IsSelection
<1> HIDE DEF f
<1>5. f[0] = << >>
  BY <1>1, <1>3 DEF IsSelection
<1>6. ASSUME NEW i \in 1..Len(s)
      PROVE  f[i] = IF s[i] \in S THEN Append(f[i - 1], s[i]) ELSE f[i - 1]
  <2>1. i \in 0..Len(s) /\ i # 0
    BY <1>1
  <2> QED
    BY <1>3, <2>1 DEF IsSelection
<1> QED
  BY <1>4, <1>5, <1>6

\* What is selected are the elements that are in S.
LEMMA SelectedType ==
    ASSUME NEW T, NEW s \in Seq(T), NEW S
    PROVE  /\ Selected(s, S) \in Seq(T)
           /\ Range(Selected(s, S)) = Range(s) \cap S
<1>1. PICK f : /\ Selected(s, S) = f[Len(s)] /\ f[0] = << >>
               /\ \A i \in 1..Len(s) :
                    f[i] = IF s[i] \in S THEN Append(f[i - 1], s[i]) ELSE f[i - 1]
  BY SelectedIs
<1>2. Len(s) \in Nat
  OBVIOUS
<1> DEFINE Up(i) == {s[j] : j \in 1..i} \cap S
           Good(i) == f[i] \in Seq(T) /\ {f[i][j] : j \in 1..Len(f[i])} = Up(i)
           N == {i \in Nat : i <= Len(s) => Good(i)}
<1>3. 0 \in N
  <2>1. 1..0 = {} /\ Len(<< >>) = 0 /\ << >> \in Seq(T)
    OBVIOUS
  <2>2. Up(0) = {}
    BY <2>1
  <2>3. {f[0][j] : j \in 1..Len(f[0])} = {}
    BY <1>1, <2>1
  <2>4. Good(0)
    BY <1>1, <2>1, <2>2, <2>3, Zenon
  <2> QED
    BY <2>4
<1>4. ASSUME NEW i \in Nat, i \in N
      PROVE  i + 1 \in N
  <2> SUFFICES ASSUME i + 1 <= Len(s)
               PROVE  Good(i + 1)
    <3> HIDE DEF Good
    <3> QED
      OBVIOUS
  <2>1. Good(i)
    <3> HIDE DEF Good
    <3> QED
      BY <1>2, <1>4
  <2>2. f[i + 1] = IF s[i + 1] \in S THEN Append(f[i], s[i + 1]) ELSE f[i]
    <3>1. i + 1 \in 1..Len(s) /\ (i + 1) - 1 = i
      BY <1>2
    <3> QED
      BY <1>1, <3>1
  <2>3. {s[j] : j \in 1..(i + 1)} = {s[j] : j \in 1..i} \cup {s[i + 1]}
    <3>1. 1..(i + 1) = (1..i) \cup {i + 1}
      OBVIOUS
    <3> QED
      BY <3>1
  <2>4. CASE s[i + 1] \in S
    <3>1. /\ f[i + 1] \in Seq(T) /\ Len(f[i + 1]) = Len(f[i]) + 1
          /\ \A j \in 1..Len(f[i]) : f[i + 1][j] = f[i][j]
          /\ f[i + 1][Len(f[i]) + 1] = s[i + 1]
      <4>1. s[i + 1] \in T
        BY <1>2
      <4> QED
        BY <2>1, <2>2, <2>4, <4>1, AppendProperties
    <3>2. {f[i + 1][j] : j \in 1..Len(f[i + 1])} = {f[i][j] : j \in 1..Len(f[i])} \cup {s[i + 1]}
      <4>1. Len(f[i]) \in Nat
        BY <2>1
      <4>2. 1..Len(f[i + 1]) = (1..Len(f[i])) \cup {Len(f[i]) + 1}
        BY <3>1, <4>1
      <4> QED
        BY <3>1, <4>2
    <3>3. Up(i + 1) = Up(i) \cup {s[i + 1]}
      BY <2>3, <2>4
    <3> QED
      BY <2>1, <3>1, <3>2, <3>3
  <2>5. CASE s[i + 1] \notin S
    <3>1. Up(i + 1) = Up(i)
      BY <2>3, <2>5
    <3> QED
      BY <2>1, <2>2, <2>5, <3>1
  <2> QED
    BY <2>4, <2>5
<1> HIDE DEF N
<1>5. Nat \subseteq N
  BY <1>3, <1>4, NatSetInduction
<1>6. Good(Len(s))
  <2> HIDE DEF Good
  <2> QED
    BY <1>2, <1>5 DEF N
<1>7. Range(s) = {s[j] : j \in 1..Len(s)}
  BY RangeEquality
<1>8. Range(f[Len(s)]) = {f[Len(s)][j] : j \in 1..Len(f[Len(s)])}
  BY <1>6, RangeEquality
<1> QED
  BY <1>1, <1>6, <1>7, <1>8, Zenon

\* Nothing of a is selected, and all of b.
LEMMA SelectedTail ==
    ASSUME NEW T, NEW a \in Seq(T), NEW b \in Seq(T), NEW S,
           Range(a) \cap S = {}, Range(b) \subseteq S
    PROVE  Selected(a \o b, S) = b
<1> DEFINE s == a \o b
           m == Len(a)
<1>1. /\ s \in Seq(T) /\ Len(s) = m + Len(b)
      /\ \A i \in 1..(m + Len(b)) : s[i] = IF i <= m THEN a[i] ELSE b[i - m]
  BY ConcatProperties
<1>2. PICK f : /\ Selected(s, S) = f[Len(s)] /\ f[0] = << >>
               /\ \A i \in 1..Len(s) :
                    f[i] = IF s[i] \in S THEN Append(f[i - 1], s[i]) ELSE f[i - 1]
  <2> HIDE DEF s
  <2> QED
    BY <1>1, SelectedIs
<1>3. m \in Nat /\ Len(b) \in Nat
  OBVIOUS
<1>4. (\A i \in 1..m : a[i] \notin S) /\ \A i \in 1..Len(b) : b[i] \in S
  BY RangeEquality
<1> HIDE DEF s, m
<1> DEFINE N == {i \in Nat : i <= m => f[i] = << >>}
           M == {i \in Nat : i <= Len(b) => f[m + i] = SubSeq(b, 1, i)}
<1>5. 0 \in N
  BY <1>2
<1>6. ASSUME NEW i \in Nat, i \in N PROVE i + 1 \in N
  <2> SUFFICES ASSUME i + 1 <= m PROVE f[i + 1] = << >>
    OBVIOUS
  <2>1. i + 1 \in 1..Len(s) /\ (i + 1) - 1 = i /\ i <= m /\ s[i + 1] = a[i + 1] /\ i + 1 \in 1..m
    BY <1>1, <1>3
  <2> QED
    BY <1>2, <1>4, <1>6, <2>1
<1>7. f[m] = << >>
  <2> HIDE DEF N
  <2>1. Nat \subseteq N
    BY <1>5, <1>6, NatSetInduction
  <2> QED
    BY <1>3, <2>1 DEF N
<1>8. 0 \in M
  <2>1. SubSeq(b, 1, 0) = << >> /\ m + 0 = m
    BY <1>3, SubSeqEmpty
  <2> QED
    BY <1>7, <2>1
<1>9. ASSUME NEW i \in Nat, i \in M PROVE i + 1 \in M
  <2> SUFFICES ASSUME i + 1 <= Len(b) PROVE f[m + (i + 1)] = SubSeq(b, 1, i + 1)
    OBVIOUS
  <2>1. /\ m + (i + 1) \in 1..Len(s) /\ (m + (i + 1)) - 1 = m + i /\ i <= Len(b)
        /\ ~(m + (i + 1) <= m) /\ (m + (i + 1)) - m = i + 1 /\ i + 1 \in 1..Len(b)
    BY <1>1, <1>3
  <2>2. s[m + (i + 1)] = b[i + 1] /\ b[i + 1] \in S
    BY <1>1, <1>4, <2>1
  <2>3. f[m + (i + 1)] = Append(SubSeq(b, 1, i), b[i + 1])
    BY <1>2, <1>9, <2>1, <2>2
  <2>4. SubSeq(b, 1, i + 1) = Append(SubSeq(b, 1, i), b[i + 1])
    <3>1. SubSeq(b, 1, i + 1) = SubSeq(b, 1, (i + 1) - 1) \o <<b[i + 1]>>
      <4>1. 1 \in 1..Len(b) /\ i + 1 \in 1..Len(b)
        BY <2>1
      <4> QED
        BY <4>1, SubSeqRecursiveSecond
    <3>2. SubSeq(b, 1, i) \in Seq(T)
      <4>1. \A j \in 1..i : b[j] \in T
        BY <1>3, <2>1
      <4> QED
        BY <4>1, SubSeqProperties
    <3>3. b[i + 1] \in T /\ (i + 1) - 1 = i
      BY <2>1
    <3> QED
      BY <3>1, <3>2, <3>3, AppendIsConcat
  <2> QED
    BY <2>3, <2>4
<1>10. f[m + Len(b)] = SubSeq(b, 1, Len(b))
  <2> HIDE DEF M
  <2>1. Nat \subseteq M
    BY <1>8, <1>9, NatSetInduction
  <2> QED
    BY <1>3, <2>1 DEF M
<1>11. SubSeq(b, 1, Len(b)) = b
  BY SubSeqFull
<1> QED
  BY <1>1, <1>2, <1>10, <1>11 DEF s

\* f puts the first n sequences of s together as FlattenSeq does.
IsFlatten(f, s, n) ==
    f = [i \in 1..n |-> IF i = 1 THEN s[i] ELSE f[i - 1] \o s[i]]

LEMMA FlattenExists ==
    ASSUME NEW s
    PROVE  \A n \in Nat : \E f : IsFlatten(f, s, n)
<1> DEFINE N == {n \in Nat : \E f : IsFlatten(f, s, n)}
<1>1. 0 \in N
  <2>1. IsFlatten([i \in 1..0 |-> << >>], s, 0)
    BY DEF IsFlatten
  <2> QED
    BY <2>1
<1>2. ASSUME NEW n \in Nat, n \in N
      PROVE  n + 1 \in N
  <2>1. PICK f : IsFlatten(f, s, n)
    BY <1>2
  <2> DEFINE last == IF n = 0 THEN s[1] ELSE f[n] \o s[n + 1]
             g == [i \in 1..(n + 1) |-> IF i <= n THEN f[i] ELSE last]
             F == [i \in 1..(n + 1) |-> IF i = 1 THEN s[i] ELSE g[i - 1] \o s[i]]
  <2>2. ASSUME NEW i \in 1..(n + 1)
        PROVE  g[i] = F[i]
    <3>1. CASE i = n + 1 /\ n = 0
      BY <3>1
    <3>2. CASE i = n + 1 /\ n # 0
      <4>1. g[i] = last /\ i - 1 = n /\ n \in 1..(n + 1) /\ i # 1
        <5> HIDE DEF last
        <5> QED
          BY <3>2
      <4>2. g[i - 1] = f[n]
        BY <4>1
      <4> HIDE DEF g
      <4> QED
        BY <3>2, <4>1, <4>2
    <3>3. CASE i # n + 1 /\ i # 1
      <4>1. i \in 1..n /\ i - 1 \in 1..(n + 1) /\ i - 1 <= n /\ i <= n
        BY <3>3
      <4>2. f[i] = f[i - 1] \o s[i]
        BY <2>1, <3>3, <4>1 DEF IsFlatten
      <4>3. g[i] = f[i] /\ g[i - 1] = f[i - 1]
        BY <4>1
      <4> HIDE DEF g, last
      <4> QED
        BY <3>3, <4>2, <4>3
    <3>4. CASE i = 1 /\ n # 0
      <4>1. f[1] = s[1]
        BY <2>1, <3>4 DEF IsFlatten
      <4>2. g[1] = f[1]
        BY <3>4
      <4> HIDE DEF g, last
      <4> QED
        BY <3>4, <4>1, <4>2
    <3> QED
      BY <3>1, <3>2, <3>3, <3>4
  <2>3. g = F
    <3> HIDE DEF last
    <3> QED
      BY <2>2
  <2>4. IsFlatten(g, s, n + 1)
    <3> HIDE DEF g
    <3> QED
      BY <2>3 DEF IsFlatten
  <2> QED
    BY <2>4
<1> HIDE DEF N
<1>3. Nat \subseteq N
  BY <1>1, <1>2, NatSetInduction
<1> QED
  BY <1>3 DEF N

LEMMA FlattenType ==
    ASSUME NEW T, NEW s \in Seq(Seq(T))
    PROVE  FlattenSeq(s) \in Seq(T)
<1>1. Len(s) \in Nat
  OBVIOUS
<1>2. CASE Len(s) = 0
  <2>1. s = << >>
    BY <1>2, EmptySeq
  <2>2. FlattenSeq(s) = << >>
    BY <1>2, <2>1 DEF FlattenSeq
  <2> QED
    BY <2>2
<1>3. CASE Len(s) # 0
  <2> DEFINE f == CHOOSE f : IsFlatten(f, s, Len(s))
  <2>1. IsFlatten(f, s, Len(s))
    BY <1>1, FlattenExists
  <2>2. FlattenSeq(s) = f[Len(s)]
    BY <1>3, Zenon DEF FlattenSeq, IsFlatten
  <2> HIDE DEF f
  <2> DEFINE N == {i \in Nat : i + 1 <= Len(s) => f[i + 1] \in Seq(T)}
  <2>3. \A i \in 1..Len(s) : s[i] \in Seq(T)
    OBVIOUS
  <2>4. \A i \in 1..Len(s) : f[i] = IF i = 1 THEN s[i] ELSE f[i - 1] \o s[i]
    BY <2>1 DEF IsFlatten
  <2>5. 0 \in N
    <3>1. 1 \in 1..Len(s)
      BY <1>1, <1>3
    <3> QED
      BY <2>3, <2>4, <3>1
  <2>6. ASSUME NEW i \in Nat, i \in N PROVE i + 1 \in N
    <3> SUFFICES ASSUME (i + 1) + 1 <= Len(s) PROVE f[(i + 1) + 1] \in Seq(T)
      OBVIOUS
    <3>1. (i + 1) + 1 \in 1..Len(s) /\ ((i + 1) + 1) - 1 = i + 1 /\ (i + 1) + 1 # 1 /\ i + 1 <= Len(s)
      BY <1>1
    <3>2. f[i + 1] \in Seq(T) /\ s[(i + 1) + 1] \in Seq(T)
      BY <2>3, <2>6, <3>1
    <3>3. f[(i + 1) + 1] = f[i + 1] \o s[(i + 1) + 1]
      BY <2>4, <3>1
    <3> QED
      BY <3>2, <3>3, ConcatProperties
  <2> HIDE DEF N
  <2>7. Nat \subseteq N
    BY <2>5, <2>6, NatSetInduction
  <2>8. Len(s) - 1 \in Nat /\ (Len(s) - 1) + 1 = Len(s)
    BY <1>1, <1>3
  <2>9. f[Len(s)] \in Seq(T)
    BY <2>7, <2>8 DEF N
  <2> QED
    BY <2>2, <2>9
<1> QED
  BY <1>2, <1>3
--------------------------------------------------------------------------------
(* Key paths. *)

IsPath(p) == p \in Seq(Range(p))
HasPaths(d) == \A p \in DOMAIN d : IsPath(p)

LEMMA PathLen ==
    ASSUME NEW p, IsPath(p)
    PROVE  Len(p) \in Nat /\ (p # << >> => Len(p) >= 1)
<1>1. p = << >> \/ Len(p) \in Nat \ {0}
  BY EmptySeq DEF IsPath
<1> QED
  BY <1>1, EmptySeq

\* The paths that are written out.
LEMMA NoPath == IsPath(<< >>) /\ Len(<< >>) = 0
  BY DEF IsPath

LEMMA OnePath ==
    ASSUME NEW a
    PROVE  IsPath(<<a>>) /\ Len(<<a>>) = 1 /\ <<a>>[1] = a /\ <<a>> # << >>
<1>1. <<a>> \in Seq({a}) /\ Len(<<a>>) = 1 /\ <<a>>[1] = a /\ Len(<< >>) = 0
  OBVIOUS
<1>2. <<a>> # << >>
  BY <1>1
<1> QED
  BY <1>1, <1>2, SeqOfRange DEF IsPath

LEMMA TwoPath ==
    ASSUME NEW a, NEW b
    PROVE  /\ IsPath(<<a, b>>) /\ Len(<<a, b>>) = 2 /\ <<a, b>> # << >>
           /\ <<a, b>>[1] = a /\ <<a, b>>[2] = b
<1>1. <<a, b>> \in Seq({a, b}) /\ Len(<<a, b>>) = 2 /\ Len(<< >>) = 0
      /\ <<a, b>>[1] = a /\ <<a, b>>[2] = b
  OBVIOUS
<1>2. <<a, b>> # << >>
  BY <1>1
<1> QED
  BY <1>1, <1>2, SeqOfRange DEF IsPath

LEMMA ThreePath ==
    ASSUME NEW a, NEW b, NEW c
    PROVE  /\ IsPath(<<a, b, c>>) /\ Len(<<a, b, c>>) = 3 /\ <<a, b, c>> # << >>
           /\ <<a, b, c>>[1] = a /\ <<a, b, c>>[2] = b /\ <<a, b, c>>[3] = c
<1>1. <<a, b, c>> \in Seq({a, b, c}) /\ Len(<<a, b, c>>) = 3 /\ Len(<< >>) = 0
      /\ <<a, b, c>>[1] = a /\ <<a, b, c>>[2] = b /\ <<a, b, c>>[3] = c
  OBVIOUS
<1>2. <<a, b, c>> # << >>
  BY <1>1
<1> QED
  BY <1>1, <1>2, SeqOfRange DEF IsPath

LEMMA FourPath ==
    ASSUME NEW a, NEW b, NEW c, NEW e
    PROVE  /\ IsPath(<<a, b, c, e>>) /\ Len(<<a, b, c, e>>) = 4 /\ <<a, b, c, e>> # << >>
           /\ <<a, b, c, e>>[1] = a /\ <<a, b, c, e>>[2] = b
           /\ <<a, b, c, e>>[3] = c /\ <<a, b, c, e>>[4] = e
<1>1. <<a, b, c, e>> \in Seq({a, b, c, e}) /\ Len(<<a, b, c, e>>) = 4 /\ Len(<< >>) = 0
      /\ <<a, b, c, e>>[1] = a /\ <<a, b, c, e>>[2] = b
      /\ <<a, b, c, e>>[3] = c /\ <<a, b, c, e>>[4] = e
  OBVIOUS
<1>2. <<a, b, c, e>> # << >>
  BY <1>1
<1> QED
  BY <1>1, <1>2, SeqOfRange DEF IsPath

\* Two paths are sequences over one set.
LEMMA BothPaths ==
    ASSUME NEW p, IsPath(p), NEW q, IsPath(q)
    PROVE  \E S : p \in Seq(S) /\ q \in Seq(S)
<1>1. Range(p) \subseteq Range(p) \cup Range(q) /\ Range(q) \subseteq Range(p) \cup Range(q)
  OBVIOUS
<1>2. p \in Seq(Range(p) \cup Range(q)) /\ q \in Seq(Range(p) \cup Range(q))
  BY <1>1, SeqMonotonic, Zenon DEF IsPath
<1> QED
  BY <1>2

\* A prefix, element by element.
LEMMA PrefixAt ==
    ASSUME NEW p, IsPath(p), NEW q, IsPath(q)
    PROVE  IsPrefix(p, q) <=> Len(p) <= Len(q) /\ \A i \in 1..Len(p) : p[i] = q[i]
<1> PICK S : p \in Seq(S) /\ q \in Seq(S)
  BY BothPaths
<1>1. Len(p) \in Nat /\ Len(q) \in Nat
  OBVIOUS
<1>2. CASE Len(p) <= Len(q)
  <2> DEFINE s == SubSeq(p, 1, Len(p))
             u == SubSeq(q, 1, Len(p))
  <2>1. /\ s \in Seq(S) /\ u \in Seq(S) /\ Len(s) = Len(p) /\ Len(u) = Len(p)
        /\ \A i \in 1..Len(p) : s[i] = p[i] /\ u[i] = q[i]
    BY <1>1, <1>2
  <2> HIDE DEF s, u
  <2>2. (\A i \in 1..Len(p) : p[i] = q[i]) => s = u
    <3> HAVE \A i \in 1..Len(p) : p[i] = q[i]
    <3>1. Len(s) = Len(u) /\ \A i \in 1..Len(s) : s[i] = u[i]
      BY <2>1
    <3> QED
      BY <2>1, <3>1, SeqEqual, Zenon
  <2>3. s = u => \A i \in 1..Len(p) : p[i] = q[i]
    BY <2>1
  <2> QED
    BY <1>2, <2>2, <2>3 DEF IsPrefix, s, u
<1> QED
  BY <1>2 DEF IsPrefix

LEMMA PrefixSelf ==
    ASSUME NEW p, IsPath(p) PROVE IsPrefix(p, p)
<1>1. Len(p) \in Nat
  BY PathLen
<1> QED
  BY <1>1, PrefixAt

LEMMA PrefixTrans ==
    ASSUME NEW p, IsPath(p), NEW q, IsPath(q), NEW r, IsPath(r), IsPrefix(p, q), IsPrefix(q, r)
    PROVE  IsPrefix(p, r)
<1>1. Len(p) \in Nat /\ Len(q) \in Nat /\ Len(r) \in Nat
  BY PathLen
<1> QED
  BY <1>1, PrefixAt

\* Prefixes of one path are related.
LEMMA PrefixesRelated ==
    ASSUME NEW p, IsPath(p), NEW q, IsPath(q), NEW r, IsPath(r), IsPrefix(p, r), IsPrefix(q, r)
    PROVE  Related(p, q)
<1>1. Len(p) \in Nat /\ Len(q) \in Nat /\ Len(r) \in Nat
  BY PathLen
<1> QED
  BY <1>1, PrefixAt DEF Related

\* A prefix of the same length is the path itself.
LEMMA PrefixOfLength ==
    ASSUME NEW p, IsPath(p), NEW q, IsPath(q), IsPrefix(p, q), Len(q) <= Len(p)
    PROVE  p = q
<1>1. Len(p) \in Nat /\ Len(q) \in Nat
  BY PathLen
<1>2. Len(p) = Len(q) /\ \A i \in 1..Len(p) : p[i] = q[i]
  BY <1>1, PrefixAt
<1> QED
  BY <1>2, BothPaths, SeqEqual

\* What is related to a path of a section is the document, or in the section.
LEMMA RelatedTop ==
    ASSUME NEW p, IsPath(p), NEW q, IsPath(q), Related(p, q), p # << >>, q # << >>
    PROVE  p[1] = q[1]
<1>1. Len(p) \in Nat /\ Len(q) \in Nat /\ Len(p) >= 1 /\ Len(q) >= 1
  BY PathLen
<1> QED
  BY <1>1, PrefixAt DEF Related
--------------------------------------------------------------------------------
(* What a document shows, and which of its sections are the same in another. *)

\* d has what s has, and nothing in its way.
Shows(d, s) ==
    /\ \A q \in DOMAIN s : q \in DOMAIN d /\ d[q] = s[q]
    /\ \A p \in DOMAIN d, q \in DOMAIN s : Related(p, q) => p \in DOMAIN s

\* The path is in one of the sections.
InTops(p, tops) == IsPath(p) /\ p # << >> /\ p[1] \in tops

\* The sections are in e what they are in d.
Same(d, e, tops) ==
    /\ \A p \in DOMAIN d \cup DOMAIN e :
         InTops(p, tops) => p \in DOMAIN d /\ p \in DOMAIN e /\ d[p] = e[p]
    /\ << >> \in DOMAIN e => << >> \in DOMAIN d /\ e[<< >>] = d[<< >>]

LEMMA OverrideShows ==
    ASSUME NEW d, NEW s PROVE Shows(Override(d, s), s)
  BY DEF Shows, Override, Only, ++

LEMMA ShownOverride ==
    ASSUME NEW d, IsFcn(d), NEW s, Shows(d, s) PROVE Override(d, s) = d
<1> DEFINE below == Only(d, {p \in DOMAIN d : \A q \in DOMAIN s : ~Related(p, q)})
           o == Override(d, s)
<1>1. o = [p \in DOMAIN s \cup DOMAIN below |-> IF p \in DOMAIN s THEN s[p] ELSE below[p]]
  BY DEF Override, ++
<1>2. \A p : p \in DOMAIN below <=> p \in DOMAIN d /\ \A q \in DOMAIN s : ~Related(p, q)
  BY DEF Only
<1>3. \A p \in DOMAIN below : below[p] = d[p]
  BY DEF Only
<1> HIDE DEF below
<1>4. DOMAIN s \cup DOMAIN below = DOMAIN d
  BY <1>2 DEF Shows
<1>5. \A p \in DOMAIN d : o[p] = d[p]
  BY <1>1, <1>3, <1>4 DEF Shows
<1> QED
  BY <1>1, <1>4, <1>5 DEF IsFcn

LEMMA ShowsInSame ==
    ASSUME NEW d, NEW e, NEW s, NEW tops, Shows(d, s), Same(d, e, tops),
           HasPaths(d), HasPaths(e),
           \A q \in DOMAIN s : InTops(q, tops)
    PROVE  Shows(e, s)
<1>1. \A q \in DOMAIN s : q \in DOMAIN e /\ e[q] = s[q]
  BY DEF Shows, Same
<1>2. ASSUME NEW p \in DOMAIN e, NEW q \in DOMAIN s, Related(p, q)
      PROVE  p \in DOMAIN s
  <2>1. p \in DOMAIN d
    <3>1. CASE p = << >>
      BY <3>1 DEF Same
    <3>2. CASE p # << >>
      <4>1. IsPath(p) /\ IsPath(q) /\ q # << >> /\ q[1] \in tops
        BY DEF HasPaths, InTops
      <4>2. InTops(p, tops)
        BY <1>2, <3>2, <4>1, RelatedTop DEF InTops
      <4> QED
        BY <4>2 DEF Same
    <3> QED
      BY <3>1, <3>2
  <2> QED
    BY <1>2, <2>1 DEF Shows
<1> QED
  BY <1>1, <1>2 DEF Shows

LEMMA SameTrans ==
    ASSUME NEW d, NEW e, NEW f, NEW tops, Same(d, e, tops), Same(e, f, tops)
    PROVE  Same(d, f, tops)
  BY DEF Same

LEMMA SameSelf ==
    ASSUME NEW d, NEW tops PROVE Same(d, d, tops)
  BY DEF Same

\* Taking keys of other sections away.
LEMMA OnlyElsewhere ==
    ASSUME NEW d, NEW paths, NEW tops, HasPaths(d),
           \A p \in DOMAIN d \ paths : ~InTops(p, tops)
    PROVE  Same(d, Only(d, paths), tops)
  BY DEF Same, Only

\* Writing keys of other sections.
LEMMA OverrideElsewhere ==
    ASSUME NEW d, NEW s, NEW tops, HasPaths(d),
           \A q \in DOMAIN s : IsPath(q) /\ q # << >> /\ ~InTops(q, tops)
    PROVE  Same(d, Override(d, s), tops)
<1> DEFINE below == Only(d, {p \in DOMAIN d : \A q \in DOMAIN s : ~Related(p, q)})
           o == Override(d, s)
<1>1. o = [p \in DOMAIN s \cup DOMAIN below |-> IF p \in DOMAIN s THEN s[p] ELSE below[p]]
  BY DEF Override, ++
<1>2. \A p : p \in DOMAIN below <=> p \in DOMAIN d /\ \A q \in DOMAIN s : ~Related(p, q)
  BY DEF Only
<1>3. \A p \in DOMAIN below : below[p] = d[p]
  BY DEF Only
<1> HIDE DEF below
<1>4. ASSUME NEW p \in DOMAIN d, InTops(p, tops)
      PROVE  p \in DOMAIN below
  BY <1>2, <1>4, RelatedTop DEF InTops
<1>5. \A p \in DOMAIN s : ~InTops(p, tops) /\ p # << >>
  OBVIOUS
<1> HIDE DEF o
<1>6. ASSUME NEW p \in DOMAIN d \cup DOMAIN o, InTops(p, tops)
      PROVE  p \in DOMAIN d /\ p \in DOMAIN o /\ d[p] = o[p]
  <2>1. p \in DOMAIN below
    BY <1>1, <1>4, <1>5, <1>6
  <2> QED
    BY <1>1, <1>2, <1>3, <1>5, <1>6, <2>1
<1>7. << >> \in DOMAIN o => << >> \in DOMAIN d /\ o[<< >>] = d[<< >>]
  BY <1>1, <1>2, <1>3, <1>5
<1> QED
  BY <1>6, <1>7 DEF Same, o

LEMMA OverridePaths ==
    ASSUME NEW d, NEW s, HasPaths(d), HasPaths(s)
    PROVE  IsFcn(Override(d, s)) /\ HasPaths(Override(d, s))
  BY DEF IsFcn, HasPaths, Override, Only, ++
--------------------------------------------------------------------------------
(* The three ways in which a target writes: the document then is one in which
   the target finds nothing to do, and it stays one as long as the sections of
   the target are the same. *)

\* The entries of .mcp that the stack declares, and where they are.
MCPNames(declared) == Keys(declared, <<"mcp">>)
InEntries(p, names) == Len(p) >= 2 /\ p[1] = "mcp" /\ p[2] \in names

IsMCP(declared) ==
    \A q \in DOMAIN declared : InTops(q, {"mcp"}) /\ Len(q) = 3 /\ q[2] \in MCPNames(declared)

\* MergeMCP has nothing to do.
MCPSettled(d, declared) ==
    /\ IsObject(d) /\ Kind(d, <<"mcp">>) = "table"
    /\ MCPNames(declared) = {} => Has(d, <<"mcp">>)
    /\ Shows(d, declared)
    /\ \A p \in DOMAIN d : InEntries(p, MCPNames(declared)) => p \in DOMAIN declared

LEMMA MCPStays ==
    ASSUME NEW d, IsFcn(d), NEW declared, MCPSettled(d, declared)
    PROVE  MergeMCP(d, declared) = d
<1> DEFINE names == MCPNames(declared)
           kept == Only(d, {p \in DOMAIN d : ~InEntries(p, names)})
           below == Only(kept, {p \in DOMAIN kept : \A q \in DOMAIN declared : ~Related(p, q)})
           o == Override(kept, declared)
<1>1. MergeMCP(d, declared) = o
  BY DEF MergeMCP, MCPSettled, MCPNames, InEntries
<1>2. o = [p \in DOMAIN declared \cup DOMAIN below |->
             IF p \in DOMAIN declared THEN declared[p] ELSE below[p]]
  BY DEF Override, ++
<1>3. \A p : p \in DOMAIN below <=>
               /\ p \in DOMAIN d /\ ~InEntries(p, names)
               /\ \A q \in DOMAIN declared : ~Related(p, q)
  BY DEF Only
<1>4. \A p \in DOMAIN below : below[p] = d[p]
  BY DEF Only
<1> HIDE DEF below, o, kept
<1>5. DOMAIN declared \cup DOMAIN below = DOMAIN d
  BY <1>3 DEF MCPSettled, Shows
<1>6. \A p \in DOMAIN d : o[p] = d[p]
  BY <1>2, <1>4, <1>5 DEF MCPSettled, Shows
<1> QED
  BY <1>1, <1>2, <1>5, <1>6 DEF IsFcn

LEMMA MCPBecomes ==
    ASSUME NEW d, HasPaths(d), NEW declared, IsMCP(declared),
           MergeMCP(d, declared) # Refused
    PROVE  MCPSettled(MergeMCP(d, declared), declared)
<1> DEFINE names == MCPNames(declared)
           kept == Only(d, {p \in DOMAIN d : ~InEntries(p, names)})
           o == Override(kept, declared)
           mcp == <<"mcp">>
<1>1. IsObject(d) /\ Kind(d, mcp) = "table"
  BY DEF MergeMCP
<1>2. IsPath(mcp) /\ IsPath(<< >>) /\ mcp # << >> /\ Len(mcp) = 1
  BY OnePath, NoPath
<1>3. CASE names = {} /\ ~Has(d, mcp)
  <2>1. MergeMCP(d, declared) = Override(d, Leaf(mcp, EmptyTable))
    BY <1>1, <1>3 DEF MergeMCP, MCPNames, Set
  <2> DEFINE x == Override(d, Leaf(mcp, EmptyTable))
  <2>2. DOMAIN Leaf(mcp, EmptyTable) = {mcp} /\ Leaf(mcp, EmptyTable)[mcp] = EmptyTable
    BY DEF Leaf
  <2>3. DOMAIN declared = {}
    BY <1>3 DEF IsMCP
  <2>4. Shows(x, Leaf(mcp, EmptyTable))
    BY OverrideShows
  <2> HIDE DEF x
  <2>5. << >> \notin DOMAIN x
    <3>1. Related(<< >>, mcp)
      <4>1. IsPrefix(<< >>, mcp)
        BY <1>2, PrefixAt
      <4> QED
        BY <4>1 DEF Related
    <3> QED
      BY <1>2, <2>2, <2>4, <3>1 DEF Shows
  <2>6. mcp \in DOMAIN x /\ x[mcp] = EmptyTable
    BY <2>2, <2>4 DEF Shows
  <2>7. Has(x, mcp)
    BY <1>2, <2>6, PrefixSelf DEF Has, Under
  <2>8. Kind(x, mcp) = "table" /\ IsObject(x)
    <3>1. EmptyTable[1] = "table"
      BY DEF EmptyTable
    <3> HIDE DEF mcp
    <3> QED
      BY <2>5, <2>6, <3>1 DEF Kind, IsObject
  <2>9. Shows(x, declared)
    BY <2>3 DEF Shows
  <2> QED
    BY <1>3, <2>1, <2>7, <2>8, <2>9 DEF MCPSettled, InEntries, x
<1>4. CASE ~(names = {} /\ ~Has(d, mcp))
  <2>1. MergeMCP(d, declared) = o
    BY <1>1, <1>4 DEF MergeMCP, MCPNames, InEntries
  <2>2. /\ \A p \in DOMAIN o : p \in DOMAIN declared \/ (p \in DOMAIN d /\ ~InEntries(p, names))
        /\ \A p \in DOMAIN o : p \notin DOMAIN declared => o[p] = d[p]
    BY DEF Override, Only, ++
  <2>3. Shows(o, declared)
    BY OverrideShows
  <2>4. names = {} => Has(o, mcp)
    <3>1. ASSUME names = {} PROVE \A p \in DOMAIN d : p \in DOMAIN o
      <4>1. DOMAIN declared = {}
        BY <3>1 DEF IsMCP
      <4> QED
        BY <3>1, <4>1 DEF Override, Only, ++, InEntries
    <3> HIDE DEF o
    <3> QED
      BY <1>4, <3>1 DEF Has, Under
  <2> HIDE DEF o, kept
  <2>5. \A q \in DOMAIN declared : q # << >> /\ q # mcp
    BY <1>2 DEF IsMCP, InTops
  <2>6. IsObject(o) /\ Kind(o, mcp) = "table"
    BY <1>1, <2>2, <2>5 DEF IsObject, Kind
  <2> QED
    BY <2>1, <2>2, <2>3, <2>4, <2>6 DEF MCPSettled
<1> QED
  BY <1>3, <1>4

LEMMA MCPInSame ==
    ASSUME NEW d, NEW e, NEW declared, IsMCP(declared), MCPSettled(d, declared),
           Same(d, e, {"mcp"}), HasPaths(d), HasPaths(e)
    PROVE  MCPSettled(e, declared)
<1> DEFINE mcp == <<"mcp">>
<1>1. IsPath(mcp) /\ InTops(mcp, {"mcp"})
  BY OnePath DEF InTops
<1>2. IsObject(e) /\ Kind(e, mcp) = "table"
  BY <1>1 DEF MCPSettled, IsObject, Kind, Same
<1>3. Has(d, mcp) => Has(e, mcp)
  <2> HAVE Has(d, mcp)
  <2>1. PICK p \in DOMAIN d : IsPrefix(mcp, p)
    BY DEF Has, Under
  <2>2. p # << >>
    <3>1. Len(mcp) = 1 /\ Len(<< >>) = 0
      OBVIOUS
    <3> QED
      BY <2>1, <3>1 DEF IsPrefix
  <2>3. InTops(p, {"mcp"})
    <3> IsPath(p)
      BY DEF HasPaths
    <3>1. p[1] = mcp[1] /\ mcp[1] = "mcp"
      BY <1>1, <2>1, <2>2, RelatedTop DEF Related
    <3> QED
      BY <2>2, <3>1 DEF InTops
  <2>4. p \in DOMAIN e
    BY <2>3 DEF Same
  <2> QED
    BY <2>1, <2>4 DEF Has, Under
<1>4. Shows(e, declared)
  BY ShowsInSame DEF MCPSettled, IsMCP
<1>5. ASSUME NEW p \in DOMAIN e, InEntries(p, MCPNames(declared))
      PROVE  p \in DOMAIN declared
  <2>1. InTops(p, {"mcp"})
    <3>1. IsPath(p)
      BY DEF HasPaths
    <3>2. p # << >>
      BY <1>5, NoPath DEF InEntries
    <3> QED
      BY <1>5, <3>1, <3>2 DEF InEntries, InTops
  <2> QED
    BY <1>5, <2>1 DEF MCPSettled, Same
<1> QED
  BY <1>2, <1>3, <1>4, <1>5 DEF MCPSettled
--------------------------------------------------------------------------------
(* The arrays. *)

\* Every value of a document is one that a file can have.
HasLeaves(d) == \A p \in DOMAIN d : IsLeaf(d[p])

LEMMA SelectedAll ==
    ASSUME NEW T, NEW s \in Seq(T), NEW S, Range(s) \subseteq S
    PROVE  Selected(s, S) = s
<1>1. << >> \in Seq(T) /\ << >> \o s = s
  OBVIOUS
<1>2. Range(<< >>) = {}
  <2>1. << >> \in Seq({}) /\ Len(<< >>) = 0
    OBVIOUS
  <2>2. Range(<< >>) = {<< >>[i] : i \in 1..Len(<< >>)}
    BY <2>1, RangeEquality
  <2>3. 1..0 = {}
    OBVIOUS
  <2> QED
    BY <2>1, <2>2, <2>3
<1>3. Range(<< >>) \cap S = {}
  BY <1>2
<1> DEFINE none == << >>
<1>4. none \in Seq(T) /\ none \o s = s /\ Range(none) \cap S = {}
  BY <1>1, <1>3
<1> HIDE DEF none
<1>5. Selected(none \o s, S) = s
  BY <1>4, SelectedTail
<1> QED
  BY <1>4, <1>5

\* An entry that a target leaves where it is.
Stays(x, declared, stale) ==
    /\ x \notin stale
    /\ \A i \in DOMAIN declared : CanonicalPath(declared[i]) # CanonicalPath(x)

\* MergeArrayAt has nothing to do.
ArraySettled(d, a, declared, stale) ==
    /\ IsObject(d)
    /\ \E T : \E s \in Seq(T) :
         /\ declared \in Seq(T)
         /\ \A x \in Range(s) : Stays(x, declared, stale)
         /\ Shows(d, Leaf(a, Strings(declared \o s)))

\* A preserved entry stays, and all that is declared goes.
LEMMA PreservedOf ==
    ASSUME NEW T, NEW declared \in Seq(T), NEW s \in Seq(T), NEW stale,
           \A x \in Range(s) : Stays(x, declared, stale)
    PROVE  Preserved(declared \o s, declared, stale) = s
<1> DEFINE u == declared \o s
           S == {x \in Range(u) : Stays(x, declared, stale)}
<1>1. Preserved(u, declared, stale) = Selected(u, S)
  <2>1. S = {x \in Range(u) :
               /\ \A i \in DOMAIN declared : CanonicalPath(declared[i]) # CanonicalPath(x)
               /\ x \notin stale}
    BY DEF Stays
  <2> HIDE DEF S, u
  <2> QED
    BY <2>1 DEF Preserved
<1>2. Range(u) = Range(declared) \cup Range(s)
  BY RangeConcatenation
<1>3. Range(s) \subseteq S
  <2> HIDE DEF u
  <2> QED
    BY <1>2
<1>4. Range(declared) \cap S = {}
  <2> HIDE DEF u
  <2>1. ASSUME NEW x \in Range(declared), x \in S
        PROVE  FALSE
    <3>1. PICK i \in DOMAIN declared : declared[i] = x
      BY DEF Range
    <3> QED
      BY <2>1, <3>1 DEF Stays
  <2> QED
    BY <2>1
<1> HIDE DEF S
<1> QED
  BY <1>1, <1>3, <1>4, SelectedTail

\* The leaf of an array of strings.
LEMMA StringsLeaf ==
    ASSUME NEW T, NEW u \in Seq(T)
    PROVE  /\ Strings(u)[1] = "array" /\ Strings(u)[2] = [i \in DOMAIN u |-> Str(u[i])]
           /\ OnlyStrings(Strings(u)) = Strings(u)
           /\ IsLeaf(Strings(u)) /\ Strings(u) # EmptyTable
<1> DEFINE strs == [i \in DOMAIN u |-> Str(u[i])]
<1>1. Strings(u) = <<"array", strs>>
  BY DEF Strings, Arr
<1>2. DOMAIN u = 1..Len(u) /\ Len(u) \in Nat
  OBVIOUS
<1>3. strs \in Seq(Range(strs))
  <2>1. \A i \in 1..Len(u) : strs[i] \in Range(strs)
    BY <1>2 DEF Range
  <2>2. strs = [i \in 1..Len(u) |-> strs[i]]
    BY <1>2
  <2> HIDE DEF strs
  <2> QED
    BY <1>2, <2>1, <2>2
<1>4. \A x \in Range(strs) : x[1] = "string"
  BY DEF Range, Str
<1> HIDE DEF strs
<1> DEFINE leaf == <<"array", strs>>
           S == {x \in Range(leaf[2]) : x[1] = "string"}
<1>5. leaf[1] = "array" /\ leaf[2] = strs
  OBVIOUS
<1>6. S = Range(strs)
  BY <1>4, <1>5
<1> HIDE DEF S
<1>7. Selected(strs, S) = strs
  BY <1>3, <1>6, SelectedAll
<1>8. OnlyStrings(leaf) = leaf
  <2>1. OnlyStrings(leaf) = Arr(Selected(leaf[2], S))
    <3> HIDE DEF leaf
    <3> QED
      BY <1>5 DEF OnlyStrings, S
  <2> QED
    BY <1>7, <2>1 DEF Arr
<1>9. IsLeaf(leaf)
  <2> "array" # "table"
    OBVIOUS
  <2> QED
    BY <1>3, <1>5 DEF IsLeaf
<1>10. leaf # EmptyTable
  BY DEF EmptyTable
<1> QED
  BY <1>1, <1>5, <1>8, <1>9, <1>10 DEF strs

LEMMA ArrayStays ==
    ASSUME NEW d, IsFcn(d), NEW a, IsPath(a), NEW declared, NEW stale,
           ArraySettled(d, a, declared, stale)
    PROVE  MergeArrayAt(d, a, declared, stale) = d
<1>1. PICK T : \E s \in Seq(T) :
         /\ declared \in Seq(T)
         /\ \A x \in Range(s) : Stays(x, declared, stale)
         /\ Shows(d, Leaf(a, Strings(declared \o s)))
  BY DEF ArraySettled
<1>2. PICK s \in Seq(T) :
         /\ declared \in Seq(T)
         /\ \A x \in Range(s) : Stays(x, declared, stale)
         /\ Shows(d, Leaf(a, Strings(declared \o s)))
  BY <1>1
<1> DEFINE u == declared \o s
           leaf == Strings(u)
<1>3. u \in Seq(T)
  BY <1>2
<1>4. Preserved(u, declared, stale) = s
  BY <1>2, PreservedOf
<1> HIDE DEF u
<1>5. /\ leaf[1] = "array" /\ leaf[2] = [i \in DOMAIN u |-> Str(u[i])] /\ OnlyStrings(leaf) = leaf
  BY <1>3, StringsLeaf
<1>6. a \in DOMAIN d /\ d[a] = leaf
  <2>1. a \in DOMAIN Leaf(a, leaf) /\ Leaf(a, leaf)[a] = leaf
    BY DEF Leaf
  <2> QED
    BY <1>2, <2>1 DEF Shows, u
<1> HIDE DEF leaf
<1>7. Has(d, a) /\ Kind(d, a) = "array"
  BY <1>5, <1>6, PrefixSelf DEF Has, Under, Kind
<1> DEFINE existing == IF Has(d, a) THEN OnlyStrings(d[a])[2] ELSE << >>
           texts == [i \in DOMAIN existing |-> existing[i][2]]
<1>8. texts = u
  <2>1. existing = [i \in DOMAIN u |-> Str(u[i])]
    BY <1>5, <1>6, <1>7
  <2> HIDE DEF existing
  <2>2. DOMAIN existing = DOMAIN u /\ \A i \in DOMAIN u : existing[i][2] = u[i]
    BY <2>1 DEF Str
  <2>3. u = [i \in DOMAIN u |-> u[i]]
    BY <1>3
  <2> QED
    BY <2>2, <2>3
<1>9. MergeArrayAt(d, a, declared, stale) = Set(d, a, Strings(declared \o Preserved(texts, declared, stale)))
  BY <1>7 DEF MergeArrayAt, ArraySettled
<1> HIDE DEF texts
<1>10. MergeArrayAt(d, a, declared, stale) = Override(d, Leaf(a, leaf))
  BY <1>4, <1>8, <1>9 DEF Set, leaf, u
<1>11. Shows(d, Leaf(a, leaf))
  BY <1>2 DEF leaf, u
<1> QED
  BY <1>10, <1>11, ShownOverride

\* The strings of an array that a document has.
LEMMA TextsOf ==
    ASSUME NEW leaf, IsLeaf(leaf), leaf[1] = "array"
    PROVE  \E T : [i \in DOMAIN OnlyStrings(leaf)[2] |-> OnlyStrings(leaf)[2][i][2]] \in Seq(T)
<1> DEFINE S == {x \in Range(leaf[2]) : x[1] = "string"}
           e == Selected(leaf[2], S)
<1>1. OnlyStrings(leaf) = <<"array", e>>
  BY DEF OnlyStrings, Arr
<1>2. e \in Seq(Range(leaf[2]))
  BY SelectedType DEF IsLeaf
<1> HIDE DEF e
<1>3. OnlyStrings(leaf)[2] = e
  BY <1>1
<1> DEFINE texts == [i \in DOMAIN e |-> e[i][2]]
           T == {e[i][2] : i \in DOMAIN e}
<1>4. texts \in Seq(T)
  <2>1. DOMAIN e = 1..Len(e) /\ Len(e) \in Nat
    BY <1>2
  <2>2. texts = [i \in 1..Len(e) |-> texts[i]] /\ \A i \in 1..Len(e) : texts[i] \in T
    BY <2>1
  <2> HIDE DEF texts, T
  <2> QED
    BY <2>1, <2>2
<1> QED
  BY <1>3, <1>4

LEMMA ArrayBecomes ==
    ASSUME NEW d, HasLeaves(d), NEW a, IsPath(a), a # << >>, NEW D, NEW declared \in Seq(D), NEW stale,
           MergeArrayAt(d, a, declared, stale) # Refused
    PROVE  ArraySettled(MergeArrayAt(d, a, declared, stale), a, declared, stale)
<1> DEFINE existing == IF Has(d, a) THEN OnlyStrings(d[a])[2] ELSE << >>
           texts == [i \in DOMAIN existing |-> existing[i][2]]
           s == Preserved(texts, declared, stale)
           o == Override(d, Leaf(a, Strings(declared \o s)))
<1>1. MergeArrayAt(d, a, declared, stale) = o
  BY DEF MergeArrayAt, Set
<1>2. Has(d, a) => Kind(d, a) = "array"
  BY DEF MergeArrayAt
<1>3. \E T : texts \in Seq(T)
  <2>1. CASE Has(d, a)
    <3>1. a \in DOMAIN d /\ d[a][1] = "array"
      BY <1>2, <2>1 DEF Kind
    <3>2. IsLeaf(d[a])
      BY <3>1 DEF HasLeaves
    <3> QED
      BY <2>1, <3>1, <3>2, TextsOf
  <2>2. CASE ~Has(d, a)
    <3>1. existing = << >>
      BY <2>2
    <3>2. texts = << >>
      <4> HIDE DEF existing
      <4> QED
        BY <3>1
    <3>3. << >> \in Seq({})
      OBVIOUS
    <3> QED
      BY <3>2, <3>3
  <2> QED
    BY <2>1, <2>2
<1> HIDE DEF texts
<1>4. PICK T : texts \in Seq(T)
  BY <1>3
<1>5. s \in Seq(T) /\ \A x \in Range(s) : Stays(x, declared, stale)
  <2> DEFINE S == {x \in Range(texts) :
                     /\ \A i \in DOMAIN declared : CanonicalPath(declared[i]) # CanonicalPath(x)
                     /\ x \notin stale}
  <2>1. s = Selected(texts, S)
    BY DEF Preserved
  <2>2. s \in Seq(T) /\ Range(s) = Range(texts) \cap S
    BY <1>4, <2>1, SelectedType
  <2> QED
    BY <2>2 DEF Stays
<1> HIDE DEF s
<1>6. Shows(o, Leaf(a, Strings(declared \o s)))
  BY OverrideShows
<1> HIDE DEF o
<1>7. IsObject(o)
  <2>1. a \in DOMAIN Leaf(a, Strings(declared \o s)) /\ DOMAIN Leaf(a, Strings(declared \o s)) = {a}
    BY DEF Leaf
  <2>2. Related(<< >>, a)
    <3>1. IsPrefix(<< >>, a)
      <4>1. Len(a) \in Nat
        BY PathLen
      <4> QED
        BY <4>1, NoPath, PrefixAt
    <3> QED
      BY <3>1 DEF Related
  <2>3. << >> \notin DOMAIN o
    BY <1>6, <2>1, <2>2 DEF Shows
  <2> QED
    BY <2>3 DEF IsObject, Kind
<1>8. /\ s \in Seq(D \cup T) /\ declared \in Seq(D \cup T)
  <2>1. D \subseteq D \cup T /\ T \subseteq D \cup T
    OBVIOUS
  <2> QED
    BY <1>5, <2>1, SeqMonotonic, Zenon
<1> QED
  BY <1>1, <1>5, <1>6, <1>7, <1>8 DEF ArraySettled

LEMMA ArrayInSame ==
    ASSUME NEW d, NEW e, NEW a, NEW tops, InTops(a, tops), NEW declared, NEW stale,
           ArraySettled(d, a, declared, stale), Same(d, e, tops), HasPaths(d), HasPaths(e)
    PROVE  ArraySettled(e, a, declared, stale)
<1>1. IsObject(e)
  BY DEF ArraySettled, IsObject, Kind, Same
<1>2. ASSUME NEW leaf, Shows(d, Leaf(a, leaf))
      PROVE  Shows(e, Leaf(a, leaf))
  <2>1. \A q \in DOMAIN Leaf(a, leaf) : InTops(q, tops)
    BY DEF Leaf
  <2> QED
    BY <1>2, <2>1, ShowsInSame
<1> QED
  BY <1>1, <1>2 DEF ArraySettled

\* The array of [watcher] is in a table.
WatcherSettled(d, declared) ==
    /\ ArraySettled(d, <<"watcher", "ignore">>, declared, {})
    /\ Kind(d, <<"watcher">>) = "table"

LEMMA WatcherStays ==
    ASSUME NEW d, IsFcn(d), NEW declared, WatcherSettled(d, declared)
    PROVE  MergeWatcherIgnore(d, declared) = d
<1>1. IsPath(<<"watcher", "ignore">>)
  BY TwoPath
<1> QED
  BY <1>1, ArrayStays DEF WatcherSettled, MergeWatcherIgnore, ArraySettled

LEMMA WatcherBecomes ==
    ASSUME NEW d, HasLeaves(d), NEW D, NEW declared \in Seq(D),
           MergeWatcherIgnore(d, declared) # Refused
    PROVE  WatcherSettled(MergeWatcherIgnore(d, declared), declared)
<1> DEFINE a == <<"watcher", "ignore">>
           w == <<"watcher">>
           o == MergeArrayAt(d, a, declared, {})
<1>1. MergeWatcherIgnore(d, declared) = o /\ o # Refused
  BY DEF MergeWatcherIgnore
<1>2. /\ IsPath(a) /\ Len(a) = 2 /\ a # << >> /\ a[1] = "watcher"
      /\ IsPath(w) /\ Len(w) = 1 /\ w[1] = "watcher"
  BY OnePath, TwoPath
<1> HIDE DEF a, w
<1>3. ArraySettled(o, a, declared, {})
  BY <1>1, <1>2, ArrayBecomes
<1> HIDE DEF o
<1>4. PICK leaf : Shows(o, Leaf(a, leaf))
  BY <1>3 DEF ArraySettled
<1>5. DOMAIN Leaf(a, leaf) = {a} /\ w # a
  <2>1. w # a
    <3>1. Len(w) = 1 /\ Len(a) = 2
      BY <1>2
    <3>2. 1 # 2
      OBVIOUS
    <3> QED
      BY <3>1, <3>2, Zenon
  <2> QED
    BY <2>1 DEF Leaf
<1>6. Related(w, a)
  BY <1>2, PrefixAt DEF Related
<1>7. w \notin DOMAIN o
  BY <1>4, <1>5, <1>6 DEF Shows
<1> QED
  BY <1>1, <1>3, <1>7 DEF WatcherSettled, Kind, a, w

LEMMA WatcherInSame ==
    ASSUME NEW d, NEW e, NEW declared, WatcherSettled(d, declared),
           Same(d, e, {"watcher"}), HasPaths(d), HasPaths(e)
    PROVE  WatcherSettled(e, declared)
<1>1. InTops(<<"watcher", "ignore">>, {"watcher"}) /\ InTops(<<"watcher">>, {"watcher"})
  BY OnePath, TwoPath DEF InTops
<1>2. Kind(e, <<"watcher">>) = "table"
  BY <1>1 DEF WatcherSettled, Kind, Same
<1> QED
  BY <1>1, <1>2, ArrayInSame DEF WatcherSettled
--------------------------------------------------------------------------------
(* The sections that are merged key by key. *)

\* No key is below another.
Flat(t) == \A p, q \in DOMAIN t : IsPrefix(p, q) => p = q

\* The tables that MergeKeys replaces, and what it merges into the rest.
Replaced(declared) == {o \in OpaqueTables : Has(declared, o)}
IsReplaced(p, declared) == \E o \in Replaced(declared) : IsPrefix(o, p)
Open(d, declared) == Only(d, {p \in DOMAIN d : ~IsReplaced(p, declared)})
Written(d, declared) == Only(declared, Writes(Open(d, declared), declared))

\* MergeKeys has nothing to do.
KeysSettled(d, declared) ==
    /\ IsObject(d)
    /\ Shows(d, Written(d, declared))
    /\ \A p \in DOMAIN d : IsReplaced(p, declared) => p \in DOMAIN Written(d, declared)

LEMMA MergeObjectIs ==
    ASSUME NEW d, IsObject(d), NEW declared
    PROVE  MergeObject(d, declared) = Override(Open(d, declared), Written(d, declared))
<1> DEFINE kept == Only(d, {p \in DOMAIN d : ~ \E o \in Replaced(declared) : IsPrefix(o, p)})
<1>1. Open(d, declared) = kept
  BY DEF Open, IsReplaced
<1>2. MergeKeys(d, declared) = Override(kept, Only(declared, Writes(kept, declared)))
  BY DEF MergeKeys, Replaced
<1> HIDE DEF kept
<1> QED
  BY <1>1, <1>2 DEF MergeObject, Written

LEMMA OpenIs ==
    ASSUME NEW d, NEW declared
    PROVE  /\ \A p : p \in DOMAIN Open(d, declared) <=> p \in DOMAIN d /\ ~IsReplaced(p, declared)
           /\ \A p \in DOMAIN Open(d, declared) : Open(d, declared)[p] = d[p]
  BY DEF Open, Only

LEMMA WrittenIs ==
    ASSUME NEW d, NEW declared
    PROVE  /\ \A p : p \in DOMAIN Written(d, declared)
                 <=> /\ p \in DOMAIN declared
                     /\ declared[p] = EmptyTable => Under(Open(d, declared), p) \subseteq {p}
           /\ \A p \in DOMAIN Written(d, declared) : Written(d, declared)[p] = declared[p]
  BY DEF Written, Only, Writes

LEMMA KeysStay ==
    ASSUME NEW d, IsFcn(d), NEW declared, KeysSettled(d, declared)
    PROVE  MergeObject(d, declared) = d
<1> DEFINE kept == Open(d, declared)
           w == Written(d, declared)
           below == Only(kept, {p \in DOMAIN kept : \A q \in DOMAIN w : ~Related(p, q)})
           o == Override(kept, w)
<1>1. MergeObject(d, declared) = o
  BY MergeObjectIs DEF KeysSettled
<1>2. o = [p \in DOMAIN w \cup DOMAIN below |-> IF p \in DOMAIN w THEN w[p] ELSE below[p]]
  BY DEF Override, ++
<1>3. \A p : p \in DOMAIN below <=>
               /\ p \in DOMAIN d /\ ~IsReplaced(p, declared)
               /\ \A q \in DOMAIN w : ~Related(p, q)
  BY OpenIs DEF Only
<1>4. \A p \in DOMAIN below : below[p] = d[p]
  BY OpenIs DEF Only
<1> HIDE DEF below, o, kept, w
<1>5. DOMAIN w \cup DOMAIN below = DOMAIN d
  BY <1>3 DEF KeysSettled, Shows, w
<1>6. \A p \in DOMAIN d : o[p] = d[p]
  BY <1>2, <1>4, <1>5 DEF KeysSettled, Shows, w
<1> QED
  BY <1>1, <1>2, <1>5, <1>6 DEF IsFcn

\* What is written once is what is written again.
LEMMA WrittenAgain ==
    ASSUME NEW d, HasPaths(d), NEW declared, HasPaths(declared), Flat(declared)
    PROVE  Written(Override(Open(d, declared), Written(d, declared)), declared)
             = Written(d, declared)
<1> DEFINE kept == Open(d, declared)
           w == Written(d, declared)
           o == Override(kept, w)
           again == Open(o, declared)
<1>1. \A p : p \in DOMAIN o <=>
               p \in DOMAIN w \/ (p \in DOMAIN kept /\ \A q \in DOMAIN w : ~Related(p, q))
  BY DEF Override, Only, ++
<1>2. \A p : p \in DOMAIN kept <=> p \in DOMAIN d /\ ~IsReplaced(p, declared)
  BY OpenIs
<1>3. \A p : p \in DOMAIN again <=> p \in DOMAIN o /\ ~IsReplaced(p, declared)
  BY OpenIs
<1>4. \A p : p \in DOMAIN w <=> /\ p \in DOMAIN declared
                                /\ declared[p] = EmptyTable => Under(kept, p) \subseteq {p}
  BY WrittenIs
<1> HIDE DEF kept, w, o, again
<1>5. ASSUME NEW p \in DOMAIN declared, Under(kept, p) \subseteq {p}
      PROVE  Under(again, p) \subseteq {p}
  <2> SUFFICES ASSUME NEW q \in DOMAIN again, IsPrefix(p, q) PROVE q = p
    BY DEF Under
  <2>1. CASE q \in DOMAIN w
    BY <1>4, <2>1 DEF Flat
  <2>2. CASE q \in DOMAIN kept
    BY <1>5, <2>2 DEF Under
  <2> QED
    BY <1>1, <1>3, <2>1, <2>2
<1>6. ASSUME NEW p \in DOMAIN declared, declared[p] = EmptyTable,
             Under(again, p) \subseteq {p}, NEW q \in DOMAIN kept, IsPrefix(p, q), q # p
      PROVE  FALSE
  <2>1. q \notin DOMAIN again
    BY <1>6 DEF Under
  <2>2. IsPath(p) /\ IsPath(q)
    BY <1>2 DEF HasPaths
  <2>3. q \notin DOMAIN w
    BY <1>4, <1>6 DEF Flat
  <2>4. PICK r \in DOMAIN w : Related(q, r)
    BY <1>1, <1>2, <1>3, <2>1, <2>3
  <2>5. r \in DOMAIN declared /\ IsPath(r)
    BY <1>4 DEF HasPaths
  <2>6. CASE IsPrefix(r, q)
    <3>1. Related(p, r)
      BY <1>6, <2>2, <2>5, <2>6, PrefixesRelated
    <3>2. p = r
      BY <2>5, <3>1 DEF Flat, Related
    <3> QED
      BY <1>4, <1>6, <3>2 DEF Under
  <2>7. CASE IsPrefix(q, r)
    <3>1. IsPrefix(p, r)
      BY <1>6, <2>2, <2>5, <2>7, PrefixTrans
    <3>2. p = r
      BY <2>5, <3>1 DEF Flat
    <3>3. Len(p) \in Nat /\ Len(q) \in Nat /\ Len(q) <= Len(p)
      BY <2>2, <2>7, <3>2, PathLen, PrefixAt
    <3> QED
      BY <1>6, <2>2, <3>3, PrefixOfLength
  <2> QED
    BY <2>4, <2>6, <2>7 DEF Related
<1>7. \A p \in DOMAIN declared :
        declared[p] = EmptyTable => (Under(again, p) \subseteq {p} <=> Under(kept, p) \subseteq {p})
  BY <1>5, <1>6 DEF Under
<1>8. Writes(again, declared) = Writes(kept, declared)
  BY <1>7 DEF Writes
<1> QED
  BY <1>8 DEF Written, again, kept, o, w

LEMMA KeysBecome ==
    ASSUME NEW d, HasPaths(d), NEW declared, HasPaths(declared), Flat(declared),
           << >> \notin DOMAIN declared, MergeObject(d, declared) # Refused
    PROVE  KeysSettled(MergeObject(d, declared), declared)
<1> DEFINE kept == Open(d, declared)
           w == Written(d, declared)
           o == Override(kept, w)
<1>1. IsObject(d)
  BY DEF MergeObject
<1>2. MergeObject(d, declared) = o
  BY <1>1, MergeObjectIs
<1>3. Written(o, declared) = w
  BY WrittenAgain
<1>4. Shows(o, w)
  BY OverrideShows
<1>5. \A p \in DOMAIN o : p \in DOMAIN w \/ (p \in DOMAIN kept /\ o[p] = kept[p])
  BY DEF Override, Only, ++
<1>6. \A p \in DOMAIN kept : p \in DOMAIN d /\ ~IsReplaced(p, declared) /\ kept[p] = d[p]
  BY OpenIs
<1>7. DOMAIN w \subseteq DOMAIN declared
  BY WrittenIs
<1> HIDE DEF kept, w, o
<1>8. IsObject(o)
  BY <1>1, <1>5, <1>6, <1>7 DEF IsObject, Kind
<1> QED
  BY <1>2, <1>3, <1>4, <1>5, <1>6, <1>8 DEF KeysSettled

LEMMA KeysInSame ==
    ASSUME NEW d, HasPaths(d), NEW e, HasPaths(e), NEW tops, Same(d, e, tops),
           NEW declared, \A q \in DOMAIN declared : InTops(q, tops),
           KeysSettled(d, declared)
    PROVE  KeysSettled(e, declared)
<1>1. ASSUME NEW q \in DOMAIN declared, NEW p, IsPath(p), IsPrefix(q, p)
      PROVE  InTops(p, tops)
  <2>1. IsPath(q) /\ q # << >> /\ q[1] \in tops
    BY DEF InTops
  <2>2. Len(q) \in Nat /\ Len(p) \in Nat /\ Len(q) >= 1
    BY <1>1, <2>1, PathLen
  <2>3. Len(q) <= Len(p) /\ p[1] = q[1]
    BY <1>1, <2>1, <2>2, PrefixAt
  <2>4. p # << >>
    BY <2>2, <2>3, NoPath
  <2> QED
    BY <1>1, <2>1, <2>3, <2>4 DEF InTops
<1>2. ASSUME NEW p, IsPath(p), IsReplaced(p, declared)
      PROVE  InTops(p, tops)
  <2>1. PICK o \in OpaqueTables : Has(declared, o) /\ IsPrefix(o, p)
    BY <1>2 DEF IsReplaced, Replaced
  <2>2. PICK q \in DOMAIN declared : IsPrefix(o, q)
    BY <2>1 DEF Has, Under
  <2>3. IsPath(o) /\ Len(o) = 2
    BY TwoPath DEF OpaqueTables
  <2>4. IsPath(q) /\ q # << >> /\ q[1] \in tops
    BY DEF InTops
  <2>5. Len(q) \in Nat /\ Len(p) \in Nat
    BY <1>2, <2>4, PathLen
  <2>6. 2 <= Len(p) /\ p[1] = o[1] /\ q[1] = o[1]
    <3>1. 2 <= Len(p) /\ \A i \in 1..2 : o[i] = p[i]
      BY <1>2, <2>1, <2>3, PrefixAt
    <3>2. \A i \in 1..2 : o[i] = q[i]
      <4>1. \A i \in 1..Len(o) : o[i] = q[i]
        BY <2>2, <2>3, <2>4, PrefixAt, Zenon
      <4> QED
        BY <2>3, <4>1
    <3> QED
      BY <3>1, <3>2
  <2>7. p # << >>
    BY <2>6, NoPath
  <2> QED
    BY <1>2, <2>4, <2>6, <2>7 DEF InTops
<1> DEFINE keptD == Open(d, declared)
           keptE == Open(e, declared)
<1>3. /\ \A p : p \in DOMAIN keptD <=> p \in DOMAIN d /\ ~IsReplaced(p, declared)
      /\ \A p : p \in DOMAIN keptE <=> p \in DOMAIN e /\ ~IsReplaced(p, declared)
  BY OpenIs
<1> HIDE DEF keptD, keptE
<1>4. ASSUME NEW q \in DOMAIN declared
      PROVE  Under(keptE, q) = Under(keptD, q)
  <2>1. ASSUME NEW p \in DOMAIN keptE, IsPrefix(q, p)
        PROVE  p \in DOMAIN keptD
    <3>1. InTops(p, tops)
      BY <1>1, <1>3, <2>1 DEF HasPaths
    <3> QED
      BY <1>3, <3>1 DEF Same
  <2>2. ASSUME NEW p \in DOMAIN keptD, IsPrefix(q, p)
        PROVE  p \in DOMAIN keptE
    <3>1. InTops(p, tops)
      BY <1>1, <1>3, <2>2 DEF HasPaths
    <3> QED
      BY <1>3, <3>1 DEF Same
  <2> QED
    BY <2>1, <2>2 DEF Under
<1>5. Written(e, declared) = Written(d, declared)
  <2>1. Writes(keptE, declared) = Writes(keptD, declared)
    BY <1>4 DEF Writes
  <2> QED
    BY <2>1 DEF Written, keptD, keptE
<1>6. IsObject(e)
  BY DEF KeysSettled, IsObject, Kind, Same
<1>7. Shows(e, Written(e, declared))
  <2> DEFINE w == Written(d, declared)
  <2>1. \A q \in DOMAIN w : InTops(q, tops)
    BY WrittenIs
  <2>2. Shows(d, w)
    BY DEF KeysSettled
  <2> HIDE DEF w
  <2>3. Shows(e, w)
    BY <2>1, <2>2, ShowsInSame
  <2> QED
    BY <1>5, <2>3 DEF w
<1>8. ASSUME NEW p \in DOMAIN e, IsReplaced(p, declared)
      PROVE  p \in DOMAIN Written(e, declared)
  <2>1. InTops(p, tops)
    BY <1>2, <1>8 DEF HasPaths
  <2>2. p \in DOMAIN d
    BY <2>1 DEF Same
  <2> QED
    BY <1>5, <1>8, <2>2 DEF KeysSettled
<1> QED
  BY <1>6, <1>7, <1>8 DEF KeysSettled
--------------------------------------------------------------------------------
(* Paths that are put together. *)

LEMMA ConcatPath ==
    ASSUME NEW p, IsPath(p), NEW q, IsPath(q)
    PROVE  /\ IsPath(p \o q) /\ Len(p \o q) = Len(p) + Len(q)
           /\ \A i \in 1..Len(p) : (p \o q)[i] = p[i]
           /\ \A i \in 1..Len(q) : (p \o q)[Len(p) + i] = q[i]
<1> PICK S : p \in Seq(S) /\ q \in Seq(S)
  BY BothPaths
<1> DEFINE r == p \o q
<1>1. /\ r \in Seq(S) /\ Len(r) = Len(p) + Len(q)
      /\ \A i \in 1..(Len(p) + Len(q)) : r[i] = IF i <= Len(p) THEN p[i] ELSE q[i - Len(p)]
  BY ConcatProperties
<1> HIDE DEF r
<1>2. Len(p) \in Nat /\ Len(q) \in Nat
  OBVIOUS
<1>3. IsPath(r)
  BY <1>1, SeqOfRange DEF IsPath
<1>4. ASSUME NEW i \in 1..Len(p)
      PROVE  r[i] = p[i]
  BY <1>1, <1>2
<1>5. ASSUME NEW i \in 1..Len(q)
      PROVE  r[Len(p) + i] = q[i]
  <2>1. Len(p) + i \in 1..(Len(p) + Len(q)) /\ ~(Len(p) + i <= Len(p)) /\ (Len(p) + i) - Len(p) = i
    BY <1>2
  <2> QED
    BY <1>1, <2>1
<1> QED
  BY <1>1, <1>3, <1>4, <1>5 DEF r

\* A path and one more name.
LEMMA AddPath ==
    ASSUME NEW p, IsPath(p), NEW k
    PROVE  /\ IsPath(p \o <<k>>) /\ Len(p \o <<k>>) = Len(p) + 1
           /\ \A i \in 1..Len(p) : (p \o <<k>>)[i] = p[i]
           /\ (p \o <<k>>)[Len(p) + 1] = k
<1> DEFINE one == <<k>>
<1>1. IsPath(one) /\ Len(one) = 1 /\ one[1] = k
  BY OnePath
<1> HIDE DEF one
<1>2. 1 \in 1..Len(one)
  BY <1>1
<1>3. /\ IsPath(p \o one) /\ Len(p \o one) = Len(p) + 1
      /\ \A i \in 1..Len(p) : (p \o one)[i] = p[i]
      /\ (p \o one)[Len(p) + 1] = k
  <2>1. /\ IsPath(p \o one) /\ Len(p \o one) = Len(p) + Len(one)
        /\ \A i \in 1..Len(p) : (p \o one)[i] = p[i]
        /\ \A i \in 1..Len(one) : (p \o one)[Len(p) + i] = one[i]
    <3>1. IsPath(p \o one)
      BY <1>1, ConcatPath
    <3>2. Len(p \o one) = Len(p) + Len(one)
      BY <1>1, ConcatPath
    <3>3. \A i \in 1..Len(p) : (p \o one)[i] = p[i]
      BY <1>1, ConcatPath
    <3>4. \A i \in 1..Len(one) : (p \o one)[Len(p) + i] = one[i]
      BY <1>1, ConcatPath
    <3> QED
      BY <3>1, <3>2, <3>3, <3>4, Zenon
  <2> QED
    BY <1>1, <1>2, <2>1
<1> QED
  BY <1>3 DEF one

LEMMA TailPath ==
    ASSUME NEW p, IsPath(p), p # << >>
    PROVE  /\ IsPath(Tail(p)) /\ Len(Tail(p)) = Len(p) - 1
           /\ \A i \in 1..(Len(p) - 1) : Tail(p)[i] = p[i + 1]
<1> p \in Seq(Range(p))
  BY DEF IsPath
<1> DEFINE r == Tail(p)
<1>1. r \in Seq(Range(p)) /\ Len(r) = Len(p) - 1 /\ \A i \in 1..Len(r) : r[i] = p[i + 1]
  BY HeadTailProperties
<1> HIDE DEF r
<1>2. IsPath(r)
  BY <1>1, SeqOfRange DEF IsPath
<1> QED
  BY <1>1, <1>2 DEF r

LEMMA SubPath ==
    ASSUME NEW p, IsPath(p), NEW m \in Nat \ {0}, NEW n \in Nat, n <= Len(p), m <= n + 1
    PROVE  /\ IsPath(SubSeq(p, m, n)) /\ Len(SubSeq(p, m, n)) = n + 1 - m
           /\ \A i \in 1..(n + 1 - m) : SubSeq(p, m, n)[i] = p[m + i - 1]
<1> p \in Seq(Range(p)) /\ Len(p) \in Nat
  BY PathLen DEF IsPath
<1> DEFINE r == SubSeq(p, m, n)
<1>1. \A i \in m..n : p[i] \in Range(p)
  OBVIOUS
<1>2. /\ r \in Seq(Range(p)) /\ Len(r) = IF m <= n THEN n - m + 1 ELSE 0
      /\ \A i \in 1..(n - m + 1) : r[i] = p[m + i - 1]
  BY <1>1, SubSeqProperties
<1> HIDE DEF r
<1>3. IsPath(r)
  BY <1>2, SeqOfRange DEF IsPath
<1>4. n - m + 1 = n + 1 - m /\ Len(r) = n + 1 - m
  BY <1>2
<1> QED
  BY <1>2, <1>3, <1>4 DEF r

LEMMA FrontPath ==
    ASSUME NEW p, IsPath(p), p # << >>
    PROVE  /\ IsPath(Front(p)) /\ Len(Front(p)) = Len(p) - 1
           /\ \A i \in 1..(Len(p) - 1) : Front(p)[i] = p[i]
<1>1. Len(p) \in Nat /\ Len(p) >= 1
  BY PathLen
<1>2. Front(p) = SubSeq(p, 1, Len(p) - 1)
  BY DEF Front
<1> DEFINE n == Len(p) - 1
           r == SubSeq(p, 1, n)
<1>3. 1 \in Nat \ {0} /\ n \in Nat /\ n <= Len(p) /\ 1 <= n + 1 /\ n + 1 - 1 = n
  BY <1>1
<1> HIDE DEF n
<1>4. IsPath(r) /\ Len(r) = n /\ \A i \in 1..n : r[i] = p[1 + i - 1]
  BY <1>3, SubPath
<1>5. \A i \in 1..n : r[i] = p[i]
  BY <1>3, <1>4
<1> QED
  BY <1>2, <1>4, <1>5 DEF n

\* Elements are what paths are made of.
LEMMA PathEqual ==
    ASSUME NEW p, IsPath(p), NEW q, IsPath(q), Len(p) = Len(q), \A i \in 1..Len(p) : p[i] = q[i]
    PROVE  p = q
  BY BothPaths, SeqEqual
--------------------------------------------------------------------------------
(* Where the keys of a section are in opencode.json. *)

\* The section of opencode.json that a section of the stack is written to.
JSONName(s) ==
    CASE s = "providers" -> "provider"
      [] s = "permissions" -> "permission"
      [] s = "lsp" -> "lsp"
      [] s = "formatters" -> "formatter"
      [] s = "commands" -> "command"

NamedSections == {"providers", "permissions", "lsp", "formatters", "commands"}

\* The keys that get a path of their own: the limits and modalities of a model,
\* and the default of the permissions.
OfModel(q) == q[1] = "providers" /\ Len(q) = 5 /\ q[3] = "models"
              /\ q[5] \in {"context", "output", "inputs", "outputs"}
\* The keys that are not in opencode.json where they are in the stack.
Moved(q) == OfModel(q) \/ q = <<"permissions", "default">>

LEMMA NamedPath ==
    ASSUME NEW q, IsPath(q), q # << >>, q[1] \in NamedSections, ~Moved(q)
    PROVE  /\ IsPath(JSONPath(q)) /\ Len(JSONPath(q)) = Len(q) /\ Len(q) \in Nat /\ Len(q) >= 1
           /\ JSONPath(q)[1] = JSONName(q[1])
           /\ \A i \in 2..Len(q) : JSONPath(q)[i] = q[i]
<1> DEFINE name == JSONName(q[1])
           one == <<name>>
           t == Tail(q)
           r == one \o t
<1>1. Len(q) \in Nat /\ Len(q) >= 1
  BY PathLen
<1>2. IsPath(t) /\ Len(t) = Len(q) - 1 /\ \A i \in 1..(Len(q) - 1) : t[i] = q[i + 1]
  BY TailPath
<1>3. IsPath(one) /\ Len(one) = 1 /\ one[1] = name
  BY OnePath
<1> HIDE DEF one, t, name
<1>4. /\ IsPath(r) /\ Len(r) = 1 + Len(t)
      /\ \A i \in 1..1 : r[i] = one[i]
      /\ \A i \in 1..Len(t) : r[1 + i] = t[i]
  <2>1. /\ IsPath(r) /\ Len(r) = Len(one) + Len(t)
        /\ \A i \in 1..Len(one) : r[i] = one[i]
        /\ \A i \in 1..Len(t) : r[Len(one) + i] = t[i]
    <3>0. IsPath(one) /\ IsPath(t)
      BY <1>2, <1>3
    <3>1. IsPath(r)
      BY <3>0, ConcatPath
    <3>2. Len(r) = Len(one) + Len(t)
      BY <3>0, ConcatPath
    <3>3. \A i \in 1..Len(one) : r[i] = one[i]
      BY <3>0, ConcatPath
    <3>4. \A i \in 1..Len(t) : r[Len(one) + i] = t[i]
      BY <3>0, ConcatPath
    <3> QED
      BY <3>1, <3>2, <3>3, <3>4, Zenon
  <2> HIDE DEF r
  <2> QED
    BY <1>3, <2>1
<1> HIDE DEF r
<1>5. Len(r) = Len(q) /\ r[1] = name
  BY <1>1, <1>2, <1>3, <1>4
<1>6. ASSUME NEW i \in 2..Len(q)
      PROVE  r[i] = q[i]
  <2>1. i - 1 \in 1..Len(t) /\ 1 + (i - 1) = i /\ i - 1 \in 1..(Len(q) - 1) /\ (i - 1) + 1 = i
    BY <1>1, <1>2
  <2> QED
    BY <1>2, <1>4, <2>1
<1>7. JSONPath(q) = r
  <2>1. CASE q[1] = "providers"
    BY <2>1 DEF JSONPath, Moved, OfModel, r, one, t, name, JSONName
  <2>2. CASE q[1] = "permissions"
    BY <2>2 DEF JSONPath, Moved, r, one, t, name, JSONName
  <2>3. CASE q[1] = "lsp"
    <3>1. JSONPath(q) = q
      BY <2>3 DEF JSONPath
    <3>2. name = "lsp"
      BY <2>3 DEF JSONName, name
    <3>3. \A i \in 1..Len(r) : r[i] = q[i]
      BY <1>1, <1>5, <1>6, <2>3, <3>2
    <3>4. r = q
      BY <1>4, <1>5, <3>3, PathEqual
    <3> QED
      BY <3>1, <3>4
  <2>4. CASE q[1] = "formatters"
    BY <2>4 DEF JSONPath, r, one, t, name, JSONName
  <2>5. CASE q[1] = "commands"
    BY <2>5 DEF JSONPath, r, one, t, name, JSONName
  <2> QED
    BY <2>1, <2>2, <2>3, <2>4, <2>5 DEF NamedSections
<1> QED
  BY <1>1, <1>4, <1>5, <1>6, <1>7 DEF name

LEMMA TogglePath ==
    ASSUME NEW q, IsPath(q), q # << >>, q[1] = "opencode"
    PROVE  /\ IsPath(JSONPath(q)) /\ Len(JSONPath(q)) = Len(q) - 1
           /\ Len(q) \in Nat /\ Len(q) >= 1
           /\ \A i \in 1..(Len(q) - 1) : JSONPath(q)[i] = q[i + 1]
<1>1. JSONPath(q) = Tail(q)
  BY DEF JSONPath
<1> QED
  BY <1>1, TailPath, PathLen

\* Where a limit or a modality is: below the model, in a table of its own.
ModelTable(q) == IF q[5] \in {"context", "output"} THEN "limit" ELSE "modalities"
\* Where the keys of a model are in opencode.json.
ModelKey(q) == IF q[5] \in {"context", "output"} THEN q[5]
               ELSE IF q[5] = "inputs" THEN "input" ELSE "output"

LEMMA ModelPath ==
    ASSUME NEW q, IsPath(q), OfModel(q)
    PROVE  /\ IsPath(JSONPath(q)) /\ Len(JSONPath(q)) = 6
           /\ JSONPath(q)[1] = "provider"
           /\ \A i \in 2..4 : JSONPath(q)[i] = q[i]
           /\ JSONPath(q)[5] = ModelTable(q) /\ JSONPath(q)[6] = ModelKey(q)
<1> DEFINE one == <<"provider">>
           mid == SubSeq(q, 2, 4)
           two == <<ModelTable(q), ModelKey(q)>>
           r == one \o (mid \o two)
<1>1. Len(q) = 5
  BY DEF OfModel
<1>2. IsPath(one) /\ Len(one) = 1 /\ one[1] = "provider"
  BY OnePath
<1>3. IsPath(mid) /\ Len(mid) = 3 /\ \A i \in 1..3 : mid[i] = q[2 + i - 1]
  <2> DEFINE m == 2
             n == 4
  <2>1. m \in Nat \ {0} /\ n \in Nat /\ n <= Len(q) /\ m <= n + 1 /\ n + 1 - m = 3
    BY <1>1
  <2>2. IsPath(SubSeq(q, m, n)) /\ Len(SubSeq(q, m, n)) = n + 1 - m
        /\ \A i \in 1..(n + 1 - m) : SubSeq(q, m, n)[i] = q[m + i - 1]
    BY <2>1, SubPath
  <2> QED
    BY <2>1, <2>2
<1>4. IsPath(two) /\ Len(two) = 2 /\ two[1] = ModelTable(q) /\ two[2] = ModelKey(q)
  BY TwoPath
<1>5. JSONPath(q) = r
  BY DEF JSONPath, OfModel, ModelTable, ModelKey
<1> HIDE DEF one, mid, two
<1> DEFINE rest == mid \o two
<1>6. /\ IsPath(rest) /\ Len(rest) = 5
      /\ \A i \in 1..3 : rest[i] = mid[i]
      /\ \A i \in 1..2 : rest[3 + i] = two[i]
  <2>1. /\ IsPath(rest) /\ Len(rest) = Len(mid) + Len(two)
        /\ \A i \in 1..Len(mid) : rest[i] = mid[i]
        /\ \A i \in 1..Len(two) : rest[Len(mid) + i] = two[i]
    <3>0. IsPath(mid) /\ IsPath(two)
      BY <1>3, <1>4
    <3>1. IsPath(rest)
      BY <3>0, ConcatPath
    <3>2. Len(rest) = Len(mid) + Len(two)
      BY <3>0, ConcatPath
    <3>3. \A i \in 1..Len(mid) : rest[i] = mid[i]
      BY <3>0, ConcatPath
    <3>4. \A i \in 1..Len(two) : rest[Len(mid) + i] = two[i]
      BY <3>0, ConcatPath
    <3> QED
      BY <3>1, <3>2, <3>3, <3>4, Zenon
  <2> HIDE DEF rest
  <2> QED
    BY <1>3, <1>4, <2>1
<1> HIDE DEF rest
<1>7. /\ IsPath(r) /\ Len(r) = 6
      /\ \A i \in 1..1 : r[i] = one[i]
      /\ \A i \in 1..5 : r[1 + i] = rest[i]
  <2>1. r = one \o rest
    BY DEF rest
  <2> HIDE DEF r
  <2>2. /\ IsPath(one \o rest) /\ Len(one \o rest) = Len(one) + Len(rest)
        /\ \A i \in 1..Len(one) : (one \o rest)[i] = one[i]
        /\ \A i \in 1..Len(rest) : (one \o rest)[Len(one) + i] = rest[i]
    <3>0. IsPath(one) /\ IsPath(rest)
      BY <1>2, <1>6
    <3>1. IsPath(one \o rest)
      BY <3>0, ConcatPath
    <3>2. Len(one \o rest) = Len(one) + Len(rest)
      BY <3>0, ConcatPath
    <3>3. \A i \in 1..Len(one) : (one \o rest)[i] = one[i]
      BY <3>0, ConcatPath
    <3>4. \A i \in 1..Len(rest) : (one \o rest)[Len(one) + i] = rest[i]
      BY <3>0, ConcatPath
    <3> QED
      BY <3>1, <3>2, <3>3, <3>4, Zenon
  <2> QED
    BY <1>2, <1>6, <2>1, <2>2
<1> HIDE DEF r
<1>8. r[1] = "provider"
  BY <1>2, <1>7
<1>9. r[2] = q[2] /\ r[3] = q[3] /\ r[4] = q[4]
  <2>1. r[1 + 1] = rest[1] /\ r[1 + 2] = rest[2] /\ r[1 + 3] = rest[3]
    BY <1>7
  <2>2. rest[1] = mid[1] /\ rest[2] = mid[2] /\ rest[3] = mid[3]
    BY <1>6
  <2>3. mid[1] = q[2 + 1 - 1] /\ mid[2] = q[2 + 2 - 1] /\ mid[3] = q[2 + 3 - 1]
    BY <1>3
  <2> QED
    BY <2>1, <2>2, <2>3
<1>10. r[5] = ModelTable(q) /\ r[6] = ModelKey(q)
  <2>1. r[1 + 4] = rest[4] /\ r[1 + 5] = rest[5]
    BY <1>7
  <2>2. rest[3 + 1] = two[1] /\ rest[3 + 2] = two[2]
    BY <1>6
  <2> QED
    BY <1>4, <2>1, <2>2
<1>11. \A i \in 2..4 : r[i] = q[i]
  <2>1. \A i \in 2..4 : i = 2 \/ i = 3 \/ i = 4
    OBVIOUS
  <2> QED
    BY <1>9, <2>1
<1> QED
  BY <1>5, <1>7, <1>8, <1>10, <1>11

LEMMA DefaultPath ==
    LET r == JSONPath(<<"permissions", "default">>) IN
    IsPath(r) /\ Len(r) = 2 /\ r[1] = "permission" /\ r[2] = "*"
<1> DEFINE q == <<"permissions", "default">>
<1>1. JSONPath(q) = <<"permission">> \o <<"*">>
  BY DEF JSONPath
<1>2. <<"permission">> \o <<"*">> = <<"permission", "*">>
  BY PairConcat
<1> QED
  BY <1>1, <1>2, TwoPath
--------------------------------------------------------------------------------
(* What a section of the stack is in opencode.json. *)

\* A stack that was loaded: see LoadedStack.
IsStack(t) ==
    /\ IsFcn(t) /\ HasPaths(t) /\ HasLeaves(t) /\ Flat(t)
    /\ <<"opencode">> \in DOMAIN t => t[<<"opencode">>] = EmptyTable

SectionNames == NamedSections \cup {"opencode"}

\* The keys of a section that are left out, those that are written, and the
\* tables that are written without any.
Dropped(t, s) == {q \in Under(t, <<s>>) : OmitsZero(q) /\ IsZero(t[q])}
Shown(t, s) == {q \in Under(t, <<s>>) \ Dropped(t, s) : ~Shadowed(t, q)}
Emptied(t, s) ==
    {e \in {Front(q) : q \in {q \in Dropped(t, s) : Len(q) \in {3, 5}}} :
       /\ ~ \E q \in Shown(t, s) : IsPrefix(e, q)
       /\ e[Len(e)] \notin {"disabled_providers", "enabled_providers"}}

LEMMA TranslatedIs ==
    ASSUME NEW t, NEW s
    PROVE  /\ \A r : r \in DOMAIN Translated(t, s)
                 <=> \E q \in Shown(t, s) \cup Emptied(t, s) : r = JSONPath(q)
           /\ \A r \in DOMAIN Translated(t, s) :
                IF \E q \in Shown(t, s) : r = JSONPath(q)
                THEN Translated(t, s)[r] = t[CHOOSE q \in Shown(t, s) : JSONPath(q) = r]
                ELSE Translated(t, s)[r] = EmptyTable
<1> DEFINE shown == Shown(t, s)
           empty == Emptied(t, s)
           a == [r \in {JSONPath(q) : q \in shown} |-> t[CHOOSE q \in shown : JSONPath(q) = r]]
           b == [p \in {JSONPath(e) : e \in empty} |-> EmptyTable]
           D == [x \in DOMAIN a \cup DOMAIN b |-> IF x \in DOMAIN a THEN a[x] ELSE b[x]]
<1>1. Translated(t, s) = a ++ b
  BY DEF Translated, Renamed, Shown, Emptied, Dropped
<1>2. a ++ b = D
  BY DEF ++
<1>3. Translated(t, s) = D
  BY <1>1, <1>2
<1> HIDE DEF shown, empty
<1>4. \A r : r \in DOMAIN D <=> \E q \in shown \cup empty : r = JSONPath(q)
  OBVIOUS
<1>5. \A r \in DOMAIN D : IF \E q \in shown : r = JSONPath(q)
                          THEN D[r] = t[CHOOSE q \in shown : JSONPath(q) = r]
                          ELSE D[r] = EmptyTable
  OBVIOUS
<1> HIDE DEF D
<1> QED
  BY <1>3, <1>4, <1>5 DEF shown, empty

LEMMA InSection ==
    ASSUME NEW q, IsPath(q), NEW s
    PROVE  IsPrefix(<<s>>, q) <=> q # << >> /\ q[1] = s
<1> DEFINE one == <<s>>
<1>1. IsPath(one) /\ Len(one) = 1 /\ one[1] = s /\ Len(<< >>) = 0
  BY OnePath, NoPath
<1>2. Len(q) \in Nat /\ (q # << >> => Len(q) >= 1)
  BY PathLen
<1> HIDE DEF one
<1>3. IsPrefix(one, q) <=> Len(one) <= Len(q) /\ \A i \in 1..Len(one) : one[i] = q[i]
  BY <1>1, PrefixAt
<1>4. IsPrefix(one, q) <=> 1 <= Len(q) /\ one[1] = q[1]
  <2>1. \A i \in 1..1 : i = 1
    OBVIOUS
  <2> QED
    BY <1>1, <1>3, <2>1
<1>5. 1 <= Len(q) <=> q # << >>
  BY <1>1, <1>2
<1> QED
  BY <1>1, <1>4, <1>5 DEF one

\* The sections of the keys that are omitted, by their length.
LEMMA OmittedSection ==
    ASSUME NEW q, OmitsZero(q), Len(q) \in {3, 5}
    PROVE  /\ Len(q) = 5 => q[1] = "providers"
           /\ Len(q) = 3 => q[1] \in {"lsp", "formatters", "commands", "opencode"}
<1>1. CASE Len(q) = 5
  BY <1>1 DEF OmitsZero
<1>2. CASE Len(q) = 3
  <2>1. \/ q[1] \in {"lsp", "formatters"} \/ q[1] = "commands"
        \/ q \in {<<"opencode", "compaction", "reserved">>,
                  <<"opencode", "disabled_providers", "list">>,
                  <<"opencode", "enabled_providers", "list">>}
    BY <1>2 DEF OmitsZero
  <2> QED
    BY <1>2, <2>1, ThreePath
<1> QED
  BY <1>1, <1>2

\* An entry that is left empty is above a key that is omitted.
LEMMA EmptiedIs ==
    ASSUME NEW t, HasPaths(t), NEW s, NEW e \in Emptied(t, s)
    PROVE  /\ IsPath(e) /\ e # << >> /\ e[1] = s /\ Len(e) = IF s = "providers" THEN 4 ELSE 2
           /\ s # "permissions"
           /\ \E q \in Under(t, <<s>>) : IsPrefix(e, q) /\ Len(e) < Len(q)
<1>1. PICK q \in Dropped(t, s) : Len(q) \in {3, 5} /\ e = Front(q)
  BY DEF Emptied
<1>2. q \in DOMAIN t /\ IsPrefix(<<s>>, q) /\ OmitsZero(q) /\ q \in Under(t, <<s>>)
  BY DEF Dropped, Under
<1>3. IsPath(q)
  BY <1>2 DEF HasPaths
<1>4. q # << >> /\ q[1] = s
  BY <1>2, <1>3, InSection
<1>5. IsPath(e) /\ Len(e) = Len(q) - 1 /\ \A i \in 1..(Len(q) - 1) : e[i] = q[i]
  BY <1>1, <1>3, <1>4, FrontPath
<1>6. Len(q) = (IF s = "providers" THEN 5 ELSE 3) /\ s # "permissions"
  BY <1>1, <1>2, <1>4, OmittedSection
<1>7. Len(e) = (IF s = "providers" THEN 4 ELSE 2) /\ Len(e) < Len(q)
  BY <1>5, <1>6
<1>8. e # << >>
  BY <1>7, NoPath
<1>9. e[1] = q[1]
  BY <1>5, <1>6
<1>10. IsPrefix(e, q)
  <2>1. Len(e) <= Len(q) /\ \A i \in 1..Len(e) : e[i] = q[i]
    BY <1>1, <1>5
  <2> QED
    BY <1>3, <1>5, <2>1, PrefixAt
<1> QED
  BY <1>2, <1>4, <1>5, <1>6, <1>7, <1>8, <1>9, <1>10

LEMMA ShownIs ==
    ASSUME NEW t, HasPaths(t), NEW s, NEW q \in Shown(t, s)
    PROVE  /\ IsPath(q) /\ q # << >> /\ q[1] = s /\ q \in DOMAIN t /\ q \in Under(t, <<s>>)
           /\ ~Shadowed(t, q) /\ ~(OmitsZero(q) /\ IsZero(t[q]))
<1>1. q \in DOMAIN t /\ IsPrefix(<<s>>, q) /\ q \in Under(t, <<s>>) /\ ~Shadowed(t, q)
      /\ ~(OmitsZero(q) /\ IsZero(t[q]))
  BY DEF Shown, Dropped, Under
<1>2. IsPath(q)
  BY <1>1 DEF HasPaths
<1> QED
  BY <1>1, <1>2, InSection

\* What is rendered of a section is a tree, as the section is.
LEMMA RenderedFlat ==
    ASSUME NEW t, HasPaths(t), Flat(t), NEW s,
           NEW p \in Shown(t, s) \cup Emptied(t, s), NEW q \in Shown(t, s) \cup Emptied(t, s),
           IsPrefix(p, q)
    PROVE  p = q
<1>1. CASE p \in Shown(t, s) /\ q \in Shown(t, s)
  BY <1>1, ShownIs DEF Flat
<1>2. CASE p \in Emptied(t, s) /\ q \in Shown(t, s)
  BY <1>2 DEF Emptied
<1>3. CASE p \in Shown(t, s) /\ q \in Emptied(t, s)
  <2>1. PICK d \in Under(t, <<s>>) : IsPrefix(q, d) /\ Len(q) < Len(d)
    BY <1>3, EmptiedIs
  <2>2. IsPath(p) /\ IsPath(q) /\ p \in DOMAIN t /\ d \in DOMAIN t /\ IsPath(d)
    BY <1>3, ShownIs, EmptiedIs DEF Under, HasPaths
  <2>3. IsPrefix(p, d)
    BY <2>1, <2>2, PrefixTrans
  <2>4. p = d
    BY <2>2, <2>3 DEF Flat
  <2>5. Len(p) <= Len(q) /\ Len(p) \in Nat /\ Len(q) \in Nat
    BY <2>2, PrefixAt, PathLen
  <2> QED
    BY <2>1, <2>4, <2>5
<1>4. CASE p \in Emptied(t, s) /\ q \in Emptied(t, s)
  <2>1. IsPath(p) /\ IsPath(q) /\ Len(p) = Len(q)
    BY <1>4, EmptiedIs
  <2>2. Len(q) \in Nat
    BY <2>1, PathLen
  <2> QED
    BY <2>1, <2>2, PrefixOfLength
<1> QED
  BY <1>1, <1>2, <1>3, <1>4
--------------------------------------------------------------------------------
\* Above the place of a limit or a modality there is nothing else.
Alt(q) == Front(q) \o <<ModelTable(q)>>

LEMMA AltPath ==
    ASSUME NEW q, IsPath(q), OfModel(q)
    PROVE  /\ IsPath(Alt(q)) /\ Len(Alt(q)) = 5 /\ Len(q) = 5
           /\ \A i \in 1..4 : Alt(q)[i] = q[i]
           /\ Alt(q)[5] = ModelTable(q)
<1>1. Len(q) = 5
  BY DEF OfModel
<1>2. q # << >>
  BY <1>1, NoPath
<1> DEFINE f == Front(q)
<1>3. IsPath(f) /\ Len(f) = Len(q) - 1 /\ \A i \in 1..(Len(q) - 1) : f[i] = q[i]
  BY <1>2, FrontPath
<1> HIDE DEF f
<1>4. Len(f) = 4 /\ \A i \in 1..4 : f[i] = q[i]
  BY <1>1, <1>3
<1> DEFINE k == ModelTable(q)
           a == f \o <<k>>
<1> HIDE DEF k
<1>5. IsPath(f)
  BY <1>3
<1>6. IsPath(a) /\ Len(a) = Len(f) + 1 /\ (\A i \in 1..Len(f) : a[i] = f[i]) /\ a[Len(f) + 1] = k
  BY <1>5, AddPath
<1>7. Alt(q) = a
  BY DEF Alt, f, k
<1> HIDE DEF a
<1>8. Len(a) = 5 /\ a[5] = k /\ \A i \in 1..4 : a[i] = q[i]
  BY <1>4, <1>6
<1> QED
  BY <1>1, <1>6, <1>7, <1>8 DEF k

\* A moved key is shown only when nothing of its own stands where it goes.
LEMMA MovedIs ==
    ASSUME NEW t, HasPaths(t), NEW s, NEW q \in Shown(t, s) \cup Emptied(t, s), Moved(q)
    PROVE  /\ IsPath(q) /\ q \in Shown(t, s)
           /\ OfModel(q) => s = "providers" /\ ~Has(t, Alt(q))
           /\ ~OfModel(q) => s = "permissions" /\ ~Has(t, <<"permissions", "*">>)
<1>1. IsPath(q) /\ q[1] = s
  BY ShownIs, EmptiedIs
<1>2. q \in Shown(t, s)
  <2> SUFFICES ASSUME q \in Emptied(t, s) PROVE FALSE
    OBVIOUS
  <2>1. s # "permissions" /\ Len(q) = IF s = "providers" THEN 4 ELSE 2
    BY EmptiedIs
  <2>2. ~OfModel(q)
    BY <1>1, <2>1 DEF OfModel
  <2>3. q[1] = "permissions"
    BY <2>2, TwoPath DEF Moved
  <2> QED
    BY <1>1, <2>1, <2>3
<1>3. ~Shadowed(t, q)
  BY <1>2, ShownIs
<1>4. ASSUME OfModel(q) PROVE s = "providers" /\ ~Has(t, Alt(q))
  <2>1. /\ Len(JSONPath(q)) = 6 /\ JSONPath(q)[5] = ModelTable(q)
    BY <1>1, <1>4, ModelPath
  <2>2. Len(q) = 5 /\ q[1] = "providers"
    BY <1>4 DEF OfModel
  <2> QED
    BY <1>1, <1>3, <2>1, <2>2 DEF Shadowed, Alt
<1>5. ASSUME ~OfModel(q) PROVE s = "permissions" /\ ~Has(t, <<"permissions", "*">>)
  <2>1. q = <<"permissions", "default">>
    BY <1>5 DEF Moved
  <2> QED
    BY <1>1, <1>3, <2>1, TwoPath DEF Shadowed
<1> QED
  BY <1>1, <1>2, <1>4, <1>5

\* Nothing that is rendered is at a place that the stack does not have.
LEMMA NothingBelow ==
    ASSUME NEW t, HasPaths(t), NEW s, NEW q \in Shown(t, s) \cup Emptied(t, s),
           NEW a, IsPath(a), ~Has(t, a)
    PROVE  ~IsPrefix(a, q)
<1> SUFFICES ASSUME IsPrefix(a, q) PROVE FALSE
  OBVIOUS
<1>1. CASE q \in Shown(t, s)
  BY <1>1, ShownIs DEF Has, Under
<1>2. CASE q \in Emptied(t, s)
  <2>1. PICK d \in Under(t, <<s>>) : IsPrefix(q, d)
    BY <1>2, EmptiedIs
  <2>2. d \in DOMAIN t /\ IsPath(d) /\ IsPath(q)
    BY <1>2, EmptiedIs DEF Under, HasPaths
  <2>3. IsPrefix(a, d)
    BY <2>1, <2>2, PrefixTrans
  <2> QED
    BY <2>2, <2>3 DEF Has, Under
<1> QED
  BY <1>1, <1>2
--------------------------------------------------------------------------------
(* Keys that are apart in the stack are apart in opencode.json. *)

\* The keys of section s of the stack that opencode.json has something of.
Rendered(t, s) == Shown(t, s) \cup Emptied(t, s)

LEMMA RenderedIs ==
    ASSUME NEW t, HasPaths(t), NEW s, NEW q \in Rendered(t, s)
    PROVE  IsPath(q) /\ q # << >> /\ q[1] = s
  BY ShownIs, EmptiedIs DEF Rendered

LEMMA ToggleKey ==
    ASSUME NEW t, HasPaths(t), <<"opencode">> \in DOMAIN t => t[<<"opencode">>] = EmptyTable,
           NEW q \in Rendered(t, "opencode")
    PROVE  Len(q) >= 2 /\ Len(q) \in Nat /\ q[2] \in Keys(t, <<"opencode">>)
<1> DEFINE one == <<"opencode">>
<1>1. IsPath(one) /\ Len(one) = 1 /\ one[1] = "opencode"
  BY OnePath
<1>2. IsPath(q) /\ q # << >> /\ q[1] = "opencode"
  BY RenderedIs
<1>3. Len(q) \in Nat /\ Len(q) >= 1
  BY <1>2, PathLen
<1>4. \A d \in Under(t, one) : IsPath(d) /\ (Len(d) >= 2 => d[2] \in Keys(t, one))
  <2> SUFFICES ASSUME NEW d \in Under(t, one), Len(d) >= 2 PROVE d[2] \in Keys(t, one)
    BY DEF Under, HasPaths
  <2>1. Len(d) > Len(one) /\ Len(one) + 1 = 2
    <3>1. IsPath(d)
      BY DEF Under, HasPaths
    <3>2. Len(d) \in Nat
      BY <3>1, PathLen
    <3> QED
      BY <1>1, <3>2
  <2>2. d[Len(one) + 1] \in {c[Len(one) + 1] : c \in {c \in Under(t, one) : Len(c) > Len(one)}}
    BY <2>1
  <2> HIDE DEF one
  <2> QED
    BY <2>1, <2>2 DEF Keys
<1>5. CASE q \in Shown(t, "opencode")
  <2>1. q \in DOMAIN t /\ q \in Under(t, one) /\ ~(OmitsZero(q) /\ IsZero(t[q]))
    BY <1>5, ShownIs
  <2>2. Len(q) # 1
    <3> SUFFICES ASSUME Len(q) = 1 PROVE FALSE
      OBVIOUS
    <3>1. \A i \in 1..Len(q) : q[i] = one[i]
      <4>1. \A i \in 1..1 : i = 1
        OBVIOUS
      <4> QED
        BY <1>1, <1>2, <4>1
    <3>2. q = one
      BY <1>1, <1>2, <3>1, PathEqual
    <3>3. OmitsZero(q)
      BY <1>2 DEF OmitsZero
    <3>4. t[q] = EmptyTable
      BY <2>1, <3>2
    <3>5. IsZero(t[q])
      BY <3>4 DEF IsZero, ZeroLeaves
    <3> QED
      BY <2>1, <3>3, <3>5
  <2>3. Len(q) >= 2
    <3>1. \A n \in Nat : n >= 1 /\ n # 1 => n >= 2
      OBVIOUS
    <3> QED
      BY <1>3, <2>2, <3>1, Zenon
  <2> HIDE DEF one
  <2>4. q[2] \in Keys(t, one)
    BY <1>4, <2>1, <2>3, Zenon
  <2> QED
    BY <1>3, <2>3, <2>4 DEF one
<1>6. CASE q \in Emptied(t, "opencode")
  <2>1. PICK d \in Under(t, one) : IsPrefix(q, d) /\ Len(q) < Len(d) /\ Len(q) = 2
    BY <1>6, EmptiedIs
  <2>2. IsPath(d)
    BY <1>4
  <2>3. Len(d) \in Nat
    BY <2>2, PathLen
  <2>4. d[2] = q[2]
    <3>1. \A i \in 1..Len(q) : q[i] = d[i]
      BY <1>2, <2>1, <2>2, PrefixAt
    <3> QED
      BY <2>1, <3>1
  <2> QED
    BY <1>3, <1>4, <2>1, <2>3, <2>4
<1> QED
  BY <1>5, <1>6 DEF Rendered

\* The sections of opencode.json that a section of the stack is rendered to.
SectionTops(t, s) == IF s = "opencode" THEN Keys(t, <<"opencode">>) ELSE {JSONName(s)}

LEMMA RenderedTop ==
    ASSUME NEW t, HasPaths(t), <<"opencode">> \in DOMAIN t => t[<<"opencode">>] = EmptyTable,
           NEW s \in SectionNames, NEW q \in Rendered(t, s)
    PROVE  InTops(JSONPath(q), SectionTops(t, s))
<1>1. IsPath(q) /\ q # << >> /\ q[1] = s
  BY RenderedIs
<1> DEFINE r == JSONPath(q)
<1>2. CASE s = "opencode"
  <2>1. Len(q) >= 2 /\ Len(q) \in Nat /\ q[2] \in Keys(t, <<"opencode">>)
    BY <1>2, ToggleKey
  <2>2. IsPath(r) /\ Len(r) = Len(q) - 1 /\ \A i \in 1..(Len(q) - 1) : r[i] = q[i + 1]
    BY <1>1, <1>2, TogglePath
  <2> HIDE DEF r
  <2>3. r[1] = q[2] /\ Len(r) >= 1
    BY <2>1, <2>2
  <2>4. r # << >>
    BY <2>3, NoPath
  <2> QED
    BY <1>2, <2>1, <2>2, <2>3, <2>4 DEF InTops, SectionTops, r
<1>3. CASE s # "opencode"
  <2>1. s \in NamedSections
    BY <1>3 DEF SectionNames
  <2>2. IsPath(r) /\ Len(r) >= 1 /\ r[1] = JSONName(s)
    <3>1. CASE ~Moved(q)
      BY <1>1, <2>1, <3>1, NamedPath
    <3>2. CASE OfModel(q)
      <4>1. s = "providers"
        BY <1>1, <3>2 DEF OfModel
      <4>2. IsPath(r) /\ Len(r) = 6 /\ r[1] = "provider"
        BY <1>1, <3>2, ModelPath
      <4> QED
        BY <4>1, <4>2 DEF JSONName
    <3>3. CASE Moved(q) /\ ~OfModel(q)
      <4>1. q = <<"permissions", "default">>
        BY <3>3 DEF Moved
      <4>2. s = "permissions"
        BY <1>1, <4>1, TwoPath
      <4>3. IsPath(r) /\ Len(r) = 2 /\ r[1] = "permission"
        BY <4>1, DefaultPath
      <4> QED
        BY <4>2, <4>3 DEF JSONName
    <3> QED
      BY <3>1, <3>2, <3>3
  <2> HIDE DEF r
  <2>3. r # << >>
    BY <2>2, NoPath
  <2> QED
    BY <1>3, <2>2, <2>3 DEF InTops, SectionTops, r
<1> QED
  BY <1>2, <1>3

\* Two keys that are not moved are as far apart in opencode.json as in the stack.
LEMMA UnmovedPrefix ==
    ASSUME NEW t, HasPaths(t), Flat(t), NEW s \in SectionNames,
           NEW p \in Rendered(t, s), NEW q \in Rendered(t, s), ~Moved(p), ~Moved(q),
           IsPrefix(JSONPath(p), JSONPath(q))
    PROVE  p = q
<1>1. IsPath(p) /\ p # << >> /\ p[1] = s /\ IsPath(q) /\ q # << >> /\ q[1] = s
  BY RenderedIs
<1> DEFINE a == JSONPath(p)
           b == JSONPath(q)
<1>2. IsPrefix(p, q)
  <2>1. CASE s \in NamedSections
    <3>1. /\ IsPath(a) /\ Len(a) = Len(p) /\ Len(p) \in Nat
          /\ \A i \in 2..Len(p) : a[i] = p[i]
      BY <1>1, <2>1, NamedPath
    <3>2. /\ IsPath(b) /\ Len(b) = Len(q) /\ Len(q) \in Nat
          /\ \A i \in 2..Len(q) : b[i] = q[i]
      BY <1>1, <2>1, NamedPath
    <3>3. Len(a) <= Len(b) /\ \A i \in 1..Len(a) : a[i] = b[i]
      BY <3>1, <3>2, PrefixAt
    <3> HIDE DEF a, b
    <3>4. Len(p) <= Len(q) /\ \A i \in 1..Len(p) : p[i] = q[i]
      BY <1>1, <3>1, <3>2, <3>3
    <3> QED
      BY <1>1, <3>4, PrefixAt
  <2>2. CASE s = "opencode"
    <3>1. /\ IsPath(a) /\ Len(a) = Len(p) - 1 /\ Len(p) \in Nat /\ Len(p) >= 1
          /\ \A i \in 1..(Len(p) - 1) : a[i] = p[i + 1]
      BY <1>1, <2>2, TogglePath
    <3>2. /\ IsPath(b) /\ Len(b) = Len(q) - 1 /\ Len(q) \in Nat /\ Len(q) >= 1
          /\ \A i \in 1..(Len(q) - 1) : b[i] = q[i + 1]
      BY <1>1, <2>2, TogglePath
    <3>3. Len(a) <= Len(b) /\ \A i \in 1..Len(a) : a[i] = b[i]
      BY <3>1, <3>2, PrefixAt
    <3> HIDE DEF a, b
    <3>4. Len(p) <= Len(q)
      BY <3>1, <3>2, <3>3
    <3>5. ASSUME NEW i \in 1..Len(p)
          PROVE  p[i] = q[i]
      <4>1. CASE i = 1
        BY <1>1, <4>1
      <4>2. CASE i # 1
        <5>1. i - 1 \in 1..(Len(p) - 1) /\ i - 1 \in 1..(Len(q) - 1) /\ i - 1 \in 1..Len(a) /\ (i - 1) + 1 = i
          BY <3>1, <3>2, <3>4, <4>2
        <5> QED
          BY <3>1, <3>2, <3>3, <5>1
      <4> QED
        BY <4>1, <4>2
    <3> QED
      BY <1>1, <3>4, <3>5, PrefixAt
  <2> QED
    BY <2>1, <2>2 DEF SectionNames
<1> QED
  BY <1>2, RenderedFlat DEF Rendered

\* The first names of a path.
LEMMA FivePrefix ==
    ASSUME NEW a, IsPath(a), Len(a) = 5, NEW q, IsPath(q), Len(q) >= 5, Len(q) \in Nat,
           a[1] = q[1], \A i \in 2..4 : a[i] = q[i], a[5] = q[5]
    PROVE  IsPrefix(a, q)
<1>1. \A i \in 1..5 : i = 1 \/ i \in 2..4 \/ i = 5
  OBVIOUS
<1>2. \A i \in 1..Len(a) : a[i] = q[i]
  BY <1>1
<1> QED
  BY <1>2, PrefixAt

LEMMA TwoPrefix ==
    ASSUME NEW a, NEW b, NEW q, IsPath(q), Len(q) >= 2, Len(q) \in Nat, q[1] = a, q[2] = b
    PROVE  IsPrefix(<<a, b>>, q)
<1> DEFINE two == <<a, b>>
<1>1. IsPath(two) /\ Len(two) = 2 /\ two[1] = a /\ two[2] = b
  BY TwoPath
<1> HIDE DEF two
<1>2. \A i \in 1..2 : i = 1 \/ i = 2
  OBVIOUS
<1>3. Len(two) <= Len(q) /\ \A i \in 1..Len(two) : two[i] = q[i]
  BY <1>1, <1>2
<1>4. IsPrefix(two, q)
  BY <1>1, <1>3, PrefixAt
<1> QED
  BY <1>4 DEF two

\* A key that is moved is apart from those that are not.
LEMMA MovedApart ==
    ASSUME NEW t, HasPaths(t), Flat(t), NEW s \in SectionNames,
           NEW p \in Rendered(t, s), NEW q \in Rendered(t, s), Moved(q), ~Moved(p)
    PROVE  ~Related(JSONPath(p), JSONPath(q))
<1> DEFINE a == JSONPath(p)
           b == JSONPath(q)
<1>1. IsPath(p) /\ p # << >> /\ p[1] = s /\ IsPath(q) /\ q # << >> /\ q[1] = s
  BY RenderedIs
<1>2. /\ OfModel(q) => s = "providers" /\ ~Has(t, Alt(q))
      /\ ~OfModel(q) => s = "permissions" /\ ~Has(t, <<"permissions", "*">>)
  BY MovedIs DEF Rendered
<1>3. s \in NamedSections
  BY <1>2 DEF NamedSections
<1>4. /\ IsPath(a) /\ Len(a) = Len(p) /\ Len(p) \in Nat /\ Len(p) >= 1
      /\ a[1] = JSONName(s) /\ \A i \in 2..Len(p) : a[i] = p[i]
  BY <1>1, <1>3, NamedPath
<1>5. ~IsPrefix(p, q)
  BY RenderedFlat DEF Rendered
<1>6. CASE OfModel(q)
  <2> DEFINE c == Alt(q)
  <2>1. /\ IsPath(b) /\ Len(b) = 6 /\ \A i \in 2..4 : b[i] = q[i]
        /\ b[5] = ModelTable(q)
    BY <1>1, <1>6, ModelPath
  <2>2. IsPath(c) /\ Len(c) = 5 /\ Len(q) = 5 /\ (\A i \in 1..4 : c[i] = q[i]) /\ c[5] = ModelTable(q)
    BY <1>1, <1>6, AltPath
  <2>3. ~IsPrefix(c, p)
    BY <1>2, <1>6, <2>2, NothingBelow DEF Rendered
  <2> HIDE DEF a, b, c
  <2>4. CASE Len(p) <= 4 /\ (IsPrefix(a, b) \/ IsPrefix(b, a))
    <3>1. Len(a) <= Len(b) /\ \A i \in 1..Len(a) : a[i] = b[i]
      <4>1. ~IsPrefix(b, a)
        <5> SUFFICES ASSUME IsPrefix(b, a) PROVE FALSE
          OBVIOUS
        <5>1. Len(b) <= Len(a)
          BY <1>4, <2>1, PrefixAt
        <5> QED
          BY <1>4, <2>1, <2>4, <5>1
      <4> QED
        BY <1>4, <2>1, <2>4, <4>1, PrefixAt
    <3>2. ASSUME NEW i \in 1..Len(p)
          PROVE  p[i] = q[i]
      <4>1. CASE i = 1
        BY <1>1, <4>1
      <4>2. CASE i # 1
        <5>1. i \in 2..4 /\ i \in 2..Len(p) /\ i \in 1..Len(a)
          BY <1>4, <2>4, <4>2
        <5> QED
          BY <1>4, <2>1, <3>1, <5>1
      <4> QED
        BY <4>1, <4>2
    <3>3. Len(p) <= Len(q)
      BY <1>4, <2>2, <2>4
    <3>4. IsPrefix(p, q)
      BY <1>1, <3>2, <3>3, PrefixAt
    <3> QED
      BY <1>5, <3>4
  <2>5. CASE Len(p) >= 5 /\ (IsPrefix(a, b) \/ IsPrefix(b, a))
    <3>1. \A i \in 1..5 : a[i] = b[i]
      <4>1. CASE IsPrefix(a, b)
        <5>1. \A i \in 1..Len(a) : a[i] = b[i]
          BY <1>4, <2>1, <4>1, PrefixAt
        <5> QED
          BY <1>4, <2>5, <5>1
      <4>2. CASE IsPrefix(b, a)
        <5>0. IsPath(a) /\ IsPath(b)
          BY <1>4, <2>1
        <5>1. \A i \in 1..Len(b) : b[i] = a[i]
          BY <4>2, <5>0, PrefixAt
        <5> QED
          BY <2>1, <5>1
      <4> QED
        BY <2>5, <4>1, <4>2
    <3>2. c[1] = p[1]
      BY <1>1, <2>2
    <3>3. \A i \in 2..4 : c[i] = p[i]
      BY <1>4, <2>1, <2>2, <2>5, <3>1
    <3>4. c[5] = p[5]
      BY <1>4, <2>1, <2>2, <2>5, <3>1
    <3> QED
      BY <1>1, <1>4, <2>2, <2>3, <2>5, <3>2, <3>3, <3>4, FivePrefix
  <2>6. Len(p) <= 4 \/ Len(p) >= 5
    BY <1>4
  <2> QED
    BY <2>4, <2>5, <2>6 DEF Related, a, b
<1>7. CASE ~OfModel(q)
  <2>1. q = <<"permissions", "default">>
    BY <1>7 DEF Moved
  <2>2. IsPath(b) /\ Len(b) = 2 /\ b[2] = "*"
    BY <2>1, DefaultPath
  <2>3. Len(q) = 2
    BY <2>1, TwoPath
  <2>4. s = "permissions" /\ ~Has(t, <<"permissions", "*">>)
    BY <1>2, <1>7
  <2>5. ~IsPrefix(<<"permissions", "*">>, p)
    BY <2>4, TwoPath, NothingBelow DEF Rendered
  <2> HIDE DEF a, b
  <2>6. CASE Len(p) = 1
    <3>1. \A i \in 1..Len(p) : p[i] = q[i]
      BY <1>1, <2>6
    <3>2. IsPrefix(p, q)
      BY <1>1, <2>3, <2>6, <3>1, PrefixAt
    <3> QED
      BY <1>5, <3>2
  <2>7. CASE Len(p) >= 2 /\ (IsPrefix(a, b) \/ IsPrefix(b, a))
    <3>1. a[2] = b[2]
      <4>1. CASE IsPrefix(a, b)
        <5>1. \A i \in 1..Len(a) : a[i] = b[i]
          BY <1>4, <2>2, <4>1, PrefixAt
        <5> QED
          BY <1>4, <2>7, <5>1
      <4>2. CASE IsPrefix(b, a)
        <5>0. IsPath(a) /\ IsPath(b)
          BY <1>4, <2>2
        <5>1. \A i \in 1..Len(b) : b[i] = a[i]
          BY <4>2, <5>0, PrefixAt
        <5> QED
          BY <2>2, <5>1
      <4> QED
        BY <2>7, <4>1, <4>2
    <3>2. p[2] = "*"
      BY <1>4, <2>2, <2>7, <3>1
    <3> QED
      BY <1>1, <1>4, <2>4, <2>5, <2>7, <3>2, TwoPrefix
  <2>8. Len(p) = 1 \/ Len(p) >= 2
    BY <1>4
  <2> QED
    BY <2>6, <2>7, <2>8 DEF Related, a, b
<1> QED
  BY <1>6, <1>7

LEMMA MovedBoth ==
    ASSUME NEW t, HasPaths(t), NEW s, NEW p \in Rendered(t, s), NEW q \in Rendered(t, s),
           Moved(p), Moved(q), IsPrefix(JSONPath(p), JSONPath(q))
    PROVE  JSONPath(p) = JSONPath(q)
<1>1. IsPath(p) /\ IsPath(q)
  BY RenderedIs
<1>2. CASE s = "providers"
  <2>1. OfModel(p) /\ OfModel(q)
    BY <1>2, MovedIs DEF Rendered
  <2>2. /\ IsPath(JSONPath(p)) /\ Len(JSONPath(p)) = 6
        /\ IsPath(JSONPath(q)) /\ Len(JSONPath(q)) = 6
    BY <1>1, <2>1, ModelPath
  <2> QED
    BY <2>2, PrefixOfLength
<1>3. CASE s # "providers"
  <2>1. ~OfModel(p) /\ ~OfModel(q)
    BY <1>3, MovedIs DEF Rendered
  <2> QED
    BY <2>1 DEF Moved
<1> QED
  BY <1>2, <1>3

\* What a section is rendered to: a tree, in the sections of its own.
LEMMA TranslatedTree ==
    ASSUME NEW t, IsStack(t), NEW s \in SectionNames
    PROVE  /\ HasPaths(Translated(t, s)) /\ Flat(Translated(t, s))
           /\ \A r \in DOMAIN Translated(t, s) : InTops(r, SectionTops(t, s))
           /\ HasLeaves(Translated(t, s))
<1> DEFINE D == Translated(t, s)
<1> HasPaths(t) /\ Flat(t) /\ HasLeaves(t)
    /\ (<<"opencode">> \in DOMAIN t => t[<<"opencode">>] = EmptyTable)
  BY DEF IsStack
<1>1. \A r \in DOMAIN D : \E q \in Rendered(t, s) : r = JSONPath(q)
  BY TranslatedIs DEF Rendered
<1>2. \A r \in DOMAIN D :
        IF \E q \in Shown(t, s) : r = JSONPath(q)
        THEN D[r] = t[CHOOSE q \in Shown(t, s) : JSONPath(q) = r]
        ELSE D[r] = EmptyTable
  BY TranslatedIs
<1> HIDE DEF D
<1>3. \A r \in DOMAIN D : InTops(r, SectionTops(t, s))
  BY <1>1, RenderedTop
<1>4. HasPaths(D)
  BY <1>3 DEF HasPaths, InTops
<1>5. ASSUME NEW a \in DOMAIN D, NEW b \in DOMAIN D, IsPrefix(a, b)
      PROVE  a = b
  <2>1. PICK p \in Rendered(t, s) : a = JSONPath(p)
    BY <1>1
  <2>2. PICK q \in Rendered(t, s) : b = JSONPath(q)
    BY <1>1
  <2>3. CASE ~Moved(p) /\ ~Moved(q)
    BY <1>5, <2>1, <2>2, <2>3, UnmovedPrefix
  <2>4. CASE Moved(p) /\ ~Moved(q)
    BY <1>5, <2>1, <2>2, <2>4, MovedApart DEF Related
  <2>5. CASE ~Moved(p) /\ Moved(q)
    BY <1>5, <2>1, <2>2, <2>5, MovedApart DEF Related
  <2>6. CASE Moved(p) /\ Moved(q)
    BY <1>5, <2>1, <2>2, <2>6, MovedBoth
  <2> QED
    BY <2>3, <2>4, <2>5, <2>6
<1>6. ASSUME NEW r \in DOMAIN D PROVE IsLeaf(D[r])
  <2>1. CASE \E q \in Shown(t, s) : r = JSONPath(q)
    <3>1. PICK q \in Shown(t, s) : D[r] = t[q]
      BY <1>2, <2>1
    <3>2. q \in DOMAIN t
      BY ShownIs
    <3> QED
      BY <3>1, <3>2 DEF HasLeaves
  <2>2. CASE ~ \E q \in Shown(t, s) : r = JSONPath(q)
    <3>1. IsLeaf(EmptyTable)
      <4> "table" # "array"
        OBVIOUS
      <4> QED
        BY DEF IsLeaf, EmptyTable
    <3> QED
      BY <1>2, <2>2, <3>1
  <2> QED
    BY <2>1, <2>2
<1> QED
  BY <1>3, <1>4, <1>5, <1>6 DEF Flat, HasLeaves, D
--------------------------------------------------------------------------------
(* Documents, and what targets declare. *)

\* A document: all that is known of opencode.json.
GoodDoc(d) == IsFcn(d) /\ HasPaths(d) /\ HasLeaves(d)

LEMMA GoodOnly ==
    ASSUME NEW d, GoodDoc(d), NEW paths PROVE GoodDoc(Only(d, paths))
  BY DEF GoodDoc, IsFcn, HasPaths, HasLeaves, Only

LEMMA GoodOverride ==
    ASSUME NEW d, GoodDoc(d), NEW s, HasPaths(s), HasLeaves(s) PROVE GoodDoc(Override(d, s))
  BY DEF GoodDoc, IsFcn, HasPaths, HasLeaves, Override, Only, ++

LEMMA TableLeaf == IsLeaf(EmptyTable) /\ EmptyTable[1] = "table"
<1>1. EmptyTable[1] = "table" /\ EmptyTable[2] = "" /\ "table" # "array"
  BY DEF EmptyTable
<1>2. EmptyTable = <<EmptyTable[1], EmptyTable[2]>>
  BY DEF EmptyTable
<1> QED
  BY <1>1, <1>2, Zenon DEF IsLeaf

LEMMA GoodLeaf ==
    ASSUME NEW a, IsPath(a), NEW leaf, IsLeaf(leaf)
    PROVE  HasPaths(Leaf(a, leaf)) /\ HasLeaves(Leaf(a, leaf))
  BY DEF HasPaths, HasLeaves, Leaf

\* The entries that a stack has.
Fragments(t) == {GroupFragment(t, g) : g \in GroupsOf(t)}
                \cup {ServerFragment(t, n) : n \in ServersOf(t) \ GroupsOf(t)}

LEMMA DeclaredIs ==
    ASSUME NEW t
    PROVE  /\ DOMAIN DeclaredMCP(t) = UNION {DOMAIN f : f \in Fragments(t)}
           /\ \A q \in DOMAIN DeclaredMCP(t) :
                \E f \in Fragments(t) : q \in DOMAIN f /\ DeclaredMCP(t)[q] = f[q]
<1> DEFINE F == Fragments(t)
<1>1. DeclaredMCP(t) = [p \in UNION {DOMAIN f : f \in F} |-> (CHOOSE f \in F : p \in DOMAIN f)[p]]
  BY DEF DeclaredMCP, Union, Fragments
<1> HIDE DEF F
<1> QED
  BY <1>1 DEF F

LEMMA FragmentIs ==
    ASSUME NEW n, NEW x, NEW on, NEW ms,
           NEW f, f = Fragment(n, x, on, ms)
    PROVE  /\ DOMAIN f = {<<"mcp", n, k>> : k \in {"type", "url", "enabled", "oauth", "timeout"}}
           /\ \A q \in DOMAIN f : /\ IsPath(q) /\ q # << >> /\ Len(q) = 3
                                  /\ q[1] = "mcp" /\ q[2] = n
                                  /\ IsLeaf(f[q])
           /\ f[<<"mcp", n, "url">>] = <<"url", x>>
<1> DEFINE keys == {"type", "url", "enabled", "oauth", "timeout"}
           entry == [type |-> Str("remote"), url |-> <<"url", x>>,
                  enabled |-> Bool(on), oauth |-> Bool(FALSE),
                  timeout |-> Num(ms)]
<1>1. DOMAIN entry = keys
  OBVIOUS
<1>2. f = [p \in {<<"mcp", n, k>> : k \in DOMAIN entry} |-> entry[p[3]]]
  BY DEF Fragment
<1>3. \A k \in keys : IsLeaf(entry[k])
  <2>1. \A kind, v : kind \notin {"array", "table"} => IsLeaf(<<kind, v>>)
    BY DEF IsLeaf
  <2>2. \A k \in keys : \E kind \in {"string", "url", "bool", "int"} : \E v : entry[k] = <<kind, v>>
    <3>1. entry.type = <<"string", "remote">> /\ entry.url = <<"url", x>>
          /\ entry.enabled = <<"bool", on>> /\ entry.oauth = <<"bool", FALSE>>
          /\ entry.timeout = <<"int", ms>>
      BY DEF Str, Bool, Num
    <3> HIDE DEF entry
    <3> QED
      BY <3>1
  <2> HIDE DEF entry
  <2> QED
    BY <2>1, <2>2
<1>4. entry.url = <<"url", x>>
  OBVIOUS
<1> HIDE DEF entry
<1>5. DOMAIN f = {<<"mcp", n, k>> : k \in keys}
  BY <1>1, <1>2
<1>6. ASSUME NEW q \in DOMAIN f
      PROVE  IsPath(q) /\ q # << >> /\ Len(q) = 3 /\ q[1] = "mcp" /\ q[2] = n /\ IsLeaf(f[q])
  <2>1. PICK k \in keys : q = <<"mcp", n, k>>
    BY <1>5
  <2>2. IsPath(q) /\ Len(q) = 3 /\ q[1] = "mcp" /\ q[2] = n /\ q[3] = k
    BY <2>1, ThreePath
  <2>3. f[q] = entry[k]
    BY <1>1, <1>2, <1>5, <2>2
  <2>4. q # << >>
    BY <2>2, NoPath
  <2> QED
    BY <1>3, <2>2, <2>3, <2>4
<1>7. f[<<"mcp", n, "url">>] = <<"url", x>>
  <2> DEFINE u == <<"mcp", n, "url">>
  <2>1. u \in DOMAIN f /\ u[3] = "url"
    BY <1>5
  <2> HIDE DEF u
  <2>2. f[u] = entry[u[3]]
    BY <1>1, <1>2, <1>5, <2>1
  <2> QED
    BY <1>4, <2>1, <2>2 DEF u
<1> QED
  BY <1>5, <1>6, <1>7

LEMMA FragmentPaths ==
    ASSUME NEW n, NEW x, NEW on, NEW ms, NEW q \in DOMAIN Fragment(n, x, on, ms)
    PROVE  /\ IsPath(q) /\ q # << >> /\ Len(q) = 3 /\ q[1] = "mcp" /\ q[2] = n
           /\ IsLeaf(Fragment(n, x, on, ms)[q])
<1> DEFINE f == Fragment(n, x, on, ms)
<1>1. \A r \in DOMAIN f : /\ IsPath(r) /\ r # << >> /\ Len(r) = 3
                          /\ r[1] = "mcp" /\ r[2] = n
                          /\ IsLeaf(f[r])
  BY FragmentIs
<1> QED
  BY <1>1

LEMMA DeclaredIsMCP ==
    ASSUME NEW t
    PROVE  IsMCP(DeclaredMCP(t)) /\ HasPaths(DeclaredMCP(t)) /\ HasLeaves(DeclaredMCP(t))
<1> DEFINE D == DeclaredMCP(t)
           mcp == <<"mcp">>
<1>1. ASSUME NEW q \in DOMAIN D
      PROVE  IsPath(q) /\ q # << >> /\ Len(q) = 3 /\ q[1] = "mcp" /\ IsLeaf(D[q])
  <2>1. PICK f \in Fragments(t) : q \in DOMAIN f /\ D[q] = f[q]
    BY DeclaredIs
  <2>2. PICK n, x, on, ms : f = Fragment(n, x, on, ms)
    BY DEF Fragments, GroupFragment, ServerFragment
  <2> QED
    BY <2>1, <2>2, FragmentPaths
<1>2. IsPath(mcp) /\ Len(mcp) = 1 /\ mcp[1] = "mcp"
  BY OnePath
<1> HIDE DEF D, mcp
<1>3. ASSUME NEW q \in DOMAIN D
      PROVE  q[2] \in Keys(D, mcp)
  <2>1. IsPath(q) /\ Len(q) = 3 /\ q[1] = "mcp"
    BY <1>1
  <2>2. \A i \in 1..1 : i = 1
    OBVIOUS
  <2>3. Len(mcp) <= Len(q) /\ \A i \in 1..Len(mcp) : mcp[i] = q[i]
    BY <1>2, <2>1, <2>2
  <2>4. IsPrefix(mcp, q)
    BY <1>2, <2>1, <2>3, PrefixAt
  <2>5. q \in Under(D, mcp) /\ Len(q) > Len(mcp) /\ Len(mcp) + 1 = 2
    BY <1>2, <2>1, <2>4 DEF Under
  <2> QED
    BY <2>5 DEF Keys
<1>4. IsMCP(D)
  BY <1>1, <1>3 DEF IsMCP, MCPNames, InTops, mcp
<1> QED
  BY <1>1, <1>4 DEF HasPaths, HasLeaves, D

\* The arrays that a stack has are sequences.
LEMMA ItemsPath ==
    ASSUME NEW t, HasLeaves(t), NEW p PROVE IsPath(Items(t, p))
<1>1. CASE Kind(t, p) # "array"
  BY <1>1, NoPath DEF Items
<1>2. CASE Kind(t, p) = "array"
  <2>1. p \in DOMAIN t /\ t[p][1] = "array"
    BY <1>2 DEF Kind
  <2>2. t[p][2] \in Seq(Range(t[p][2]))
    BY <2>1 DEF HasLeaves, IsLeaf
  <2> DEFINE s == t[p][2]
             u == [i \in DOMAIN s |-> s[i][2]]
  <2>3. Items(t, p) = u
    BY <1>2 DEF Items
  <2>4. DOMAIN s = 1..Len(s) /\ Len(s) \in Nat
    BY <2>2
  <2>5. DOMAIN u = 1..Len(s)
    BY <2>4
  <2> HIDE DEF s
  <2>6. u \in [1..Len(s) -> Range(u)]
    BY <2>5 DEF Range
  <2> HIDE DEF u
  <2>7. u \in Seq(Range(u))
    BY <2>4, <2>6
  <2> QED
    BY <2>3, <2>7 DEF IsPath
<1> QED
  BY <1>1, <1>2

LEMMA EnabledNames ==
    ASSUME NEW t PROVE EnabledPlugins(t) \in Seq(STRING)
  BY NameAssumption, SelectedType DEF EnabledPlugins

LEMMA PluginsDeclared ==
    ASSUME NEW t PROVE \E D : DeclaredPlugins(t) \in Seq(D)
<1> DEFINE names == EnabledPlugins(t)
           D == {RenderPlugin(t, names[i]) : i \in DOMAIN names}
<1>1. names \in Seq(STRING)
  BY EnabledNames
<1>2. DOMAIN names = 1..Len(names) /\ Len(names) \in Nat
  BY <1>1
<1> HIDE DEF names
<1>3. DeclaredPlugins(t) = [i \in 1..Len(names) |-> RenderPlugin(t, names[i])]
  BY <1>2 DEF DeclaredPlugins, names
<1>4. DeclaredPlugins(t) \in [1..Len(names) -> D]
  BY <1>2, <1>3
<1> HIDE DEF D
<1>5. DeclaredPlugins(t) \in Seq(D)
  BY <1>2, <1>4
<1> QED
  BY <1>5

LEMMA InstructionsDeclared ==
    ASSUME NEW t, HasLeaves(t) PROVE \E D : DeclaredInstructions(t) \in Seq(D)
<1> DEFINE names == EnabledPlugins(t)
           order == Items(t, <<"instructions", "order">>)
           provided == \E n \in Keys(t, <<"plugins">>) :
                         "adv-instructions" \in Range(Items(t, OfPlugin(n, "provides")))
           Of1(n) == LET files == Items(t, OfPlugin(n, "instructions"))
                     IN  Selected(files, Range(files) \ (IF provided THEN AdvInstructions ELSE {}))
           D == Range(order) \cup UNION {Range(Items(t, OfPlugin(n, "instructions"))) : n \in STRING}
           each == [i \in DOMAIN names |-> Of1(names[i])]
<1>1. DeclaredInstructions(t) = order \o FlattenSeq(each)
  BY DEF DeclaredInstructions
<1>2. names \in Seq(STRING)
  BY EnabledNames
<1>3. order \in Seq(D)
  <2>1. order \in Seq(Range(order)) /\ Range(order) \subseteq D
    BY ItemsPath DEF IsPath
  <2> HIDE DEF D, order
  <2> QED
    BY <2>1, SeqMonotonic
<1>4. ASSUME NEW n \in STRING PROVE Of1(n) \in Seq(D)
  <2> DEFINE files == Items(t, OfPlugin(n, "instructions"))
  <2>1. files \in Seq(Range(files)) /\ Range(files) \subseteq D
    BY ItemsPath DEF IsPath
  <2> HIDE DEF D, files, provided
  <2>2. files \in Seq(D)
    BY <2>1, SeqMonotonic
  <2>3. \A S : Selected(files, S) \in Seq(D)
    BY <2>2, SelectedType
  <2>4. Of1(n) = Selected(files, Range(files) \ (IF provided THEN AdvInstructions ELSE {}))
    BY DEF files
  <2> QED
    BY <2>3, <2>4
<1> HIDE DEF Of1, D, order, names
<1>5. each \in Seq(Seq(D))
  <2>1. DOMAIN names = 1..Len(names) /\ Len(names) \in Nat
    BY <1>2
  <2>2. \A i \in 1..Len(names) : names[i] \in STRING
    BY <1>2
  <2>3. each \in [1..Len(names) -> Seq(D)]
    BY <1>4, <2>1, <2>2
  <2> QED
    BY <2>1, <2>3
<1> HIDE DEF each
<1>6. FlattenSeq(each) \in Seq(D)
  BY <1>5, FlattenType
<1>7. order \o FlattenSeq(each) \in Seq(D)
  BY <1>3, <1>6
<1> QED
  BY <1>1, <1>7
--------------------------------------------------------------------------------
(* Each target: the sections of opencode.json that are its own, and when it has
   nothing to do. *)

\* The sections of opencode.json that a target writes.
Tops(target, t) ==
    CASE target = "mcp" -> {"mcp"}
      [] target = "plugins" -> {"plugin"}
      [] target = "instructions" -> {"instructions"}
      [] target = "watcher" -> {"watcher"}
      [] target = "skills" -> {}
      [] OTHER -> SectionTops(t, Sections[target])

\* A target has nothing to do.
Settled(target, t, d) ==
    CASE target = "mcp" -> MCPSettled(d, DeclaredMCP(t))
      [] target = "plugins" ->
           ArraySettled(d, <<"plugin">>, DeclaredPlugins(t), StaleWorktrees)
      [] target = "instructions" ->
           ArraySettled(d, <<"instructions">>, DeclaredInstructions(t), {})
      [] target = "watcher" -> WatcherSettled(d, Items(t, <<"watcher", "ignore">>))
      [] target = "skills" -> TRUE
      [] OTHER ->
           LET declared == Translated(t, Sections[target])
           IN  (target = "toggles" /\ declared = NoDocument) \/ KeysSettled(d, declared)

\* The targets by the way in which they merge.
ArrayTargets == {"plugins", "instructions", "watcher"}
KeyedTargets == DOMAIN Sections

LEMMA TargetKinds ==
    /\ \A i \in 1..11 : AllTargets[i] \in {"mcp", "skills"} \cup ArrayTargets \cup KeyedTargets
    /\ DOMAIN AllTargets = 1..11
    /\ KeyedTargets = {"providers", "permissions", "lsp", "commands", "formatters", "toggles"}
    /\ \A target \in KeyedTargets : Sections[target] \in SectionNames
    /\ \A target \in KeyedTargets : target # "toggles" => Sections[target] = target
    /\ Sections["toggles"] = "opencode"
<1>1. KeyedTargets = {"providers", "permissions", "lsp", "commands", "formatters", "toggles"}
  BY DEF KeyedTargets, Sections
<1>2. \A target \in KeyedTargets : Sections[target] \in SectionNames
  BY DEF Sections, SectionNames, NamedSections, KeyedTargets
<1>3. \A target \in KeyedTargets : target # "toggles" => Sections[target] = target
  BY DEF Sections, KeyedTargets
<1>4. Sections["toggles"] = "opencode"
  BY DEF Sections
<1>5. \A i \in 1..11 : AllTargets[i] \in {"mcp", "skills"} \cup ArrayTargets \cup KeyedTargets
  BY <1>1 DEF AllTargets, ArrayTargets
<1> QED
  BY <1>1, <1>2, <1>3, <1>4, <1>5, WholeTargets

\* What a keyed target is, and an array's.
LEMMA KeyedIs ==
    ASSUME NEW target \in KeyedTargets, NEW t, NEW d
    PROVE  /\ Tops(target, t) = SectionTops(t, Sections[target])
           /\ Settled(target, t, d)
                <=> \/ target = "toggles" /\ Translated(t, Sections[target]) = NoDocument
                    \/ KeysSettled(d, Translated(t, Sections[target]))
           /\ target = "toggles" /\ Translated(t, Sections[target]) = NoDocument
                => NextDoc(target, t, d) = d
           /\ ~(target = "toggles" /\ Translated(t, Sections[target]) = NoDocument)
                => NextDoc(target, t, d) = MergeObject(d, Translated(t, Sections[target]))
<1>1. target \notin {"mcp", "plugins", "instructions", "watcher", "skills"}
  BY TargetKinds
<1> QED
  BY <1>1 DEF Tops, Settled, NextDoc

LEMMA SettledStays ==
    ASSUME NEW i \in 1..11, NEW t, NEW d, IsFcn(d), Settled(AllTargets[i], t, d)
    PROVE  NextDoc(AllTargets[i], t, d) = d
<1> DEFINE target == AllTargets[i]
<1>1. target \in {"mcp", "skills"} \cup ArrayTargets \cup KeyedTargets
  BY TargetKinds
<1>2. Settled(target, t, d)
  OBVIOUS
<1> HIDE DEF target
<1>3. CASE target = "mcp"
  <2>1. MCPSettled(d, DeclaredMCP(t)) /\ NextDoc(target, t, d) = MergeMCP(d, DeclaredMCP(t))
    BY <1>2, <1>3 DEF Settled, NextDoc
  <2> QED
    BY <2>1, MCPStays DEF target
<1>4. CASE target = "skills"
  BY <1>4 DEF NextDoc, target
<1>5. CASE target = "plugins"
  <2>1. /\ ArraySettled(d, <<"plugin">>, DeclaredPlugins(t), StaleWorktrees)
        /\ NextDoc(target, t, d)
             = MergeArrayAt(d, <<"plugin">>, DeclaredPlugins(t), StaleWorktrees)
    BY <1>2, <1>5 DEF Settled, NextDoc
  <2>2. IsPath(<<"plugin">>)
    BY OnePath
  <2> QED
    BY <2>1, <2>2, ArrayStays DEF target
<1>6. CASE target = "instructions"
  <2>1. /\ ArraySettled(d, <<"instructions">>, DeclaredInstructions(t), {})
        /\ NextDoc(target, t, d)
             = MergeArrayAt(d, <<"instructions">>, DeclaredInstructions(t), {})
    BY <1>2, <1>6 DEF Settled, NextDoc
  <2>2. IsPath(<<"instructions">>)
    BY OnePath
  <2> QED
    BY <2>1, <2>2, ArrayStays DEF target
<1>7. CASE target = "watcher"
  <2>1. /\ WatcherSettled(d, Items(t, <<"watcher", "ignore">>))
        /\ NextDoc(target, t, d) = MergeWatcherIgnore(d, Items(t, <<"watcher", "ignore">>))
    BY <1>2, <1>7 DEF Settled, NextDoc
  <2> QED
    BY <2>1, WatcherStays DEF target
<1>8. CASE target \in KeyedTargets
  BY <1>2, <1>8, KeyedIs, KeysStay DEF target
<1> QED
  BY <1>1, <1>3, <1>4, <1>5, <1>6, <1>7, <1>8 DEF ArrayTargets, target

LEMMA SettledBecomes ==
    ASSUME NEW i \in 1..11, NEW t, IsStack(t), NEW d, GoodDoc(d),
           NextDoc(AllTargets[i], t, d) # Refused
    PROVE  Settled(AllTargets[i], t, NextDoc(AllTargets[i], t, d))
<1> DEFINE target == AllTargets[i]
<1>1. target \in {"mcp", "skills"} \cup ArrayTargets \cup KeyedTargets
  BY TargetKinds
<1>2. NextDoc(target, t, d) # Refused
  OBVIOUS
<1> HIDE DEF target
<1> HasPaths(d) /\ HasLeaves(d) /\ HasLeaves(t) /\ HasPaths(t)
  BY DEF GoodDoc, IsStack
<1>3. CASE target = "mcp"
  <2>1. \A e : Settled(target, t, e) <=> MCPSettled(e, DeclaredMCP(t))
    BY <1>3 DEF Settled
  <2>2. NextDoc(target, t, d) = MergeMCP(d, DeclaredMCP(t))
    BY <1>3 DEF NextDoc
  <2>3. IsMCP(DeclaredMCP(t))
    BY DeclaredIsMCP
  <2> QED
    BY <1>2, <2>1, <2>2, <2>3, MCPBecomes DEF target
<1>4. CASE target = "skills"
  BY <1>4 DEF Settled, target
<1>5. CASE target = "plugins"
  <2> DEFINE declared == DeclaredPlugins(t)
             a == <<"plugin">>
  <2>1. \A e : Settled(target, t, e) <=> ArraySettled(e, a, declared, StaleWorktrees)
    BY <1>5 DEF Settled
  <2>2. NextDoc(target, t, d) = MergeArrayAt(d, a, declared, StaleWorktrees)
    BY <1>5 DEF NextDoc
  <2>3. IsPath(a) /\ a # << >>
    BY OnePath
  <2>4. PICK D : declared \in Seq(D)
    BY PluginsDeclared
  <2> HIDE DEF declared, a
  <2> QED
    BY <1>2, <2>1, <2>2, <2>3, <2>4, ArrayBecomes DEF target
<1>6. CASE target = "instructions"
  <2> DEFINE declared == DeclaredInstructions(t)
             a == <<"instructions">>
  <2>1. \A e : Settled(target, t, e) <=> ArraySettled(e, a, declared, {})
    BY <1>6 DEF Settled
  <2>2. NextDoc(target, t, d) = MergeArrayAt(d, a, declared, {})
    BY <1>6 DEF NextDoc
  <2>3. IsPath(a) /\ a # << >>
    BY OnePath
  <2>4. PICK D : declared \in Seq(D)
    BY InstructionsDeclared
  <2> HIDE DEF declared, a
  <2> QED
    BY <1>2, <2>1, <2>2, <2>3, <2>4, ArrayBecomes DEF target
<1>7. CASE target = "watcher"
  <2> DEFINE declared == Items(t, <<"watcher", "ignore">>)
  <2>1. \A e : Settled(target, t, e) <=> WatcherSettled(e, declared)
    BY <1>7 DEF Settled
  <2>2. NextDoc(target, t, d) = MergeWatcherIgnore(d, declared)
    BY <1>7 DEF NextDoc
  <2>3. declared \in Seq(Range(declared))
    BY ItemsPath DEF IsPath
  <2> HIDE DEF declared
  <2> QED
    BY <1>2, <2>1, <2>2, <2>3, WatcherBecomes DEF target
<1>8. CASE target \in KeyedTargets
  <2> DEFINE declared == Translated(t, Sections[target])
  <2>1. CASE target = "toggles" /\ declared = NoDocument
    BY <1>8, <2>1, KeyedIs DEF target
  <2>2. CASE ~(target = "toggles" /\ declared = NoDocument)
    <3>1. \A e : KeysSettled(e, declared) => Settled(target, t, e)
      BY <1>8, KeyedIs
    <3>2. NextDoc(target, t, d) = MergeObject(d, declared)
      BY <1>8, <2>2, KeyedIs
    <3>3. /\ HasPaths(declared) /\ Flat(declared)
          /\ \A r \in DOMAIN declared : InTops(r, SectionTops(t, Sections[target]))
      BY <1>8, TargetKinds, TranslatedTree
    <3> HIDE DEF declared
    <3>4. << >> \notin DOMAIN declared
      BY <3>3 DEF InTops
    <3> QED
      BY <1>2, <3>1, <3>2, <3>3, <3>4, KeysBecome DEF target
  <2> QED
    BY <2>1, <2>2
<1> QED
  BY <1>1, <1>3, <1>4, <1>5, <1>6, <1>7, <1>8 DEF ArrayTargets

LEMMA SettledInSame ==
    ASSUME NEW i \in 1..11, NEW t, IsStack(t), NEW d, GoodDoc(d), NEW e, GoodDoc(e),
           Same(d, e, Tops(AllTargets[i], t)), Settled(AllTargets[i], t, d)
    PROVE  Settled(AllTargets[i], t, e)
<1> DEFINE target == AllTargets[i]
<1>1. target \in {"mcp", "skills"} \cup ArrayTargets \cup KeyedTargets
  BY TargetKinds
<1>2. Settled(target, t, d) /\ Same(d, e, Tops(target, t))
  OBVIOUS
<1> SUFFICES Settled(target, t, e)
  OBVIOUS
<1> HIDE DEF target
<1> HasPaths(d) /\ HasPaths(e)
  BY DEF GoodDoc
<1>3. CASE target = "mcp"
  <2>1. \A f : Settled(target, t, f) <=> MCPSettled(f, DeclaredMCP(t))
    BY <1>3 DEF Settled
  <2>2. Same(d, e, {"mcp"})
    BY <1>2, <1>3 DEF Tops
  <2>3. IsMCP(DeclaredMCP(t))
    BY DeclaredIsMCP
  <2> QED
    BY <1>2, <2>1, <2>2, <2>3, MCPInSame
<1>4. CASE target = "skills"
  BY <1>4 DEF Settled
<1>5. CASE target = "plugins"
  <2> DEFINE declared == DeclaredPlugins(t)
             a == <<"plugin">>
  <2>1. \A f : Settled(target, t, f) <=> ArraySettled(f, a, declared, StaleWorktrees)
    BY <1>5 DEF Settled
  <2>2. Same(d, e, {"plugin"}) /\ InTops(a, {"plugin"})
    BY <1>2, <1>5, OnePath DEF Tops, InTops
  <2> HIDE DEF declared, a
  <2> QED
    BY <1>2, <2>1, <2>2, ArrayInSame
<1>6. CASE target = "instructions"
  <2> DEFINE declared == DeclaredInstructions(t)
             a == <<"instructions">>
  <2>1. \A f : Settled(target, t, f) <=> ArraySettled(f, a, declared, {})
    BY <1>6 DEF Settled
  <2>2. Same(d, e, {"instructions"}) /\ InTops(a, {"instructions"})
    BY <1>2, <1>6, OnePath DEF Tops, InTops
  <2> HIDE DEF declared, a
  <2> QED
    BY <1>2, <2>1, <2>2, ArrayInSame
<1>7. CASE target = "watcher"
  <2> DEFINE declared == Items(t, <<"watcher", "ignore">>)
  <2>1. \A f : Settled(target, t, f) <=> WatcherSettled(f, declared)
    BY <1>7 DEF Settled
  <2>2. Same(d, e, {"watcher"})
    BY <1>2, <1>7 DEF Tops
  <2> HIDE DEF declared
  <2> QED
    BY <1>2, <2>1, <2>2, WatcherInSame
<1>8. CASE target \in KeyedTargets
  <2> DEFINE declared == Translated(t, Sections[target])
  <2>1. CASE target = "toggles" /\ declared = NoDocument
    BY <1>8, <2>1, KeyedIs
  <2>2. CASE ~(target = "toggles" /\ declared = NoDocument)
    <3>1. \A f : KeysSettled(f, declared) => Settled(target, t, f)
      BY <1>8, KeyedIs
    <3>2. KeysSettled(d, declared)
      BY <1>2, <1>8, <2>2, KeyedIs
    <3>3. \A r \in DOMAIN declared : InTops(r, Tops(target, t))
      <4>1. Tops(target, t) = SectionTops(t, Sections[target])
        BY <1>8, KeyedIs
      <4> QED
        BY <1>8, <4>1, TargetKinds, TranslatedTree
    <3> HIDE DEF declared
    <3> QED
      BY <1>2, <3>1, <3>2, <3>3, KeysInSame
  <2> QED
    BY <2>1, <2>2
<1> QED
  BY <1>1, <1>3, <1>4, <1>5, <1>6, <1>7, <1>8 DEF ArrayTargets

\* What each of the merges leaves alone, and that documents stay documents.
LEMMA MCPElsewhere ==
    ASSUME NEW d, GoodDoc(d), NEW declared, IsMCP(declared), HasLeaves(declared),
           MergeMCP(d, declared) # Refused
    PROVE  /\ GoodDoc(MergeMCP(d, declared))
           /\ \A tops : "mcp" \notin tops => Same(d, MergeMCP(d, declared), tops)
<1> DEFINE names == MCPNames(declared)
           stay == {p \in DOMAIN d : ~InEntries(p, names)}
           kept == Only(d, stay)
           mcp == <<"mcp">>
           one == Leaf(mcp, EmptyTable)
<1>1. MergeMCP(d, declared) = Override(d, one) \/ MergeMCP(d, declared) = Override(kept, declared)
  BY DEF MergeMCP, Set, MCPNames, InEntries
<1>2. IsPath(mcp) /\ mcp # << >> /\ mcp[1] = "mcp"
  BY OnePath
<1>3. HasPaths(one) /\ HasLeaves(one) /\ DOMAIN one = {mcp}
  BY <1>2, TableLeaf, GoodLeaf DEF Leaf
<1>4. HasPaths(declared) /\ \A q \in DOMAIN declared : IsPath(q) /\ q # << >> /\ q[1] = "mcp"
  BY DEF IsMCP, InTops, HasPaths
<1>5. GoodDoc(kept)
  BY GoodOnly
<1>6. \A p \in DOMAIN d \ stay : p[1] = "mcp"
  BY DEF InEntries
<1> HIDE DEF stay, one, mcp
<1>7. GoodDoc(MergeMCP(d, declared))
  BY <1>1, <1>3, <1>4, <1>5, GoodOverride
<1>8. ASSUME NEW tops, "mcp" \notin tops
      PROVE  Same(d, Override(d, one), tops) /\ Same(d, Override(kept, declared), tops)
  <2>1. Same(d, Override(d, one), tops)
    <3>1. \A q \in DOMAIN one : IsPath(q) /\ q # << >> /\ ~InTops(q, tops)
      BY <1>2, <1>3, <1>8 DEF InTops
    <3> QED
      BY <3>1, OverrideElsewhere DEF GoodDoc
  <2>2. Same(d, kept, tops)
    <3>1. \A p \in DOMAIN d \ stay : ~InTops(p, tops)
      BY <1>6, <1>8 DEF InTops
    <3> QED
      BY <3>1, OnlyElsewhere DEF GoodDoc
  <2> HIDE DEF kept
  <2>3. Same(kept, Override(kept, declared), tops)
    <3>1. \A q \in DOMAIN declared : IsPath(q) /\ q # << >> /\ ~InTops(q, tops)
      BY <1>4, <1>8 DEF InTops
    <3> QED
      BY <1>5, <3>1, OverrideElsewhere DEF GoodDoc
  <2> QED
    BY <2>1, <2>2, <2>3, SameTrans
<1> QED
  BY <1>1, <1>7, <1>8

LEMMA ArrayElsewhere ==
    ASSUME NEW d, GoodDoc(d), NEW a, IsPath(a), a # << >>, NEW D, NEW declared \in Seq(D),
           NEW stale, MergeArrayAt(d, a, declared, stale) # Refused
    PROVE  /\ GoodDoc(MergeArrayAt(d, a, declared, stale))
           /\ \A tops : a[1] \notin tops => Same(d, MergeArrayAt(d, a, declared, stale), tops)
<1>1. PICK leaf : /\ IsLeaf(leaf)
                  /\ MergeArrayAt(d, a, declared, stale) = Override(d, Leaf(a, leaf))
  <2> DEFINE existing == IF Has(d, a) THEN OnlyStrings(d[a])[2] ELSE << >>
             texts == [i \in DOMAIN existing |-> existing[i][2]]
             s == Preserved(texts, declared, stale)
  <2>1. MergeArrayAt(d, a, declared, stale) = Override(d, Leaf(a, Strings(declared \o s)))
    BY DEF MergeArrayAt, Set
  <2>2. \E T : texts \in Seq(T)
    <3>1. CASE Has(d, a)
      <4>1. Kind(d, a) = "array"
        BY <3>1 DEF MergeArrayAt
      <4>2. a \in DOMAIN d /\ d[a][1] = "array"
        BY <4>1 DEF Kind
      <4>3. IsLeaf(d[a])
        BY <4>2 DEF GoodDoc, HasLeaves
      <4> QED
        BY <3>1, <4>2, <4>3, TextsOf
    <3>2. CASE ~Has(d, a)
      <4>1. existing = << >>
        BY <3>2
      <4> HIDE DEF existing
      <4>2. texts = << >>
        BY <4>1
      <4> QED
        BY <4>2, NoPath DEF IsPath
    <3> QED
      BY <3>1, <3>2
  <2>3. PICK T : texts \in Seq(T)
    BY <2>2
  <2> HIDE DEF texts
  <2>4. s \in Seq(T)
    BY <2>3, SelectedType DEF Preserved
  <2> HIDE DEF s
  <2>5. \E U : declared \in Seq(U) /\ s \in Seq(U)
    <3> DEFINE U == D \cup T
    <3>1. D \subseteq U /\ T \subseteq U
      OBVIOUS
    <3> HIDE DEF U
    <3>2. declared \in Seq(U) /\ s \in Seq(U)
      BY <2>4, <3>1, SeqMonotonic
    <3> QED
      BY <3>2
  <2>6. PICK U : declared \in Seq(U) /\ s \in Seq(U)
    BY <2>5
  <2>7. declared \o s \in Seq(U)
    BY <2>6
  <2>8. IsLeaf(Strings(declared \o s))
    BY <2>7, StringsLeaf
  <2> QED
    BY <2>1, <2>8
<1>2. HasPaths(Leaf(a, leaf)) /\ HasLeaves(Leaf(a, leaf)) /\ DOMAIN Leaf(a, leaf) = {a}
  BY <1>1, GoodLeaf DEF Leaf
<1>3. GoodDoc(Override(d, Leaf(a, leaf)))
  BY <1>2, GoodOverride
<1>4. ASSUME NEW tops, a[1] \notin tops
      PROVE  Same(d, Override(d, Leaf(a, leaf)), tops)
  <2>1. \A q \in DOMAIN Leaf(a, leaf) : IsPath(q) /\ q # << >> /\ ~InTops(q, tops)
    BY <1>2, <1>4 DEF InTops
  <2> QED
    BY <2>1, OverrideElsewhere DEF GoodDoc
<1> QED
  BY <1>1, <1>3, <1>4

LEMMA KeysElsewhere ==
    ASSUME NEW d, GoodDoc(d), NEW own, NEW declared, HasLeaves(declared),
           \A q \in DOMAIN declared : InTops(q, own),
           MergeObject(d, declared) # Refused
    PROVE  /\ GoodDoc(MergeObject(d, declared))
           /\ \A tops : own \cap tops = {} => Same(d, MergeObject(d, declared), tops)
<1> DEFINE open == Open(d, declared)
           w == Written(d, declared)
<1>1. MergeObject(d, declared) = Override(open, w)
  BY MergeObjectIs DEF MergeObject
<1>2. GoodDoc(open)
  BY GoodOnly DEF Open
<1>3. /\ \A q \in DOMAIN w : q \in DOMAIN declared /\ w[q] = declared[q]
  BY WrittenIs
<1>4. ASSUME NEW p \in DOMAIN d, IsReplaced(p, declared)
      PROVE  IsPath(p) /\ p # << >> /\ p[1] \in own
  <2>1. PICK o \in OpaqueTables : Has(declared, o) /\ IsPrefix(o, p)
    BY <1>4 DEF IsReplaced, Replaced
  <2>2. PICK q \in DOMAIN declared : IsPrefix(o, q)
    BY <2>1 DEF Has, Under
  <2>3. IsPath(o) /\ Len(o) = 2 /\ o # << >>
    BY TwoPath DEF OpaqueTables
  <2>4. IsPath(p)
    BY DEF GoodDoc, HasPaths
  <2>5. IsPath(q) /\ q # << >> /\ q[1] \in own
    BY DEF InTops
  <2>6. \A x : IsPath(x) /\ IsPrefix(o, x) => x # << >> /\ x[1] = o[1]
    <3> SUFFICES ASSUME NEW x, IsPath(x), IsPrefix(o, x) PROVE x # << >> /\ x[1] = o[1]
      OBVIOUS
    <3>1. Len(o) <= Len(x) /\ \A i \in 1..Len(o) : o[i] = x[i]
      BY <2>3, PrefixAt
    <3>2. x # << >>
      BY <2>3, <3>1, NoPath
    <3> QED
      BY <2>3, <3>1, <3>2
  <2> QED
    BY <2>1, <2>2, <2>4, <2>5, <2>6
<1>5. HasPaths(w) /\ HasLeaves(w)
  BY <1>3 DEF HasPaths, HasLeaves, InTops
<1>6. ASSUME NEW tops, own \cap tops = {}
      PROVE  Same(d, Override(open, w), tops)
  <2>1. Same(d, open, tops)
    <3> DEFINE paths == {p \in DOMAIN d : ~IsReplaced(p, declared)}
    <3>1. \A p \in DOMAIN d \ paths : ~InTops(p, tops)
      BY <1>4, <1>6 DEF InTops
    <3>2. open = Only(d, paths)
      BY DEF Open
    <3> HIDE DEF open, paths
    <3> QED
      BY <3>1, <3>2, OnlyElsewhere DEF GoodDoc
  <2> HIDE DEF open, w
  <2>2. \A q \in DOMAIN w : IsPath(q) /\ q # << >> /\ ~InTops(q, tops)
    BY <1>3, <1>6 DEF InTops
  <2>3. Same(open, Override(open, w), tops)
    BY <1>2, <2>2, OverrideElsewhere DEF GoodDoc
  <2> QED
    BY <2>1, <2>3, SameTrans
<1> HIDE DEF open, w
<1> QED
  BY <1>1, <1>2, <1>5, <1>6, GoodOverride
--------------------------------------------------------------------------------
(* The targets one after the other. *)

LEMMA TargetElsewhere ==
    ASSUME NEW i \in 1..11, NEW t, IsStack(t), NEW d, GoodDoc(d),
           NextDoc(AllTargets[i], t, d) # Refused
    PROVE  /\ GoodDoc(NextDoc(AllTargets[i], t, d))
           /\ \A tops : Tops(AllTargets[i], t) \cap tops = {}
                          => Same(d, NextDoc(AllTargets[i], t, d), tops)
<1> DEFINE target == AllTargets[i]
           e == NextDoc(target, t, d)
<1>1. target \in {"mcp", "skills"} \cup ArrayTargets \cup KeyedTargets
  BY TargetKinds
<1>2. e # Refused
  OBVIOUS
<1> SUFFICES GoodDoc(e) /\ \A tops : Tops(target, t) \cap tops = {} => Same(d, e, tops)
  OBVIOUS
<1> HIDE DEF target
<1> HasLeaves(t) /\ HasPaths(t)
  BY DEF IsStack
<1>3. CASE target = "mcp"
  <2>1. e = MergeMCP(d, DeclaredMCP(t)) /\ Tops(target, t) = {"mcp"}
    BY <1>3 DEF NextDoc, Tops
  <2>2. IsMCP(DeclaredMCP(t)) /\ HasLeaves(DeclaredMCP(t))
    BY DeclaredIsMCP
  <2>3. \A tops : Tops(target, t) \cap tops = {} => "mcp" \notin tops
    BY <2>1
  <2> HIDE DEF e
  <2> QED
    BY <1>2, <2>1, <2>2, <2>3, MCPElsewhere
<1>4. CASE target = "skills"
  <2>1. e = d
    BY <1>4 DEF NextDoc
  <2> QED
    BY <2>1, SameSelf
<1>5. CASE target = "plugins"
  <2> DEFINE declared == DeclaredPlugins(t)
             a == <<"plugin">>
  <2>1. e = MergeArrayAt(d, a, declared, StaleWorktrees) /\ Tops(target, t) = {"plugin"}
    BY <1>5 DEF NextDoc, Tops
  <2>2. IsPath(a) /\ a # << >> /\ a[1] = "plugin"
    BY OnePath
  <2>3. PICK D : declared \in Seq(D)
    BY PluginsDeclared
  <2> HIDE DEF declared, a, e
  <2>4. \A tops : Tops(target, t) \cap tops = {} => a[1] \notin tops
    BY <2>1, <2>2
  <2> QED
    BY <1>2, <2>1, <2>2, <2>3, <2>4, ArrayElsewhere
<1>6. CASE target = "instructions"
  <2> DEFINE declared == DeclaredInstructions(t)
             a == <<"instructions">>
  <2>1. e = MergeArrayAt(d, a, declared, {}) /\ Tops(target, t) = {"instructions"}
    BY <1>6 DEF NextDoc, Tops
  <2>2. IsPath(a) /\ a # << >> /\ a[1] = "instructions"
    BY OnePath
  <2>3. PICK D : declared \in Seq(D)
    BY InstructionsDeclared
  <2> HIDE DEF declared, a, e
  <2>4. \A tops : Tops(target, t) \cap tops = {} => a[1] \notin tops
    BY <2>1, <2>2
  <2> QED
    BY <1>2, <2>1, <2>2, <2>3, <2>4, ArrayElsewhere
<1>7. CASE target = "watcher"
  <2> DEFINE declared == Items(t, <<"watcher", "ignore">>)
             a == <<"watcher", "ignore">>
  <2>1. e = MergeWatcherIgnore(d, declared) /\ Tops(target, t) = {"watcher"}
    BY <1>7 DEF NextDoc, Tops
  <2>2. IsPath(a) /\ a # << >> /\ a[1] = "watcher"
    BY TwoPath
  <2>3. declared \in Seq(Range(declared))
    BY ItemsPath DEF IsPath
  <2>4. e = MergeArrayAt(d, a, declared, {})
    BY <1>2, <2>1 DEF MergeWatcherIgnore
  <2> HIDE DEF declared, a, e
  <2>5. \A tops : Tops(target, t) \cap tops = {} => a[1] \notin tops
    BY <2>1, <2>2
  <2> QED
    BY <1>2, <2>2, <2>3, <2>4, <2>5, ArrayElsewhere
<1>8. CASE target \in KeyedTargets
  <2> DEFINE declared == Translated(t, Sections[target])
  <2>1. CASE target = "toggles" /\ declared = NoDocument
    <3>1. e = d
      BY <1>8, <2>1, KeyedIs
    <3> QED
      BY <3>1, SameSelf
  <2>2. CASE ~(target = "toggles" /\ declared = NoDocument)
    <3>1. e = MergeObject(d, declared)
      BY <1>8, <2>2, KeyedIs
    <3>2. HasLeaves(declared) /\ \A r \in DOMAIN declared : InTops(r, Tops(target, t))
      <4>1. Tops(target, t) = SectionTops(t, Sections[target])
        BY <1>8, KeyedIs
      <4> QED
        BY <1>8, <4>1, TargetKinds, TranslatedTree
    <3> HIDE DEF declared, e
    <3> QED
      BY <1>2, <3>1, <3>2, KeysElsewhere
  <2> QED
    BY <2>1, <2>2
<1> QED
  BY <1>1, <1>3, <1>4, <1>5, <1>6, <1>7, <1>8 DEF ArrayTargets

\* The one section that a target has, unless it is skills or toggles.
TopOf(target) ==
    CASE target = "mcp" -> "mcp"
      [] target = "plugins" -> "plugin"
      [] target = "instructions" -> "instructions"
      [] target = "watcher" -> "watcher"
      [] target = "providers" -> "provider"
      [] target = "permissions" -> "permission"
      [] target = "lsp" -> "lsp"
      [] target = "commands" -> "command"
      [] target = "formatters" -> "formatter"

LEMMA TopsAre ==
    ASSUME NEW t
    PROVE  /\ \A i \in 1..11 : AllTargets[i] \notin {"skills", "toggles"}
                => Tops(AllTargets[i], t) = {TopOf(AllTargets[i])} /\ TopOf(AllTargets[i]) \in TargetKeys
           /\ Tops("skills", t) = {}
           /\ Tops("toggles", t) = Keys(t, <<"opencode">>)
<1> DEFINE plain == {"mcp", "plugins", "instructions", "watcher"}
           named == {"providers", "permissions", "lsp", "commands", "formatters"}
<1>1. \A i \in 1..11 : AllTargets[i] \in plain \cup named \cup {"skills", "toggles"}
  BY TargetKinds DEF ArrayTargets
<1>2. \A target \in plain : Tops(target, t) = {TopOf(target)} /\ TopOf(target) \in TargetKeys
  BY DEF Tops, TopOf, TargetKeys
<1>3. ASSUME NEW target \in named
      PROVE  Tops(target, t) = {TopOf(target)} /\ TopOf(target) \in TargetKeys
  <2>1. Tops(target, t) = {JSONName(target)}
    <3>1. Tops(target, t) = SectionTops(t, Sections[target]) /\ Sections[target] = target
      BY KeyedIs, TargetKinds
    <3>2. target # "opencode"
      OBVIOUS
    <3> QED
      BY <3>1, <3>2 DEF SectionTops
  <2>2. JSONName(target) = TopOf(target) /\ TopOf(target) \in TargetKeys
    BY DEF JSONName, TopOf, TargetKeys
  <2> QED
    BY <2>1, <2>2
<1>4. Tops("skills", t) = {}
  BY DEF Tops
<1>5. Tops("toggles", t) = Keys(t, <<"opencode">>)
  <2>1. Tops("toggles", t) = SectionTops(t, "opencode")
    BY KeyedIs, TargetKinds
  <2> QED
    BY <2>1 DEF SectionTops
<1> QED
  BY <1>1, <1>2, <1>3, <1>4, <1>5

LEMMA TopsApart ==
    ASSUME NEW t, OwnKeys(t), NEW i \in 1..11, NEW j \in 1..11, i # j
    PROVE  Tops(AllTargets[i], t) \cap Tops(AllTargets[j], t) = {}
<1>1. AllTargets[i] # AllTargets[j]
  BY DEF AllTargets
<1> DEFINE a == AllTargets[i]
           b == AllTargets[j]
<1>2. /\ a \notin {"skills", "toggles"} => Tops(a, t) = {TopOf(a)} /\ TopOf(a) \in TargetKeys
      /\ b \notin {"skills", "toggles"} => Tops(b, t) = {TopOf(b)} /\ TopOf(b) \in TargetKeys
      /\ Tops("skills", t) = {} /\ Tops("toggles", t) \cap TargetKeys = {}
  BY TopsAre DEF OwnKeys
<1>3. a \notin {"skills", "toggles"} /\ b \notin {"skills", "toggles"} => TopOf(a) # TopOf(b)
  <2>1. /\ a \in {"mcp", "skills"} \cup ArrayTargets \cup KeyedTargets
        /\ b \in {"mcp", "skills"} \cup ArrayTargets \cup KeyedTargets
    BY TargetKinds
  <2>2. a # b
    BY <1>1
  <2> HIDE DEF a, b
  <2> QED
    BY <2>1, <2>2, TargetKinds DEF ArrayTargets, TopOf
<1>4. a # b
  BY <1>1
<1> HIDE DEF a, b
<1>5. Tops(a, t) \cap Tops(b, t) = {}
  BY <1>2, <1>3, <1>4
<1> QED
  BY <1>5 DEF a, b

\* A target leaves the others settled.
LEMMA OthersStay ==
    ASSUME NEW t, IsStack(t), OwnKeys(t), NEW d, GoodDoc(d),
           NEW i \in 1..11, NextDoc(AllTargets[i], t, d) # Refused,
           NEW j \in 1..11, Settled(AllTargets[j], t, d)
    PROVE  Settled(AllTargets[j], t, NextDoc(AllTargets[i], t, d))
<1>1. CASE i = j
  BY <1>1, SettledBecomes
<1>2. CASE i # j
  <2> DEFINE e == NextDoc(AllTargets[i], t, d)
  <2>1. GoodDoc(e) /\ Same(d, e, Tops(AllTargets[j], t))
    BY <1>2, TopsApart, TargetElsewhere
  <2> HIDE DEF e
  <2>2. Settled(AllTargets[j], t, e)
    BY <2>1, SettledInSame
  <2> QED
    BY <2>2 DEF e
<1> QED
  BY <1>1, <1>2
--------------------------------------------------------------------------------
\* The targets before i have nothing to do.
SettledBefore(i, t, d) == \A j \in 1..(i - 1) : Settled(AllTargets[j], t, d)

LEMMA NextSettled ==
    ASSUME NEW t, IsStack(t), OwnKeys(t), NEW d, GoodDoc(d),
           NEW i \in 1..11, NextDoc(AllTargets[i], t, d) # Refused, SettledBefore(i, t, d)
    PROVE  SettledBefore(i + 1, t, NextDoc(AllTargets[i], t, d))
<1> SUFFICES ASSUME NEW j \in 1..i
             PROVE  Settled(AllTargets[j], t, NextDoc(AllTargets[i], t, d))
  BY DEF SettledBefore
<1>1. CASE j = i
  BY <1>1, SettledBecomes
<1>2. CASE j # i
  <2>1. j \in 1..(i - 1) /\ j \in 1..11
    BY <1>2
  <2> QED
    BY <2>1, OthersStay DEF SettledBefore
<1> QED
  BY <1>1, <1>2

LEMMA ComposedSame ==
    ASSUME NEW t, NEW d, IsFcn(d), d # Refused, NEW i \in 1..12, SettledBefore(i, t, d)
    PROVE  \A k \in 1..i : Composed(t, d, Before(k)) = d
<1> DEFINE N == {n \in Nat : n + 1 <= i => Composed(t, d, Before(n + 1)) = d}
<1>1. 0 \in N
  <2>1. 0 + 1 = 1
    OBVIOUS
  <2> QED
    BY <2>1, ComposedStart
<1>2. ASSUME NEW n \in Nat, n \in N PROVE n + 1 \in N
  <2> SUFFICES ASSUME n + 2 <= i PROVE Composed(t, d, Before(n + 2)) = d
    <3>1. (n + 1) + 1 = n + 2
      OBVIOUS
    <3> QED
      BY <3>1
  <2>1. n + 1 \in 1..11 /\ n + 1 \in 1..(i - 1) /\ (n + 1) + 1 = n + 2 /\ n + 1 <= i
    OBVIOUS
  <2>2. Composed(t, d, Before(n + 1)) = d
    BY <1>2, <2>1
  <2> DEFINE k == n + 1
  <2>3. k \in 1..11 /\ k \in 1..(i - 1) /\ k + 1 = n + 2 /\ Composed(t, d, Before(k)) = d
    BY <2>1, <2>2
  <2> HIDE DEF k
  <2>4. NextDoc(AllTargets[k], t, d) = d
    BY <2>3, SettledStays DEF SettledBefore
  <2>5. Composed(t, d, Before(k + 1)) = d
    BY <2>3, <2>4, ComposedNext DEF StepDoc
  <2> QED
    BY <2>3, <2>5
<1> HIDE DEF N
<1>3. Nat \subseteq N
  BY <1>1, <1>2, NatSetInduction
<1>4. ASSUME NEW k \in 1..i PROVE Composed(t, d, Before(k)) = d
  <2>1. k - 1 \in Nat /\ (k - 1) + 1 = k /\ k <= i
    OBVIOUS
  <2>2. k - 1 \in N
    BY <1>3, <2>1
  <2> QED
    BY <2>1, <2>2 DEF N
<1> QED
  BY <1>4

\* Where every target is settled a whole apply makes nothing new.
LEMMA AllSettled ==
    ASSUME NEW t, NEW d, IsFcn(d), d # Refused, SettledBefore(12, t, d)
    PROVE  Composed(t, d, AllTargets) = d
<1>1. 12 \in 1..12 /\ 1 \in 1..11
  OBVIOUS
<1>2. Composed(t, d, Before(12)) = d
  BY <1>1, ComposedSame
<1> QED
  BY <1>1, <1>2, ComposedNext

\* One target on, the whole apply makes the same document.
LEMMA ComposedOn ==
    ASSUME NEW t, IsStack(t), OwnKeys(t), NEW d, GoodDoc(d), d # Refused, NEW i \in 1..11,
           NextDoc(AllTargets[i], t, d) # Refused, SettledBefore(i, t, d)
    PROVE  Composed(t, NextDoc(AllTargets[i], t, d), AllTargets) = Composed(t, d, AllTargets)
<1> DEFINE e == NextDoc(AllTargets[i], t, d)
<1>1. IsFcn(d) /\ IsFcn(e)
  BY NextIsFcn DEF GoodDoc
<1>2. e # Refused /\ SettledBefore(i + 1, t, e) /\ i + 1 \in 1..12 /\ i \in 1..12
  BY NextSettled
<1> HIDE DEF e
<1>3. Composed(t, e, Before(i + 1)) = e
  BY <1>1, <1>2, ComposedSame
<1>4. Composed(t, d, Before(i)) = d
  BY <1>1, <1>2, ComposedSame
<1>5. Composed(t, d, Before(i + 1)) = e
  BY <1>4, ComposedNext DEF StepDoc, e
<1> DEFINE N == {n \in Nat : i + 1 + n <= 12 =>
                   Composed(t, d, Before(i + 1 + n)) = Composed(t, e, Before(i + 1 + n))}
<1>6. 0 \in N
  <2>1. i + 1 + 0 = i + 1
    OBVIOUS
  <2> QED
    BY <2>1, <1>3, <1>5
<1>7. ASSUME NEW n \in Nat, n \in N PROVE n + 1 \in N
  <2> DEFINE k == i + 1 + n
  <2>1. i + 1 + (n + 1) = k + 1
    OBVIOUS
  <2> SUFFICES ASSUME k + 1 <= 12
               PROVE  Composed(t, d, Before(k + 1)) = Composed(t, e, Before(k + 1))
    BY <2>1
  <2>2. k \in 1..11 /\ k <= 12
    OBVIOUS
  <2>3. Composed(t, d, Before(k)) = Composed(t, e, Before(k))
    BY <1>7, <2>2
  <2> HIDE DEF k
  <2> QED
    BY <2>2, <2>3, ComposedNext
<1> HIDE DEF N
<1>8. Nat \subseteq N
  BY <1>6, <1>7, NatSetInduction
<1>9. 11 - i \in Nat /\ i + 1 + (11 - i) = 12
  OBVIOUS
<1>10. Composed(t, d, Before(12)) = Composed(t, e, Before(12))
  <2>1. 11 - i \in N
    BY <1>8, <1>9
  <2> QED
    BY <1>9, <2>1 DEF N
<1> QED
  BY <1>10, ComposedNext DEF e
================================================================================
