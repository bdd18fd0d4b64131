--------------------------- MODULE ConvergenceProofs ---------------------------
(***************************************************************************)
(* What holds of every history of applies, crashes and edits: the stack    *)
(* that is loaded is a tree, an apply that is repeated or resumed comes to *)
(* the plan it would have come to, Vision's registry serves the endpoints  *)
(* that opencode.json names, and what the user wrote is kept.              *)
(***************************************************************************)
EXTENDS SettledProofs
--------------------------------------------------------------------------------
(* A stack that is loaded is a tree. *)

LEMMA KeyHas ==
    ASSUME NEW t, HasPaths(t), NEW p, IsPath(p), NEW k \in Keys(t, p)
    PROVE  IsPath(p \o <<k>>) /\ Has(t, p \o <<k>>)
<1> DEFINE r == p \o <<k>>
<1>1. PICK q \in Under(t, p) : Len(q) > Len(p) /\ k = q[Len(p) + 1]
  BY DEF Keys
<1>2. q \in DOMAIN t /\ IsPath(q) /\ IsPrefix(p, q)
  BY DEF Under, HasPaths
<1>3. /\ IsPath(r) /\ Len(r) = Len(p) + 1
      /\ \A i \in 1..Len(p) : r[i] = p[i]
      /\ r[Len(p) + 1] = k
  BY AddPath
<1>4. Len(p) \in Nat /\ Len(q) \in Nat
  BY <1>2, PathLen
<1> HIDE DEF r
<1>5. \A i \in 1..Len(p) : p[i] = q[i]
  BY <1>2, PrefixAt
<1>6. Len(r) <= Len(q)
  BY <1>1, <1>3, <1>4
<1>7. ASSUME NEW i \in 1..Len(r) PROVE r[i] = q[i]
  <2>1. i \in 1..Len(p) \/ i = Len(p) + 1
    BY <1>3, <1>4
  <2> QED
    BY <1>1, <1>3, <1>5, <2>1
<1>8. IsPrefix(r, q)
  BY <1>2, <1>3, <1>6, <1>7, PrefixAt
<1> QED
  BY <1>2, <1>3, <1>8 DEF Has, Under, r

LEMMA EmptyConcat == \A k : << >> \o <<k>> = <<k>>
<1> SUFFICES ASSUME NEW k PROVE << >> \o <<k>> = <<k>>
  OBVIOUS
<1> DEFINE one == <<k>>
<1>1. one \in Seq({k})
  OBVIOUS
<1> HIDE DEF one
<1>2. << >> \o one = one
  BY <1>1
<1> QED
  BY <1>2 DEF one

\* The tables of a document are above keys that it has.
LEMMA TablesBelow ==
    ASSUME NEW t, HasPaths(t), NEW x \in TablesOf(t)
    PROVE  IsPath(x[1]) /\ Has(t, x[1])
<1>1. ASSUME NEW p, IsPath(p), NEW as, x \in EachOf(t, p, as)
      PROVE  IsPath(x[1]) /\ Has(t, x[1])
  <2>1. PICK k \in Tables(t, p) : x = <<p \o <<k>>, as>>
    BY <1>1 DEF EachOf
  <2>2. k \in Keys(t, p) /\ x[1] = p \o <<k>>
    BY <2>1 DEF Tables
  <2> QED
    BY <1>1, <2>2, KeyHas
<1>2. ASSUME NEW p, IsPath(p), NEW names, NEW as, x \in Within(t, p, names, as)
      PROVE  IsPath(x[1]) /\ Has(t, x[1])
  <2>1. PICK k \in names \cap Keys(t, p) : x = <<p \o <<k>>, as>>
    BY <1>2 DEF Within
  <2>2. k \in Keys(t, p) /\ x[1] = p \o <<k>>
    BY <2>1
  <2> QED
    BY <1>2, <2>2, KeyHas
<1>3. CASE x \in {<<<<s>>, Single[s]>> : s \in DOMAIN Single \cap Keys(t, << >>)}
  <2>1. PICK s \in Keys(t, << >>) : x = <<<<s>>, Single[s]>>
    BY <1>3
  <2>2. IsPath(<< >> \o <<s>>) /\ Has(t, << >> \o <<s>>)
    BY NoPath, KeyHas
  <2>3. x[1] = << >> \o <<s>>
    BY <2>1, EmptyConcat
  <2> QED
    BY <2>2, <2>3
<1>4. CASE x \in UNION {EachOf(t, <<s>>, Named[s]) : s \in DOMAIN Named}
  <2>1. PICK s \in DOMAIN Named : x \in EachOf(t, <<s>>, Named[s])
    BY <1>4
  <2>2. IsPath(<<s>>)
    BY OnePath
  <2> QED
    BY <1>1, <2>1, <2>2
<1>5. CASE \/ x \in EachOf(t, <<"mcp", "servers">>, Server)
           \/ x \in EachOf(t, <<"mcp", "slot_groups">>, SlotGroup)
           \/ x \in EachOf(t, <<"mcp", "tool_suites">>, ToolSuite)
  <2>1. /\ IsPath(<<"mcp", "servers">>) /\ IsPath(<<"mcp", "slot_groups">>)
        /\ IsPath(<<"mcp", "tool_suites">>)
    BY TwoPath
  <2> QED
    BY <1>1, <1>5, <2>1
<1>6. CASE x \in {<<<<"mcp", "slot_groups", g, "defaults">>, Server>> :
                    g \in {g \in Tables(t, <<"mcp", "slot_groups">>) :
                             Has(t, <<"mcp", "slot_groups", g, "defaults">>)}}
  <2>1. PICK g : /\ x = <<<<"mcp", "slot_groups", g, "defaults">>, Server>>
                 /\ Has(t, <<"mcp", "slot_groups", g, "defaults">>)
    BY <1>6
  <2>2. IsPath(<<"mcp", "slot_groups", g, "defaults">>)
    BY FourPath
  <2>3. x[1] = <<"mcp", "slot_groups", g, "defaults">>
    BY <2>1
  <2> QED
    BY <2>1, <2>2, <2>3
<1>7. CASE x \in UNION {EachOf(t, <<"providers", p, "models">>, ProviderModel) :
                          p \in Tables(t, <<"providers">>)}
  <2>1. PICK p : x \in EachOf(t, <<"providers", p, "models">>, ProviderModel)
    BY <1>7
  <2>2. IsPath(<<"providers", p, "models">>)
    BY ThreePath
  <2> QED
    BY <1>1, <2>1, <2>2
<1>8. CASE \/ x \in Within(t, <<"opencode">>, {"disabled_providers", "enabled_providers"}, ProviderList)
           \/ x \in Within(t, <<"opencode">>, {"compaction"}, Compaction)
           \/ x \in Within(t, <<"session">>, {"watchdog"}, Watchdog)
  <2>1. IsPath(<<"opencode">>) /\ IsPath(<<"session">>)
    BY OnePath
  <2> QED
    BY <1>2, <1>8, <2>1
<1> QED
  BY <1>3, <1>4, <1>5, <1>6, <1>7, <1>8 DEF TablesOf

LEMMA PathOfSeq ==
    ASSUME NEW S, NEW e \in Seq(S) PROVE IsPath(e)
<1>1. Len(e) \in Nat /\ DOMAIN e = 1..Len(e)
  OBVIOUS
<1>2. e = [i \in 1..Len(e) |-> e[i]]
  OBVIOUS
<1>3. e \in [1..Len(e) -> Range(e)]
  BY <1>1, <1>2 DEF Range
<1>4. e \in Seq(Range(e))
  BY <1>1, <1>3
<1> QED
  BY <1>4 DEF IsPath

LEMMA StringsOnlyLeaf ==
    ASSUME NEW leaf, IsLeaf(leaf)
    PROVE  IsLeaf(OnlyStrings(leaf)) /\ (leaf[1] # "array" => OnlyStrings(leaf) = leaf)
<1>1. CASE leaf[1] # "array"
  BY <1>1 DEF OnlyStrings
<1>2. CASE leaf[1] = "array"
  <2> DEFINE S == {x \in Range(leaf[2]) : x[1] = "string"}
             e == Selected(leaf[2], S)
  <2>1. OnlyStrings(leaf) = <<"array", e>>
    BY <1>2 DEF OnlyStrings, Arr
  <2>2. e \in Seq(Range(leaf[2]))
    BY <1>2, SelectedType DEF IsLeaf
  <2> HIDE DEF e
  <2>3. IsPath(e)
    BY <2>2, PathOfSeq
  <2>4. "array" # "table"
    OBVIOUS
  <2> QED
    BY <1>2, <2>1, <2>3, <2>4 DEF IsLeaf, IsPath
<1> QED
  BY <1>1, <1>2

\* What is parsed of a document: keys that it has, and tables that nothing is
\* kept of.
GoneTables(t, kept) ==
    {p \in {x[1] : x \in TablesOf(t)} \cup {<<s>> : s \in DOMAIN Named \cap Keys(t, << >>)} :
       ~ \E q \in kept : IsPrefix(p, q)}
EmptyTables(t, kept) ==
    {p \in GoneTables(t, kept) : ~ \E q \in GoneTables(t, kept) : IsStrictPrefix(p, q)}

\* A key of t is kept, and one is not.
Keeps(t, p) ==
    /\ ~PassedOver(t, p)
    /\ \A x \in {x \in TablesOf(t) : IsStrictPrefix(x[1], p)} :
         LET k == p[Len(x[1]) + 1] IN
         /\ Takes(x[2], k)
         /\ k \in DOMAIN x[2].lenient => Fits(t, x[1] \o <<k>>, x[2].lenient[k])

\* The keys that decoding keeps.
Kept(t) == {p \in DOMAIN t : Keeps(t, p)}

LEMMA ParsedIs ==
    ASSUME NEW t
    PROVE  /\ DOMAIN Parsed(t) = Kept(t) \cup EmptyTables(t, Kept(t))
           /\ IsFcn(Parsed(t))
           /\ \A p \in Kept(t) : Parsed(t)[p] \in {t[p], OnlyStrings(t[p])}
           /\ \A p \in EmptyTables(t, Kept(t)) \ Kept(t) : Parsed(t)[p] = EmptyTable
           /\ \A p \in Kept(t) :
                (~ \E x \in {x \in TablesOf(t) : IsStrictPrefix(x[1], p)} :
                      p[Len(x[1]) + 1] \in DOMAIN x[2].lenient)
                  => Parsed(t)[p] = t[p]
<1> DEFINE tables == TablesOf(t)
           In(p) == {x \in tables : IsStrictPrefix(x[1], p)}
           Field(x, p) == p[Len(x[1]) + 1]
           kept == {p \in DOMAIN t :
                   /\ ~PassedOver(t, p)
                   /\ \A x \in In(p) :
                        LET k == Field(x, p) IN
                        /\ Takes(x[2], k)
                        /\ k \in DOMAIN x[2].lenient
                             => Fits(t, x[1] \o <<k>>, x[2].lenient[k])}
           empty == EmptyTables(t, kept)
           leaves == [p \in kept |->
                        IF \E x \in In(p) : Field(x, p) \in DOMAIN x[2].lenient
                        THEN OnlyStrings(t[p]) ELSE t[p]]
           tops == [p \in empty |-> EmptyTable]
<1>1. Parsed(t) = leaves ++ tops
  BY DEF Parsed, EmptyTables, GoneTables
<1>2. kept \in SUBSET DOMAIN t
  OBVIOUS
<1>3. \A p \in kept : leaves[p] \in {t[p], OnlyStrings(t[p])}
  OBVIOUS
<1>4. \A p \in kept :
        (~ \E x \in {x \in TablesOf(t) : IsStrictPrefix(x[1], p)} :
              p[Len(x[1]) + 1] \in DOMAIN x[2].lenient) => leaves[p] = t[p]
  OBVIOUS
<1>5. kept = Kept(t)
  BY DEF Kept, Keeps
<1>7. DOMAIN leaves = kept /\ DOMAIN tops = empty /\ \A p \in empty : tops[p] = EmptyTable
  OBVIOUS
<1> HIDE DEF leaves, tops, kept
<1>8. /\ DOMAIN Parsed(t) = kept \cup empty /\ IsFcn(Parsed(t))
      /\ \A p \in kept : Parsed(t)[p] = leaves[p]
      /\ \A p \in empty \ kept : Parsed(t)[p] = EmptyTable
  BY <1>1, <1>7 DEF ++, IsFcn
<1> QED
  BY <1>3, <1>4, <1>5, <1>8

\* The keys of a file that is parsed.
LEMMA TreeIs ==
    ASSUME NEW t, IsTree(t)
    PROVE  HasPaths(t) /\ Flat(t) /\ \A p \in DOMAIN t : p \in Seq(STRING) /\ p \in KeyPaths(t)
<1>1. \A p \in DOMAIN t : p \in Seq(STRING) /\ p \in KeyPaths(t)
                          /\ ~ \E q \in DOMAIN t : IsStrictPrefix(q, p)
  BY DEF IsTree, KeyPaths
<1>2. HasPaths(t)
  BY <1>1, PathOfSeq DEF HasPaths
<1>3. Flat(t)
  BY <1>1 DEF Flat, IsStrictPrefix
<1> QED
  BY <1>1, <1>2, <1>3

LEMMA ParsedStack ==
    ASSUME NEW t, ~ParseFails(t), HasLeaves(t)
    PROVE  IsStack(Parsed(t))
<1>1. HasPaths(t) /\ Flat(t)
  BY TreeIs DEF ParseFails
<1> DEFINE kept == Kept(t)
<1>2. /\ kept \in SUBSET DOMAIN t
      /\ DOMAIN Parsed(t) = kept \cup EmptyTables(t, kept)
      /\ IsFcn(Parsed(t))
      /\ \A p \in kept : Parsed(t)[p] \in {t[p], OnlyStrings(t[p])}
      /\ \A p \in EmptyTables(t, kept) \ kept : Parsed(t)[p] = EmptyTable
  BY ParsedIs DEF Kept
<1> HIDE DEF kept
<1> kept \in SUBSET DOMAIN t
  BY <1>2
<1> DEFINE P == Parsed(t)
           E == EmptyTables(t, kept)
<1>3. \A p \in kept : IsPath(p) /\ IsLeaf(t[p])
  BY <1>1 DEF HasPaths, HasLeaves
<1>4. ASSUME NEW p \in E
      PROVE  /\ IsPath(p) /\ Has(t, p)
             /\ \A q \in kept : ~IsPrefix(p, q)
             /\ \A q \in E : IsPrefix(p, q) => p = q
  <2>1. p \in GoneTables(t, kept) /\ ~ \E q \in GoneTables(t, kept) : IsStrictPrefix(p, q)
    BY DEF EmptyTables
  <2>2. \A q \in E : q \in GoneTables(t, kept)
    BY DEF EmptyTables
  <2>3. IsPath(p) /\ Has(t, p)
    <3>1. CASE \E x \in TablesOf(t) : p = x[1]
      BY <1>1, <3>1, TablesBelow
    <3>2. CASE \E s \in DOMAIN Named \cap Keys(t, << >>) : p = <<s>>
      <4>1. PICK s \in Keys(t, << >>) : p = <<s>>
        BY <3>2
      <4>2. IsPath(<< >> \o <<s>>) /\ Has(t, << >> \o <<s>>)
        BY <1>1, NoPath, KeyHas
      <4> QED
        BY <4>1, <4>2, EmptyConcat
    <3> QED
      BY <2>1, <3>1, <3>2 DEF GoneTables
  <2>4. \A q \in kept : ~IsPrefix(p, q)
    BY <2>1 DEF GoneTables
  <2> QED
    BY <2>1, <2>2, <2>3, <2>4 DEF IsStrictPrefix
<1> HIDE DEF E
<1>5. HasPaths(P)
  BY <1>2, <1>3, <1>4 DEF HasPaths, E
<1>6. HasLeaves(P)
  <2> SUFFICES ASSUME NEW p \in DOMAIN P PROVE IsLeaf(P[p])
    BY DEF HasLeaves
  <2>1. CASE p \in kept
    <3>1. P[p] \in {t[p], OnlyStrings(t[p])} /\ IsLeaf(t[p])
      BY <1>2, <1>3, <2>1
    <3> HIDE DEF P
    <3> QED
      BY <3>1, StringsOnlyLeaf
  <2>2. CASE p \notin kept
    BY <1>2, <2>2, TableLeaf
  <2> QED
    BY <2>1, <2>2
<1>7. Flat(P)
  <2> SUFFICES ASSUME NEW p \in DOMAIN P, NEW q \in DOMAIN P, IsPrefix(p, q) PROVE p = q
    BY DEF Flat
  <2>0. (p \in kept \/ p \in E) /\ (q \in kept \/ q \in E)
    BY <1>2 DEF E
  <2>1. CASE p \in kept /\ q \in kept
    BY <1>1, <2>1 DEF Flat
  <2>2. CASE p \in E
    BY <1>4, <2>0, <2>2
  <2>3. CASE p \in kept /\ q \in E
    <3>1. PICK r \in DOMAIN t : IsPrefix(q, r)
      BY <1>4, <2>3 DEF Has, Under
    <3>2. IsPath(p) /\ IsPath(q) /\ IsPath(r) /\ p \in DOMAIN t
      BY <1>1, <1>3, <1>4, <2>3 DEF HasPaths
    <3>3. IsPrefix(p, r)
      BY <3>1, <3>2, PrefixTrans
    <3>4. p = r
      BY <1>1, <3>2, <3>3 DEF Flat
    <3>5. IsPrefix(q, p) /\ p \in kept
      BY <2>3, <3>1, <3>4
    <3> QED
      BY <1>4, <2>3, <3>5
  <2> QED
    BY <2>0, <2>1, <2>2, <2>3
<1>8. ASSUME <<"opencode">> \in DOMAIN P PROVE P[<<"opencode">>] = EmptyTable
  <2> DEFINE o == <<"opencode">>
  <2>1. CASE o \in kept
    <3>1. o \in DOMAIN t /\ IsLeaf(t[o])
      BY <1>3, <2>1
    <3>2. "opencode" \in Keys(t, << >>)
      <4>1. IsPath(o) /\ Len(o) = 1 /\ o[1] = "opencode"
        BY OnePath
      <4> HIDE DEF o
      <4>2. IsPrefix(<< >>, o)
        <5>1. \A i \in 1..0 : FALSE
          OBVIOUS
        <5> QED
          BY <4>1, <5>1, NoPath, PrefixAt
      <4>3. o \in Under(t, << >>) /\ Len(o) > Len(<< >>) /\ Len(<< >>) + 1 = 1
        BY <3>1, <4>1, <4>2, NoPath DEF Under
      <4> QED
        BY <4>1, <4>3 DEF Keys
    <3>3. <<o, Single["opencode"]>> \in TablesOf(t)
      <4>1. "opencode" \in DOMAIN Single
        BY DEF Single
      <4>2. <<<<"opencode">>, Single["opencode"]>>
              \in {<<<<s>>, Single[s]>> : s \in DOMAIN Single \cap Keys(t, << >>)}
        BY <3>2, <4>1
      <4> QED
        BY <4>2 DEF TablesOf
    <3>4. Kind(t, o) = "table"
      <4>1. ~Undecodable(t, o, Single["opencode"])
        BY <3>3 DEF ParseFails
      <4> QED
        BY <4>1 DEF Undecodable
    <3> HIDE DEF o
    <3>5. t[o][1] = "table"
      BY <3>1, <3>4 DEF Kind
    <3>6. t[o] = EmptyTable /\ "table" # "array"
      BY <3>1, <3>5 DEF IsLeaf
    <3>7. OnlyStrings(t[o]) = t[o]
      BY <3>1, <3>5, <3>6, StringsOnlyLeaf
    <3> QED
      BY <1>2, <2>1, <3>6, <3>7 DEF o
  <2>2. CASE o \notin kept
    BY <1>2, <1>8, <2>2
  <2> QED
    BY <2>1, <2>2
<1> QED
  BY <1>2, <1>5, <1>6, <1>7, <1>8 DEF IsStack
--------------------------------------------------------------------------------
(* Defaults and variables leave a tree. *)

LEMMA ScalarLeaf ==
    ASSUME NEW kind, kind \notin {"array", "table"}, NEW v PROVE IsLeaf(<<kind, v>>)
  BY DEF IsLeaf

LEMMA ScalarLeaves == \A v : IsLeaf(Str(v)) /\ IsLeaf(Num(v)) /\ IsLeaf(Bool(v))
<1>1. \A v : IsLeaf(<<"string", v>>) /\ IsLeaf(<<"int", v>>) /\ IsLeaf(<<"bool", v>>)
  BY ScalarLeaf
<1> QED
  BY <1>1 DEF Str, Num, Bool

\* A function on the indices of a sequence is one.
LEMMA FcnPath ==
    ASSUME NEW s, IsPath(s), NEW u, u = [i \in DOMAIN s |-> u[i]] PROVE IsPath(u)
<1>1. Len(s) \in Nat /\ DOMAIN s = 1..Len(s)
  BY PathLen DEF IsPath
<1>2. u \in [1..Len(s) -> Range(u)]
  BY <1>1 DEF Range
<1>3. u \in Seq(Range(u))
  BY <1>1, <1>2
<1> QED
  BY <1>3 DEF IsPath

LEMMA ArrayLeaf ==
    ASSUME NEW s, IsPath(s) PROVE IsLeaf(Arr(s))
<1>1. "array" # "table"
  OBVIOUS
<1> QED
  BY <1>1 DEF IsLeaf, Arr, IsPath

\* Leaves at given paths.
OnPaths(s, P) == DOMAIN s \subseteq P /\ HasLeaves(s)

LEMMA PlusOn ==
    ASSUME NEW P, NEW f, OnPaths(f, P), NEW g, OnPaths(g, P) PROVE OnPaths(f ++ g, P)
  BY DEF OnPaths, HasLeaves, ++

LEMMA UnionOn ==
    ASSUME NEW P, NEW ts, \A t \in ts : OnPaths(t, P) PROVE OnPaths(Union(ts), P)
<1>1. ASSUME NEW p \in DOMAIN Union(ts)
      PROVE  \E t \in ts : p \in DOMAIN t /\ Union(ts)[p] = t[p]
  BY DEF Union
<1> QED
  BY <1>1 DEF OnPaths, HasLeaves

LEMMA NoneOn == \A P : OnPaths(NoDocument, P)
  BY DEF OnPaths, HasLeaves, NoDocument

LEMMA DefaultOn ==
    ASSUME NEW P, NEW p \in P, NEW leaf, IsLeaf(leaf)
    PROVE  /\ OnPaths(Leaf(p, leaf), P)
           /\ \A t, zero : OnPaths(IfZero(t, p, leaf, zero), P)
           /\ \A t : OnPaths(IfAbsent(t, p, leaf), P)
<1>1. OnPaths(Leaf(p, leaf), P)
  BY DEF OnPaths, HasLeaves, Leaf
<1> QED
  BY <1>1, NoneOn DEF IfZero, IfAbsent

\* Defaults on top of a stack.
FlatPaths(P) == \A p, q \in P : IsPath(p) /\ Len(p) >= 2 /\ (IsPrefix(p, q) => p = q)

LEMMA OverrideStack ==
    ASSUME NEW t, IsStack(t), NEW P, FlatPaths(P), NEW s, OnPaths(s, P)
    PROVE  IsStack(Override(t, s))
<1> DEFINE below == Only(t, {p \in DOMAIN t : \A q \in DOMAIN s : ~Related(p, q)})
           o == Override(t, s)
           one == <<"opencode">>
<1>1. o = [p \in DOMAIN s \cup DOMAIN below |-> IF p \in DOMAIN s THEN s[p] ELSE below[p]]
  BY DEF Override, ++
<1>2. \A p : p \in DOMAIN below <=> p \in DOMAIN t /\ \A q \in DOMAIN s : ~Related(p, q)
  BY DEF Only
<1>3. \A p \in DOMAIN below : below[p] = t[p]
  BY DEF Only
<1> HIDE DEF below
<1>4. \A p \in DOMAIN s : IsPath(p) /\ Len(p) >= 2 /\ p \in P
  BY DEF OnPaths, FlatPaths
<1>5. \A p \in DOMAIN o : IF p \in DOMAIN s THEN o[p] = s[p] ELSE p \in DOMAIN below /\ o[p] = t[p]
  BY <1>1, <1>3
<1>6. IsFcn(o)
  BY <1>1 DEF IsFcn
<1> HIDE DEF o
<1>7. HasPaths(o)
  BY <1>2, <1>4, <1>5 DEF HasPaths, IsStack
<1>8. HasLeaves(o)
  BY <1>2, <1>5 DEF HasLeaves, IsStack, OnPaths
<1>9. Flat(o)
  <2> SUFFICES ASSUME NEW p \in DOMAIN o, NEW q \in DOMAIN o, IsPrefix(p, q) PROVE p = q
    BY DEF Flat
  <2>1. CASE p \in DOMAIN s /\ q \in DOMAIN s
    BY <1>4, <2>1 DEF FlatPaths
  <2>2. CASE p \notin DOMAIN s /\ q \notin DOMAIN s
    BY <1>2, <1>5, <2>2 DEF IsStack, Flat
  <2>3. CASE p \in DOMAIN s /\ q \notin DOMAIN s
    BY <1>2, <1>5, <2>3 DEF Related
  <2>4. CASE p \notin DOMAIN s /\ q \in DOMAIN s
    BY <1>2, <1>5, <2>4 DEF Related
  <2> QED
    BY <2>1, <2>2, <2>3, <2>4
<1>10. one \in DOMAIN o => o[one] = EmptyTable
  <2>1. one \notin DOMAIN s
    <3>1. Len(one) = 1 /\ ~(1 >= 2)
      BY OnePath
    <3> HIDE DEF one
    <3>2. one \in DOMAIN s => Len(one) >= 2
      BY <1>4, Zenon
    <3> QED
      BY <3>1, <3>2
  <2> QED
    BY <1>2, <1>5, <2>1 DEF IsStack
<1> QED
  BY <1>6, <1>7, <1>8, <1>9, <1>10 DEF IsStack, o
--------------------------------------------------------------------------------
\* The keys that Resolved may fill in.
FilledKeys == {"address", "namespace", "auto_refresh_notice", "default"} \cup DOMAIN Timeouts
FilledPaths == {<<a, b>> : a \in {"temporal", "shell", "update_probe"}, b \in FilledKeys}

LEMMA FilledFlat == FlatPaths(FilledPaths)
<1>1. \A p \in FilledPaths : IsPath(p) /\ Len(p) = 2
  BY TwoPath DEF FilledPaths
<1> QED
  BY <1>1, PrefixOfLength DEF FlatPaths

LEMMA FilledOn ==
    ASSUME NEW t PROVE OnPaths(TemporalDefaults(t) ++ ShellDefaults(t), FilledPaths)
<1>1. /\ <<"temporal", "address">> \in FilledPaths /\ <<"temporal", "namespace">> \in FilledPaths
      /\ <<"shell", "auto_refresh_notice">> \in FilledPaths
      /\ <<"update_probe", "default">> \in FilledPaths
  BY DEF FilledPaths, FilledKeys
<1>2. OnPaths(TemporalDefaults(t), FilledPaths)
  <2> DEFINE f == IfZero(t, <<"temporal", "address">>, Str("127.0.0.1:7233"), "")
             g == IfZero(t, <<"temporal", "namespace">>, Str("default"), "")
  <2>1. OnPaths(f, FilledPaths) /\ OnPaths(g, FilledPaths)
    BY <1>1, ScalarLeaves, DefaultOn
  <2>2. TemporalDefaults(t) = NoDocument \/ TemporalDefaults(t) = f ++ g
    BY DEF TemporalDefaults
  <2> HIDE DEF f, g
  <2> QED
    BY <2>1, <2>2, NoneOn, PlusOn
<1>3. OnPaths(ShellDefaults(t), FilledPaths)
  <2> DEFINE f == IfZero(t, <<"shell", "auto_refresh_notice">>, Str("off"), "")
             g == IfZero(t, <<"update_probe", "default">>, Str("passive"), "")
             h == Union({ProbeDefault(t, k) : k \in DOMAIN Timeouts})
  <2>1. OnPaths(f, FilledPaths) /\ OnPaths(g, FilledPaths)
    BY <1>1, ScalarLeaves, DefaultOn
  <2>2. ASSUME NEW k \in DOMAIN Timeouts PROVE OnPaths(ProbeDefault(t, k), FilledPaths)
    <3> DEFINE a == "update_probe"
    <3>0. a \in {"temporal", "shell", "update_probe"} /\ k \in FilledKeys
      BY DEF FilledKeys
    <3> HIDE DEF a
    <3>1. <<a, k>> \in FilledPaths
      BY <3>0 DEF FilledPaths
    <3> QED
      BY <3>1, ScalarLeaves, DefaultOn DEF ProbeDefault, a
  <2>3. OnPaths(h, FilledPaths)
    BY <2>2, UnionOn
  <2>4. ShellDefaults(t) = (f ++ g) ++ h
    BY DEF ShellDefaults
  <2> HIDE DEF f, g, h
  <2>5. OnPaths(f ++ g, FilledPaths)
    BY <2>1, PlusOn
  <2> QED
    BY <2>3, <2>4, <2>5, PlusOn
<1>4. OnPaths(TemporalDefaults(t) ++ ShellDefaults(t), FilledPaths)
  BY <1>2, <1>3, PlusOn
<1> QED
  BY <1>4

LEMMA FilledStack ==
    ASSUME NEW t, IsStack(t) PROVE IsStack(Filled(t))
  BY FilledOn, FilledFlat, OverrideStack DEF Filled

SessionKeys == {"mode", "reaper", "reaper_threshold", "theme", "boot_splash"}
\* All keys that Resolved writes, for plugins N: it adds none elsewhere.
ResolvedPaths(N) ==
    {<<"session">> \o <<k>> : k \in SessionKeys}
    \cup {<<"session", "watchdog">> \o <<k>> : k \in {"max_bumps", "idle_timeout"}}
    \cup UNION {{<<"plugins", n>> \o <<"path">>, <<"plugins", n>> \o <<"sync">>,
                 <<"plugins", n>> \o <<"instructions">>} : n \in N}

LEMMA ResolvedShape ==
    ASSUME NEW N, NEW p \in ResolvedPaths(N)
    PROVE  /\ IsPath(p)
           /\ \/ Len(p) = 2 /\ p[1] = "session" /\ p[2] # "watchdog"
              \/ Len(p) = 3 /\ p[1] = "session" /\ p[2] = "watchdog"
              \/ Len(p) = 3 /\ p[1] = "plugins"
<1>1. CASE \E k \in SessionKeys : p = <<"session">> \o <<k>>
  <2>1. PICK k \in SessionKeys : p = <<"session">> \o <<k>>
    BY <1>1
  <2>2. p = <<"session", k>> /\ k # "watchdog"
    BY <2>1, PairConcat DEF SessionKeys
  <2> QED
    BY <2>2, TwoPath
<1>2. CASE \E k : p = <<"session", "watchdog">> \o <<k>>
  <2>1. PICK k : p = <<"session", "watchdog">> \o <<k>>
    BY <1>2
  <2>2. p = <<"session", "watchdog", k>>
    BY <2>1, TripleConcat
  <2> QED
    BY <2>2, ThreePath
<1>3. CASE \E n, k : p = <<"plugins", n>> \o <<k>>
  <2>1. PICK n, k : p = <<"plugins", n>> \o <<k>>
    BY <1>3
  <2>2. p = <<"plugins", n, k>>
    BY <2>1, TripleConcat
  <2> QED
    BY <2>2, ThreePath
<1> QED
  BY <1>1, <1>2, <1>3 DEF ResolvedPaths

LEMMA ResolvedFlat ==
    ASSUME NEW N PROVE FlatPaths(ResolvedPaths(N))
<1>1. \A p \in ResolvedPaths(N) :
        /\ IsPath(p)
        /\ \/ Len(p) = 2 /\ p[1] = "session" /\ p[2] # "watchdog"
           \/ Len(p) = 3 /\ p[1] = "session" /\ p[2] = "watchdog"
           \/ Len(p) = 3 /\ p[1] = "plugins"
  BY ResolvedShape
<1>2. ASSUME NEW p \in ResolvedPaths(N), NEW q \in ResolvedPaths(N), IsPrefix(p, q) PROVE p = q
  <2>1. IsPath(p) /\ IsPath(q)
    BY <1>1
  <2>2. Len(p) <= Len(q) /\ \A i \in 1..Len(p) : p[i] = q[i]
    BY <1>2, <2>1, PrefixAt
  <2>3. CASE Len(q) <= Len(p)
    BY <1>2, <2>1, <2>3, PrefixOfLength
  <2>4. CASE ~(Len(q) <= Len(p))
    <3>1. Len(p) = 2 /\ Len(q) = 3
      BY <1>1, <2>4
    <3>2. p[1] = q[1] /\ p[2] = q[2]
      BY <2>2, <3>1
    <3>3. p[1] = "session" /\ p[2] # "watchdog"
      BY <1>1, <3>1
    <3>4. q[1] = "plugins" \/ q[2] = "watchdog"
      BY <1>1, <3>1
    <3> QED
      BY <3>2, <3>3, <3>4
  <2> QED
    BY <2>3, <2>4
<1>3. \A p \in ResolvedPaths(N) : IsPath(p) /\ Len(p) >= 2
  <2> SUFFICES ASSUME NEW p \in ResolvedPaths(N) PROVE IsPath(p) /\ Len(p) >= 2
    OBVIOUS
  <2>1. IsPath(p) /\ (Len(p) = 2 \/ Len(p) = 3)
    BY <1>1
  <2> QED
    BY <2>1
<1> QED
  BY <1>2, <1>3 DEF FlatPaths

LEMMA SessionOn ==
    ASSUME NEW t, NEW N PROVE OnPaths(SessionDefaults(t), ResolvedPaths(N))
<1> DEFINE s == <<"session">>
           w == <<"session", "watchdog">>
           a == IfZero(t, s \o <<"mode">>, Str("project"), "")
           b == IfAbsent(t, s \o <<"reaper">>, Bool(TRUE))
           c == IF ZeroDuration(t, s \o <<"reaper_threshold">>)
                THEN Leaf(s \o <<"reaper_threshold">>, Str("4h")) ELSE NoDocument
           d == IfZero(t, s \o <<"theme">>, Str("obsidian"), "")
           e == IfAbsent(t, s \o <<"boot_splash">>, Bool(TRUE))
           m == IfZero(t, w \o <<"max_bumps">>, Num(3), 0)
           i == IF ZeroDuration(t, w \o <<"idle_timeout">>)
                THEN Leaf(w \o <<"idle_timeout">>, Str("5m")) ELSE NoDocument
           f == IF Has(t, w) THEN m ++ i ELSE NoDocument
           P == ResolvedPaths(N)
<1>1. \A k \in SessionKeys : s \o <<k>> \in P
  BY DEF ResolvedPaths
<1>2. \A k \in {"max_bumps", "idle_timeout"} : w \o <<k>> \in P
  BY DEF ResolvedPaths
<1>3. SessionDefaults(t) = NoDocument \/ SessionDefaults(t) = ((((a ++ b) ++ c) ++ d) ++ e) ++ f
  BY DEF SessionDefaults
<1> HIDE DEF s, w, P
<1>4. OnPaths(a, P) /\ OnPaths(b, P) /\ OnPaths(d, P) /\ OnPaths(e, P)
  BY <1>1, ScalarLeaves, DefaultOn DEF SessionKeys
<1>5. OnPaths(c, P)
  <2>1. OnPaths(Leaf(s \o <<"reaper_threshold">>, Str("4h")), P)
    BY <1>1, ScalarLeaves, DefaultOn DEF SessionKeys
  <2> QED
    BY <2>1, NoneOn
<1>6. OnPaths(m, P)
  BY <1>2, ScalarLeaves, DefaultOn
<1>7. OnPaths(i, P)
  <2>1. OnPaths(Leaf(w \o <<"idle_timeout">>, Str("5m")), P)
    BY <1>2, ScalarLeaves, DefaultOn
  <2> QED
    BY <2>1, NoneOn
<1> HIDE DEF a, b, c, d, e, m, i
<1>8. OnPaths(f, P)
  BY <1>6, <1>7, NoneOn, PlusOn
<1> HIDE DEF f
<1>9. OnPaths(((a ++ b) ++ c) ++ d, P)
  <2>1. OnPaths(a ++ b, P)
    BY <1>4, PlusOn
  <2>2. OnPaths((a ++ b) ++ c, P)
    BY <1>5, <2>1, PlusOn
  <2> QED
    BY <1>4, <2>2, PlusOn
<1>10. OnPaths((((a ++ b) ++ c) ++ d) ++ e, P)
  BY <1>4, <1>9, PlusOn
<1>11. OnPaths(((((a ++ b) ++ c) ++ d) ++ e) ++ f, P)
  BY <1>8, <1>10, PlusOn
<1>12. OnPaths(SessionDefaults(t), P)
  BY <1>3, <1>11, NoneOn
<1> QED
  BY <1>12 DEF P

LEMMA PluginOn ==
    ASSUME NEW t, HasLeaves(t), NEW N, NEW n \in N
    PROVE  OnPaths(ExpandPlugin(t, <<"plugins", n>>), ResolvedPaths(N))
<1> DEFINE p == <<"plugins", n>>
           value == [checkout |-> ExpandAll(Text(t, p \o <<"checkout">>)),
                     subdir |-> Text(t, p \o <<"subdir">>)]
           path == Text(t, p \o <<"path">>)
           sync == Text(t, p \o <<"sync">>)
           files == Items(t, p \o <<"instructions">>)
           R(s) == Str(Cleaned(ReplaceTokens(s, value)))
           u == [i \in DOMAIN files |-> R(files[i])]
           a == Leaf(p \o <<"path">>, R(path))
           b == Leaf(p \o <<"sync">>, Str(ReplaceTokens(sync, value)))
           c == Leaf(p \o <<"instructions">>, Arr(u))
           P == ResolvedPaths(N)
<1>1. /\ p \o <<"path">> \in P /\ p \o <<"sync">> \in P /\ p \o <<"instructions">> \in P
  BY DEF ResolvedPaths
<1>2. IsPath(files)
  BY ItemsPath
<1>3. ExpandPlugin(t, p) = NoDocument \/ ExpandPlugin(t, p) = (a ++ b) ++ c
  BY DEF ExpandPlugin
<1>4. IsLeaf(R(path)) /\ IsLeaf(Str(ReplaceTokens(sync, value)))
  BY ScalarLeaves
<1>5. IsLeaf(Arr(u))
  <2>1. u = [i \in DOMAIN files |-> u[i]]
    OBVIOUS
  <2> HIDE DEF u, files
  <2>2. IsPath(u)
    BY <1>2, <2>1, FcnPath
  <2> QED
    BY <2>2, ArrayLeaf
<1> HIDE DEF p, value, path, sync, files, R, u, P
<1>6. OnPaths(a, P) /\ OnPaths(b, P) /\ OnPaths(c, P)
  BY <1>1, <1>4, <1>5, DefaultOn
<1> HIDE DEF a, b, c
<1>7. OnPaths(a ++ b, P)
  BY <1>6, PlusOn
<1>8. OnPaths((a ++ b) ++ c, P)
  BY <1>6, <1>7, PlusOn
<1>9. OnPaths(ExpandPlugin(t, p), P)
  BY <1>3, <1>8, NoneOn
<1> QED
  BY <1>9 DEF p, P

LEMMA ExpandedLeaf ==
    ASSUME NEW leaf, IsLeaf(leaf) PROVE IsLeaf(ExpandLeaf(leaf))
<1>1. CASE leaf[1] = "string"
  BY <1>1, ScalarLeaves DEF ExpandLeaf
<1>2. CASE leaf[1] = "array"
  <2> DEFINE s == leaf[2]
             u == [i \in DOMAIN s |-> Str(ExpandAll(s[i][2]))]
  <2>1. IsPath(s)
    BY <1>2 DEF IsLeaf, IsPath
  <2>2. u = [i \in DOMAIN s |-> u[i]]
    OBVIOUS
  <2>3. ExpandLeaf(leaf) = Arr(u)
    BY <1>2 DEF ExpandLeaf
  <2> HIDE DEF s, u
  <2>4. IsPath(u)
    BY <2>1, <2>2, FcnPath
  <2> QED
    BY <2>3, <2>4, ArrayLeaf
<1>3. CASE leaf[1] # "string" /\ leaf[1] # "array"
  BY <1>3 DEF ExpandLeaf
<1> QED
  BY <1>1, <1>2, <1>3

LEMMA ExpandedStack ==
    ASSUME NEW t, IsStack(t)
    PROVE  IsStack([p \in DOMAIN t |-> IF Expanded(p) THEN ExpandLeaf(t[p]) ELSE t[p]])
<1> DEFINE e == [p \in DOMAIN t |-> IF Expanded(p) THEN ExpandLeaf(t[p]) ELSE t[p]]
           one == <<"opencode">>
<1>1. DOMAIN e = DOMAIN t /\ IsFcn(e)
  BY DEF IsFcn
<1>2. \A p \in DOMAIN t : e[p] = IF Expanded(p) THEN ExpandLeaf(t[p]) ELSE t[p]
  OBVIOUS
<1> HIDE DEF e
<1>3. HasLeaves(e)
  BY <1>1, <1>2, ExpandedLeaf DEF IsStack, HasLeaves
<1>4. ~Expanded(one)
  <2>1. Len(one) = 1 /\ ~(1 >= 4)
    BY OnePath
  <2> HIDE DEF one
  <2> QED
    BY <2>1 DEF Expanded
<1>5. one \in DOMAIN e => e[one] = EmptyTable
  BY <1>1, <1>2, <1>4 DEF IsStack
<1>6. IsStack(e)
  BY <1>1, <1>3, <1>5 DEF IsStack, HasPaths, Flat
<1> QED
  BY <1>6 DEF e

\* What Resolve expands in place, and what it puts on top.
ExpandedKeys(t) == [p \in DOMAIN t |-> IF Expanded(p) THEN ExpandLeaf(t[p]) ELSE t[p]]
\* What Resolved lays over the keys whose strings are expanded.
OnTop(t) ==
    Union({ExpandPlugin(t, <<"plugins", n>>) : n \in Keys(t, <<"plugins">>)}) ++ SessionDefaults(t)

LEMMA ResolvedOn ==
    ASSUME NEW t, HasLeaves(t)
    PROVE  /\ Resolved(t) = Override(ExpandedKeys(t), OnTop(t))
           /\ OnPaths(OnTop(t), ResolvedPaths(Keys(t, <<"plugins">>)))
<1> DEFINE N == Keys(t, <<"plugins">>)
           ts == {ExpandPlugin(t, <<"plugins", n>>) : n \in N}
           s == Union(ts)
<1>1. Resolved(t) = Override(ExpandedKeys(t), OnTop(t))
  BY DEF Resolved, ExpandedKeys, OnTop
<1>2. OnTop(t) = s ++ SessionDefaults(t)
  BY DEF OnTop
<1> HIDE DEF N
<1>3. OnPaths(s, ResolvedPaths(N))
  <2>1. \A n \in N : OnPaths(ExpandPlugin(t, <<"plugins", n>>), ResolvedPaths(N))
    BY PluginOn
  <2> QED
    BY <2>1, UnionOn
<1> HIDE DEF s
<1>4. OnPaths(s ++ SessionDefaults(t), ResolvedPaths(N))
  BY <1>3, SessionOn, PlusOn
<1> QED
  BY <1>1, <1>2, <1>4 DEF N

LEMMA ResolvedStack ==
    ASSUME NEW t, IsStack(t) PROVE IsStack(Resolved(t))
<1>1. IsStack(ExpandedKeys(t))
  BY ExpandedStack DEF ExpandedKeys
<1>2. HasLeaves(t)
  BY DEF IsStack
<1> QED
  BY <1>1, <1>2, ResolvedOn, ResolvedFlat, OverrideStack

\* The mark of a stack that is not accepted is a stack of no known section.
LEMMA NotLoadedStack == IsStack(NotLoaded)
<1> DEFINE p == <<"rejected">>
<1>1. IsPath(p) /\ p[1] = "rejected" /\ <<"opencode">>[1] = "opencode"
  BY OnePath
<1>2. "rejected" # "opencode"
  OBVIOUS
<1>3. <<"opencode">> # p
  BY <1>1, <1>2
<1>4. NotLoaded = [q \in {p} |-> EmptyTable]
  BY DEF NotLoaded, Leaf
<1> HIDE DEF p
<1>5. DOMAIN NotLoaded = {p} /\ NotLoaded[p] = EmptyTable /\ IsFcn(NotLoaded)
  BY <1>4 DEF IsFcn
<1> QED
  BY <1>1, <1>3, <1>5, TableLeaf DEF IsStack, HasPaths, HasLeaves, Flat

LEMMA LoadedStack ==
    ASSUME NEW raw, HasLeaves(raw) PROVE IsStack(Load(raw))
<1>1. CASE Load(raw) = NotLoaded
  BY <1>1, NotLoadedStack
<1>2. CASE ~ParseFails(raw) /\ Load(raw) = Filled(Resolved(Parsed(raw)))
  <2>1. IsStack(Parsed(raw))
    BY <1>2, ParsedStack
  <2>2. IsStack(Resolved(Parsed(raw)))
    BY <2>1, ResolvedStack
  <2> QED
    BY <1>2, <2>2, FilledStack
<1> QED
  BY <1>1, <1>2 DEF Load
--------------------------------------------------------------------------------
(* What is written to the other files are documents. *)

LEMMA PlusLeaves ==
    ASSUME NEW f, HasLeaves(f), NEW g, HasLeaves(g) PROVE HasLeaves(f ++ g)
  BY DEF HasLeaves, ++

LEMMA UnionLeaves ==
    ASSUME NEW ts, \A t \in ts : HasLeaves(t) PROVE HasLeaves(Union(ts))
<1>1. ASSUME NEW p \in DOMAIN Union(ts)
      PROVE  \E t \in ts : p \in DOMAIN t /\ Union(ts)[p] = t[p]
  BY DEF Union
<1> QED
  BY <1>1 DEF HasLeaves

LEMMA LeafLeaves ==
    ASSUME NEW p, NEW leaf, IsLeaf(leaf) PROVE HasLeaves(Leaf(p, leaf))
  BY DEF HasLeaves, Leaf

LEMMA NoLeaves == HasLeaves(NoDocument)
  BY DEF HasLeaves, NoDocument

LEMMA ServerNodeLeaves ==
    ASSUME NEW t, HasLeaves(t), NEW p PROVE HasLeaves(ServerNode(t, p))
<1> DEFINE Key(q) == q[Len(p) + 1]
           shown == {q \in Under(t, p) \ {p} :
                       /\ Key(q) \in RegistryKeys
                       /\ \/ Len(q) > Len(p) + 1 \/ Key(q) \in {"retry", "circuit_breaker"}
                          \/ t[q] \notin ZeroLeaves}
           type == Text(t, p \o <<"type">>)
           transport == Text(t, p \o <<"transport">>)
           request == Text(t, p \o <<"request_timeout">>)
           timeout == Number(t, p \o <<"timeout">>)
           Sh(k, leaf) == IF leaf \in ZeroLeaves THEN NoDocument ELSE Leaf(p \o <<k>>, leaf)
           f == Only(t, shown)
           x == Str(IF transport # "" \/ type = "daemon" THEN transport ELSE type)
           y == IF request = "" /\ timeout > 0 THEN <<"ms", timeout>> ELSE Str(request)
           g == Sh("transport", x)
           h == Sh("request_timeout", y)
           node == (f ++ g) ++ h
<1>1. HasLeaves(f)
  BY DEF HasLeaves, Only
<1>2. IsLeaf(x)
  BY ScalarLeaves
<1>3. IsLeaf(y)
  <2>1. IsLeaf(<<"ms", timeout>>)
    BY ScalarLeaf
  <2> QED
    BY <2>1, ScalarLeaves
<1>4. ServerNode(t, p) = IF node = NoDocument THEN Leaf(p, EmptyTable) ELSE node
  BY DEF ServerNode
<1> HIDE DEF f, x, y
<1>5. HasLeaves(g) /\ HasLeaves(h)
  BY <1>2, <1>3, LeafLeaves, NoLeaves
<1> HIDE DEF g, h
<1>6. HasLeaves(f ++ g)
  BY <1>1, <1>5, PlusLeaves
<1>7. HasLeaves(node)
  BY <1>5, <1>6, PlusLeaves
<1> HIDE DEF node
<1> QED
  BY <1>4, <1>7, TableLeaf, LeafLeaves

LEMMA GroupNodeLeaves ==
    ASSUME NEW t, HasLeaves(t), NEW g PROVE HasLeaves(GroupNode(t, g))
<1> DEFINE keys == {"base_port", "count", "group_port"}
           a == Leaf(OfGroup(g, "template"), Str(Text(t, OfGroup(g, "template"))))
           b == [q \in {OfGroup(g, k) : k \in keys} |-> Num(Number(t, q))]
           c == IF Has(t, OfGroup(g, "defaults")) THEN ServerNode(t, OfGroup(g, "defaults"))
                ELSE NoDocument
<1>1. GroupNode(t, g) = (a ++ b) ++ c
  BY DEF GroupNode
<1>2. HasLeaves(a)
  BY ScalarLeaves, LeafLeaves
<1>3. HasLeaves(b)
  BY ScalarLeaves DEF HasLeaves
<1>4. HasLeaves(c)
  BY ServerNodeLeaves, NoLeaves
<1> HIDE DEF a, b, c
<1>5. HasLeaves(a ++ b)
  BY <1>2, <1>3, PlusLeaves
<1> QED
  BY <1>1, <1>4, <1>5, PlusLeaves

\* The servers in Vision's registry, and the nodes of the registry.
Served(t) == {n \in ServersOf(t) : ~IsDaemon(t, n)}
VisionNodes(t) ==
    Union({ServerNode(t, <<"mcp", "servers", n>>) : n \in Served(t)}
          \cup {GroupNode(t, g) : g \in GroupsOf(t)})

\* The nodes of Vision's registry, each with the leaf of the key it is named for.
InVision(t, f, g) ==
    /\ VisionServers(t) = f ++ g
    /\ DOMAIN f = {Tail(p) : p \in DOMAIN VisionNodes(t)}
    /\ \A q \in DOMAIN f : \E p \in DOMAIN VisionNodes(t) :
         q = Tail(p) /\ f[q] = VisionNodes(t)[p]
    /\ g \in {NoDocument, Leaf(<<"servers">>, EmptyTable)}

LEMMA VisionIs ==
    ASSUME NEW t
    PROVE  \E f, g : InVision(t, f, g)
<1> DEFINE nodes == VisionNodes(t)
           f == Renamed(nodes, DOMAIN nodes, Tail)
           g == IF Served(t) = {} THEN Leaf(<<"servers">>, EmptyTable) ELSE NoDocument
<1>1. VisionServers(t) = f ++ g
  BY DEF VisionServers, VisionNodes, Served
<1>2. f = [q \in {Tail(p) : p \in DOMAIN nodes} |-> nodes[CHOOSE p \in DOMAIN nodes : Tail(p) = q]]
  BY DEF Renamed
<1> HIDE DEF nodes
<1>3. \A q \in DOMAIN f : \E p \in DOMAIN nodes : q = Tail(p) /\ f[q] = nodes[p]
  BY <1>2
<1>4. DOMAIN f = {Tail(p) : p \in DOMAIN nodes}
  BY <1>2
<1> HIDE DEF f
<1>5. g \in {NoDocument, Leaf(<<"servers">>, EmptyTable)}
  OBVIOUS
<1> HIDE DEF g
<1> QED
  BY <1>1, <1>3, <1>4, <1>5 DEF nodes, InVision

LEMMA VisionLeaves ==
    ASSUME NEW t, HasLeaves(t) PROVE HasLeaves(VisionServers(t))
<1>1. HasLeaves(VisionNodes(t))
  <2> DEFINE ts == {ServerNode(t, <<"mcp", "servers", n>>) : n \in Served(t)}
                   \cup {GroupNode(t, g) : g \in GroupsOf(t)}
  <2>1. \A x \in ts : HasLeaves(x)
    BY ServerNodeLeaves, GroupNodeLeaves
  <2> HIDE DEF ts
  <2>2. HasLeaves(Union(ts))
    BY <2>1, UnionLeaves
  <2> QED
    BY <2>2 DEF VisionNodes, ts
<1>2. PICK f, g : InVision(t, f, g)
  BY VisionIs
<1>3. HasLeaves(f)
  BY <1>1, <1>2 DEF HasLeaves, InVision
<1>4. HasLeaves(g)
  BY <1>2, NoLeaves, TableLeaf, LeafLeaves DEF InVision
<1> QED
  BY <1>2, <1>3, <1>4, PlusLeaves DEF InVision
--------------------------------------------------------------------------------
LEMMA StringsLeaves ==
    ASSUME NEW p, NEW T, NEW u \in Seq(T) PROVE HasLeaves(Leaf(p, Strings(u)))
  BY StringsLeaf, LeafLeaves

LEMMA StringsPath ==
    ASSUME NEW t, HasLeaves(t), NEW p PROVE IsPath(StringsAt(t, p))
<1>1. CASE Kind(t, p) # "array"
  BY <1>1, NoPath DEF StringsAt
<1>2. CASE Kind(t, p) = "array"
  <2>1. p \in DOMAIN t
    BY <1>2 DEF Kind
  <2>2. IsLeaf(OnlyStrings(t[p]))
    BY <2>1, StringsOnlyLeaf DEF HasLeaves
  <2> QED
    BY <1>2, <2>2, LeafLeaves, ItemsPath DEF StringsAt
<1> QED
  BY <1>1, <1>2

LEMMA OrderLeaves ==
    ASSUME NEW s, NEW items, IsPath(items) PROVE HasLeaves(EmitOrder(s, items))
  BY StringsLeaves, NoLeaves DEF EmitOrder, IsPath

LEMMA MigratedServerLeaves ==
    ASSUME NEW d, NEW r, HasLeaves(r), NEW n
    PROVE  \A k \in DOMAIN ReadServer(d, r, n) : IsLeaf(ReadServer(d, r, n)[k])
<1>1. IsLeaf(Arr(<< >>))
  BY NoPath, ArrayLeaf
<1>2. ASSUME NEW a, NEW b, NEW c, NEW e, NEW f, IsLeaf(f), NEW g, NEW h, NEW i, NEW s,
             s = Normalized([type |-> Str(a), url |-> Str(b), port |-> Num(c), command |-> Str(e),
                             args |-> f, autostart |-> Bool(g), source |-> Str(h), timeout |-> Num(i)])
      PROVE  \A k \in DOMAIN s : IsLeaf(s[k])
  <2> DEFINE z == [type |-> Str(a), url |-> Str(b), port |-> Num(c), command |-> Str(e),
                   args |-> f, autostart |-> Bool(g), source |-> Str(h), timeout |-> Num(i)]
  <2>1. \A k \in DOMAIN z : IsLeaf(z[k])
    BY <1>2, ScalarLeaves
  <2>2. \/ s = z \/ s = [z EXCEPT !.url = Str("")]
        \/ s = [z EXCEPT !.command = Str(""), !.args = Arr(<< >>)]
    BY <1>2 DEF Normalized
  <2> HIDE DEF z
  <2> QED
    BY <1>1, <2>1, <2>2, ScalarLeaves
<1> DEFINE q == <<"servers", n>> \o <<"args">>
           x == IF Kind(r, q) = "array" THEN r[q] ELSE Arr(<< >>)
<1>3. IsLeaf(x)
  <2>1. Kind(r, q) = "array" => q \in DOMAIN r
    BY DEF Kind
  <2> QED
    BY <1>1, <2>1 DEF HasLeaves
<1> DEFINE url == StringAt(d, <<"mcp", n>> \o <<"url">>)
           impl == <<"servers", n>>
           port == Number(r, impl \o <<"port">>)
           enabled == Kind(d, <<"mcp", n>> \o <<"enabled">>) = "bool"
                      /\ Value(d, <<"mcp", n>> \o <<"enabled">>, FALSE)
           a == TranslateMCPType(StringAt(d, <<"mcp", n>> \o <<"type">>), url)
           c == IF port # 0 THEN port ELSE PortFromURL(url)
           e == Value(r, impl \o <<"command">>, "")
           g == IF Has(r, impl) THEN Value(r, impl \o <<"autostart">>, FALSE) ELSE enabled
           h == Value(r, impl \o <<"source">>, "")
           i == Value(r, impl \o <<"timeout">>, 0)
           s == ReadServer(d, r, n)
<1>4. s = Normalized([type |-> Str(a), url |-> Str(url), port |-> Num(c), command |-> Str(e),
                      args |-> x, autostart |-> Bool(g), source |-> Str(h), timeout |-> Num(i)])
  BY DEF ReadServer
<1> HIDE DEF a, url, c, e, x, g, h, i, s
<1>5. \A k \in DOMAIN s : IsLeaf(s[k])
  BY <1>2, <1>3, <1>4
<1> QED
  BY <1>5 DEF s

LEMMA MigratedServersLeaves ==
    ASSUME NEW d, NEW r, HasLeaves(r) PROVE HasLeaves(EmitServers(d, r))
<1> DEFINE names == Tables(d, <<"mcp">>) \cup Tables(r, <<"servers">>)
           Shows1(n) == [p \in {OfServer(n, k) : k \in {k \in DOMAIN ReadServer(d, r, n) :
                                                         ~IsZero(ReadServer(d, r, n)[k])}}
                           |-> ReadServer(d, r, n)[p[4]]]
           Emit(n) == IF ~Emittable(ReadServer(d, r, n)) THEN NoDocument ELSE Shows1(n)
           ts == {Emit(n) : n \in names}
<1>1. ASSUME NEW n PROVE HasLeaves(Shows1(n))
  <2> DEFINE s == ReadServer(d, r, n)
  <2>1. \A k \in DOMAIN s : IsLeaf(s[k])
    BY MigratedServerLeaves
  <2>2. \A k : OfServer(n, k)[4] = k
    BY FourPath DEF OfServer
  <2> HIDE DEF s
  <2>3. HasLeaves([p \in {OfServer(n, k) : k \in {k \in DOMAIN s : ~IsZero(s[k])}} |-> s[p[4]]])
    BY <2>1, <2>2 DEF HasLeaves
  <2> QED
    BY <2>3 DEF s
<1>2. EmitServers(d, r) = Union(ts)
  BY DEF EmitServers
<1> HIDE DEF names, Shows1
<1>3. \A x \in ts : HasLeaves(x)
  BY <1>1, NoLeaves
<1> HIDE DEF ts
<1> QED
  BY <1>2, <1>3, UnionLeaves

LEMMA MigratedGroupsLeaves ==
    ASSUME NEW r, HasLeaves(r) PROVE HasLeaves(EmitGroups(r))
<1> DEFINE K(g) == {k \in {"group_port", "template", "base_port", "count"} :
                      /\ <<"slot_groups", g>> \o <<k>> \in DOMAIN r
                      /\ ~IsZero(r[<<"slot_groups", g>> \o <<k>>])}
           F(g) == [q \in {OfGroup(g, k) : k \in K(g)} |-> r[Tail(q)]]
           Emit(g) == IF K(g) = {} THEN Leaf(<<"mcp">> \o <<"slot_groups", g>>, EmptyTable) ELSE F(g)
           ts == {Emit(g) : g \in Tables(r, <<"slot_groups">>)}
<1>1. ASSUME NEW g PROVE HasLeaves(F(g))
  <2>1. ASSUME NEW k \in K(g) PROVE Tail(OfGroup(g, k)) \in DOMAIN r
    <3>1. <<"slot_groups", g, k>> \in DOMAIN r
      BY TripleConcat
    <3>2. Tail(OfGroup(g, k)) = <<"slot_groups", g, k>>
      <4> DEFINE a == OfGroup(g, k)
                 b == <<"slot_groups", g, k>>
      <4>1. IsPath(a) /\ a # << >> /\ Len(a) = 4 /\ a[2] = "slot_groups" /\ a[3] = g /\ a[4] = k
        BY FourPath DEF OfGroup
      <4>2. IsPath(b) /\ Len(b) = 3 /\ b[1] = "slot_groups" /\ b[2] = g /\ b[3] = k
        BY ThreePath
      <4> HIDE DEF a, b
      <4>3. IsPath(Tail(a)) /\ Len(Tail(a)) = 3 /\ \A i \in 1..3 : Tail(a)[i] = a[i + 1]
        BY <4>1, TailPath
      <4>4. Tail(a)[1] = a[2] /\ Tail(a)[2] = a[3] /\ Tail(a)[3] = a[4]
        BY <4>3
      <4>5. \A i \in 1..3 : i = 1 \/ i = 2 \/ i = 3
        OBVIOUS
      <4>6. \A i \in 1..Len(Tail(a)) : Tail(a)[i] = b[i]
        BY <4>1, <4>2, <4>3, <4>4, <4>5
      <4>7. Tail(a) = b
        BY <4>2, <4>3, <4>6, PathEqual
      <4> QED
        BY <4>7 DEF a, b
    <3> QED
      BY <3>1, <3>2
  <2> HIDE DEF K
  <2> QED
    BY <2>1 DEF HasLeaves
<1>2. EmitGroups(r) = Union(ts)
  BY DEF EmitGroups
<1> HIDE DEF K, F
<1>3. \A x \in ts : HasLeaves(x)
  BY <1>1, TableLeaf, LeafLeaves
<1> HIDE DEF ts
<1> QED
  BY <1>2, <1>3, UnionLeaves

LEMMA MigratedPluginLeaves ==
    ASSUME NEW plugin PROVE HasLeaves(EmitPlugin(plugin))
<1> DEFINE S == {k \in {"source", "ref", "checkout"} : plugin[k] # ""}
           f == [p \in {OfPlugin(plugin.name, k) : k \in S} |-> Str(plugin[p[3]])]
<1>1. HasLeaves(f)
  BY ScalarLeaves DEF HasLeaves
<1>2. EmitPlugin(plugin) = IF S = {} THEN Leaf(<<"plugins", plugin.name>>, EmptyTable) ELSE f
  BY DEF EmitPlugin
<1> HIDE DEF S, f
<1> QED
  BY <1>1, <1>2, TableLeaf, LeafLeaves

LEMMA EmittedLeaves ==
    ASSUME NEW d, HasLeaves(d), NEW r, HasLeaves(r) PROVE HasLeaves(EmitTOML(d, r))
<1> DEFINE ps == {EmitPlugin(p) : p \in Range(PluginsRead(d))}
           a == MetaEmitted
           b == EmitServers(d, r)
           c == EmitGroups(r)
           e == Union(ps)
           f == EmitOrder("instructions", StringsAt(d, <<"instructions">>) \o BundledInstructions)
           g == EmitOrder("skills", BundledSkills)
           h == EmitTheme(d)
<1>1. HasLeaves(a)
  BY ScalarLeaves, LeafLeaves DEF MetaEmitted
<1>2. HasLeaves(b) /\ HasLeaves(c)
  BY MigratedServersLeaves, MigratedGroupsLeaves
<1>3. HasLeaves(e)
  <2>1. \A x \in ps : HasLeaves(x)
    BY MigratedPluginLeaves
  <2> HIDE DEF ps
  <2> QED
    BY <2>1, UnionLeaves
<1>4. IsPath(BundledInstructions) /\ IsPath(BundledSkills)
  BY BundleAssumption, PathOfSeq
<1>5. HasLeaves(f)
  <2>1. IsPath(StringsAt(d, <<"instructions">>) \o BundledInstructions)
    BY <1>4, StringsPath, ConcatPath
  <2> QED
    BY <2>1, OrderLeaves
<1>6. HasLeaves(g)
  BY <1>4, OrderLeaves
<1>7. HasLeaves(h)
  BY ScalarLeaves, TableLeaf, NoLeaves, LeafLeaves DEF EmitTheme
<1>8. HasLeaves(NotTOML)
  BY ScalarLeaves, LeafLeaves DEF NotTOML
<1>9. EmitTOML(d, r) = NotTOML \/ EmitTOML(d, r) = Union({a, b, c, e, f, g, h})
  BY DEF EmitTOML
<1> HIDE DEF a, b, c, e, f, g, h
<1>10. \A x \in {a, b, c, e, f, g, h} : HasLeaves(x)
  BY <1>1, <1>2, <1>3, <1>5, <1>6, <1>7
<1>11. HasLeaves(Union({a, b, c, e, f, g, h}))
  BY <1>10, UnionLeaves
<1> QED
  BY <1>8, <1>9, <1>11

LEMMA StarterLeaves == HasLeaves(StarterStack)
<1>1. \A p, v : HasLeaves(Leaf(p, Str(v))) /\ HasLeaves(Leaf(p, Num(v)))
  BY ScalarLeaves, LeafLeaves
<1>2. ASSUME NEW p, NEW a PROVE HasLeaves(Leaf(p, Strings(<<a>>)))
  <2>1. <<a>> \in Seq({a})
    OBVIOUS
  <2> QED
    BY <2>1, StringsLeaves
<1>3. ASSUME NEW p, NEW a, NEW b PROVE HasLeaves(Leaf(p, Strings(<<a, b>>)))
  <2>1. <<a, b>> \in Seq({a, b})
    OBVIOUS
  <2> QED
    BY <2>1, StringsLeaves
<1>4. ASSUME NEW p, NEW a, NEW b, NEW c, NEW e PROVE HasLeaves(Leaf(p, Strings(<<a, b, c, e>>)))
  <2>1. <<a, b, c, e>> \in Seq({a, b, c, e})
    OBVIOUS
  <2> QED
    BY <2>1, StringsLeaves
<1>5. HasLeaves(MetaEmitted)
  BY <1>1 DEF MetaEmitted
<1>6. \A x \in StarterNumbers : HasLeaves(x)
  BY <1>1, SMT DEF StarterNumbers
<1>7. \A x \in StarterTexts : HasLeaves(x)
  <2>1. \A p : HasLeaves(Leaf(p, Bool(TRUE)))
    BY ScalarLeaves, LeafLeaves
  <2>2. \A p, v : HasLeaves(Leaf(p, Str(v)))
    BY <1>1
  <2> QED
    BY <1>2, <1>3, <1>4, <1>5, <2>1, <2>2, Zenon DEF StarterTexts
<1> QED
  BY <1>6, <1>7, UnionLeaves DEF StarterStack
--------------------------------------------------------------------------------
(* The inductive invariant: files and stacks are well formed. *)

\* The files are documents, and the stack is one that was loaded.
FilesInv ==
    /\ blocks \subseteq DOMAIN Blocks
    /\ HasLeaves(migrated) /\ HasLeaves(servers)
    /\ GoodDoc(doc) /\ IsStack(stack)

LEMMA DocumentGood ==
    ASSUME NEW e, IsDocument(e) PROVE GoodDoc(e)
<1>1. \A p \in DOMAIN e : p \in Seq(STRING) /\ IsLeaf(e[p])
  BY DEF IsDocument
<1>2. \A p \in DOMAIN e : IsPath(p)
  BY <1>1, PathOfSeq
<1> QED
  BY <1>1, <1>2 DEF IsDocument, GoodDoc, IsFcn, HasPaths, HasLeaves

LEMMA NoDocumentGood == GoodDoc(NoDocument)
  BY DEF GoodDoc, NoDocument, IsFcn, HasPaths, HasLeaves

LEMMA RawLeaves ==
    ASSUME FilesInv PROVE HasLeaves(Raw)
<1> DEFINE ts == {Blocks[b] : b \in blocks}
<1>1. \A x \in ts : HasLeaves(x)
  BY UserAssumption, DocumentGood DEF FilesInv, GoodDoc
<1> HIDE DEF ts
<1>2. HasLeaves(Union(ts))
  BY <1>1, UnionLeaves
<1>3. HasLeaves(Union(ts) ++ migrated)
  BY <1>2, PlusLeaves DEF FilesInv
<1> QED
  BY <1>3 DEF Raw, ts

LEMMA InitFiles == Init => FilesInv
<1> SUFFICES ASSUME Init PROVE FilesInv
  OBVIOUS
<1>1. blocks \subseteq DOMAIN Blocks
  BY DEF Init, kSubset
<1>2. GoodDoc(doc) /\ HasLeaves(servers)
  BY UserAssumption, DocumentGood, NoDocumentGood DEF Init, GoodDoc
<1>3. HasLeaves(migrated) /\ IsStack(stack)
  BY NoLeaves, NotLoadedStack DEF Init
<1> QED
  BY <1>1, <1>2, <1>3 DEF FilesInv

\* What a target makes of a document is one.
LEMMA NextGood ==
    ASSUME FilesInv, Target \in DocumentTargets, Next1 # Refused PROVE GoodDoc(Next1)
<1>1. PICK i \in 1..11 : Target = AllTargets[i]
  BY WholeTargets DEF DocumentTargets, Range
<1> QED
  BY <1>1, TargetElsewhere DEF Next1, FilesInv

LEMMA StepFiles == FilesInv /\ [Next]_vars => FilesInv'
<1> SUFFICES ASSUME FilesInv, [Next]_vars PROVE FilesInv'
  OBVIOUS
<1>1. ASSUME NEW b \in DOMAIN Blocks, EditStack(b)
      PROVE  FilesInv'
  BY <1>1 DEF EditStack, FilesInv
<1>2. ASSUME NEW e \in UserEdits, EditDocument(e)
      PROVE  FilesInv'
  <2>1. GoodDoc(e)
    BY UserAssumption, DocumentGood
  <2>2. GoodDoc(doc')
    BY <1>2, <2>1, GoodOverride DEF EditDocument, FilesInv, GoodDoc
  <2> QED
    BY <1>2, <2>2 DEF EditDocument, FilesInv
<1>3. ASSUME NEW s, EditSkill(s)
      PROVE  FilesInv'
  BY <1>3 DEF EditSkill, FilesInv
<1>4. ASSUME NEW t, HasLeaves(t), WriteMigrated(t) PROVE FilesInv'
  BY <1>4 DEF WriteMigrated, FilesInv
<1>5. CASE MigrateFromOpenChad
  <2>1. HasLeaves(EmitTOML(doc, servers))
    BY EmittedLeaves DEF FilesInv, GoodDoc
  <2> QED
    BY <1>4, <1>5, <2>1 DEF MigrateFromOpenChad
<1>6. CASE MigrateInit
  BY <1>4, <1>6, StarterLeaves DEF MigrateInit
<1>7. CASE BeginApply
  <2>1. IsStack(Load(Raw))
    BY RawLeaves, LoadedStack
  <2> QED
    BY <1>7, <2>1 DEF BeginApply, FilesInv
<1>8. CASE Refuse
  BY <1>8 DEF Refuse, FilesInv
<1>9. CASE ApplyDocument
  <2>1. GoodDoc(doc')
    BY <1>9, NextGood DEF ApplyDocument
  <2>2. HasLeaves(servers')
    BY <1>9, VisionLeaves DEF ApplyDocument, FilesInv, IsStack
  <2> QED
    BY <1>9, <2>1, <2>2 DEF ApplyDocument, FilesInv
<1>10. CASE ApplySkills
  BY <1>10 DEF ApplySkills, FilesInv
<1>11. CASE ApplyTemporal
  BY <1>11 DEF ApplyTemporal, FilesInv
<1>12. CASE Kill
  <2>1. "mcp" \in DocumentTargets
    <3>1. AllTargets[1] = "mcp" /\ 1 \in 1..11
      BY DEF AllTargets
    <3> QED
      BY <3>1, WholeTargets DEF DocumentTargets, Range
  <2>2. GoodDoc(doc')
    BY <1>12, <2>1, NextGood DEF Kill, FilesInv
  <2> QED
    BY <1>12, <2>2 DEF Kill, FilesInv
<1>13. CASE UNCHANGED vars
  BY <1>13 DEF vars, FilesInv
<1> QED
  BY <1>1, <1>2, <1>3, <1>5, <1>6, <1>7, <1>8, <1>9, <1>10, <1>11, <1>12, <1>13 DEF Next
--------------------------------------------------------------------------------
(* The inductive invariant: what the targets so far have done. *)

\* What the targets before the i-th write is there.
Done(i) ==
    /\ SettledBefore(i, stack, doc)
    /\ i > 1 => servers = VisionServers(stack)
    /\ i > 8 => CopySkills(stack, skills) = skills

\* While an apply goes through the plan, or when it has, the targets that are done
\* have nothing to do; what is left comes to the plan.
ResumeInv ==
    /\ finished => plan # NoPlan
    /\ plan \notin {NoPlan, Refused} /\ OwnKeys(stack) =>
         /\ Composed(stack, doc, AllTargets) = plan
         /\ todo # << >> => \E i \in 1..12 : todo = From(i) /\ Done(i)
         /\ finished => Done(12)

LEMMA CopiedAgain ==
    ASSUME NEW t, NEW s PROVE CopySkills(t, CopySkills(t, s)) = CopySkills(t, s)
  BY DEF CopySkills, ++

LEMMA NothingSettled ==
    ASSUME NEW t, NEW d PROVE SettledBefore(1, t, d)
  BY DEF SettledBefore

\* A target that is done: what it writes is there too.
LEMMA AdvanceDone ==
    ASSUME ResumeInv, PlanInv, Advance, todo # << >>, plan' = plan, stack' = stack,
           plan \notin {NoPlan, Refused} /\ OwnKeys(stack)
             => /\ Composed(stack, doc', AllTargets) = plan
                /\ \A i \in 1..12 : todo = From(i) /\ Done(i)
                     => IF i = 12 THEN Done(12)' ELSE Done(i + 1)'
    PROVE  ResumeInv'
<1>1. finished' => plan' # NoPlan
  BY DEF Advance
<1>2. ASSUME plan' \notin {NoPlan, Refused}, OwnKeys(stack)'
      PROVE  /\ (Composed(stack, doc, AllTargets) = plan)'
             /\ todo' # << >> => \E i \in 1..12 : todo' = From(i) /\ Done(i)'
             /\ finished' => Done(12)'
  <2>1. plan \notin {NoPlan, Refused} /\ OwnKeys(stack)
    BY <1>2
  <2>2. PICK i \in 1..12 : todo = From(i) /\ Done(i)
    BY <2>1 DEF ResumeInv
  <2>3. IF i = 12 THEN Done(12)' ELSE Done(i + 1)'
    BY <2>1, <2>2
  <2>4. CASE i = 12
    <3>1. todo' = << >>
      BY <2>2, <2>4, TargetsLeft DEF Advance
    <3> QED
      BY <2>1, <2>3, <2>4, <3>1
  <2>5. CASE i # 12
    <3>1. i + 1 \in 1..12 /\ i < 12
      BY <2>5
    <3>2. todo' = From(i + 1)
      BY <2>2, <3>1, TargetsLeft DEF Advance
    <3>3. From(i + 1) # << >>
      BY <3>1, TargetsLeft
    <3>4. finished' = FALSE
      BY <3>2, <3>3 DEF Advance
    <3> QED
      BY <2>1, <2>3, <2>5, <3>1, <3>2, <3>4
  <2> QED
    BY <2>4, <2>5
<1> QED
  BY <1>1, <1>2 DEF ResumeInv

LEMMA InitResume == Init => ResumeInv
  BY DEF Init, ResumeInv

LEMMA BeginResume ==
    ASSUME ResumeInv, FilesInv, BeginApply PROVE ResumeInv'
<1>1. finished' = FALSE
  BY DEF BeginApply
<1>2. CASE todo' = Whole
  <2>1. plan' = Composed(stack', doc', AllTargets)
    BY <1>2 DEF BeginApply
  <2>2. todo' = From(1)
    BY <1>2, FromFirst
  <2>3. Done(1)'
    BY NothingSettled DEF Done
  <2> QED
    BY <1>1, <2>1, <2>2, <2>3 DEF ResumeInv
<1>3. CASE todo' # Whole
  <2>1. plan' = NoPlan
    BY <1>3 DEF BeginApply
  <2> QED
    BY <1>1, <2>1 DEF ResumeInv
<1> QED
  BY <1>2, <1>3

LEMMA DocumentResume ==
    ASSUME ResumeInv, PlanInv, FilesInv, ApplyDocument PROVE ResumeInv'
<1>1. /\ todo # << >> /\ Target \in DocumentTargets /\ Next1 # Refused /\ doc' = Next1
      /\ servers' = IF Target = "mcp" THEN VisionServers(stack) ELSE servers
      /\ Advance /\ UNCHANGED <<skills, stack, plan>>
  BY DEF ApplyDocument
<1>2. ASSUME plan \notin {NoPlan, Refused}, OwnKeys(stack)
      PROVE  /\ Composed(stack, doc', AllTargets) = plan
             /\ \A i \in 1..12 : todo = From(i) /\ Done(i)
                  => IF i = 12 THEN Done(12)' ELSE Done(i + 1)'
  <2>1. ASSUME NEW i \in 1..12, todo = From(i), Done(i)
        PROVE  /\ i # 12 /\ Composed(stack, doc', AllTargets) = plan /\ Done(i + 1)'
    <3>1. Target = Whole[i]
      BY <2>1, TargetsLeft DEF Target
    <3>2. i \in 1..11 /\ i # 12
      BY <1>1, <3>1, <2>1, WholeTargets
    <3>3. Target = AllTargets[i]
      BY <3>1, <3>2, WholeTargets
    <3>4. doc' = NextDoc(AllTargets[i], stack, doc) /\ NextDoc(AllTargets[i], stack, doc) # Refused
      BY <1>1, <3>3 DEF Next1
    <3>5. Composed(stack, doc, AllTargets) = plan
      BY <1>2 DEF ResumeInv
    <3>6. Composed(stack, doc', AllTargets) = plan
      BY <1>2, <2>1, <3>2, <3>4, <3>5, ComposedOn DEF FilesInv, PlanInv, Done
    <3>7. SettledBefore(i + 1, stack, doc')
      BY <1>2, <2>1, <3>2, <3>4, NextSettled DEF FilesInv, Done
    <3>8. servers' = VisionServers(stack)
      <4>1. CASE i = 1
        <5>1. Target = "mcp"
          BY <3>3, <4>1 DEF AllTargets
        <5> QED
          BY <1>1, <5>1
      <4>2. CASE i # 1
        BY <1>1, <2>1, <4>2 DEF Done
      <4> QED
        BY <4>1, <4>2
    <3>9. i # 8
      <4>1. AllTargets[8] = "skills"
        BY DEF AllTargets
      <4> QED
        BY <1>1, <3>3, <4>1, WholeTargets
    <3>10. i + 1 > 8 => CopySkills(stack, skills) = skills
      BY <2>1, <3>9 DEF Done
    <3> QED
      BY <1>1, <3>2, <3>6, <3>7, <3>8, <3>10 DEF Done
  <2>2. \E i \in 1..12 : todo = From(i) /\ Done(i)
    BY <1>1, <1>2 DEF ResumeInv
  <2> QED
    BY <2>1, <2>2
<1> QED
  BY <1>1, <1>2, AdvanceDone

LEMMA SkillsResume ==
    ASSUME ResumeInv, PlanInv, ApplySkills PROVE ResumeInv'
<1>1. /\ todo # << >> /\ Target = "skills" /\ skills' = CopySkills(stack, skills)
      /\ Advance /\ UNCHANGED <<doc, servers, stack, plan>>
  BY DEF ApplySkills
<1>2. ASSUME plan \notin {NoPlan, Refused}, OwnKeys(stack), NEW i \in 1..12, todo = From(i), Done(i)
      PROVE  IF i = 12 THEN Done(12)' ELSE Done(i + 1)'
  <2>1. Whole[i] = "skills"
    BY <1>1, <1>2, TargetsLeft DEF Target
  <2>2. i \in 1..11 /\ i # 12
    BY <2>1, WholeTargets
  <2>3. AllTargets[i] = "skills" /\ i = 8
    BY <2>1, <2>2, WholeTargets DEF AllTargets
  <2>4. Settled("skills", stack, doc)
    BY DEF Settled
  <2>5. SettledBefore(i + 1, stack, doc)
    BY <1>2, <2>2, <2>3, <2>4 DEF Done, SettledBefore
  <2>6. CopySkills(stack, skills') = skills'
    BY <1>1, CopiedAgain
  <2> QED
    BY <1>1, <1>2, <2>2, <2>3, <2>5, <2>6 DEF Done
<1>3. plan \notin {NoPlan, Refused} /\ OwnKeys(stack) => Composed(stack, doc', AllTargets) = plan
  BY <1>1 DEF ResumeInv
<1> QED
  BY <1>1, <1>2, <1>3, AdvanceDone

LEMMA TemporalResume ==
    ASSUME ResumeInv, PlanInv, ApplyTemporal PROVE ResumeInv'
<1>1. /\ todo # << >> /\ Target = "temporal"
      /\ Advance /\ UNCHANGED <<doc, servers, skills, stack, plan>>
  BY DEF ApplyTemporal
<1>2. ASSUME plan \notin {NoPlan, Refused}, OwnKeys(stack), NEW i \in 1..12, todo = From(i), Done(i)
      PROVE  IF i = 12 THEN Done(12)' ELSE Done(i + 1)'
  <2>1. Whole[i] = "temporal"
    BY <1>1, <1>2, TargetsLeft DEF Target
  <2>2. i = 12
    BY <2>1, WholeTargets
  <2> QED
    BY <1>1, <1>2, <2>2 DEF Done
<1>3. plan \notin {NoPlan, Refused} /\ OwnKeys(stack) => Composed(stack, doc', AllTargets) = plan
  BY <1>1 DEF ResumeInv
<1> QED
  BY <1>1, <1>2, <1>3, AdvanceDone

LEMMA KillResume ==
    ASSUME ResumeInv, PlanInv, FilesInv, Kill PROVE ResumeInv'
<1>1. /\ todo # << >> /\ todo' = << >> /\ ~finished /\ ~finished'
      /\ UNCHANGED <<servers, skills, stack, plan>>
      /\ doc' = doc \/ (Target = "mcp" /\ Next1 # Refused /\ doc' = Next1)
  BY DEF Kill, PlanInv
<1>2. CASE doc' = doc
  BY <1>1, <1>2 DEF ResumeInv
<1>3. CASE Target = "mcp" /\ Next1 # Refused /\ doc' = Next1
  <2>1. ASSUME plan \notin {NoPlan, Refused}, OwnKeys(stack)
        PROVE  Composed(stack, doc', AllTargets) = plan
    <3>1. AllTargets[1] = "mcp" /\ 1 \in 1..11
      BY DEF AllTargets
    <3>2. doc' = NextDoc(AllTargets[1], stack, doc) /\ NextDoc(AllTargets[1], stack, doc) # Refused
      BY <1>3, <3>1 DEF Next1
    <3>3. Composed(stack, doc', AllTargets) = Composed(stack, doc, AllTargets)
      BY <2>1, <3>1, <3>2, NothingSettled, ComposedOn DEF FilesInv, PlanInv
    <3> QED
      BY <2>1, <3>3 DEF ResumeInv
  <2> QED
    BY <1>1, <2>1 DEF ResumeInv
<1> QED
  BY <1>1, <1>2, <1>3

LEMMA StepResume == ResumeInv /\ PlanInv /\ FilesInv /\ [Next]_vars => ResumeInv'
<1> SUFFICES ASSUME ResumeInv, PlanInv, FilesInv, [Next]_vars PROVE ResumeInv'
  OBVIOUS
<1>1. ASSUME UNCHANGED <<doc, servers, skills, stack, todo, plan, finished>> PROVE ResumeInv'
  BY <1>1 DEF ResumeInv, Done
<1>2. ASSUME NEW b \in DOMAIN Blocks, EditStack(b) PROVE ResumeInv'
  BY <1>1, <1>2 DEF EditStack
<1>3. ASSUME NEW e \in UserEdits, EditDocument(e) PROVE ResumeInv'
  BY <1>3 DEF EditDocument, ResumeInv
<1>4. ASSUME NEW s, EditSkill(s) PROVE ResumeInv'
  BY <1>4 DEF EditSkill, ResumeInv
<1>5. CASE MigrateFromOpenChad \/ MigrateInit
  BY <1>1, <1>5 DEF MigrateFromOpenChad, MigrateInit, WriteMigrated
<1>6. CASE Refuse
  <2>1. todo' = << >> /\ ~finished' /\ UNCHANGED <<doc, servers, skills, stack, plan>>
    BY <1>6 DEF Refuse, PlanInv
  <2> QED
    BY <2>1 DEF ResumeInv
<1>7. CASE UNCHANGED vars
  BY <1>1, <1>7 DEF vars
<1> QED
  BY <1>2, <1>3, <1>4, <1>5, <1>6, <1>7, BeginResume, DocumentResume, SkillsResume,
     TemporalResume, KillResume DEF Next

\* The inductive invariant.
ConfigInv == PlanInv /\ FilesInv /\ ResumeInv

LEMMA AlwaysConfigInv == Spec => []ConfigInv
<1>1. Init => ConfigInv
  BY InitPlan, InitFiles, InitResume DEF ConfigInv
<1>2. ConfigInv /\ [Next]_vars => ConfigInv'
  BY StepPlan, StepFiles, StepResume DEF ConfigInv
<1> QED
  BY <1>1, <1>2, PTL DEF Spec

\* An apply that was killed between two targets, or that ended, comes to the
\* same opencode.json when it is run again: the targets that were done find what
\* they would write.
THEOREM AppliesResume == Spec => []Resumable
<1>1. ConfigInv => Resumable
  BY DEF ConfigInv, ResumeInv, Resumable
<1> QED
  BY <1>1, AlwaysConfigInv, PTL

LEMMA FinishedDone ==
    ASSUME ConfigInv, finished, OwnKeys(stack) PROVE Done(12)
<1>1. plan # NoPlan /\ plan # Refused
  BY DEF ConfigInv, PlanInv, ResumeInv
<1> QED
  BY <1>1 DEF ConfigInv, ResumeInv

LEMMA TargetsUpTo ==
    ASSUME NEW i \in 1..11 PROVE SubSeq(AllTargets, 1, i) = Before(i + 1)
<1> DEFINE S == {AllTargets[j] : j \in 1..11}
           a == AllTargets
           b == Before(i + 1)
<1>1. a \in Seq(S) /\ Len(a) = 11
  <2>1. a = [j \in 1..11 |-> a[j]] /\ \A j \in 1..11 : a[j] \in S
    BY DEF AllTargets
  <2> HIDE DEF a, S
  <2> QED
    BY <2>1
<1>2. b = [j \in 1..i |-> a[j]]
  BY DEF Before
<1> HIDE DEF a, b, S
<1>3. IsPath(SubSeq(a, 1, i)) /\ Len(SubSeq(a, 1, i)) = i
      /\ \A j \in 1..i : SubSeq(a, 1, i)[j] = a[j]
  <2>1. IsPath(a) /\ 1 \in Nat \ {0} /\ i \in Nat /\ i <= Len(a) /\ 1 <= i + 1
    BY <1>1, PathOfSeq
  <2>2. i + 1 - 1 = i /\ \A j \in 1..i : 1 + j - 1 = j
    OBVIOUS
  <2> QED
    BY <2>1, <2>2, SubPath
<1>4. IsPath(b) /\ Len(b) = i /\ \A j \in 1..i : b[j] = a[j]
  <2>1. \A j \in 1..11 : a[j] \in S
    BY <1>1, ElementOfSeq
  <2>2. b \in [1..i -> S]
    BY <1>2, <2>1
  <2>3. b \in Seq(S) /\ Len(b) = i
    BY <2>2
  <2> QED
    BY <1>2, <2>3, PathOfSeq
<1>5. SubSeq(a, 1, i) = b
  BY <1>3, <1>4, PathEqual
<1> QED
  BY <1>5 DEF a, b

\* After a whole apply oca diff finds no target of the stack out of date, in
\* opencode.json, in Vision's registry or among the skills.
THEOREM AppliesConverge == Spec => []InSync
<1>1. ASSUME ConfigInv, finished, OwnKeys(stack) PROVE ~Drift(stack, doc, servers, skills)
  <2>1. Done(12)
    BY <1>1, FinishedDone
  <2>2. ASSUME NEW i \in DOMAIN AllTargets
        PROVE  Composed(stack, doc, SubSeq(AllTargets, 1, i)) = doc
    <3>1. i \in 1..11 /\ i + 1 \in 1..12
      BY <2>2, WholeTargets
    <3>2. SubSeq(AllTargets, 1, i) = Before(i + 1)
      BY <3>1, TargetsUpTo
    <3>3. IsFcn(doc) /\ doc # Refused /\ SettledBefore(12, stack, doc) /\ 12 \in 1..12
      BY <1>1, <2>1 DEF ConfigInv, PlanInv, Done
    <3>4. \A k \in 1..12 : Composed(stack, doc, Before(k)) = doc
      BY <3>3, ComposedSame
    <3> QED
      BY <3>1, <3>2, <3>4
  <2> QED
    BY <2>1, <2>2 DEF Drift, Done
<1>2. ConfigInv => InSync
  BY <1>1 DEF InSync
<1> QED
  BY <1>2, AlwaysConfigInv, PTL
--------------------------------------------------------------------------------
(* Ports. *)

\* A port is a number.
PortKinds(t) == \A n : OfServer(n, "port") \in DOMAIN t => t[OfServer(n, "port")][1] = "int"

LEMMA PlusStrict ==
    ASSUME NEW f, NEW g, NEW x
    PROVE  /\ x \in DOMAIN (f ++ g) <=> x \in DOMAIN f \/ x \in DOMAIN g
           /\ x \in DOMAIN f => (f ++ g)[x] = f[x]
           /\ x \notin DOMAIN f /\ x \in DOMAIN g => (f ++ g)[x] = g[x]
  BY DEF ++

LEMMA PortStrict == "port" \in DOMAIN Server.strict /\ Server.strict["port"] = "int"
<1> DEFINE a == Of({"type", "transport", "command", "url", "restart_policy",
                    "availability_profile", "session_timeout", "session_ttl",
                    "health_check_interval", "request_timeout",
                    "shared_result_cache_ttl", "source", "description", "env_file"}, "string")
           b == Of({"port", "max_restarts", "max_sessions", "timeout",
                    "shared_result_cache_size", "max_in_flight_requests"}, "int")
           c == Of({"autostart", "stateful", "required", "enabled"}, "bool")
           d == Of({"args", "shared_read_only_tools"}, "strings")
           e == Of({"env", "headers"}, "strings table")
           f == Of({"retry", "circuit_breaker"}, "table")
           x == "port"
<1>1. Server.strict = ((((a ++ b) ++ c) ++ d) ++ e) ++ f
  BY DEF Server, Table
<1>2. x \notin DOMAIN a /\ x \in DOMAIN b /\ b[x] = "int"
  BY DEF Of
<1> HIDE DEF a, b, c, d, e, f, x
<1>3. x \in DOMAIN (a ++ b) /\ (a ++ b)[x] = "int"
  BY <1>2, PlusStrict
<1>4. x \in DOMAIN ((a ++ b) ++ c) /\ ((a ++ b) ++ c)[x] = "int"
  BY <1>3, PlusStrict
<1>5. x \in DOMAIN (((a ++ b) ++ c) ++ d) /\ (((a ++ b) ++ c) ++ d)[x] = "int"
  BY <1>4, PlusStrict
<1>6. x \in DOMAIN ((((a ++ b) ++ c) ++ d) ++ e) /\ ((((a ++ b) ++ c) ++ d) ++ e)[x] = "int"
  BY <1>5, PlusStrict
<1>7. x \in DOMAIN Server.strict /\ Server.strict[x] = "int"
  BY <1>1, <1>6, PlusStrict
<1> QED
  BY <1>7 DEF x

LEMMA KeysOf ==
    ASSUME NEW t, HasPaths(t), NEW p, IsPath(p), NEW k
    PROVE  k \in Keys(t, p) <=> Has(t, p \o <<k>>)
<1> DEFINE r == p \o <<k>>
<1>1. k \in Keys(t, p) => Has(t, r)
  BY KeyHas
<1>2. /\ IsPath(r) /\ Len(r) = Len(p) + 1 /\ Len(p) \in Nat
      /\ \A i \in 1..Len(p) : r[i] = p[i]
      /\ r[Len(p) + 1] = k
  BY AddPath, PathLen
<1> HIDE DEF r
<1>3. ASSUME Has(t, r) PROVE k \in Keys(t, p)
  <2>1. PICK q \in DOMAIN t : IsPrefix(r, q)
    BY <1>3 DEF Has, Under
  <2>2. IsPath(q) /\ Len(q) \in Nat
    BY PathLen DEF HasPaths
  <2>3. Len(r) <= Len(q) /\ \A i \in 1..Len(r) : r[i] = q[i]
    BY <1>2, <2>1, <2>2, PrefixAt
  <2>4. IsPrefix(p, q)
    <3>1. Len(p) <= Len(q) /\ \A i \in 1..Len(p) : p[i] = q[i]
      BY <1>2, <2>2, <2>3
    <3> QED
      BY <2>2, <3>1, PrefixAt
  <2>5. Len(q) > Len(p) /\ q[Len(p) + 1] = k
    BY <1>2, <2>2, <2>3
  <2> QED
    BY <2>4, <2>5 DEF Keys, Under
<1> QED
  BY <1>1, <1>3 DEF r

\* What is said of servers[n].k in a file that is parsed.
LEMMA ServerKeyStrict ==
    ASSUME NEW t, ~ParseFails(t), NEW n, NEW k \in DOMAIN Server.strict, Has(t, OfServer(n, k))
    PROVE  StrictKey(t, OfServer(n, k), Server.strict[k])
<1> DEFINE q == OfServer(n, k)
           u == <<"mcp", "servers">>
           p == <<"mcp", "servers", n>>
           r0 == p \o <<k>>
<1>1. HasPaths(t) /\ Flat(t)
  BY TreeIs DEF ParseFails
<1>2. IsPath(u) /\ IsPath(p) /\ Len(p) = 3 /\ p[1] = "mcp" /\ p[2] = "servers" /\ p[3] = n
  BY TwoPath, ThreePath
<1>3. p = u \o <<n>>
  BY TripleConcat
<1>4. /\ IsPath(r0) /\ Len(r0) = 4 /\ r0[1] = "mcp" /\ r0[2] = "servers" /\ r0[3] = n /\ r0[4] = k
      /\ \A i \in 1..3 : r0[i] = p[i]
  <2>1. IsPath(p)
    BY <1>2
  <2> HIDE DEF p
  <2>2. /\ IsPath(r0) /\ Len(r0) = Len(p) + 1 /\ \A i \in 1..Len(p) : r0[i] = p[i]
        /\ r0[Len(p) + 1] = k
    BY <2>1, AddPath
  <2> HIDE DEF r0
  <2>3. Len(p) = 3 /\ p[1] = "mcp" /\ p[2] = "servers" /\ p[3] = n
    BY <1>2 DEF p
  <2>4. Len(p) + 1 = 4 /\ 1..Len(p) = 1..3
    BY <2>3
  <2>5. 1 \in 1..3 /\ 2 \in 1..3 /\ 3 \in 1..3
    OBVIOUS
  <2> QED
    BY <2>2, <2>3, <2>4, <2>5
<1>5. IsPath(q) /\ Len(q) = 4 /\ q[1] = "mcp" /\ q[2] = "servers" /\ q[3] = n /\ q[4] = k
  BY FourPath DEF OfServer
<1> HIDE DEF p, q, u, r0
<1>20. q = r0
  <2>1. \A i \in 1..4 : i = 1 \/ i = 2 \/ i = 3 \/ i = 4
    OBVIOUS
  <2>2. \A i \in 1..Len(q) : q[i] = r0[i]
    BY <1>4, <1>5, <2>1
  <2> QED
    BY <1>4, <1>5, <2>2, PathEqual
<1>6. PICK r \in DOMAIN t : IsPrefix(q, r)
  BY DEF Has, Under, q
<1>7. IsPath(r) /\ Len(r) >= 4 /\ Len(r) \in Nat
  BY <1>1, <1>5, <1>6, PrefixAt, PathLen DEF HasPaths
<1>8. IsPrefix(p, q)
  <2>1. Len(p) <= Len(q) /\ 1..Len(p) = 1..3
    BY <1>2, <1>5
  <2> QED
    BY <1>2, <1>4, <1>5, <1>20, <2>1, PrefixAt
<1>9. IsPrefix(p, r)
  BY <1>2, <1>5, <1>6, <1>7, <1>8, PrefixTrans
<1>10. p \notin DOMAIN t
  <2>1. p = r => Len(r) = 3 /\ ~(3 >= 4)
    BY <1>2
  <2> QED
    BY <1>1, <1>7, <1>9, <2>1, Zenon DEF Flat
<1>11. Has(t, p)
  BY <1>9 DEF Has, Under
<1>12. n \in Keys(t, u) /\ k \in Keys(t, p)
  <2>1. Has(t, r0)
    BY <1>6, <1>20 DEF Has, Under
  <2> QED
    BY <1>1, <1>2, <1>3, <1>11, <2>1, KeysOf DEF r0
<1>13. <<p, Server>> \in EachOf(t, u, Server)
  BY <1>3, <1>10, <1>12 DEF EachOf, Tables, Kind
<1>14. <<p, Server>> \in TablesOf(t)
  BY <1>13, Zenon DEF TablesOf, u
<1>15. q = p \o <<k>> /\ k \in Keys(t, p) /\ k \in DOMAIN Server.strict
  BY <1>12, <1>20 DEF r0
<1>16. StrictKey(t, q, Server.strict[k])
  BY <1>14, <1>15 DEF StrictKey
<1> QED
  BY <1>16 DEF q

LEMMA ParsedPorts ==
    ASSUME NEW t, ~ParseFails(t) PROVE PortKinds(Parsed(t))
<1> SUFFICES ASSUME NEW n, OfServer(n, "port") \in DOMAIN Parsed(t)
             PROVE  Parsed(t)[OfServer(n, "port")][1] = "int"
  BY DEF PortKinds
<1> DEFINE q == OfServer(n, "port")
<1>1. HasPaths(t) /\ Flat(t) /\ \A p \in DOMAIN t : p \in KeyPaths(t)
  BY TreeIs DEF ParseFails
<1>2. IsPath(q) /\ Len(q) = 4
  BY FourPath DEF OfServer
<1>3. ASSUME Has(t, q) PROVE q \in DOMAIN t /\ t[q][1] = "int" /\ StrictKey(t, q, "int")
  <2>1. StrictKey(t, q, "int")
    BY <1>3, PortStrict, ServerKeyStrict
  <2>2. PICK r \in DOMAIN t : IsPrefix(q, r)
    BY <1>3 DEF Has, Under
  <2>3. LeafOf("int") = "int"
    BY DEF LeafOf
  <2> QED
    BY <1>1, <2>1, <2>2, <2>3, StrictLeaf
<1>4. q \in Kept(t) \/ q \in EmptyTables(t, Kept(t)) \ Kept(t)
  BY ParsedIs
<1>5. CASE q \in Kept(t)
  <2>1. q \in DOMAIN t
    BY <1>5 DEF Kept
  <2>2. Has(t, q)
    BY <1>2, <2>1, PrefixSelf DEF Has, Under
  <2>3. t[q][1] = "int"
    BY <1>3, <2>2
  <2>4. OnlyStrings(t[q]) = t[q]
    BY <2>3 DEF OnlyStrings
  <2>5. Parsed(t)[q] \in {t[q], OnlyStrings(t[q])}
    BY <1>5, ParsedIs
  <2> QED
    BY <2>3, <2>4, <2>5
<1>6. CASE q \in EmptyTables(t, Kept(t)) \ Kept(t)
  <2>1. (\E x \in TablesOf(t) : q = x[1]) \/ \E s : q = <<s>>
    BY <1>6 DEF EmptyTables, GoneTables
  <2>2. ~ \E s : q = <<s>>
    <3>1. \A s : Len(<<s>>) = 1
      BY OnePath
    <3>2. 1 # 4
      OBVIOUS
    <3> HIDE DEF q
    <3> QED
      BY <1>2, <3>1, <3>2
  <2>3. PICK x \in TablesOf(t) : q = x[1]
    BY <2>1, <2>2
  <2>4. Has(t, q)
    BY <1>1, <2>3, TablesBelow
  <2>5. q \in DOMAIN t /\ t[q][1] = "int"
    BY <1>3, <2>4
  <2>6. ~Undecodable(t, x[1], x[2])
    BY DEF ParseFails
  <2>7. Kind(t, q) = "table"
    BY <2>3, <2>6 DEF Undecodable
  <2> QED
    BY <2>5, <2>7 DEF Kind
<1> QED
  BY <1>4, <1>5, <1>6

LEMMA OverrideAway ==
    ASSUME NEW t, NEW s, NEW q, q \notin DOMAIN s, q \in DOMAIN Override(t, s)
    PROVE  q \in DOMAIN t /\ Override(t, s)[q] = t[q]
  BY DEF Override, Only, ++

LEMMA ResolvedPorts ==
    ASSUME NEW t, HasLeaves(t), PortKinds(t) PROVE PortKinds(Resolved(t))
<1> SUFFICES ASSUME NEW n, OfServer(n, "port") \in DOMAIN Resolved(t)
             PROVE  Resolved(t)[OfServer(n, "port")][1] = "int"
  BY DEF PortKinds
<1> DEFINE q == OfServer(n, "port")
<1>1. q[1] = "mcp"
  BY FourPath DEF OfServer
<1>2. q \notin DOMAIN OnTop(t)
  <2>1. \A p \in ResolvedPaths(Keys(t, <<"plugins">>)) : p[1] = "session" \/ p[1] = "plugins"
    BY ResolvedShape
  <2>2. \A p \in DOMAIN OnTop(t) : p \in ResolvedPaths(Keys(t, <<"plugins">>))
    BY ResolvedOn DEF OnPaths
  <2> HIDE DEF q
  <2> QED
    BY <1>1, <2>1, <2>2
<1>3. Resolved(t) = Override(ExpandedKeys(t), OnTop(t))
  BY ResolvedOn
<1> HIDE DEF q
<1>4. q \in DOMAIN ExpandedKeys(t) /\ Resolved(t)[q] = ExpandedKeys(t)[q]
  BY <1>2, <1>3, OverrideAway DEF q
<1>5. q \in DOMAIN t /\ ExpandedKeys(t)[q] \in {t[q], ExpandLeaf(t[q])}
  BY <1>4 DEF ExpandedKeys
<1>6. t[q][1] = "int"
  BY <1>5 DEF PortKinds, q
<1>7. ExpandLeaf(t[q]) = t[q]
  BY <1>6 DEF ExpandLeaf
<1> QED
  BY <1>4, <1>5, <1>6, <1>7 DEF q

LEMMA FilledPorts ==
    ASSUME NEW t, PortKinds(t) PROVE PortKinds(Filled(t))
<1> SUFFICES ASSUME NEW n, OfServer(n, "port") \in DOMAIN Filled(t)
             PROVE  Filled(t)[OfServer(n, "port")][1] = "int"
  BY DEF PortKinds
<1> DEFINE q == OfServer(n, "port")
           s == TemporalDefaults(t) ++ ShellDefaults(t)
<1>1. IsPath(q) /\ Len(q) = 4
  BY FourPath DEF OfServer
<1>2. q \notin DOMAIN s
  <2>1. \A p \in FilledPaths : Len(p) = 2
    BY TwoPath DEF FilledPaths
  <2>2. \A p \in DOMAIN s : p \in FilledPaths
    BY FilledOn DEF OnPaths
  <2>3. 2 # 4
    OBVIOUS
  <2> HIDE DEF q, s
  <2> QED
    BY <1>1, <2>1, <2>2, <2>3
<1>3. Filled(t) = Override(t, s)
  BY DEF Filled
<1> HIDE DEF q, s
<1>4. q \in DOMAIN t /\ Filled(t)[q] = t[q]
  BY <1>2, <1>3, OverrideAway DEF q
<1> QED
  BY <1>4 DEF PortKinds, q

LEMMA NotLoadedPorts == PortKinds(NotLoaded)
<1>1. \A n : OfServer(n, "port") \notin DOMAIN NotLoaded
  <2>1. ASSUME NEW n, OfServer(n, "port") \in DOMAIN NotLoaded PROVE FALSE
    <3>1. OfServer(n, "port") = <<"rejected">>
      BY <2>1 DEF NotLoaded, Leaf
    <3>2. OfServer(n, "port")[1] = "mcp"
      BY FourPath DEF OfServer
    <3>3. <<"rejected">>[1] = "rejected"
      BY OnePath
    <3> QED
      BY <3>1, <3>2, <3>3
  <2> QED
    BY <2>1
<1> QED
  BY <1>1 DEF PortKinds

LEMMA LoadedPorts ==
    ASSUME NEW raw, HasLeaves(raw) PROVE PortKinds(Load(raw))
<1>1. CASE Load(raw) = NotLoaded
  BY <1>1, NotLoadedPorts
<1>2. CASE ~ParseFails(raw) /\ Load(raw) = Filled(Resolved(Parsed(raw)))
  <2>1. HasLeaves(Parsed(raw))
    BY <1>2, ParsedStack DEF IsStack
  <2>2. PortKinds(Resolved(Parsed(raw)))
    BY <1>2, <2>1, ParsedPorts, ResolvedPorts
  <2> QED
    BY <1>2, <2>2, FilledPorts
<1> QED
  BY <1>1, <1>2 DEF Load
--------------------------------------------------------------------------------
(* Vision's registry. *)

\* The node of a server: what it has, and where.
NodeShown(t, p) ==
    {q \in Under(t, p) \ {p} :
       /\ q[Len(p) + 1] \in RegistryKeys
       /\ \/ Len(q) > Len(p) + 1 \/ q[Len(p) + 1] \in {"retry", "circuit_breaker"}
          \/ t[q] \notin ZeroLeaves}

LEMMA ServerNodeIs ==
    ASSUME NEW t, NEW p
    PROVE  \E g, h :
             /\ DOMAIN g \subseteq {p \o <<"transport">>} /\ DOMAIN h \subseteq {p \o <<"request_timeout">>}
             /\ ServerNode(t, p) = IF (Only(t, NodeShown(t, p)) ++ g) ++ h = NoDocument
                                   THEN Leaf(p, EmptyTable)
                                   ELSE (Only(t, NodeShown(t, p)) ++ g) ++ h
<1> DEFINE type == Text(t, p \o <<"type">>)
           transport == Text(t, p \o <<"transport">>)
           request == Text(t, p \o <<"request_timeout">>)
           timeout == Number(t, p \o <<"timeout">>)
           Sh(k, leaf) == IF leaf \in ZeroLeaves THEN NoDocument ELSE Leaf(p \o <<k>>, leaf)
           x == Str(IF transport # "" \/ type = "daemon" THEN transport ELSE type)
           y == IF request = "" /\ timeout > 0 THEN <<"ms", timeout>> ELSE Str(request)
           g == Sh("transport", x)
           h == Sh("request_timeout", y)
           f == Only(t, NodeShown(t, p))
<1>1. ServerNode(t, p) = IF (f ++ g) ++ h = NoDocument THEN Leaf(p, EmptyTable) ELSE (f ++ g) ++ h
  BY DEF ServerNode, NodeShown
<1> HIDE DEF x, y, f
<1>2. DOMAIN g \subseteq {p \o <<"transport">>}
  BY DEF NoDocument, Leaf
<1>3. DOMAIN h \subseteq {p \o <<"request_timeout">>}
  BY DEF NoDocument, Leaf
<1> HIDE DEF g, h
<1> QED
  BY <1>1, <1>2, <1>3 DEF f

LEMMA ServerNodeKeys ==
    ASSUME NEW t, HasPaths(t), NEW p, IsPath(p), NEW q \in DOMAIN ServerNode(t, p)
    PROVE  IsPath(q) /\ IsPrefix(p, q)
<1>1. PICK g, h :
        /\ DOMAIN g \subseteq {p \o <<"transport">>} /\ DOMAIN h \subseteq {p \o <<"request_timeout">>}
        /\ ServerNode(t, p) = IF (Only(t, NodeShown(t, p)) ++ g) ++ h = NoDocument
                              THEN Leaf(p, EmptyTable)
                              ELSE (Only(t, NodeShown(t, p)) ++ g) ++ h
  BY ServerNodeIs
<1> DEFINE f == Only(t, NodeShown(t, p))
<1>2. \A r \in DOMAIN f : r \in Under(t, p)
  BY DEF Only, NodeShown
<1>3. DOMAIN Leaf(p, EmptyTable) = {p}
  BY DEF Leaf
<1> HIDE DEF f
<1>4. q = p \/ q \in DOMAIN f \/ q \in DOMAIN g \/ q \in DOMAIN h
  BY <1>1, <1>3, PlusStrict DEF f
<1>5. \A k : IsPath(p \o <<k>>) /\ IsPrefix(p, p \o <<k>>)
  <2> SUFFICES ASSUME NEW k PROVE IsPath(p \o <<k>>) /\ IsPrefix(p, p \o <<k>>)
    OBVIOUS
  <2> DEFINE r == p \o <<k>>
  <2>1. IsPath(r) /\ Len(r) = Len(p) + 1 /\ \A i \in 1..Len(p) : r[i] = p[i]
    BY AddPath
  <2> HIDE DEF r
  <2>2. Len(p) \in Nat /\ Len(p) <= Len(r)
    BY <2>1, PathLen
  <2>3. IsPath(r) /\ IsPrefix(p, r)
    BY <2>1, <2>2, PrefixAt
  <2> QED
    BY <2>3 DEF r
<1>6. CASE q = p
  BY <1>6, PrefixSelf
<1>7. CASE q \in DOMAIN f
  BY <1>2, <1>7 DEF Under, HasPaths
<1>8. CASE q \in DOMAIN g \/ q \in DOMAIN h
  BY <1>1, <1>5, <1>8
<1> QED
  BY <1>4, <1>6, <1>7, <1>8

LEMMA ServerNodeAt ==
    ASSUME NEW t, NEW p, NEW q \in NodeShown(t, p)
    PROVE  q \in DOMAIN ServerNode(t, p) /\ ServerNode(t, p)[q] = t[q]
<1>1. PICK g, h :
        /\ DOMAIN g \subseteq {p \o <<"transport">>} /\ DOMAIN h \subseteq {p \o <<"request_timeout">>}
        /\ ServerNode(t, p) = IF (Only(t, NodeShown(t, p)) ++ g) ++ h = NoDocument
                              THEN Leaf(p, EmptyTable)
                              ELSE (Only(t, NodeShown(t, p)) ++ g) ++ h
  BY ServerNodeIs
<1> DEFINE f == Only(t, NodeShown(t, p))
<1>2. q \in DOMAIN f /\ f[q] = t[q]
  BY DEF Only, NodeShown, Under
<1> HIDE DEF f
<1>3. q \in DOMAIN (f ++ g) /\ (f ++ g)[q] = t[q]
  BY <1>2, PlusStrict
<1>4. q \in DOMAIN ((f ++ g) ++ h) /\ ((f ++ g) ++ h)[q] = t[q]
  BY <1>3, PlusStrict
<1>5. (f ++ g) ++ h # NoDocument
  BY <1>4 DEF NoDocument
<1> QED
  BY <1>1, <1>4, <1>5 DEF f

\* A slot group's node.
LEMMA GroupNodeIs ==
    ASSUME NEW t, HasPaths(t), NEW g
    PROVE  /\ \A q \in DOMAIN GroupNode(t, g) :
                IsPath(q) /\ Len(q) >= 4 /\ Len(q) \in Nat /\ q[1] = "mcp" /\ q[2] = "slot_groups" /\ q[3] = g
           /\ OfGroup(g, "group_port") \in DOMAIN GroupNode(t, g)
           /\ GroupNode(t, g)[OfGroup(g, "group_port")] = Num(GroupPort(t, g))
<1> DEFINE keys == {"base_port", "count", "group_port"}
           a == Leaf(OfGroup(g, "template"), Str(Text(t, OfGroup(g, "template"))))
           b == [q \in {OfGroup(g, k) : k \in keys} |-> Num(Number(t, q))]
           c == IF Has(t, OfGroup(g, "defaults")) THEN ServerNode(t, OfGroup(g, "defaults"))
                ELSE NoDocument
           u == OfGroup(g, "group_port")
<1>1. GroupNode(t, g) = (a ++ b) ++ c
  BY DEF GroupNode
<1>2. \A k : /\ IsPath(OfGroup(g, k)) /\ Len(OfGroup(g, k)) = 4 /\ OfGroup(g, k)[1] = "mcp"
             /\ OfGroup(g, k)[2] = "slot_groups" /\ OfGroup(g, k)[3] = g /\ OfGroup(g, k)[4] = k
  BY FourPath DEF OfGroup
<1>3. DOMAIN a = {OfGroup(g, "template")} /\ DOMAIN b = {OfGroup(g, k) : k \in keys}
  BY DEF Leaf
<1>4. u \in DOMAIN b /\ b[u] = Num(GroupPort(t, g))
  BY DEF GroupPort
<1>5. u # OfGroup(g, "template")
  <2>1. u[4] = "group_port" /\ OfGroup(g, "template")[4] = "template"
    BY <1>2
  <2> QED
    BY <2>1
<1>6. \A q \in DOMAIN c : IsPath(q) /\ IsPrefix(OfGroup(g, "defaults"), q)
  <2>1. \A q \in DOMAIN ServerNode(t, OfGroup(g, "defaults")) :
           IsPath(q) /\ IsPrefix(OfGroup(g, "defaults"), q)
    BY <1>2, ServerNodeKeys
  <2> QED
    BY <2>1 DEF NoDocument
<1> HIDE DEF a, b, c, u, keys
<1>7. u \in DOMAIN (a ++ b) /\ (a ++ b)[u] = Num(GroupPort(t, g))
  BY <1>3, <1>4, <1>5, PlusStrict
<1>8. u \in DOMAIN ((a ++ b) ++ c) /\ ((a ++ b) ++ c)[u] = Num(GroupPort(t, g))
  BY <1>7, PlusStrict
<1>9. ASSUME NEW q \in DOMAIN ((a ++ b) ++ c)
      PROVE  \E k : IsPath(q) /\ IsPrefix(OfGroup(g, k), q)
  <2>1. q \in DOMAIN a \/ q \in DOMAIN b \/ q \in DOMAIN c
    BY <1>9, PlusStrict
  <2>2. CASE q \in DOMAIN c
    BY <1>6, <2>2
  <2>3. CASE q \in DOMAIN a \/ q \in DOMAIN b
    <3>1. PICK k : q = OfGroup(g, k)
      BY <1>3, <2>3
    <3> QED
      BY <1>2, <3>1, PrefixSelf
  <2> QED
    BY <2>1, <2>2, <2>3
<1>10. ASSUME NEW q \in DOMAIN GroupNode(t, g)
       PROVE  IsPath(q) /\ Len(q) >= 4 /\ Len(q) \in Nat /\ q[1] = "mcp" /\ q[2] = "slot_groups" /\ q[3] = g
  <2>1. PICK k : IsPath(q) /\ IsPrefix(OfGroup(g, k), q)
    BY <1>1, <1>9, <1>10
  <2> DEFINE r == OfGroup(g, k)
  <2>2. IsPath(r) /\ Len(r) = 4 /\ r[1] = "mcp" /\ r[2] = "slot_groups" /\ r[3] = g
    BY <1>2
  <2> HIDE DEF r
  <2>3. Len(r) <= Len(q) /\ \A i \in 1..Len(r) : r[i] = q[i]
    BY <2>1, <2>2, PrefixAt DEF r
  <2>4. Len(q) \in Nat
    BY <2>1, PathLen
  <2> QED
    BY <2>1, <2>2, <2>3, <2>4
<1> QED
  BY <1>1, <1>8, <1>10 DEF u

LEMMA ServerNodePaths ==
    ASSUME NEW t, HasPaths(t), NEW n, NEW q \in DOMAIN ServerNode(t, <<"mcp", "servers", n>>)
    PROVE  IsPath(q) /\ Len(q) >= 3 /\ Len(q) \in Nat /\ q[1] = "mcp" /\ q[2] = "servers" /\ q[3] = n
<1> DEFINE p == <<"mcp", "servers", n>>
<1>1. IsPath(p) /\ Len(p) = 3 /\ p[1] = "mcp" /\ p[2] = "servers" /\ p[3] = n
  BY ThreePath
<1> HIDE DEF p
<1>2. IsPath(q) /\ IsPrefix(p, q)
  BY <1>1, ServerNodeKeys DEF p
<1>3. Len(p) <= Len(q) /\ \A i \in 1..Len(p) : p[i] = q[i]
  BY <1>1, <1>2, PrefixAt
<1>4. Len(q) \in Nat
  BY <1>2, PathLen
<1> QED
  BY <1>1, <1>2, <1>3, <1>4

\* The nodes of the servers that Vision serves.
Nodes(t) == {ServerNode(t, <<"mcp", "servers", n>>) : n \in Served(t)}
            \cup {GroupNode(t, g) : g \in GroupsOf(t)}

\* Each key of Vision's nodes is of one server or group.
LEMMA NodesAre ==
    ASSUME NEW t, HasPaths(t)
    PROVE  /\ DOMAIN VisionNodes(t) = UNION {DOMAIN x : x \in Nodes(t)}
           /\ \A q \in DOMAIN VisionNodes(t) : \E x \in Nodes(t) : q \in DOMAIN x /\ VisionNodes(t)[q] = x[q]
           /\ \A q \in DOMAIN VisionNodes(t) :
                IsPath(q) /\ Len(q) >= 3 /\ Len(q) \in Nat /\ q[1] = "mcp"
<1>1. VisionNodes(t) = Union(Nodes(t))
  BY DEF VisionNodes, Nodes
<1>2. DOMAIN VisionNodes(t) = UNION {DOMAIN x : x \in Nodes(t)}
  BY <1>1 DEF Union
<1>3. ASSUME NEW q \in DOMAIN VisionNodes(t)
      PROVE  \E x \in Nodes(t) : q \in DOMAIN x /\ VisionNodes(t)[q] = x[q]
  BY <1>1, <1>3 DEF Union
<1>4. ASSUME NEW q \in DOMAIN VisionNodes(t)
      PROVE  IsPath(q) /\ Len(q) >= 3 /\ Len(q) \in Nat /\ q[1] = "mcp"
  <2>1. PICK x \in Nodes(t) : q \in DOMAIN x
    BY <1>2
  <2>2. CASE x \in {ServerNode(t, <<"mcp", "servers", n>>) : n \in Served(t)}
    <3>1. PICK n \in Served(t) : x = ServerNode(t, <<"mcp", "servers", n>>)
      BY <2>2
    <3> QED
      BY <2>1, <3>1, ServerNodePaths
  <2>3. CASE x \in {GroupNode(t, g) : g \in GroupsOf(t)}
    <3>1. IsPath(q) /\ Len(q) >= 4 /\ Len(q) \in Nat /\ q[1] = "mcp"
      BY <2>1, <2>3, GroupNodeIs
    <3> QED
      BY <3>1
  <2> QED
    BY <2>2, <2>3 DEF Nodes
<1> QED
  BY <1>2, <1>3, <1>4

LEMMA VisionAt ==
    ASSUME NEW t, HasPaths(t), NEW q \in DOMAIN VisionNodes(t)
    PROVE  Tail(q) \in DOMAIN VisionServers(t) /\ VisionServers(t)[Tail(q)] = VisionNodes(t)[q]
<1>1. PICK f, g : InVision(t, f, g)
  BY VisionIs
<1>2. Tail(q) \in DOMAIN f
  BY <1>1 DEF InVision
<1>3. PICK p \in DOMAIN VisionNodes(t) : Tail(q) = Tail(p) /\ f[Tail(q)] = VisionNodes(t)[p]
  BY <1>1, <1>2 DEF InVision
<1>4. p = q
  <2>1. /\ IsPath(p) /\ Len(p) >= 3 /\ Len(p) \in Nat /\ p[1] = "mcp"
        /\ IsPath(q) /\ Len(q) >= 3 /\ Len(q) \in Nat /\ q[1] = "mcp"
    BY NodesAre
  <2>2. p # << >> /\ q # << >>
    BY <2>1, NoPath
  <2>3. /\ Len(Tail(p)) = Len(p) - 1 /\ \A i \in 1..(Len(p) - 1) : Tail(p)[i] = p[i + 1]
        /\ Len(Tail(q)) = Len(q) - 1 /\ \A i \in 1..(Len(q) - 1) : Tail(q)[i] = q[i + 1]
    BY <2>1, <2>2, TailPath
  <2>4. Len(p) = Len(q)
    BY <1>3, <2>1, <2>3
  <2>5. ASSUME NEW i \in 1..Len(p) PROVE p[i] = q[i]
    <3>1. CASE i = 1
      BY <2>1, <3>1
    <3>2. CASE i # 1
      <4>1. i - 1 \in 1..(Len(p) - 1) /\ (i - 1) + 1 = i
        BY <2>1, <3>2
      <4>2. Tail(p)[i - 1] = p[i] /\ Tail(q)[i - 1] = q[i]
        BY <2>3, <2>4, <4>1
      <4> QED
        BY <1>3, <4>2
    <3> QED
      BY <3>1, <3>2
  <2> QED
    BY <2>1, <2>4, <2>5, PathEqual
<1>5. Tail(q) \in DOMAIN (f ++ g) /\ (f ++ g)[Tail(q)] = f[Tail(q)]
  BY <1>2, PlusStrict
<1> QED
  BY <1>1, <1>3, <1>4, <1>5 DEF InVision

\* The ports of servers and groups are in the registry.
LEMMA GroupListed ==
    ASSUME NEW t, HasPaths(t), NEW g \in GroupsOf(t)
    PROVE  LET q == OfGroup(g, "group_port") IN
           q \in DOMAIN VisionNodes(t) /\ VisionNodes(t)[q][2] = GroupPort(t, g)
<1> DEFINE q == OfGroup(g, "group_port")
<1>1. q \in DOMAIN GroupNode(t, g) /\ GroupNode(t, g) \in Nodes(t)
  BY GroupNodeIs DEF Nodes
<1>2. q \in DOMAIN VisionNodes(t)
  BY <1>1, NodesAre
<1>3. PICK x \in Nodes(t) : q \in DOMAIN x /\ VisionNodes(t)[q] = x[q]
  BY <1>2, NodesAre
<1>4. q[2] = "slot_groups" /\ q[3] = g
  BY FourPath DEF OfGroup
<1> HIDE DEF q
<1>5. x = GroupNode(t, g)
  <2>1. CASE x \in {ServerNode(t, <<"mcp", "servers", n>>) : n \in Served(t)}
    <3>1. PICK n \in Served(t) : x = ServerNode(t, <<"mcp", "servers", n>>)
      BY <2>1
    <3>2. q[2] = "servers"
      BY <1>3, <3>1, ServerNodePaths
    <3> QED
      BY <1>4, <3>2
  <2>2. CASE x \in {GroupNode(t, h) : h \in GroupsOf(t)}
    <3>1. PICK h \in GroupsOf(t) : x = GroupNode(t, h)
      BY <2>2
    <3>2. q[3] = h
      BY <1>3, <3>1, GroupNodeIs
    <3> QED
      BY <1>4, <3>1, <3>2
  <2> QED
    BY <2>1, <2>2 DEF Nodes
<1>6. VisionNodes(t)[q] = Num(GroupPort(t, g))
  BY <1>3, <1>5, GroupNodeIs DEF q
<1> QED
  BY <1>2, <1>6 DEF q, Num

LEMMA ServerListed ==
    ASSUME NEW t, HasPaths(t), HasLeaves(t), PortKinds(t), NEW n \in Served(t), InRange(ServerPort(t, n))
    PROVE  LET q == OfServer(n, "port") IN
           q \in DOMAIN VisionNodes(t) /\ VisionNodes(t)[q][2] = ServerPort(t, n)
<1> DEFINE q == OfServer(n, "port")
           p == <<"mcp", "servers", n>>
<1>1. /\ IsPath(q) /\ Len(q) = 4 /\ q[1] = "mcp" /\ q[2] = "servers" /\ q[3] = n /\ q[4] = "port"
      /\ IsPath(p) /\ Len(p) = 3 /\ p[1] = "mcp" /\ p[2] = "servers" /\ p[3] = n
  BY FourPath, ThreePath DEF OfServer
<1>2. ServerPort(t, n) = IF q \in DOMAIN t THEN t[q][2] ELSE 0
  BY DEF ServerPort, Number, Value
<1>3. ServerPort(t, n) \in Nat /\ ServerPort(t, n) # 0
  BY DEF InRange, MinPort, MaxPort
<1>4. q \in DOMAIN t /\ t[q][1] = "int"
  BY <1>2, <1>3 DEF PortKinds
<1>5. t[q] \notin ZeroLeaves
  <2>1. t[q] = <<"int", ServerPort(t, n)>>
    BY <1>2, <1>4 DEF HasLeaves, IsLeaf
  <2>2. t[q][2] # 0
    BY <1>2, <1>3, <1>4
  <2>3. \A v : <<"int", v>>[1] = "int" /\ <<"string", v>>[1] = "string" /\ <<"bool", v>>[1] = "bool"
               /\ <<"array", v>>[1] = "array" /\ <<"table", v>>[1] = "table" /\ <<"int", v>>[2] = v
    BY TwoPath
  <2>4. \A x \in ZeroLeaves : x[1] \in {"string", "bool", "array", "table"} \/ x[2] = 0
    BY <2>3 DEF ZeroLeaves, Str, Num, Bool, Arr, EmptyTable
  <2> HIDE DEF q
  <2> QED
    BY <1>4, <2>2, <2>4
<1>6. "port" \in RegistryKeys
  BY PortStrict DEF RegistryKeys
<1> HIDE DEF p, q
<1>7. IsPrefix(p, q) /\ p # q
  <2>1. 1..Len(p) = 1..3 /\ Len(p) <= Len(q) /\ Len(p) # Len(q)
    BY <1>1
  <2>2. \A i \in 1..3 : i = 1 \/ i = 2 \/ i = 3
    OBVIOUS
  <2>3. \A i \in 1..Len(p) : p[i] = q[i]
    BY <1>1, <2>1, <2>2
  <2> QED
    BY <1>1, <2>1, <2>3, PrefixAt
<1>8. q \in NodeShown(t, p)
  <2>1. Len(p) + 1 = 4
    BY <1>1
  <2>2. q[Len(p) + 1] = "port"
    BY <1>1, <2>1
  <2>3. q \in Under(t, p) \ {p}
    BY <1>4, <1>7 DEF Under
  <2> QED
    BY <1>5, <1>6, <2>2, <2>3 DEF NodeShown
<1>9. q \in DOMAIN ServerNode(t, p) /\ ServerNode(t, p)[q] = t[q]
  BY <1>8, ServerNodeAt
<1>10. ServerNode(t, p) \in Nodes(t)
  BY DEF Nodes, p
<1>11. q \in DOMAIN VisionNodes(t)
  BY <1>9, <1>10, NodesAre
<1>12. PICK x \in Nodes(t) : q \in DOMAIN x /\ VisionNodes(t)[q] = x[q]
  BY <1>11, NodesAre
<1>13. x = ServerNode(t, p)
  <2>1. CASE x \in {ServerNode(t, <<"mcp", "servers", m>>) : m \in Served(t)}
    <3>1. PICK m \in Served(t) : x = ServerNode(t, <<"mcp", "servers", m>>)
      BY <2>1
    <3>2. q[3] = m
      BY <1>12, <3>1, ServerNodePaths
    <3> QED
      BY <1>1, <3>1, <3>2 DEF p
  <2>2. CASE x \in {GroupNode(t, h) : h \in GroupsOf(t)}
    <3>1. q[2] = "slot_groups"
      BY <1>12, <2>2, GroupNodeIs
    <3> QED
      BY <1>1, <3>1
  <2> QED
    BY <2>1, <2>2 DEF Nodes
<1>14. VisionNodes(t)[q][2] = ServerPort(t, n)
  BY <1>2, <1>4, <1>9, <1>12, <1>13
<1> QED
  BY <1>11, <1>14 DEF q
--------------------------------------------------------------------------------
(* Endpoints. *)

\* Ports of the stack are numbers, so that the registry shows them.
PortsInv == PortKinds(stack)

LEMMA StepPorts == PortsInv /\ FilesInv /\ [Next]_vars => PortsInv'
<1> SUFFICES ASSUME PortsInv, FilesInv, [Next]_vars PROVE PortsInv'
  OBVIOUS
<1>1. CASE BeginApply
  <2>1. PortKinds(Load(Raw))
    BY RawLeaves, LoadedPorts
  <2> QED
    BY <1>1, <2>1 DEF BeginApply, PortsInv
<1>2. CASE stack' = stack
  BY <1>2 DEF PortsInv
<1>3. BeginApply \/ stack' = stack
  BY DEF Next, vars, EditStack, EditDocument, EditSkill, MigrateFromOpenChad, MigrateInit,
         WriteMigrated, Refuse, ApplyDocument, ApplySkills, ApplyTemporal, Kill
<1> QED
  BY <1>1, <1>2, <1>3

LEMMA AlwaysPorts == Spec => [](ConfigInv /\ PortsInv)
<1>1. Init => PortsInv
  BY NotLoadedPorts DEF Init, PortsInv
<1>2. ConfigInv /\ PortsInv /\ [Next]_vars => PortsInv'
  BY StepPorts DEF ConfigInv
<1> QED
  BY <1>1, <1>2, AlwaysConfigInv, PTL DEF Spec

LEMMA FragmentURL ==
    ASSUME NEW n, NEW x, NEW on, NEW ms
    PROVE  /\ <<"mcp", n, "url">> \in DOMAIN Fragment(n, x, on, ms)
           /\ Fragment(n, x, on, ms)[<<"mcp", n, "url">>] = <<"url", x>>
<1> DEFINE f == Fragment(n, x, on, ms)
           u == <<"mcp", n, "url">>
           keys == {"type", "url", "enabled", "oauth", "timeout"}
           entry == [type |-> Str("remote"), url |-> <<"url", x>>, enabled |-> Bool(on),
                     oauth |-> Bool(FALSE), timeout |-> Num(ms)]
<1>1. DOMAIN entry = keys /\ entry.url = <<"url", x>>
  OBVIOUS
<1>2. f = [p \in {<<"mcp", n, k>> : k \in DOMAIN entry} |-> entry[p[3]]]
  BY DEF Fragment
<1> HIDE DEF entry, f
<1>3. u \in {<<"mcp", n, k>> : k \in DOMAIN entry}
  BY <1>1
<1>4. u[3] = "url"
  BY ThreePath
<1> HIDE DEF u
<1>5. u \in DOMAIN f /\ f[u] = entry.url
  BY <1>2, <1>3, <1>4
<1> QED
  BY <1>1, <1>5 DEF f, u

\* The entry of a server or a group has its port.
LEMMA DeclaredURL ==
    ASSUME NEW t, NEW n \in ServersOf(t) \cup GroupsOf(t)
    PROVE  LET u == <<"mcp", n, "url">> IN
           /\ u \in DOMAIN DeclaredMCP(t)
           /\ \/ n \in GroupsOf(t) /\ DeclaredMCP(t)[u] = <<"url", GroupPort(t, n)>>
              \/ n \in ServersOf(t) /\ DeclaredMCP(t)[u] = <<"url", ServerPort(t, n)>>
<1> DEFINE u == <<"mcp", n, "url">>
<1>1. ASSUME NEW g, NEW x, NEW on, NEW ms
      PROVE  u \in DOMAIN Fragment(g, x, on, ms) => g = n /\ Fragment(g, x, on, ms)[u] = <<"url", x>>
  <2>1. ASSUME u \in DOMAIN Fragment(g, x, on, ms) PROVE g = n
    <3>1. u[2] = g
      <4> HIDE DEF u
      <4> QED
        BY <2>1, FragmentPaths
    <3>2. u[2] = n
      BY ThreePath
    <3> QED
      BY <3>1, <3>2
  <2>2. Fragment(n, x, on, ms)[u] = <<"url", x>>
    BY FragmentURL
  <2> QED
    BY <2>1, <2>2
<1>2. \E f \in Fragments(t) : u \in DOMAIN f
  <2>1. CASE n \in GroupsOf(t)
    <3>1. u \in DOMAIN GroupFragment(t, n)
      BY FragmentURL DEF GroupFragment
    <3> QED
      BY <2>1, <3>1 DEF Fragments
  <2>2. CASE n \in ServersOf(t) \ GroupsOf(t)
    <3>1. u \in DOMAIN ServerFragment(t, n)
      BY FragmentURL DEF ServerFragment
    <3> QED
      BY <2>2, <3>1 DEF Fragments
  <2> QED
    BY <2>1, <2>2
<1>3. u \in DOMAIN DeclaredMCP(t)
  BY <1>2, DeclaredIs
<1>4. PICK f \in Fragments(t) : u \in DOMAIN f /\ DeclaredMCP(t)[u] = f[u]
  BY <1>3, DeclaredIs
<1>5. CASE f \in {GroupFragment(t, g) : g \in GroupsOf(t)}
  <2>1. PICK g \in GroupsOf(t) : f = GroupFragment(t, g)
    BY <1>5
  <2>2. g = n /\ f[u] = <<"url", GroupPort(t, g)>>
    BY <1>1, <1>4, <2>1 DEF GroupFragment
  <2> QED
    BY <1>3, <1>4, <2>2
<1>6. CASE f \in {ServerFragment(t, m) : m \in ServersOf(t) \ GroupsOf(t)}
  <2>1. PICK m \in ServersOf(t) \ GroupsOf(t) : f = ServerFragment(t, m)
    BY <1>6
  <2>2. m = n /\ f[u] = <<"url", ServerPort(t, m)>>
    BY <1>1, <1>4, <2>1 DEF ServerFragment
  <2> QED
    BY <1>3, <1>4, <2>1, <2>2
<1> QED
  BY <1>5, <1>6 DEF Fragments

\* Where the registry has the port of a server or a group.
LEMMA InRegistry ==
    ASSUME NEW t, HasPaths(t), NEW q \in DOMAIN VisionNodes(t), Len(q) = 4,
           q[4] \in {"port", "group_port"}
    PROVE  \E r \in DOMAIN VisionServers(t) :
             /\ Len(r) = 3 /\ r[3] \in {"port", "group_port"}
             /\ VisionServers(t)[r][2] = VisionNodes(t)[q][2]
<1>0. IsPath(q)
  BY NodesAre
<1>1. q # << >>
  BY NoPath
<1>2. Len(Tail(q)) = 3 /\ \A i \in 1..3 : Tail(q)[i] = q[i + 1]
  <2>1. Len(Tail(q)) = Len(q) - 1 /\ \A i \in 1..(Len(q) - 1) : Tail(q)[i] = q[i + 1]
    BY <1>0, <1>1, TailPath
  <2> QED
    BY <2>1
<1>3. 3 \in 1..3 /\ 3 + 1 = 4
  OBVIOUS
<1>4. Tail(q)[3] = q[4]
  BY <1>2, <1>3
<1>5. Tail(q) \in DOMAIN VisionServers(t) /\ VisionServers(t)[Tail(q)] = VisionNodes(t)[q]
  BY VisionAt
<1> QED
  BY <1>2, <1>4, <1>5

\* Where opencode.json says that a declared server or group is, Vision's
\* registry has one, or it is Vision itself, after each whole apply.
THEOREM EndpointsAreServed == Spec => []EndpointsServed
<1>1. ASSUME ConfigInv, PortsInv, Validated, finished, OwnKeys(stack),
             NEW n \in ServersOf(stack) \cup GroupsOf(stack)
      PROVE  LET ports == {q \in DOMAIN servers : Len(q) = 3 /\ q[3] \in {"port", "group_port"}}
                 listening == {servers[q][2] : q \in ports}
                       \cup {ServerPort(stack, m) : m \in {m \in ServersOf(stack) : IsDaemon(stack, m)}}
             IN  doc[<<"mcp", n, "url">>][2] \in listening
  <2> DEFINE ports == {q \in DOMAIN servers : Len(q) = 3 /\ q[3] \in {"port", "group_port"}}
             listening == {servers[q][2] : q \in ports}
                       \cup {ServerPort(stack, m) : m \in {m \in ServersOf(stack) : IsDaemon(stack, m)}}
             u == <<"mcp", n, "url">>
  <2>1. Done(12)
    BY <1>1, FinishedDone
  <2>2. servers = VisionServers(stack)
    BY <2>1 DEF Done
  <2>3. Shows(doc, DeclaredMCP(stack))
    <3>1. AllTargets[1] = "mcp" /\ 1 \in 1..11 /\ 1 < 12
      BY DEF AllTargets
    <3>2. Settled("mcp", stack, doc)
      BY <2>1, <3>1 DEF Done, SettledBefore
    <3> QED
      BY <3>2 DEF Settled, MCPSettled
  <2>4. IsStack(stack) /\ HasPaths(stack) /\ HasLeaves(stack) /\ PortKinds(stack)
    BY <1>1 DEF ConfigInv, FilesInv, IsStack, PortsInv
  <2>5. /\ u \in DOMAIN DeclaredMCP(stack)
        /\ \/ n \in GroupsOf(stack) /\ DeclaredMCP(stack)[u] = <<"url", GroupPort(stack, n)>>
           \/ n \in ServersOf(stack) /\ DeclaredMCP(stack)[u] = <<"url", ServerPort(stack, n)>>
    BY DeclaredURL
  <2>6. doc[u] = DeclaredMCP(stack)[u]
    BY <2>3, <2>5 DEF Shows
  <2>7. \A x : <<"url", x>>[2] = x
    OBVIOUS
  <2>8. \/ n \in GroupsOf(stack) /\ doc[u][2] = GroupPort(stack, n)
        \/ n \in ServersOf(stack) /\ doc[u][2] = ServerPort(stack, n)
    BY <2>5, <2>6, <2>7
  <2> SUFFICES doc[u][2] \in listening
    OBVIOUS
  <2> HIDE DEF u
  <2>9. ASSUME NEW q \in DOMAIN VisionNodes(stack), Len(q) = 4, q[4] \in {"port", "group_port"}
        PROVE  VisionNodes(stack)[q][2] \in listening
    BY <2>2, <2>4, <2>9, InRegistry
  <2> HIDE DEF listening
  <2>10. CASE n \in GroupsOf(stack) /\ doc[u][2] = GroupPort(stack, n)
    <3> DEFINE q == OfGroup(n, "group_port")
    <3>1. q \in DOMAIN VisionNodes(stack) /\ VisionNodes(stack)[q][2] = GroupPort(stack, n)
      BY <2>4, <2>10, GroupListed
    <3>2. Len(q) = 4 /\ q[4] = "group_port"
      BY FourPath DEF OfGroup
    <3> HIDE DEF q
    <3> QED
      BY <2>9, <2>10, <3>1, <3>2
  <2>11. CASE n \in ServersOf(stack) /\ doc[u][2] = ServerPort(stack, n)
    <3>1. CASE IsDaemon(stack, n)
      BY <2>11, <3>1 DEF listening
    <3>2. CASE ~IsDaemon(stack, n)
      <4> DEFINE q == OfServer(n, "port")
      <4>1. InRange(ServerPort(stack, n))
        <5>1. stack # NotLoaded
          BY <2>11, NothingLoaded
        <5> QED
          BY <1>1, <2>11, <5>1 DEF Validated, Valid, ServersValid
      <4>2. q \in DOMAIN VisionNodes(stack) /\ VisionNodes(stack)[q][2] = ServerPort(stack, n)
        BY <2>4, <2>11, <3>2, <4>1, ServerListed DEF Served
      <4>3. Len(q) = 4 /\ q[4] = "port"
        BY FourPath DEF OfServer
      <4> HIDE DEF q
      <4> QED
        BY <2>9, <2>11, <4>2, <4>3
    <3> QED
      BY <3>1, <3>2
  <2> QED
    BY <2>8, <2>10, <2>11
<1>2. ConfigInv /\ PortsInv /\ Validated => EndpointsServed
  BY <1>1 DEF EndpointsServed
<1> QED
  BY <1>2, AlwaysPorts, OnlyValidStacks, PTL
--------------------------------------------------------------------------------
(* What a target leaves of the arrays. *)

\* KeepsEntries, of any two documents.
KeepsIn(t, d, e, p) ==
    LET entries == Items(Only(d, {p}), p)
        Mine(s) == /\ s \notin StaleWorktrees
                   /\ \A a \in Range(Arrays(t)[p]) : CanonicalPath(a) # CanonicalPath(s)
    IN  \A i \in DOMAIN entries :
          d[p][2][i][1] = "string" /\ Mine(entries[i])
            => <<"string", entries[i]>> \in Range(e[p][2])

\* An array of the document that a target leaves as it was, that the stack
\* declares, or of which the target takes its own entries alone.
EntriesSurvive(t, d, e, p) ==
    \/ Claimed(Declarations(t), p)
    \/ p \in DOMAIN e /\ e[p] = d[p]
    \/ Kind(d, p) = "array" /\ KeepsIn(t, d, e, p)

LEMMA OverrideLeaves ==
    ASSUME NEW d, NEW s, NEW p \in DOMAIN d, IsPath(p), \A q \in DOMAIN s : ~Related(p, q)
    PROVE  p \in DOMAIN Override(d, s) /\ Override(d, s)[p] = d[p]
<1> DEFINE below == Only(d, {r \in DOMAIN d : \A q \in DOMAIN s : ~Related(r, q)})
<1>1. p \in DOMAIN below /\ below[p] = d[p]
  BY DEF Only
<1>2. p \notin DOMAIN s
  BY PrefixSelf DEF Related
<1>3. Override(d, s) = s ++ below
  BY DEF Override
<1> HIDE DEF below
<1> QED
  BY <1>1, <1>2, <1>3, PlusStrict

\* mergeRecursive, on a key that is in no opaque table.
LEMMA MergeKeysLeave ==
    ASSUME NEW t, NEW d, NEW declared \in Declarations(t), NEW p \in DOMAIN d, IsPath(p),
           \A o \in OpaqueTables : ~IsPrefix(o, p)
    PROVE  \/ Claimed(Declarations(t), p)
           \/ p \in DOMAIN MergeKeys(d, declared) /\ MergeKeys(d, declared)[p] = d[p]
<1> DEFINE opaque == {o \in OpaqueTables : Has(declared, o)}
           kept == Only(d, {q \in DOMAIN d : ~ \E o \in opaque : IsPrefix(o, q)})
           written == Only(declared, Writes(kept, declared))
<1>1. MergeKeys(d, declared) = Override(kept, written)
  BY DEF MergeKeys
<1>2. p \in DOMAIN kept /\ kept[p] = d[p]
  <2>1. \A o \in opaque : ~IsPrefix(o, p)
    OBVIOUS
  <2> HIDE DEF opaque
  <2> QED
    BY <2>1 DEF Only
<1>3. CASE \E q \in DOMAIN written : Related(p, q)
  <2>1. PICK q \in DOMAIN written : Related(p, q)
    BY <1>3
  <2>2. q \in DOMAIN declared /\ (declared[q] = EmptyTable => Under(kept, q) \subseteq {q})
    <3> HIDE DEF kept
    <3> QED
      BY <2>1 DEF Only, Writes
  <2>3. declared[q] = EmptyTable => IsPrefix(p, q)
    <3> HIDE DEF kept
    <3>1. CASE IsPrefix(q, p)
      <4>1. IsPrefix(p, p)
        BY PrefixSelf
      <4>2. p \in Under(kept, q)
        BY <1>2, <3>1 DEF Under
      <4> QED
        BY <2>2, <4>1, <4>2
    <3>2. CASE IsPrefix(p, q)
      BY <3>2
    <3> QED
      BY <2>1, <3>1, <3>2 DEF Related
  <2> QED
    BY <2>1, <2>2, <2>3 DEF Claims, Claimed
<1>4. CASE \A q \in DOMAIN written : ~Related(p, q)
  <2> HIDE DEF kept, written
  <2> QED
    BY <1>1, <1>2, <1>4, OverrideLeaves
<1> QED
  BY <1>3, <1>4

\* The strings of an array that are neither declared nor stale are in the new one.
LEMMA EntriesStay ==
    ASSUME NEW d, HasLeaves(d), NEW a \in DOMAIN d, IsPath(a), NEW D, NEW declared \in Seq(D), NEW stale,
           MergeArrayAt(d, a, declared, stale) # Refused,
           NEW i \in DOMAIN d[a][2], d[a][2][i][1] = "string",
           NEW x, x = d[a][2][i][2], Stays(x, declared, stale)
    PROVE  /\ Kind(d, a) = "array"
           /\ <<"string", x>> \in Range(MergeArrayAt(d, a, declared, stale)[a][2])
<1> DEFINE S == {y \in Range(d[a][2]) : y[1] = "string"}
           existing == Selected(d[a][2], S)
           texts == [j \in DOMAIN existing |-> existing[j][2]]
           s == Preserved(texts, declared, stale)
           u == declared \o s
<1>1. Has(d, a)
  BY PrefixSelf DEF Has, Under
<1>2. Kind(d, a) = "array" /\ d[a][1] = "array"
  BY <1>1 DEF MergeArrayAt, Kind
<1>3. IsLeaf(d[a]) /\ d[a][2] \in Seq(Range(d[a][2]))
  BY <1>2 DEF HasLeaves, IsLeaf
<1>4. OnlyStrings(d[a])[2] = existing
  <2>1. OnlyStrings(d[a]) = Arr(existing)
    BY <1>2 DEF OnlyStrings
  <2> HIDE DEF existing
  <2> QED
    BY <2>1 DEF Arr
<1>5. MergeArrayAt(d, a, declared, stale) = Override(d, Leaf(a, Strings(u)))
  BY <1>1, <1>4 DEF MergeArrayAt, Set
<1>6. existing \in Seq(Range(d[a][2])) /\ Range(existing) = Range(d[a][2]) \cap S
  <2> HIDE DEF S
  <2> QED
    BY <1>3, SelectedType
<1>7. d[a][2][i] \in Range(existing)
  <2>1. d[a][2][i] \in Range(d[a][2])
    BY DEF Range
  <2> QED
    BY <1>6, <2>1
<1> HIDE DEF existing
<1>8. texts \in Seq(Range(texts))
  <2>1. DOMAIN existing = 1..Len(existing) /\ Len(existing) \in Nat
    BY <1>6
  <2>2. texts = [j \in 1..Len(existing) |-> texts[j]] /\ \A j \in 1..Len(existing) : texts[j] \in Range(texts)
    BY <2>1 DEF Range
  <2> HIDE DEF texts
  <2> QED
    BY <2>1, <2>2
<1>9. x \in Range(texts)
  <2>1. PICK j \in DOMAIN existing : existing[j] = d[a][2][i]
    BY <1>7 DEF Range
  <2>2. j \in DOMAIN texts /\ texts[j] = x
    BY <2>1
  <2> HIDE DEF texts
  <2> QED
    BY <2>2 DEF Range
<1> HIDE DEF texts
<1>10. s \in Seq(Range(texts)) /\ x \in Range(s)
  <2> DEFINE P == {y \in Range(texts) :
                     /\ \A j \in DOMAIN declared : CanonicalPath(declared[j]) # CanonicalPath(y)
                     /\ y \notin stale}
  <2>1. s = Selected(texts, P)
    BY DEF Preserved
  <2>2. x \in P
    BY <1>9 DEF Stays
  <2> HIDE DEF P
  <2>3. s \in Seq(Range(texts)) /\ Range(s) = Range(texts) \cap P
    BY <1>8, <2>1, SelectedType
  <2> QED
    BY <1>9, <2>2, <2>3
<1> HIDE DEF s
<1>11. /\ s \in Seq(D \cup Range(texts)) /\ declared \in Seq(D \cup Range(texts))
  <2>1. D \subseteq D \cup Range(texts) /\ Range(texts) \subseteq D \cup Range(texts)
    OBVIOUS
  <2> QED
    BY <1>10, <2>1, SeqMonotonic, Zenon
<1>12. u \in Seq(D \cup Range(texts)) /\ x \in Range(u)
  <2>1. u \in Seq(D \cup Range(texts)) /\ Range(u) = Range(declared) \cup Range(s)
    BY <1>11, ConcatProperties, RangeConcatenation
  <2> HIDE DEF u
  <2> QED
    BY <1>10, <2>1
<1> HIDE DEF u
<1>13. Strings(u)[2] = [j \in DOMAIN u |-> Str(u[j])]
  BY <1>12, StringsLeaf
<1>14. <<"string", x>> \in Range(Strings(u)[2])
  <2>1. PICK j \in DOMAIN u : u[j] = x
    BY <1>12 DEF Range
  <2> DEFINE w == Strings(u)[2]
  <2>2. j \in DOMAIN w /\ w[j] = <<"string", x>>
    BY <1>13, <2>1 DEF Str
  <2> HIDE DEF w
  <2>3. <<"string", x>> \in Range(w)
    BY <2>2 DEF Range
  <2> QED
    BY <2>3 DEF w
<1>15. Override(d, Leaf(a, Strings(u)))[a] = Strings(u)
  <2>1. Shows(Override(d, Leaf(a, Strings(u))), Leaf(a, Strings(u)))
    BY OverrideShows
  <2> QED
    BY <2>1 DEF Shows, Leaf
<1> QED
  BY <1>2, <1>5, <1>14, <1>15

LEMMA ArrayLeavesEntries ==
    ASSUME NEW t, NEW d, HasLeaves(d), NEW a \in DOMAIN d, IsPath(a),
           NEW D, NEW declared \in Seq(D), NEW stale, stale \subseteq StaleWorktrees,
           MergeArrayAt(d, a, declared, stale) # Refused, Arrays(t)[a] = declared
    PROVE  EntriesSurvive(t, d, MergeArrayAt(d, a, declared, stale), a)
<1> DEFINE e == MergeArrayAt(d, a, declared, stale)
           entries == Items(Only(d, {a}), a)
<1>1. Has(d, a) /\ Kind(d, a) = "array"
  <2>1. Has(d, a)
    BY PrefixSelf DEF Has, Under
  <2> QED
    BY <2>1 DEF MergeArrayAt
<1>2. entries = [i \in DOMAIN d[a][2] |-> d[a][2][i][2]]
  <2> DEFINE one == Only(d, {a})
  <2>1. a \in DOMAIN one /\ one[a] = d[a]
    BY DEF Only
  <2> HIDE DEF one
  <2>2. Items(one, a) = [i \in DOMAIN d[a][2] |-> d[a][2][i][2]]
    BY <1>1, <2>1 DEF Items, Kind
  <2> QED
    BY <2>2 DEF one
<1> HIDE DEF entries, e
<1>3. ASSUME NEW i \in DOMAIN entries, d[a][2][i][1] = "string", entries[i] \notin StaleWorktrees,
             \A x \in Range(declared) : CanonicalPath(x) # CanonicalPath(entries[i])
      PROVE  <<"string", entries[i]>> \in Range(e[a][2])
  <2>1. i \in DOMAIN d[a][2] /\ entries[i] = d[a][2][i][2]
    BY <1>2
  <2>2. Stays(entries[i], declared, stale)
    BY <1>3 DEF Stays, Range
  <2> QED
    BY <1>3, <2>1, <2>2, EntriesStay DEF e
<1> QED
  BY <1>1, <1>3 DEF EntriesSurvive, KeepsIn, e, entries

LEMMA ArraysAre ==
    ASSUME NEW t
    PROVE  /\ Arrays(t)[<<"plugin">>] = DeclaredPlugins(t)
           /\ Arrays(t)[<<"instructions">>] = DeclaredInstructions(t)
           /\ Arrays(t)[<<"watcher", "ignore">>] = Items(t, <<"watcher", "ignore">>)
<1> DEFINE p == <<"plugin">>
           q == <<"instructions">>
           r == <<"watcher", "ignore">>
<1>1. p # q /\ p # r /\ q # r
  <2>1. p[1] = "plugin" /\ q[1] = "instructions" /\ r[1] = "watcher"
    BY OnePath, TwoPath
  <2> QED
    BY <2>1
<1> DEFINE f == Leaf(p, DeclaredPlugins(t))
           g == Leaf(q, DeclaredInstructions(t))
           h == Leaf(r, Items(t, r))
<1>2. /\ DOMAIN f = {p} /\ f[p] = DeclaredPlugins(t)
      /\ DOMAIN g = {q} /\ g[q] = DeclaredInstructions(t)
      /\ DOMAIN h = {r} /\ h[r] = Items(t, r)
  BY DEF Leaf
<1>3. Arrays(t) = (f ++ g) ++ h
  BY DEF Arrays
<1> HIDE DEF f, g, h
<1> HIDE DEF p, q, r
<1>4. (f ++ g)[p] = DeclaredPlugins(t) /\ (f ++ g)[q] = DeclaredInstructions(t)
      /\ DOMAIN (f ++ g) = {p, q}
  BY <1>1, <1>2 DEF ++
<1> DEFINE k == f ++ g
<1>5. k[p] = DeclaredPlugins(t) /\ k[q] = DeclaredInstructions(t) /\ DOMAIN k = {p, q}
  BY <1>4
<1> HIDE DEF k
<1>6. (k ++ h)[p] = DeclaredPlugins(t) /\ (k ++ h)[q] = DeclaredInstructions(t)
      /\ (k ++ h)[r] = Items(t, r)
  BY <1>1, <1>2, <1>5 DEF ++
<1> QED
  BY <1>3, <1>6 DEF k, p, q, r

\* Every target leaves the arrays that are not its own, or that the stack
\* declares, and its own but for what is declared or stale.
LEMMA TargetLeavesEntries ==
    ASSUME NEW t, IsStack(t), NEW d, GoodDoc(d), NEW target \in DocumentTargets,
           NextDoc(target, t, d) # Refused, NEW p \in DOMAIN Arrays(t), p \in DOMAIN d
    PROVE  EntriesSurvive(t, d, NextDoc(target, t, d), p)
<1> DEFINE e == NextDoc(target, t, d)
<1> SUFFICES EntriesSurvive(t, d, e, p)
  OBVIOUS
<1>1. p \in {<<"plugin">>, <<"instructions">>, <<"watcher", "ignore">>}
  BY ArrayKeys
<1>2. IsPath(p) /\ p # << >> /\ p[1] \in {"plugin", "instructions", "watcher"}
  BY <1>1, OnePath, TwoPath
<1>3. PICK i \in 1..11 : target = AllTargets[i]
  BY WholeTargets DEF DocumentTargets, Range
<1>4. \A tops : Tops(target, t) \cap tops = {} => Same(d, e, tops)
  BY <1>3, TargetElsewhere
<1>5. ASSUME p[1] \notin Tops(target, t)
      PROVE  EntriesSurvive(t, d, e, p)
  <2>1. Same(d, e, {p[1]})
    BY <1>4, <1>5
  <2>2. InTops(p, {p[1]})
    BY <1>2 DEF InTops
  <2> HIDE DEF e
  <2> QED
    BY <2>1, <2>2 DEF Same, EntriesSurvive
<1>6. e # Refused /\ HasLeaves(d) /\ HasLeaves(t)
  BY DEF GoodDoc, IsStack
<1>7. target \in {"mcp", "skills"} \cup ArrayTargets \cup KeyedTargets
  BY <1>3, TargetKinds
<1>8. CASE target \in {"mcp", "skills"}
  <2>1. Tops(target, t) \subseteq {"mcp"}
    BY <1>8 DEF Tops
  <2> QED
    BY <1>2, <1>5, <2>1
<1>9. CASE target = "plugins"
  <2>1. CASE p # <<"plugin">>
    <3>1. Tops(target, t) = {"plugin"}
      BY <1>9 DEF Tops
    <3>2. p[1] # "plugin"
      BY <1>1, <2>1, OnePath, TwoPath
    <3> QED
      BY <1>5, <3>1, <3>2
  <2>2. CASE p = <<"plugin">>
    <3>1. e = MergeArrayAt(d, p, DeclaredPlugins(t), StaleWorktrees)
      BY <1>9, <2>2 DEF NextDoc
    <3>2. PICK D : DeclaredPlugins(t) \in Seq(D)
      BY PluginsDeclared
    <3>3. Arrays(t)[p] = DeclaredPlugins(t)
      BY <2>2, ArraysAre
    <3> HIDE DEF e
    <3>4. StaleWorktrees \subseteq StaleWorktrees
      OBVIOUS
    <3>5. MergeArrayAt(d, p, DeclaredPlugins(t), StaleWorktrees) # Refused
      BY <1>6, <3>1
    <3>6. EntriesSurvive(t, d, MergeArrayAt(d, p, DeclaredPlugins(t), StaleWorktrees), p)
      BY <1>2, <1>6, <3>2, <3>3, <3>4, <3>5, ArrayLeavesEntries
    <3> QED
      BY <3>1, <3>6
  <2> QED
    BY <2>1, <2>2
<1>10. CASE target = "instructions"
  <2>1. CASE p # <<"instructions">>
    <3>1. Tops(target, t) = {"instructions"}
      BY <1>10 DEF Tops
    <3>2. p[1] # "instructions"
      BY <1>1, <2>1, OnePath, TwoPath
    <3> QED
      BY <1>5, <3>1, <3>2
  <2>2. CASE p = <<"instructions">>
    <3>1. e = MergeArrayAt(d, p, DeclaredInstructions(t), {})
      BY <1>10, <2>2 DEF NextDoc
    <3>2. PICK D : DeclaredInstructions(t) \in Seq(D)
      BY <1>6, InstructionsDeclared
    <3>3. Arrays(t)[p] = DeclaredInstructions(t)
      BY <2>2, ArraysAre
    <3>4. {} \subseteq StaleWorktrees
      OBVIOUS
    <3> HIDE DEF e
    <3>5. MergeArrayAt(d, p, DeclaredInstructions(t), {}) # Refused
      BY <1>6, <3>1
    <3>6. EntriesSurvive(t, d, MergeArrayAt(d, p, DeclaredInstructions(t), {}), p)
      BY <1>2, <1>6, <3>2, <3>3, <3>4, <3>5, ArrayLeavesEntries
    <3> QED
      BY <3>1, <3>6
  <2> QED
    BY <2>1, <2>2
<1>11. CASE target = "watcher"
  <2>1. CASE p # <<"watcher", "ignore">>
    <3>1. Tops(target, t) = {"watcher"}
      BY <1>11 DEF Tops
    <3>2. p[1] # "watcher"
      BY <1>1, <2>1, OnePath, TwoPath
    <3> QED
      BY <1>5, <3>1, <3>2
  <2>2. CASE p = <<"watcher", "ignore">>
    <3> DEFINE declared == Items(t, <<"watcher", "ignore">>)
    <3>1. e = MergeWatcherIgnore(d, declared)
      BY <1>11 DEF NextDoc
    <3>2. e = MergeArrayAt(d, p, declared, {})
      BY <1>6, <2>2, <3>1 DEF MergeWatcherIgnore
    <3>3. PICK D : declared \in Seq(D)
      BY <1>6, ItemsPath DEF IsPath
    <3>4. Arrays(t)[p] = declared
      BY <2>2, ArraysAre
    <3>5. {} \subseteq StaleWorktrees
      OBVIOUS
    <3> HIDE DEF e, declared
    <3>6. MergeArrayAt(d, p, declared, {}) # Refused
      BY <1>6, <3>2
    <3>7. EntriesSurvive(t, d, MergeArrayAt(d, p, declared, {}), p)
      BY <1>2, <1>6, <3>3, <3>4, <3>5, <3>6, ArrayLeavesEntries
    <3> QED
      BY <3>2, <3>7
  <2> QED
    BY <2>1, <2>2
<1>12. CASE target \in KeyedTargets
  <2> DEFINE declared == Translated(t, Sections[target])
  <2>1. e = d \/ e = MergeObject(d, declared)
    BY <1>12, KeyedIs
  <2>2. e = d \/ e = MergeKeys(d, declared)
    BY <1>6, <2>1 DEF MergeObject
  <2>3. declared \in Declarations(t)
    BY <1>12 DEF Declarations, KeyedTargets
  <2>4. \A o \in OpaqueTables : ~IsPrefix(o, p)
    <3>1. ASSUME NEW o \in OpaqueTables, IsPrefix(o, p)
          PROVE  FALSE
      <4>1. IsPath(o) /\ Len(o) = 2 /\ o[1] = "permission"
        BY TwoPath DEF OpaqueTables
      <4>2. 1 \in 1..2
        OBVIOUS
      <4>3. o[1] = p[1]
        <5>1. Len(o) <= Len(p) /\ \A j \in 1..Len(o) : o[j] = p[j]
          BY <1>2, <3>1, <4>1, PrefixAt
        <5> QED
          BY <4>1, <4>2, <5>1
      <4> QED
        BY <1>2, <4>1, <4>3
    <3> QED
      BY <3>1
  <2> HIDE DEF e, declared
  <2> QED
    <3>1. \/ Claimed(Declarations(t), p)
          \/ p \in DOMAIN MergeKeys(d, declared) /\ MergeKeys(d, declared)[p] = d[p]
      BY <1>2, <2>3, <2>4, MergeKeysLeave
    <3> QED
      BY <2>2, <3>1 DEF EntriesSurvive
<1> QED
  BY <1>7, <1>8, <1>9, <1>10, <1>11, <1>12 DEF ArrayTargets

\* Of the plugins, the instructions and the ignored files an apply takes only
\* what is declared or stale, whatever documents users write.
THEOREM UsersKeepTheirEntries == Spec => UserEntriesSurvive
<1>1. Init => edits \in Nat
  BY DEF Init
<1>2. edits \in Nat /\ [Next]_vars => (edits \in Nat)'
  BY DocumentSteps
<1>3. ASSUME ConfigInv, edits \in Nat, [Next]_vars, edits' = edits, doc' # doc,
             NEW p \in DOMAIN Arrays(stack) \cap DOMAIN doc
      PROVE  EntriesSurvive(stack, doc, doc', p)
  <2>1. doc' = Next1 /\ Next1 # Refused /\ Target \in DocumentTargets \cup {"mcp"}
    BY <1>3, DocumentSteps
  <2>2. "mcp" \in DocumentTargets
    BY DEF DocumentTargets, AllTargets, Range
  <2>3. IsStack(stack) /\ GoodDoc(doc)
    BY <1>3 DEF ConfigInv, FilesInv
  <2> QED
    BY <2>1, <2>2, <2>3, TargetLeavesEntries DEF Next1
<1>4. ConfigInv /\ edits \in Nat /\ [Next]_vars
        => (edits' = edits /\ doc' # doc =>
             LET declarations == Declarations(stack) IN
             \A p \in DOMAIN Arrays(stack) \cap DOMAIN doc :
               \/ Claimed(declarations, p) \/ Kind(doc, p) = "table"
               \/ p \in DOMAIN doc' /\ doc'[p] = doc[p]
               \/ Kind(doc, p) = "array" /\ KeepsEntries(stack, p))
  BY <1>3 DEF EntriesSurvive, KeepsIn, KeepsEntries
<1> QED
  BY <1>1, <1>2, <1>4, AlwaysConfigInv, PTL DEF Spec, UserEntriesSurvive
--------------------------------------------------------------------------------
(* Keys that OCA does not know. *)

\* A plan that is not refused is a document in which every target is done.
LEMMA ComposedSettled ==
    ASSUME NEW t, IsStack(t), OwnKeys(t), NEW d, GoodDoc(d), Composed(t, d, AllTargets) # Refused
    PROVE  SettledBefore(12, t, Composed(t, d, AllTargets))
<1> DEFINE c(i) == Composed(t, d, Before(i))
           N == {n \in Nat : n + 1 <= 12 /\ c(n + 1) # Refused
                               => GoodDoc(c(n + 1)) /\ SettledBefore(n + 1, t, c(n + 1))}
<1>1. 0 \in N
  <2>1. 0 + 1 = 1 /\ 0 \in Nat
    OBVIOUS
  <2>2. c(1) = d
    BY ComposedStart
  <2> QED
    BY <2>1, <2>2, NothingSettled
<1>2. ASSUME NEW n \in Nat, n \in N PROVE n + 1 \in N
  <2> DEFINE i == n + 1
             e == c(i)
  <2> SUFFICES ASSUME n + 2 <= 12, c(n + 2) # Refused
               PROVE  GoodDoc(c(n + 2)) /\ SettledBefore(n + 2, t, c(n + 2))
    <3>1. (n + 1) + 1 = n + 2 /\ n + 1 \in Nat
      OBVIOUS
    <3> HIDE DEF c
    <3> QED
      BY <3>1
  <2>1. i \in 1..11 /\ i + 1 = n + 2 /\ n + 1 <= 12
    OBVIOUS
  <2>2. c(i + 1) = StepDoc(t, AllTargets[i], e)
    BY <2>1, ComposedNext
  <2> HIDE DEF c
  <2>3. e # Refused /\ c(n + 2) = NextDoc(AllTargets[i], t, e)
    BY <2>1, <2>2 DEF StepDoc
  <2>4. GoodDoc(e) /\ SettledBefore(i, t, e)
    BY <1>2, <2>1, <2>3
  <2> HIDE DEF e, i
  <2>5. NextDoc(AllTargets[i], t, e) # Refused
    BY <2>3
  <2>6. GoodDoc(NextDoc(AllTargets[i], t, e))
    BY <2>1, <2>4, <2>5, TargetElsewhere
  <2>7. SettledBefore(i + 1, t, NextDoc(AllTargets[i], t, e))
    BY <2>1, <2>4, <2>5, NextSettled
  <2> QED
    BY <2>1, <2>3, <2>6, <2>7
<1> HIDE DEF N, c
<1>3. \A n \in Nat : n \in N
  BY <1>1, <1>2, NatSetInduction
<1>4. 11 \in Nat /\ 11 + 1 = 12 /\ 12 <= 12
  OBVIOUS
<1>5. c(12) = Composed(t, d, AllTargets)
  <2>1. 1 \in 1..11
    OBVIOUS
  <2> QED
    BY <2>1, ComposedNext DEF c
<1> QED
  BY <1>3, <1>4, <1>5 DEF N

\* The keys that a table may have, in the sections that pass others on.
LEMMA KnownKeys ==
    /\ DOMAIN LSP.lenient = {"command", "extensions", "disabled"}
    /\ DOMAIN Formatter.lenient = {"command", "extensions", "disabled"}
    /\ DOMAIN Command.lenient = {"description", "template", "agent", "model", "subtask"}
    /\ DOMAIN OpenCode.lenient = {"theme", "default_agent", "share", "snapshot", "autoupdate"}
    /\ DOMAIN OpenCode.strict = {"compaction", "disabled_providers", "enabled_providers"}
    /\ DOMAIN Permissions.strict = {"default", "doom_loop", "external_directory", "bash"}
    /\ DOMAIN Permissions.lenient = {}
    /\ DOMAIN Provider.strict = {"models", "options", "variants"} /\ DOMAIN Provider.lenient = {}
    /\ DOMAIN ProviderModel.lenient = {"context", "output", "inputs", "outputs", "name"}
    /\ DOMAIN ProviderModel.strict = {"options", "variants"}
<1>1. DOMAIN NoKeys = {} /\ \A A, x : DOMAIN Of(A, x) = A
  BY DEF NoKeys, Of
<1>2. LSP.lenient = Of({"command", "extensions"}, "strings") ++ Of({"disabled"}, "bool")
  BY DEF LSP, Table
<1>3. Formatter.lenient = Of({"command", "extensions"}, "strings") ++ Of({"disabled"}, "bool")
  BY DEF Formatter, Table
<1>4. Command.lenient = Of({"description", "template", "agent", "model"}, "string")
                        ++ Of({"subtask"}, "bool")
  BY DEF Command, Table
<1>5. /\ OpenCode.lenient = (Of({"theme", "default_agent", "share"}, "string")
                             ++ Of({"snapshot"}, "bool")) ++ Of({"autoupdate"}, "bool or string")
      /\ OpenCode.strict = Of({"compaction", "disabled_providers", "enabled_providers"}, "table")
  BY DEF OpenCode, Table
<1>6. /\ Permissions.strict = Of({"default", "doom_loop"}, "string")
                              ++ Of({"external_directory", "bash"}, "strings table")
      /\ Permissions.lenient = NoKeys
  BY DEF Permissions, Table
<1>7. Provider.strict = Of({"models", "options", "variants"}, "table") /\ Provider.lenient = NoKeys
  BY DEF Provider, Table
<1>8. /\ ProviderModel.lenient = (Of({"context", "output"}, "int")
                                  ++ Of({"inputs", "outputs"}, "strings")) ++ Of({"name"}, "string")
      /\ ProviderModel.strict = Of({"options", "variants"}, "table")
  BY DEF ProviderModel, Table
<1>12. DOMAIN OpenCode.lenient
         = ({"theme", "default_agent", "share"} \cup {"snapshot"}) \cup {"autoupdate"}
  BY <1>5 DEF Of, ++
<1>13. DOMAIN ProviderModel.lenient = ({"context", "output"} \cup {"inputs", "outputs"}) \cup {"name"}
  BY <1>8 DEF Of, ++
<1>14. DOMAIN Command.lenient = {"description", "template", "agent", "model"} \cup {"subtask"}
  BY <1>4 DEF Of, ++
<1>15. DOMAIN Permissions.strict = {"default", "doom_loop"} \cup {"external_directory", "bash"}
  BY <1>6 DEF Of, ++
<1>16. /\ DOMAIN LSP.lenient = {"command", "extensions"} \cup {"disabled"}
       /\ DOMAIN Formatter.lenient = {"command", "extensions"} \cup {"disabled"}
  BY <1>2, <1>3 DEF Of, ++
<1>11. /\ DOMAIN OpenCode.strict = {"compaction", "disabled_providers", "enabled_providers"}
       /\ DOMAIN Provider.strict = {"models", "options", "variants"} /\ DOMAIN Provider.lenient = {}
       /\ DOMAIN ProviderModel.strict = {"options", "variants"} /\ DOMAIN Permissions.lenient = {}
  BY <1>1, <1>5, <1>6, <1>7, <1>8
<1> QED
  BY <1>11, <1>12, <1>13, <1>14, <1>15, <1>16

LEMMA PassingTables ==
    /\ LSP.other = "extra" /\ Formatter.other = "extra" /\ Command.other = "extra"
    /\ OpenCode.other = "extra" /\ Permissions.other = "extra" /\ Provider.other = "extra"
    /\ ProviderModel.other = "extra"
  BY DEF LSP, Formatter, Command, OpenCode, Permissions, Provider, ProviderModel, Table

\* What unknown keys there are, in words that the provers find easy.
UnknownKey(p) ==
    \/ Len(p) >= 2 /\ p[1] = "permissions"
       /\ p[2] \notin {"default", "doom_loop", "external_directory", "bash"}
    \/ Len(p) >= 2 /\ p[1] = "opencode"
       /\ p[2] \notin {"compaction", "disabled_providers", "enabled_providers",
                       "theme", "default_agent", "share", "snapshot", "autoupdate"}
    \/ Len(p) >= 3 /\ p[1] = "lsp" /\ p[3] \notin {"command", "extensions", "disabled"}
    \/ Len(p) >= 3 /\ p[1] = "formatters"
       /\ p[3] \notin {"command", "extensions", "disabled", "environment"}
    \/ Len(p) >= 3 /\ p[1] = "commands"
       /\ p[3] \notin {"description", "template", "agent", "model", "subtask"}
    \/ Len(p) >= 3 /\ p[1] = "providers" /\ p[3] \notin {"models", "options", "variants"}
    \/ Len(p) >= 5 /\ p[1] = "providers" /\ p[3] = "models"
       /\ p[5] \notin {"context", "output", "inputs", "outputs", "name", "options", "variants"}

LEMMA UnknownIs ==
    ASSUME NEW p, IsPath(p), Unknown(p) PROVE UnknownKey(p)
<1>1. Len(p) \in Nat
  BY PathLen
<1>2. Len(p) >= 2
  BY DEF Unknown
<1>3. CASE p[1] = "permissions"
  BY <1>1, <1>2, <1>3, KnownKeys DEF Unknown, UnknownKey
<1>4. CASE p[1] = "opencode"
  BY <1>1, <1>2, <1>4, KnownKeys DEF Unknown, UnknownKey
<1>5. CASE p[1] = "lsp"
  BY <1>1, <1>2, <1>5, KnownKeys DEF Unknown, UnknownKey
<1>6. CASE p[1] = "formatters"
  BY <1>1, <1>2, <1>6, KnownKeys DEF Unknown, UnknownKey
<1>7. CASE p[1] = "commands"
  BY <1>1, <1>2, <1>7, KnownKeys DEF Unknown, UnknownKey
<1>8. CASE p[1] = "providers"
  BY <1>1, <1>2, <1>8, KnownKeys DEF Unknown, UnknownKey
<1>9. CASE p[1] \notin {"permissions", "opencode", "lsp", "formatters", "commands", "providers"}
  BY <1>1, <1>2, <1>9 DEF Unknown
<1> QED
  BY <1>3, <1>4, <1>5, <1>6, <1>7, <1>8, <1>9
\* What a path has in common with the table that it is in.
LEMMA BelowPath ==
    ASSUME NEW q, IsPath(q), NEW p, IsPath(p), IsStrictPrefix(q, p)
    PROVE  Len(q) \in Nat /\ Len(p) \in Nat /\ Len(q) < Len(p) /\ \A i \in 1..Len(q) : p[i] = q[i]
<1>1. Len(q) \in Nat /\ Len(p) \in Nat
  BY PathLen
<1>2. IsPrefix(q, p) /\ q # p
  BY DEF IsStrictPrefix
<1>3. Len(q) <= Len(p) /\ \A i \in 1..Len(q) : p[i] = q[i]
  BY <1>2, PrefixAt
<1>4. ~(Len(p) <= Len(q))
  BY <1>2, PrefixOfLength
<1> QED
  BY <1>1, <1>3, <1>4

LEMMA BelowEntry ==
    ASSUME NEW r, IsPath(r), NEW k, NEW p, IsPath(p), IsStrictPrefix(r \o <<k>>, p)
    PROVE  /\ Len(r \o <<k>>) = Len(r) + 1 /\ Len(r) \in Nat /\ Len(p) \in Nat /\ Len(r) + 1 < Len(p)
           /\ p[Len(r) + 1] = k /\ \A i \in 1..Len(r) : p[i] = r[i]
<1> DEFINE q == r \o <<k>>
<1>1. /\ IsPath(q) /\ Len(q) = Len(r) + 1 /\ \A i \in 1..Len(r) : q[i] = r[i]
      /\ q[Len(r) + 1] = k
  BY AddPath
<1>2. IsStrictPrefix(q, p)
  OBVIOUS
<1> HIDE DEF q
<1>3. Len(q) \in Nat /\ Len(p) \in Nat /\ Len(q) < Len(p) /\ \A i \in 1..Len(q) : p[i] = q[i]
  BY <1>1, <1>2, BelowPath
<1>4. Len(r) \in Nat
  BY PathLen
<1>5. Len(q) = Len(r) + 1 /\ Len(r) + 1 < Len(p)
  BY <1>1, <1>3
<1>6. p[Len(r) + 1] = k /\ \A i \in 1..Len(r) : p[i] = r[i]
  BY <1>1, <1>3, <1>4
<1> QED
  BY <1>3, <1>4, <1>5, <1>6 DEF q

\* The table of a key that OCA does not know passes it on.
Passes(x, p) ==
    x[2].other = "extra" /\ p[Len(x[1]) + 1] \notin DOMAIN x[2].lenient

LEMMA UnknownTops ==
    ASSUME NEW p, UnknownKey(p)
    PROVE  p[1] \in {"permissions", "opencode", "lsp", "formatters", "commands", "providers"}
  BY DEF UnknownKey

LEMMA UnknownEntry ==
    ASSUME NEW t, NEW r, IsPath(r), NEW as, NEW x \in EachOf(t, r, as),
           NEW p, IsPath(p), UnknownKey(p), IsStrictPrefix(x[1], p),
           \/ Len(r) = 1 /\ r[1] \in DOMAIN Named /\ as = Named[r[1]]
           \/ Len(r) = 3 /\ r[1] = "providers" /\ r[3] = "models" /\ as = ProviderModel
    PROVE  Passes(x, p)
<1>1. PICK k : x = <<r \o <<k>>, as>>
  BY DEF EachOf
<1>2. /\ Len(r \o <<k>>) = Len(r) + 1 /\ Len(r) \in Nat /\ Len(p) \in Nat /\ Len(r) + 1 < Len(p)
      /\ p[Len(r) + 1] = k /\ \A i \in 1..Len(r) : p[i] = r[i]
  BY <1>1, BelowEntry
<1>3. Len(x[1]) = Len(r) + 1 /\ x[2] = as
  BY <1>1, <1>2
<1>4. CASE Len(r) = 1 /\ r[1] \in DOMAIN Named /\ as = Named[r[1]]
  <2>1. p[1] = r[1] /\ Len(p) >= 3 /\ Len(x[1]) + 1 = 3
    BY <1>2, <1>3, <1>4
  <2>2. p[1] \in {"lsp", "formatters", "commands", "providers"}
    <3>1. "permissions" \notin DOMAIN Named /\ "opencode" \notin DOMAIN Named
      BY DEF Named
    <3> QED
      BY <1>4, <2>1, <3>1, UnknownTops
  <2>3. /\ Named["lsp"] = LSP /\ Named["formatters"] = Formatter
        /\ Named["commands"] = Command /\ Named["providers"] = Provider
    BY DEF Named
  <2>4. CASE p[1] = "lsp"
    BY <1>3, <1>4, <2>1, <2>3, <2>4, KnownKeys, PassingTables DEF UnknownKey, Passes
  <2>5. CASE p[1] = "formatters"
    BY <1>3, <1>4, <2>1, <2>3, <2>5, KnownKeys, PassingTables DEF UnknownKey, Passes
  <2>6. CASE p[1] = "commands"
    BY <1>3, <1>4, <2>1, <2>3, <2>6, KnownKeys, PassingTables DEF UnknownKey, Passes
  <2>7. CASE p[1] = "providers"
    BY <1>3, <1>4, <2>1, <2>3, <2>7, KnownKeys, PassingTables DEF UnknownKey, Passes
  <2> QED
    BY <2>2, <2>4, <2>5, <2>6, <2>7
<1>5. CASE Len(r) = 3 /\ r[1] = "providers" /\ r[3] = "models" /\ as = ProviderModel
  <2>1. p[1] = "providers" /\ p[3] = "models" /\ Len(p) >= 5 /\ Len(x[1]) + 1 = 5
    BY <1>2, <1>3, <1>5
  <2>2. p[5] \notin {"context", "output", "inputs", "outputs", "name", "options", "variants"}
    BY <2>1 DEF UnknownKey
  <2> QED
    BY <1>3, <1>5, <2>1, <2>2, KnownKeys, PassingTables DEF Passes
<1> QED
  BY <1>4, <1>5
LEMMA UnknownTable ==
    ASSUME NEW t, NEW x \in TablesOf(t), NEW p, IsPath(p), UnknownKey(p), IsStrictPrefix(x[1], p)
    PROVE  Passes(x, p)
<1>1. p[1] \in {"permissions", "opencode", "lsp", "formatters", "commands", "providers"}
  BY UnknownTops
<1>2. ASSUME NEW r, IsPath(r), r # << >>, NEW k, x[1] = r \o <<k>>
      PROVE  p[1] = r[1] /\ p[Len(r) + 1] = k
  <2>1. /\ Len(r) \in Nat /\ p[Len(r) + 1] = k /\ \A i \in 1..Len(r) : p[i] = r[i]
    BY <1>2, BelowEntry
  <2>2. 1 \in 1..Len(r)
    BY <1>2, PathLen
  <2> QED
    BY <2>1, <2>2
<1>3. CASE x \in {<<<<s>>, Single[s]>> : s \in DOMAIN Single \cap Keys(t, << >>)}
  <2>1. PICK s \in DOMAIN Single : x = <<<<s>>, Single[s]>>
    BY <1>3
  <2>2. IsPath(<<s>>) /\ Len(<<s>>) = 1 /\ <<s>>[1] = s
    BY OnePath
  <2>3. x[1] = <<s>> /\ x[2] = Single[s]
    BY <2>1
  <2>4. Len(x[1]) = 1 /\ x[1][1] = s /\ IsPath(x[1])
    BY <2>2, <2>3
  <2>5. Len(p) \in Nat /\ 1 < Len(p) /\ p[1] = s
    BY <2>4, BelowPath
  <2>6. p[1] \in {"permissions", "opencode"}
    <3>1. /\ "lsp" \notin DOMAIN Single /\ "formatters" \notin DOMAIN Single
          /\ "commands" \notin DOMAIN Single /\ "providers" \notin DOMAIN Single
      BY DEF Single
    <3> QED
      BY <1>1, <2>1, <2>5, <3>1
  <2>7. Single["permissions"] = Permissions /\ Single["opencode"] = OpenCode
    BY DEF Single
  <2>8. Len(x[1]) + 1 = 2
    BY <2>4
  <2>9. CASE p[1] = "permissions"
    BY <2>3, <2>5, <2>7, <2>8, <2>9, KnownKeys, PassingTables DEF Passes
  <2>10. CASE p[1] = "opencode"
    BY <2>3, <2>5, <2>7, <2>8, <2>10, KnownKeys, PassingTables DEF Passes, UnknownKey
  <2> QED
    BY <2>6, <2>9, <2>10
<1>4. CASE x \in UNION {EachOf(t, <<s>>, Named[s]) : s \in DOMAIN Named}
  <2>1. PICK s \in DOMAIN Named : x \in EachOf(t, <<s>>, Named[s])
    BY <1>4
  <2> DEFINE r == <<s>>
  <2>2. IsPath(r) /\ Len(r) = 1 /\ r[1] = s
    BY OnePath
  <2>3. x \in EachOf(t, r, Named[s])
    BY <2>1
  <2> HIDE DEF r
  <2> QED
    BY <2>2, <2>3, UnknownEntry
<1>5. CASE x \in UNION {EachOf(t, <<"providers", n, "models">>, ProviderModel) :
                          n \in Tables(t, <<"providers">>)}
  <2>1. PICK n : x \in EachOf(t, <<"providers", n, "models">>, ProviderModel)
    BY <1>5
  <2> DEFINE r == <<"providers", n, "models">>
  <2>2. IsPath(r) /\ Len(r) = 3 /\ r[1] = "providers" /\ r[3] = "models"
    BY ThreePath
  <2>3. x \in EachOf(t, r, ProviderModel)
    BY <2>1
  <2> HIDE DEF r
  <2> QED
    BY <2>2, <2>3, UnknownEntry
<1>6. CASE \/ x \in EachOf(t, <<"mcp", "servers">>, Server)
           \/ x \in EachOf(t, <<"mcp", "slot_groups">>, SlotGroup)
           \/ x \in EachOf(t, <<"mcp", "tool_suites">>, ToolSuite)
  <2>1. ASSUME NEW m, NEW as, x \in EachOf(t, <<"mcp", m>>, as) PROVE p[1] = "mcp"
    <3> DEFINE r == <<"mcp", m>>
    <3>1. PICK k : x = <<r \o <<k>>, as>>
      BY <2>1 DEF EachOf
    <3>2. IsPath(r) /\ r # << >> /\ r[1] = "mcp"
      BY TwoPath
    <3> HIDE DEF r
    <3>3. x[1] = r \o <<k>>
      BY <3>1
    <3> QED
      BY <1>2, <3>2, <3>3
  <2>2. p[1] = "mcp"
    BY <1>6, <2>1
  <2> QED
    BY <1>1, <2>2
<1>7. CASE x \in {<<<<"mcp", "slot_groups", g, "defaults">>, Server>> :
                    g \in {g \in Tables(t, <<"mcp", "slot_groups">>) :
                             Has(t, <<"mcp", "slot_groups", g, "defaults">>)}}
  <2>0. PICK g : x = <<<<"mcp", "slot_groups", g, "defaults">>, Server>>
    BY <1>7
  <2>1. x[1] = <<"mcp", "slot_groups", g, "defaults">>
    BY <2>0
  <2>2. IsPath(x[1]) /\ Len(x[1]) = 4 /\ x[1][1] = "mcp"
    BY <2>1, FourPath
  <2>3. 1 \in 1..Len(x[1])
    BY <2>2
  <2>4. p[1] = "mcp"
    BY <2>2, <2>3, BelowPath
  <2> QED
    BY <1>1, <2>4
<1>8. CASE \/ x \in Within(t, <<"opencode">>, {"disabled_providers", "enabled_providers"}, ProviderList)
           \/ x \in Within(t, <<"opencode">>, {"compaction"}, Compaction)
  <2> DEFINE r == <<"opencode">>
  <2>1. PICK k \in {"compaction", "disabled_providers", "enabled_providers"} :
          \E as : x = <<r \o <<k>>, as>>
    BY <1>8 DEF Within
  <2>2. IsPath(r) /\ r # << >> /\ Len(r) = 1 /\ r[1] = "opencode" /\ Len(r) + 1 = 2
    BY OnePath
  <2>3. x[1] = r \o <<k>>
    BY <2>1
  <2> HIDE DEF r
  <2>4. p[1] = "opencode" /\ p[2] = k
    BY <1>2, <2>2, <2>3
  <2> QED
    BY <2>1, <2>4 DEF UnknownKey
<1>9. CASE x \in Within(t, <<"session">>, {"watchdog"}, Watchdog)
  <2> DEFINE r == <<"session">>
  <2>1. PICK k : x = <<r \o <<k>>, Watchdog>>
    BY <1>9 DEF Within
  <2>2. IsPath(r) /\ r # << >> /\ r[1] = "session"
    BY OnePath
  <2> HIDE DEF r
  <2>3. x[1] = r \o <<k>>
    BY <2>1
  <2>4. p[1] = "session"
    BY <1>2, <2>2, <2>3
  <2> QED
    BY <1>1, <2>4
<1> QED
  BY <1>3, <1>4, <1>5, <1>6, <1>7, <1>8, <1>9 DEF TablesOf

LEMMA UnknownParsed ==
    ASSUME NEW t, ~ParseFails(t), NEW p \in DOMAIN t, IsPath(p), UnknownKey(p)
    PROVE  p \in DOMAIN Parsed(t) /\ Parsed(t)[p] = t[p]
<1>1. ASSUME NEW x \in TablesOf(t), IsStrictPrefix(x[1], p) PROVE Passes(x, p)
  BY <1>1, UnknownTable
<1>2. ~PassedOver(t, p)
  <2>1. ~(p[1] \in DOMAIN Named /\ Len(p) \in {1, 2})
    <3>1. "permissions" \notin DOMAIN Named /\ "opencode" \notin DOMAIN Named
      BY DEF Named
    <3> QED
      BY <3>1 DEF UnknownKey
  <2>2. ~(p[1] = "formatters" /\ p[3] = "environment")
    BY DEF UnknownKey
  <2> QED
    BY <2>1, <2>2 DEF PassedOver
<1>3. Keeps(t, p)
  BY <1>1, <1>2 DEF Keeps, Passes, Takes
<1>4. p \in Kept(t)
  BY <1>3 DEF Kept
<1>5. ~ \E x \in {x \in TablesOf(t) : IsStrictPrefix(x[1], p)} :
          p[Len(x[1]) + 1] \in DOMAIN x[2].lenient
  BY <1>1 DEF Passes
<1> QED
  BY <1>4, <1>5, ParsedIs

\* Writing keys of other sections leaves a key.
LEMMA OverrideOthers ==
    ASSUME NEW d, NEW s, NEW p \in DOMAIN d, IsPath(p), p # << >>,
           \A q \in DOMAIN s : IsPath(q) /\ q # << >> /\ q[1] # p[1]
    PROVE  p \in DOMAIN Override(d, s) /\ Override(d, s)[p] = d[p]
<1>1. \A q \in DOMAIN s : ~Related(p, q)
  BY RelatedTop
<1> QED
  BY <1>1, OverrideLeaves

LEMMA UnknownLoaded ==
    ASSUME NEW raw, HasLeaves(raw), Load(raw) # NotLoaded,
           NEW p \in DOMAIN raw, IsPath(p), UnknownKey(p)
    PROVE  p \in DOMAIN Load(raw) /\ Load(raw)[p] = raw[p]
<1> DEFINE t == Parsed(raw)
           u == Resolved(t)
<1>1. ~ParseFails(raw) /\ Load(raw) = Filled(u)
  BY DEF Load
<1>2. p \in DOMAIN t /\ t[p] = raw[p] /\ HasLeaves(t)
  BY <1>1, UnknownParsed, ParsedStack DEF IsStack
<1> HIDE DEF t
<1>3. p # << >> /\ p[1] \in {"permissions", "opencode", "lsp", "formatters", "commands", "providers"}
  <2>1. Len(p) # 0
    BY PathLen DEF UnknownKey
  <2> QED
    BY <2>1, NoPath, UnknownTops
<1>4. p \in DOMAIN u /\ u[p] = t[p]
  <2>1. Resolved(t) = Override(ExpandedKeys(t), OnTop(t))
        /\ OnPaths(OnTop(t), ResolvedPaths(Keys(t, <<"plugins">>)))
    BY <1>2, ResolvedOn
  <2>2. p \in DOMAIN ExpandedKeys(t) /\ ExpandedKeys(t)[p] = t[p]
    <3>1. ~Expanded(p)
      <4>1. ASSUME IsPrefix(<<"mcp", "servers">>, p) PROVE FALSE
        <5>1. IsPath(<<"mcp", "servers">>) /\ Len(<<"mcp", "servers">>) = 2
              /\ <<"mcp", "servers">>[1] = "mcp" /\ 1 \in 1..2
          BY TwoPath
        <5> DEFINE r == <<"mcp", "servers">>
        <5> HIDE DEF r
        <5>2. IsPath(r) /\ Len(r) = 2 /\ r[1] = "mcp" /\ IsPrefix(r, p)
          BY <4>1, <5>1 DEF r
        <5>3. r[1] = p[1]
          BY <5>1, <5>2, PrefixAt
        <5> QED
          BY <1>3, <5>2, <5>3
      <4> QED
        BY <4>1 DEF Expanded
    <3> QED
      BY <1>2, <3>1 DEF ExpandedKeys
  <2>3. \A q \in DOMAIN OnTop(t) : IsPath(q) /\ q # << >> /\ q[1] # p[1]
    <3> SUFFICES ASSUME NEW q \in DOMAIN OnTop(t) PROVE IsPath(q) /\ q # << >> /\ q[1] # p[1]
      OBVIOUS
    <3>1. q \in ResolvedPaths(Keys(t, <<"plugins">>))
      BY <2>1 DEF OnPaths
    <3>2. IsPath(q) /\ (Len(q) = 2 \/ Len(q) = 3) /\ q[1] \in {"session", "plugins"}
      BY <3>1, ResolvedShape
    <3>3. q # << >>
      BY <3>2, NoPath
    <3> QED
      BY <1>3, <3>2, <3>3
  <2> QED
    BY <1>3, <2>1, <2>2, <2>3, OverrideOthers
<1> HIDE DEF u
<1>5. p \in DOMAIN Filled(u) /\ Filled(u)[p] = u[p]
  <2> DEFINE s == TemporalDefaults(u) ++ ShellDefaults(u)
  <2>1. Filled(u) = Override(u, s)
    BY DEF Filled
  <2>2. \A q \in DOMAIN s : q \in FilledPaths
    BY FilledOn DEF OnPaths
  <2> HIDE DEF s
  <2>3. \A q \in FilledPaths : IsPath(q) /\ q # << >> /\ q[1] \in {"temporal", "shell", "update_probe"}
    BY TwoPath DEF FilledPaths
  <2>4. \A q \in DOMAIN s : IsPath(q) /\ q # << >> /\ q[1] # p[1]
    BY <1>3, <2>2, <2>3
  <2> QED
    BY <1>3, <1>4, <2>1, <2>4, OverrideOthers
<1> QED
  BY <1>1, <1>2, <1>4, <1>5

LEMMA UnknownUnmoved ==
    ASSUME NEW p, UnknownKey(p)
    PROVE  ~Moved(p) /\ p[1] \in SectionNames
<1>1. ~OfModel(p)
  BY DEF OfModel, UnknownKey
<1>2. p # <<"permissions", "default">>
  <2>1. <<"permissions", "default">>[1] = "permissions" /\ <<"permissions", "default">>[2] = "default"
    BY TwoPath
  <2>2. ~(p[1] = "permissions" /\ p[2] = "default")
    BY DEF UnknownKey
  <2> QED
    BY <2>1, <2>2
<1>3. p[1] \in SectionNames
  BY UnknownTops DEF SectionNames, NamedSections
<1> QED
  BY <1>1, <1>2, <1>3 DEF Moved

LEMMA UnknownNotOmitted ==
    ASSUME NEW p, IsPath(p), UnknownKey(p) PROVE ~OmitsZero(p)
<1>1. Len(p) \in Nat
  BY PathLen
<1>2. CASE Len(p) \notin {1, 2, 3, 5}
  BY <1>2 DEF OmitsZero
<1>3. CASE Len(p) = 1
  BY <1>3 DEF UnknownKey
<1>4. CASE Len(p) = 2
  BY <1>4, KnownKeys DEF OmitsZero, UnknownKey
<1>5. CASE Len(p) = 3
  <2>1. p \notin {<<"opencode", "compaction", "reserved">>,
                  <<"opencode", "disabled_providers", "list">>,
                  <<"opencode", "enabled_providers", "list">>}
    <3>1. ~(p[1] = "opencode" /\ p[2] \in {"compaction", "disabled_providers", "enabled_providers"})
      BY DEF UnknownKey
    <3> QED
      BY <3>1, ThreePath
  <2> QED
    BY <1>5, <2>1, KnownKeys DEF OmitsZero, UnknownKey
<1>6. CASE Len(p) = 5
  <2>1. ~(p[1] = "providers" /\ p[3] = "models" /\ p[5] \in DOMAIN ProviderModel.lenient)
    BY KnownKeys DEF UnknownKey
  <2> QED
    BY <1>6, <2>1 DEF OmitsZero
<1> QED
  BY <1>2, <1>3, <1>4, <1>5, <1>6

LEMMA UnknownShown ==
    ASSUME NEW t, NEW p \in DOMAIN t, IsPath(p), UnknownKey(p)
    PROVE  p \in Shown(t, p[1])
<1>1. ~Moved(p) /\ p[1] \in SectionNames
  BY UnknownUnmoved
<1>2. p # << >>
  <2>1. Len(p) # 0
    BY PathLen DEF UnknownKey
  <2> QED
    BY <2>1, NoPath
<1>3. p \in Under(t, <<p[1]>>)
  BY <1>2, InSection DEF Under
<1>4. ~(Len(p) = 5 /\ Len(JSONPath(p)) = 6)
  <2> DEFINE n == Len(p)
             m == Len(JSONPath(p))
  <2>1. m = n \/ m = n - 1
    <3>1. CASE p[1] \in NamedSections
      BY <1>1, <1>2, <3>1, NamedPath
    <3>2. CASE p[1] = "opencode"
      BY <1>2, <3>2, TogglePath
    <3> QED
      BY <1>1, <3>1, <3>2 DEF SectionNames
  <2>2. 5 # 6 /\ 5 - 1 # 6
    OBVIOUS
  <2> HIDE DEF n, m
  <2>3. ~(n = 5 /\ m = 6)
    BY <2>1, <2>2
  <2> QED
    BY <2>3 DEF n, m
<1>5. ~Shadowed(t, p)
  BY <1>1, <1>4 DEF Shadowed, Moved
<1>6. p \notin Dropped(t, p[1])
  BY UnknownNotOmitted DEF Dropped
<1> QED
  BY <1>3, <1>5, <1>6 DEF Shown

LEMMA UnknownTranslated ==
    ASSUME NEW t, IsStack(t), NEW p \in DOMAIN t, IsPath(p), UnknownKey(p)
    PROVE  /\ JSONPath(p) \in DOMAIN Translated(t, p[1])
           /\ Translated(t, p[1])[JSONPath(p)] = t[p]
<1> DEFINE s == p[1]
           r == JSONPath(p)
           e == CHOOSE q \in Shown(t, s) : JSONPath(q) = r
<1>1. ~Moved(p) /\ s \in SectionNames /\ p \in Shown(t, s) /\ p \in Rendered(t, s)
  BY UnknownUnmoved, UnknownShown DEF Rendered
<1>2. HasPaths(t) /\ Flat(t)
  BY DEF IsStack
<1>3. IsPath(r)
  <2>1. p # << >>
    BY <1>1, <1>2, RenderedIs
  <2> QED
    BY <1>1, <2>1, NamedPath, TogglePath DEF SectionNames
<1>4. e \in Shown(t, s) /\ JSONPath(e) = r /\ e \in Rendered(t, s)
  BY <1>1 DEF Rendered
<1> HIDE DEF e, r
<1>5. IsPrefix(JSONPath(e), JSONPath(p)) /\ Related(JSONPath(p), JSONPath(e))
  BY <1>3, <1>4, PrefixSelf DEF r, Related
<1>6. ~Moved(e)
  BY <1>1, <1>2, <1>4, <1>5, MovedApart
<1>7. e = p
  BY <1>1, <1>2, <1>4, <1>5, <1>6, UnmovedPrefix
<1>8. r \in DOMAIN Translated(t, s)
  BY <1>1, TranslatedIs DEF r
<1>9. Translated(t, s)[r] = t[e]
  <2>1. \E q \in Shown(t, s) : r = JSONPath(q)
    BY <1>1 DEF r
  <2> QED
    BY <1>8, <2>1, TranslatedIs DEF e
<1> QED
  BY <1>7, <1>8, <1>9 DEF r

\* A plan has the keys that OCA does not know as the stack has them.
LEMMA UnknownPlanned ==
    ASSUME NEW t, IsStack(t), OwnKeys(t), NEW d, GoodDoc(d),
           NEW e, e = Composed(t, d, AllTargets), e # Refused,
           NEW p \in DOMAIN t, IsPath(p), UnknownKey(p), t[p] # EmptyTable
    PROVE  JSONPath(p) \in DOMAIN e /\ e[JSONPath(p)] = t[p]
<1>1. SettledBefore(12, t, e)
  BY ComposedSettled
<1>2. PICK target \in KeyedTargets : Sections[target] = p[1]
  <2>1. p[1] \in {"permissions", "opencode", "lsp", "formatters", "commands", "providers"}
    BY UnknownTops
  <2>2. CASE p[1] = "opencode"
    BY <2>2, TargetKinds
  <2>3. CASE p[1] # "opencode"
    BY <2>1, <2>3, TargetKinds
  <2> QED
    BY <2>2, <2>3
<1>3. Settled(target, t, e)
  <2>1. PICK j \in DOMAIN AllTargets : AllTargets[j] = target
    <3>1. target \in {"providers", "permissions", "lsp", "commands", "formatters", "toggles"}
      BY TargetKinds
    <3>2. /\ AllTargets[4] = "providers" /\ AllTargets[5] = "permissions" /\ AllTargets[7] = "lsp"
          /\ AllTargets[9] = "commands" /\ AllTargets[10] = "formatters" /\ AllTargets[11] = "toggles"
      BY DEF AllTargets
    <3> QED
      BY <3>1, <3>2, TargetKinds
  <2>2. j \in 1..11 /\ 12 - 1 = 11
    BY TargetKinds
  <2> QED
    BY <1>1, <2>1, <2>2 DEF SettledBefore
<1> DEFINE declared == Translated(t, p[1])
           r == JSONPath(p)
<1>4. r \in DOMAIN declared /\ declared[r] = t[p]
  BY UnknownTranslated
<1>5. declared # NoDocument
  BY <1>4 DEF NoDocument
<1>6. KeysSettled(e, declared)
  <2> HIDE DEF declared
  <2> QED
    BY <1>2, <1>3, <1>5, KeyedIs DEF declared
<1> HIDE DEF declared, r
<1>7. r \in DOMAIN Written(e, declared) /\ Written(e, declared)[r] = t[p]
  BY <1>4, WrittenIs
<1> QED
  BY <1>6, <1>7 DEF KeysSettled, Shows, r

\* A key that OCA does not know is passed on to opencode.json as it is.
THEOREM ExtrasArePassedOn == Spec => ExtrasPassThrough
<1>1. ASSUME ConfigInv, [Next]_vars, plan' \notin {plan, NoPlan, Refused}, OwnKeys(stack'),
             NEW p \in DOMAIN Raw, Unknown(p), Raw[p] # EmptyTable
      PROVE  JSONPath(p) \in DOMAIN plan' /\ plan'[JSONPath(p)] = Raw[p]
  <2>1. CASE BeginApply
    <3>1. stack' = Load(Raw) /\ Load(Raw) # NotLoaded
          /\ (plan' = Composed(stack', doc, AllTargets) \/ plan' = NoPlan)
      BY <2>1 DEF BeginApply, Accepted
    <3>2. HasLeaves(Raw) /\ GoodDoc(doc)
      BY <1>1, RawLeaves DEF ConfigInv, FilesInv
    <3>3. IsStack(stack')
      BY <3>1, <3>2, LoadedStack
    <3>4. IsPath(p) /\ UnknownKey(p)
      <4>1. ~ParseFails(Raw)
        BY <3>1 DEF Load
      <4>2. HasPaths(Raw)
        BY <4>1, TreeIs DEF ParseFails
      <4> QED
        BY <1>1, <4>2, UnknownIs DEF HasPaths
    <3>5. p \in DOMAIN stack' /\ stack'[p] = Raw[p]
      BY <3>1, <3>2, <3>4, UnknownLoaded
    <3>6. plan' = Composed(stack', doc, AllTargets) /\ plan' # Refused
      BY <1>1, <3>1
    <3> QED
      BY <1>1, <3>2, <3>3, <3>4, <3>5, <3>6, UnknownPlanned
  <2>2. CASE plan' = NoPlan \/ plan' = plan
    BY <1>1, <2>2
  <2>3. ASSUME NEW t, WriteMigrated(t) PROVE plan' = plan
    BY <2>3 DEF WriteMigrated
  <2> QED
    BY <1>1, <2>1, <2>2, <2>3
    DEF Next, EditStack, EditDocument, EditSkill, MigrateFromOpenChad, MigrateInit, Refuse,
        ApplyDocument, ApplySkills, ApplyTemporal, Kill, vars
<1>2. ConfigInv /\ [Next]_vars
        => (plan' \notin {plan, NoPlan, Refused} /\ OwnKeys(stack') =>
              \A p \in DOMAIN Raw :
                Unknown(p) /\ Raw[p] # EmptyTable
                  => JSONPath(p) \in DOMAIN plan' /\ plan'[JSONPath(p)] = Raw[p])
  BY <1>1
<1> QED
  BY <1>2, AlwaysConfigInv, PTL DEF Spec, ExtrasPassThrough
================================================================================
