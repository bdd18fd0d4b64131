------------------------------- MODULE Documents -------------------------------
(***************************************************************************)
(* TOML and JSON documents, as functions from key paths to leaves: a leaf  *)
(* is a scalar, an array of scalars, or an empty table.                    *)
(***************************************************************************)
EXTENDS Naturals, Sequences, FiniteSets, SequencesExt, FiniteSetsExt, TLC

Str(s) == <<"string", s>>
Num(n) == <<"int", n>>
Bool(b) == <<"bool", b>>
Arr(items) == <<"array", items>>     \* of leaves
EmptyTable == <<"table", "">>
Strings(ss) == Arr([i \in DOMAIN ss |-> Str(ss[i])])

\* The leaves that a file can have.
IsLeaf(leaf) ==
    /\ leaf = <<leaf[1], leaf[2]>>
    /\ leaf[1] = "array" => leaf[2] \in Seq(Range(leaf[2]))
    /\ leaf[1] = "table" => leaf = EmptyTable

\* What is in a file: keys are sequences of names.
IsDocument(t) ==
    /\ t = [p \in DOMAIN t |-> t[p]]
    /\ \A p \in DOMAIN t : p \in Seq(STRING) /\ IsLeaf(t[p])

NoDocument == [p \in {} |-> EmptyTable]
Leaf(p, leaf) == [q \in {p} |-> leaf]

\* SelectSeq of Sequences, with the elements to select as a set.
Selected(s, S) ==
    LET f[i \in 0..Len(s)] ==
          IF i = 0 THEN << >>
          ELSE IF s[i] \in S THEN Append(f[i - 1], s[i]) ELSE f[i - 1]
    IN  f[Len(s)]

\* f, and g where f has nothing: @@ of TLC, as a definition that proofs can use.
f ++ g == [x \in DOMAIN f \cup DOMAIN g |-> IF x \in DOMAIN f THEN f[x] ELSE g[x]]

Under(t, p) == {q \in DOMAIN t : IsPrefix(p, q)}
Has(t, p) == Under(t, p) # {}
Kind(t, p) == IF p \in DOMAIN t THEN t[p][1] ELSE "table"
Keys(t, p) == {q[Len(p) + 1] : q \in {q \in Under(t, p) : Len(q) > Len(p)}}
Tables(t, p) == {k \in Keys(t, p) : Kind(t, p \o <<k>>) = "table"}

\* The keys of a document that it really has: nothing is below another key.
KeyPaths(t) ==
    {p \in DOMAIN t : p \in Seq(STRING) /\ ~ \E q \in DOMAIN t : IsStrictPrefix(q, p)}

\* No key of a file is below another.
IsTree(t) == KeyPaths(t) = DOMAIN t

Value(t, p, zero) == IF p \in DOMAIN t THEN t[p][2] ELSE zero
Text(t, p) == Value(t, p, "")
Number(t, p) == Value(t, p, 0)
Items(t, p) ==
    IF Kind(t, p) # "array" THEN << >> ELSE [i \in DOMAIN t[p][2] |-> t[p][2][i][2]]

Only(t, paths) == [p \in DOMAIN t \cap paths |-> t[p]]
Without(t, p) == Only(t, DOMAIN t \ Under(t, p))
Related(p, q) == IsPrefix(p, q) \/ IsPrefix(q, p)

\* The document t with s on top: what s has stays, and what is in its way goes.
Override(t, s) ==
    s ++ Only(t, {p \in DOMAIN t : \A q \in DOMAIN s : ~Related(p, q)})

\* The paths of s that a recursive merge writes into t: an empty table leaves a
\* table as it is.
Writes(t, s) ==
    {p \in DOMAIN s : s[p] = EmptyTable => Under(t, p) \subseteq {p}}

Set(t, p, leaf) == Override(t, Leaf(p, leaf))

\* The leaves of t at the given paths, under new ones.
Renamed(t, paths, New(_)) ==
    [q \in {New(p) : p \in paths} |-> t[CHOOSE p \in paths : New(p) = q]]

\* Documents that are apart, as one.
Union(ts) ==
    [p \in UNION {DOMAIN t : t \in ts} |-> (CHOOSE t \in ts : p \in DOMAIN t)[p]]
================================================================================
