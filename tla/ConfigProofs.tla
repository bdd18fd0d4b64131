------------------------------ MODULE ConfigProofs ------------------------------
(***************************************************************************)
(* What holds of every stack.toml and every opencode.json: which stacks    *)
(* pass validation, that an apply does what oca diff said, what it leaves  *)
(* of the user's keys, and which settings of a stack keep their value.     *)
(***************************************************************************)
EXTENDS ConfigPipeline, TLAPS, FiniteSetTheorems, SequenceTheorems
--------------------------------------------------------------------------------
(* Validation. *)

\* The stack of the last apply has passed validation.
Validated == stack = NotLoaded \/ Valid(stack)

\* What is no stack has no servers and no slot groups.
LEMMA NothingLoaded ==
    ServersOf(NotLoaded) = {} /\ GroupsOf(NotLoaded) = {}
<1>1. DOMAIN NotLoaded = {<<"rejected">>}
  BY DEF NotLoaded, Leaf
<1>2. \A k \in {"servers", "slot_groups"} : Under(NotLoaded, <<"mcp", k>>) = {}
  BY <1>1 DEF Under, IsPrefix
<1> QED
  BY <1>2 DEF ServersOf, GroupsOf, Keys

\* A group's ports are neither a server's nor another group's.
LEMMA GroupApart ==
    ASSUME NEW t, GroupsValid(t), NEW g \in GroupsOf(t)
    PROVE  /\ \A n \in ServersOf(t) : ServerPort(t, n) \notin GroupPorts(t, g)
           /\ \A h \in GroupsOf(t) \ {g} : GroupPorts(t, g) \cap GroupPorts(t, h) = {}
           /\ GroupPort(t, g) \notin SlotPorts(t, g)
<1>1. GroupPorts(t, g) \cap ClaimedPorts(t, g) = {} /\ GroupPort(t, g) \notin SlotPorts(t, g)
  BY DEF GroupsValid
<1> QED
  BY <1>1 DEF ClaimedPorts

LEMMA ValidPortsDisjoint ==
    ASSUME NEW t, ServersValid(t), GroupsValid(t),
           NEW o1 \in PortOwners(t), NEW o2 \in PortOwners(t), o1 # o2
    PROVE  PortsOf(t, o1) \cap PortsOf(t, o2) = {}
<1>1. \A g \in GroupsOf(t) :
         /\ PortsOf(t, <<"group", g>>) \subseteq GroupPorts(t, g) \cap {GroupPort(t, g)}
         /\ PortsOf(t, <<"slots", g>>) = SlotPorts(t, g)
         /\ SlotPorts(t, g) \subseteq GroupPorts(t, g)
  BY DEF PortsOf, GroupPorts, Positive
<1>2. \A n \in ServersOf(t) : PortsOf(t, <<"server", n>>) = {ServerPort(t, n)}
  BY DEF PortsOf
<1>3. ASSUME NEW n \in ServersOf(t), NEW m \in ServersOf(t), n # m
      PROVE  ServerPort(t, n) # ServerPort(t, m)
  BY <1>3 DEF ServersValid
<1>4. \A o \in PortOwners(t) :
        \/ \E n \in ServersOf(t) : o = <<"server", n>>
        \/ \E g \in GroupsOf(t) : o = <<"group", g>> \/ o = <<"slots", g>>
  BY DEF PortOwners
<1>5. ASSUME NEW n \in ServersOf(t), NEW g \in GroupsOf(t), NEW k \in {"group", "slots"}
      PROVE  PortsOf(t, <<"server", n>>) \cap PortsOf(t, <<k, g>>) = {}
  <2>1. ServerPort(t, n) \notin GroupPorts(t, g)
    BY GroupApart
  <2>2. PortsOf(t, <<k, g>>) \subseteq GroupPorts(t, g)
    BY <1>1
  <2> QED
    BY <2>1, <2>2, <1>2
<1>6. ASSUME NEW g \in GroupsOf(t), NEW h \in GroupsOf(t),
             NEW k \in {"group", "slots"}, NEW l \in {"group", "slots"},
             g # h \/ k # l
      PROVE  PortsOf(t, <<k, g>>) \cap PortsOf(t, <<l, h>>) = {}
  <2>1. CASE g # h
    <3>1. GroupPorts(t, g) \cap GroupPorts(t, h) = {}
      BY <2>1, GroupApart
    <3>2. /\ PortsOf(t, <<k, g>>) \subseteq GroupPorts(t, g)
          /\ PortsOf(t, <<l, h>>) \subseteq GroupPorts(t, h)
      BY <1>1
    <3> QED
      BY <3>1, <3>2
  <2>2. CASE g = h
    BY <2>2, <1>6, <1>1, GroupApart
  <2> QED
    BY <2>1, <2>2
<1>7. CASE \E n, m \in ServersOf(t) : o1 = <<"server", n>> /\ o2 = <<"server", m>>
  BY <1>7, <1>2, <1>3
<1> QED
  BY <1>4, <1>5, <1>6, <1>7

LEMMA InitValidated == Init => Validated
  BY DEF Init, Validated

\* Only BeginApply takes a stack, and only an accepted one.
LEMMA StepValidated == Validated /\ [Next]_vars => Validated'
<1> SUFFICES ASSUME Validated, [Next]_vars PROVE Validated'
  OBVIOUS
<1>1. CASE BeginApply
  <2>1. stack' = Load(Raw) /\ stack' # NotLoaded
    BY <1>1 DEF BeginApply, Accepted
  <2> QED
    BY <2>1 DEF Load, Validated
<1>2. CASE stack' = stack
  BY <1>2 DEF Validated
<1>3. BeginApply \/ stack' = stack
  BY DEF Next, vars, EditStack, EditDocument, EditSkill, MigrateFromOpenChad, MigrateInit,
         WriteMigrated, Refuse, ApplyDocument, ApplySkills, ApplyTemporal, Kill
<1> QED
  BY <1>1, <1>2, <1>3

\* The stack that an apply works with is valid, in every state.
LEMMA OnlyValidStacks == Spec => []Validated
<1> QED
  BY InitValidated, StepValidated, PTL DEF Spec

\* No two servers, groups or slots of an accepted stack have one port, whatever
\* stack.toml has.
THEOREM AcceptedPortsDisjoint == Spec => []PortsDisjoint
<1>1. Validated => PortsDisjoint
  <2>1. CASE stack = NotLoaded
    BY <2>1, NothingLoaded DEF PortsDisjoint, PortOwners
  <2>2. CASE Valid(stack)
    <3>1. ServersValid(stack) /\ GroupsValid(stack)
      BY <2>2 DEF Valid
    <3> QED
      BY <3>1, ValidPortsDisjoint DEF PortsDisjoint
  <2> QED
    BY <2>1, <2>2 DEF Validated
<1> QED
  BY <1>1, OnlyValidStacks, PTL
--------------------------------------------------------------------------------
(* The plan: Composed is a fold over the targets, and an apply follows it. *)

\* Induction over the numbers, without an operator: a least counterexample
\* would be a finite set that maps into less than itself.
LEMMA NatSetInduction ==
    ASSUME NEW S, 0 \in S, \A n \in Nat : n \in S => n + 1 \in S
    PROVE  Nat \subseteq S
<1> SUFFICES ASSUME NEW n \in Nat, n \notin S PROVE FALSE
  OBVIOUS
<1> DEFINE T == {i \in 0..n : i \notin S}
           down == [i \in T |-> i - 1]
<1>1. T \subseteq 0..n /\ n \in T
  OBVIOUS
<1>2. IsFiniteSet(T)
  <2>1. IsFiniteSet(0..n)
    BY FS_Interval
  <2> QED
    BY <1>1, <2>1, FS_Subset
<1>3. down \in [T -> T \ {n}]
  OBVIOUS
<1>4. IsFiniteSet(T \ {n}) /\ Cardinality(T \ {n}) < Cardinality(T)
  <2> HIDE DEF T
  <2>1. Cardinality(T) \in Nat
    BY <1>2, FS_CardinalityType
  <2>2. IsFiniteSet(T \ {n}) /\ Cardinality(T \ {n}) = Cardinality(T) - 1
    BY <1>1, <1>2, FS_RemoveElement
  <2> QED
    BY <2>1, <2>2
<1>5. \A i, j \in T : down[i] = down[j] => i = j
  OBVIOUS
<1> HIDE DEF T, down
<1> QED
  BY <1>2, <1>3, <1>4, <1>5, FS_PigeonHole

\* One step of Composed, and the function that its fold computes.
StepDoc(t, target, d) == IF d = Refused THEN d ELSE NextDoc(target, t, d)

IsFold(f, t, d, targets, n) ==
    f = [s \in SUBSET (1..n) |->
           IF s = {} THEN d ELSE StepDoc(t, targets[Max(s)], f[s \ {Max(s)}])]

LEMMA MaxOfNext ==
    ASSUME NEW n \in Nat, NEW s \in SUBSET (1..(n + 1)), n + 1 \in s
    PROVE  Max(s) = n + 1 /\ s \ {Max(s)} \in SUBSET (1..n)
<1>1. \A x \in s : n + 1 >= x
  OBVIOUS
<1>2. \A x \in s : x >= n + 1 => x = n + 1
  OBVIOUS
<1>3. Max(s) = n + 1
  BY <1>1, <1>2 DEF Max
<1> QED
  BY <1>3

LEMMA FoldExists ==
    ASSUME NEW t, NEW d, NEW targets
    PROVE  \A n \in Nat : \E f : IsFold(f, t, d, targets, n)
<1> DEFINE S == {n \in Nat : \E f : IsFold(f, t, d, targets, n)}
<1>1. 0 \in S
  <2>1. IsFold([s \in SUBSET (1..0) |-> d], t, d, targets, 0)
    BY DEF IsFold
  <2> QED
    BY <2>1
<1>2. ASSUME NEW n \in Nat, n \in S
      PROVE  n + 1 \in S
  <2>1. PICK f : IsFold(f, t, d, targets, n)
    BY <1>2
  <2> DEFINE g == [s \in SUBSET (1..(n + 1)) |->
                     IF n + 1 \in s THEN StepDoc(t, targets[n + 1], f[s \ {n + 1}])
                     ELSE f[s]]
  <2>2. ASSUME NEW s \in SUBSET (1..(n + 1))
        PROVE  g[s] = IF s = {} THEN d ELSE StepDoc(t, targets[Max(s)], g[s \ {Max(s)}])
    <3>1. CASE n + 1 \in s
      <4>1. Max(s) = n + 1 /\ s \ {Max(s)} \in SUBSET (1..n)
        BY <3>1, MaxOfNext
      <4>2. g[s \ {Max(s)}] = f[s \ {Max(s)}]
        BY <4>1
      <4>3. g[s] = StepDoc(t, targets[n + 1], f[s \ {n + 1}])
        BY <3>1
      <4> QED
        BY <3>1, <4>1, <4>2, <4>3
    <3>2. CASE n + 1 \notin s
      <4>1. s \in SUBSET (1..n) /\ g[s] = f[s]
        BY <3>2
      <4>2. f[s] = IF s = {} THEN d ELSE StepDoc(t, targets[Max(s)], f[s \ {Max(s)}])
        BY <2>1, <4>1 DEF IsFold
      <4>3. g[s \ {Max(s)}] = f[s \ {Max(s)}]
        BY <4>1
      <4> QED
        BY <4>1, <4>2, <4>3
    <3> QED
      BY <3>1, <3>2
  <2>3. IsFold(g, t, d, targets, n + 1)
    BY <2>2 DEF IsFold
  <2> QED
    BY <2>3
<1>3. Nat \subseteq S
  <2> HIDE DEF S
  <2> QED
    BY <1>1, <1>2, NatSetInduction
<1> QED
  BY <1>3

AgreeUpTo(ts, us, n) == \A i \in 1..n : ts[i] = us[i]

\* What is folded so far does not depend on what follows.
LEMMA FoldAgrees ==
    \A t, d, ts, us, f, g : \A n, m \in Nat :
      n <= m /\ AgreeUpTo(ts, us, n) /\ IsFold(f, t, d, ts, n) /\ IsFold(g, t, d, us, m)
        => \A s \in SUBSET (1..n) : f[s] = g[s]
<1> TAKE t, d, ts, us, f, g
<1> TAKE n, m \in Nat
<1> HAVE n <= m /\ AgreeUpTo(ts, us, n) /\ IsFold(f, t, d, ts, n) /\ IsFold(g, t, d, us, m)
<1> DEFINE S == {k \in Nat : k <= n => \A s \in SUBSET (1..k) : f[s] = g[s]}
<1>1. 0 \in S
  <2>1. f[{}] = d /\ g[{}] = d
    BY DEF IsFold
  <2>2. 1..0 = {}
    OBVIOUS
  <2> QED
    BY <2>1, <2>2
<1>2. ASSUME NEW k \in Nat, k \in S
      PROVE  k + 1 \in S
  <2>1. ASSUME k + 1 <= n, NEW s \in SUBSET (1..(k + 1))
        PROVE  f[s] = g[s]
    <3>1. CASE k + 1 \notin s
      BY <1>2, <2>1, <3>1
    <3>2. CASE k + 1 \in s
      <4>1. Max(s) = k + 1 /\ s \ {Max(s)} \in SUBSET (1..k)
        BY <3>2, MaxOfNext
      <4>2. f[s \ {Max(s)}] = g[s \ {Max(s)}]
        BY <1>2, <2>1, <4>1
      <4>3. s \in SUBSET (1..n) /\ s \in SUBSET (1..m) /\ s # {} /\ k + 1 \in 1..n
        BY <2>1, <3>2
      <4>4. f[s] = StepDoc(t, ts[Max(s)], f[s \ {Max(s)}])
        BY <4>3 DEF IsFold
      <4>5. g[s] = StepDoc(t, us[Max(s)], g[s \ {Max(s)}])
        BY <4>3 DEF IsFold
      <4>6. ts[Max(s)] = us[Max(s)]
        BY <4>1, <4>3 DEF AgreeUpTo
      <4> QED
        BY <4>2, <4>4, <4>5, <4>6
    <3> QED
      BY <3>1, <3>2
  <2>2. k + 1 \in Nat /\ (k + 1 <= n => \A s \in SUBSET (1..(k + 1)) : f[s] = g[s])
    BY <2>1
  <2> QED
    BY <2>2, Zenon
<1>3. Nat \subseteq S
  <2> HIDE DEF S
  <2> QED
    BY <1>1, <1>2, NatSetInduction
<1> QED
  BY <1>3

\* What Composed is, as such a function, and how it grows by one target.
LEMMA ComposedFold ==
    \A t, d, targets : \A n \in Nat :
      DOMAIN targets = 1..n /\ (\E f : IsFold(f, t, d, targets, n))
        => \E f : IsFold(f, t, d, targets, n) /\ Composed(t, d, targets) = f[1..n]
  BY DEF Composed, FoldLeft, MapThenFoldSet, IsFold, StepDoc

LEMMA ComposedIsFold ==
    ASSUME NEW t, NEW d, NEW targets, NEW n \in Nat, DOMAIN targets = 1..n
    PROVE  \E f : IsFold(f, t, d, targets, n) /\ Composed(t, d, targets) = f[1..n]
<1>1. \E f : IsFold(f, t, d, targets, n)
  BY FoldExists
<1> HIDE DEF IsFold, Composed
<1> QED
  BY <1>1, ComposedFold

LEMMA ComposedNone ==
    ASSUME NEW t, NEW d, NEW targets, DOMAIN targets = 1..0
    PROVE  Composed(t, d, targets) = d
<1>1. PICK f : IsFold(f, t, d, targets, 0) /\ Composed(t, d, targets) = f[1..0]
  BY ComposedIsFold
<1>2. 1..0 = {}
  OBVIOUS
<1> QED
  BY <1>1, <1>2 DEF IsFold

LEMMA ComposedMore ==
    ASSUME NEW t, NEW d, NEW n \in Nat, NEW ts, DOMAIN ts = 1..n,
           NEW us, DOMAIN us = 1..(n + 1), \A i \in 1..n : ts[i] = us[i]
    PROVE  Composed(t, d, us) = StepDoc(t, us[n + 1], Composed(t, d, ts))
<1>1. PICK f : IsFold(f, t, d, ts, n) /\ Composed(t, d, ts) = f[1..n]
  BY ComposedIsFold
<1>2. PICK g : IsFold(g, t, d, us, n + 1) /\ Composed(t, d, us) = g[1..(n + 1)]
  <2>1. n + 1 \in Nat
    OBVIOUS
  <2> QED
    BY <2>1, ComposedIsFold
<1>3. f[1..n] = g[1..n]
  <2>1. n + 1 \in Nat /\ n <= n + 1 /\ 1..n \in SUBSET (1..n)
    OBVIOUS
  <2>2. AgreeUpTo(ts, us, n)
    BY DEF AgreeUpTo
  <2>3. \A s \in SUBSET (1..n) : f[s] = g[s]
    BY <1>1, <1>2, <2>1, <2>2, FoldAgrees
  <2> QED
    BY <2>1, <2>3
<1>4. g[1..(n + 1)] = StepDoc(t, us[n + 1], g[1..n])
  <2>1. n + 1 \in 1..(n + 1) /\ (1..(n + 1)) \ {n + 1} = 1..n
    OBVIOUS
  <2>2. Max(1..(n + 1)) = n + 1
    BY <2>1, MaxOfNext
  <2> QED
    BY <1>2, <2>1, <2>2 DEF IsFold
<1> QED
  BY <1>1, <1>2, <1>3, <1>4

\* The targets of a whole apply before its i-th, and from it.
Before(i) == [j \in 1..(i - 1) |-> AllTargets[j]]
From(i) == [j \in 1..(13 - i) |-> Whole[i + j - 1]]

TargetNames == {AllTargets[j] : j \in 1..11} \cup {"temporal"}

LEMMA WholeTargets ==
    /\ Whole \in Seq(TargetNames) /\ Len(Whole) = 12 /\ Whole[12] = "temporal"
    /\ DOMAIN AllTargets = 1..11
    /\ \A i \in 1..11 : Whole[i] = AllTargets[i]
    /\ \A i \in 1..11 : AllTargets[i] # "temporal"
    /\ \A i \in 1..11 : (AllTargets[i] = "skills") <=> (AllTargets[i] \notin DocumentTargets)
    /\ "temporal" \notin DocumentTargets /\ "skills" \notin DocumentTargets
<1>1. AllTargets \in Seq(TargetNames) /\ Len(AllTargets) = 11 /\ DOMAIN AllTargets = 1..11
  <2>1. Len(AllTargets) = 11 /\ DOMAIN AllTargets = 1..11
    BY DEF AllTargets
  <2>2. AllTargets = [j \in 1..11 |-> AllTargets[j]]
    BY DEF AllTargets
  <2>3. AllTargets \in [1..11 -> TargetNames]
    BY <2>2, Zenon DEF TargetNames
  <2>4. AllTargets \in Seq(TargetNames)
    BY <2>3, SeqDef
  <2> QED
    BY <2>1, <2>4
<1>2. /\ Whole \in Seq(TargetNames) /\ Len(Whole) = 12 /\ Whole[12] = "temporal"
      /\ \A i \in 1..11 : Whole[i] = AllTargets[i]
  <2>1. <<"temporal">> \in Seq(TargetNames)
    <3>1. "temporal" \in TargetNames
      BY DEF TargetNames
    <3> QED
      BY <3>1
  <2>2. Len(<<"temporal">>) = 1
    OBVIOUS
  <2> DEFINE last == <<"temporal">>
  <2>3. /\ last \in Seq(TargetNames) /\ Len(last) = 1 /\ last[1] = "temporal"
        /\ Whole = AllTargets \o last
    BY <2>1, <2>2 DEF Whole
  <2> HIDE DEF last
  <2>4. /\ Whole \in Seq(TargetNames)
        /\ Len(Whole) = Len(AllTargets) + Len(last)
        /\ \A i \in 1..(Len(AllTargets) + Len(last)) :
             Whole[i] = IF i <= Len(AllTargets) THEN AllTargets[i]
                        ELSE last[i - Len(AllTargets)]
    BY <1>1, <2>3, ConcatProperties, Zenon
  <2>5. /\ Len(Whole) = 12
        /\ \A i \in 1..12 : Whole[i] = IF i <= 11 THEN AllTargets[i] ELSE last[i - 11]
    <3>1. Len(AllTargets) = 11 /\ Len(last) = 1
      BY <1>1, <2>3
    <3>2. Len(Whole) = 11 + 1
      BY <2>4, <3>1, Zenon
    <3>3. \A i \in 1..(11 + 1) : Whole[i] = IF i <= 11 THEN AllTargets[i] ELSE last[i - 11]
      BY <2>4, <3>1, Zenon
    <3> QED
      BY <3>2, <3>3
  <2>6. Whole[12] = last[1]
    BY <2>5
  <2>7. \A i \in 1..11 : Whole[i] = AllTargets[i]
    BY <2>5
  <2> QED
    BY <2>3, <2>4, <2>5, <2>6, <2>7
<1>3. \A i \in 1..11 : AllTargets[i] # "temporal"
  BY DEF AllTargets
<1>4. DocumentTargets = {AllTargets[i] : i \in 1..11} \ {"skills"}
  BY <1>1 DEF DocumentTargets, Range
<1> QED
  BY <1>1, <1>2, <1>3, <1>4

LEMMA TargetsLeft ==
    ASSUME NEW i \in 1..12
    PROVE  /\ From(i) # << >> /\ Head(From(i)) = Whole[i]
           /\ i = 12 => Tail(From(i)) = << >>
           /\ i < 12 => Tail(From(i)) = From(i + 1)
<1>1. ASSUME NEW k \in 1..12
      PROVE  From(k) \in Seq(TargetNames) /\ Len(From(k)) = 13 - k
  <2>1. From(k) \in [1..(13 - k) -> TargetNames]
    <3>1. \A j \in 1..(13 - k) : k + j - 1 \in 1..Len(Whole)
      BY WholeTargets
    <3>2. \A l \in 1..Len(Whole) : Whole[l] \in TargetNames
      BY WholeTargets, ElementOfSeq
    <3> QED
      BY <3>1, <3>2 DEF From
  <2>2. 13 - k \in Nat /\ DOMAIN From(k) = 1..(13 - k)
    BY DEF From
  <2>3. From(k) \in Seq(TargetNames)
    BY <2>1, <2>2, SeqDef
  <2> QED
    BY <2>2, <2>3
<1>2. From(i) \in Seq(TargetNames) /\ Len(From(i)) = 13 - i
  BY <1>1
<1>3. From(i) # << >> /\ Head(From(i)) = From(i)[1]
  BY <1>2
<1>4. From(i)[1] = Whole[i]
  BY DEF From
<1>5. ASSUME i = 12 PROVE Tail(From(i)) = << >>
  <2>1. Tail(From(i)) \in Seq(TargetNames) /\ Len(Tail(From(i))) = 0
    BY <1>2, <1>5
  <2> QED
    BY <2>1, EmptySeq
<1>6. ASSUME i < 12 PROVE Tail(From(i)) = From(i + 1)
  <2>1. From(i + 1) \in Seq(TargetNames) /\ Len(From(i + 1)) = 12 - i
    <3>1. i + 1 \in 1..12 /\ 13 - (i + 1) = 12 - i
      BY <1>6
    <3> QED
      BY <3>1, <1>1
  <2>2. Tail(From(i)) \in Seq(TargetNames) /\ Len(Tail(From(i))) = 12 - i
    BY <1>2, <1>6
  <2>3. \A j \in 1..(12 - i) : Tail(From(i))[j] = From(i)[j + 1]
    BY <1>2, <1>6
  <2>4. \A j \in 1..(12 - i) : From(i)[j + 1] = From(i + 1)[j]
    BY <1>6 DEF From
  <2> QED
    BY <2>1, <2>2, <2>3, <2>4
<1> QED
  BY <1>3, <1>4, <1>5, <1>6

LEMMA FromFirst == Whole = From(1)
<1>1. Whole = [j \in 1..12 |-> Whole[j]]
  BY WholeTargets
<1>2. 13 - 1 = 12 /\ \A j \in 1..12 : 1 + j - 1 = j
  OBVIOUS
<1> QED
  BY <1>1, <1>2 DEF From

\* What an apply has made of the document so far, and what the next target adds.
LEMMA ComposedStart ==
    ASSUME NEW t, NEW d PROVE Composed(t, d, Before(1)) = d
<1>1. DOMAIN Before(1) = 1..0
  BY DEF Before
<1> QED
  BY <1>1, ComposedNone

LEMMA ComposedNext ==
    ASSUME NEW t, NEW d, NEW i \in 1..11
    PROVE  /\ Before(12) = AllTargets
           /\ Composed(t, d, Before(i + 1)) = StepDoc(t, AllTargets[i], Composed(t, d, Before(i)))
<1>1. Before(12) = AllTargets
  BY WholeTargets DEF Before, AllTargets
<1>2. DOMAIN Before(i) = 1..(i - 1) /\ DOMAIN Before(i + 1) = 1..((i - 1) + 1) /\ i - 1 \in Nat
  BY DEF Before
<1>3. \A j \in 1..(i - 1) : Before(i)[j] = Before(i + 1)[j]
  BY DEF Before
<1>4. Before(i + 1)[(i - 1) + 1] = AllTargets[i]
  BY DEF Before
<1> QED
  BY <1>1, <1>2, <1>3, <1>4, ComposedMore
--------------------------------------------------------------------------------
\* Documents are functions.
IsFcn(d) == d = [p \in DOMAIN d |-> d[p]]

\* A whole apply is on the way from a document that oca diff has seen.
OnTheWay(i) ==
    /\ todo = From(i)
    /\ \E d : /\ plan = Composed(stack, d, AllTargets)
              /\ doc = Composed(stack, d, Before(i))

PlanInv ==
    /\ IsFcn(doc)
    /\ doc # Refused
    /\ todo # << >> => ~finished
    /\ todo # << >> /\ plan # NoPlan => \E i \in 1..12 : OnTheWay(i)
    /\ finished => doc = plan

LEMMA NotRefused ==
    NoDocument # Refused /\ IsFcn(NoDocument) /\ IsFcn(Refused)
  BY DEF NoDocument, Refused, Leaf, IsFcn

LEMMA OverrideIsFcn == \A d, e : IsFcn(Override(d, e))
  BY DEF Override, IsFcn, ++

\* What a user writes over a document is never the mark of a refusal.
LEMMA EditNotRefused ==
    ASSUME NEW d, IsFcn(d), d # Refused, NEW e, IsFcn(e), e # Refused
    PROVE  Override(d, e) # Refused
<1> SUFFICES ASSUME Override(d, e) = Refused PROVE FALSE
  OBVIOUS
<1> DEFINE below == Only(d, {p \in DOMAIN d : \A q \in DOMAIN e : ~Related(p, q)})
           mark == <<"not rendered">>
<1>1. DOMAIN Refused = {mark}
  BY DEF Refused, Leaf
<1>2. Override(d, e) = [p \in DOMAIN e \cup DOMAIN below |->
                          IF p \in DOMAIN e THEN e[p] ELSE below[p]]
  BY DEF Override, ++
<1>3. DOMAIN e \cup DOMAIN below = {mark}
  <2> HIDE DEF below, mark
  <2> QED
    BY <1>1, <1>2
<1>4. CASE mark \in DOMAIN e
  <2>1. DOMAIN e = {mark} /\ e[mark] = Refused[mark]
    <3> HIDE DEF below, mark
    <3> QED
      BY <1>2, <1>3, <1>4
  <2>2. e = Refused
    <3> HIDE DEF below, mark
    <3> QED
      BY <2>1, <1>1, NotRefused DEF IsFcn
  <2> QED
    BY <2>2
<1>5. CASE mark \notin DOMAIN e
  <2>1. DOMAIN e = {} /\ mark \in DOMAIN below
    BY <1>3, <1>5
  <2>2. below = d
    BY <2>1 DEF Only, IsFcn
  <2>3. DOMAIN d = {mark} /\ d[mark] = Refused[mark]
    <3>1. Refused[mark] = below[mark]
      BY <1>2, <2>1
    <3>2. DOMAIN below = {mark}
      BY <1>3, <2>1
    <3> QED
      BY <2>2, <3>1, <3>2, Zenon
  <2> HIDE DEF mark
  <2> QED
    BY <2>3, <1>1, NotRefused DEF IsFcn
<1> QED
  BY <1>4, <1>5

LEMMA NextIsFcn ==
    ASSUME NEW target, NEW t, NEW d, IsFcn(d)
    PROVE  IsFcn(NextDoc(target, t, d))
<1>1. \A p, leaf : IsFcn(Set(d, p, leaf))
  BY OverrideIsFcn DEF Set
<1>2. \A declared : IsFcn(MergeMCP(d, declared))
  BY <1>1, NotRefused, OverrideIsFcn DEF MergeMCP
<1>3. \A p, declared, stale : IsFcn(MergeArrayAt(d, p, declared, stale))
  BY <1>1, NotRefused DEF MergeArrayAt
<1>4. \A declared : IsFcn(MergeWatcherIgnore(d, declared))
  BY <1>3, NotRefused DEF MergeWatcherIgnore
<1>5. \A declared : IsFcn(MergeObject(d, declared))
  BY NotRefused, OverrideIsFcn DEF MergeObject, MergeKeys
<1> QED
  BY <1>2, <1>3, <1>4, <1>5 DEF NextDoc

LEMMA InitPlan == Init => PlanInv
  BY UserAssumption, NotRefused DEF Init, PlanInv, IsDocument, IsFcn

\* A target that is done takes the apply one target further.
LEMMA AdvanceOnTheWay ==
    ASSUME PlanInv, Advance, todo # << >>, plan' = plan, stack' = stack,
           IsFcn(doc'), doc' # Refused,
           Target \in DocumentTargets => doc' = Next1,
           Target \notin DocumentTargets => doc' = doc
    PROVE  PlanInv'
<1>1. CASE plan = NoPlan
  BY <1>1 DEF PlanInv, Advance
<1>2. CASE plan # NoPlan
  <2>1. PICK i \in 1..12 : OnTheWay(i)
    BY <1>2 DEF PlanInv
  <2>2. PICK d : plan = Composed(stack, d, AllTargets) /\ doc = Composed(stack, d, Before(i))
    BY <2>1 DEF OnTheWay
  <2>3. Target = Whole[i]
    BY <2>1, TargetsLeft DEF Target, OnTheWay
  <2>4. CASE i = 12
    <3>1. todo' = << >> /\ finished' = TRUE
      BY <1>2, <2>1, <2>4, TargetsLeft DEF OnTheWay, Advance
    <3>2. doc' = doc
      BY <2>3, <2>4, WholeTargets
    <3>3. Before(12) = AllTargets
      BY ComposedNext
    <3>4. doc' = plan'
      BY <2>2, <2>4, <3>2, <3>3
    <3> QED
      BY <3>1, <3>4 DEF PlanInv
  <2>5. CASE i < 12
    <3>1. todo' = From(i + 1) /\ todo' # << >>
      <4>1. i + 1 \in 1..12
        BY <2>5
      <4> QED
        BY <2>1, <2>5, <4>1, TargetsLeft DEF OnTheWay, Advance
    <3>2. finished' = FALSE
      BY <3>1 DEF Advance
    <3>3. i \in 1..11 /\ i + 1 \in 1..12
      BY <2>5
    <3>4. Composed(stack, d, Before(i + 1)) = NextDoc(AllTargets[i], stack, doc)
      BY <2>2, <3>3, ComposedNext DEF StepDoc, PlanInv
    <3>5. Target = AllTargets[i]
      BY <2>3, <3>3, WholeTargets
    <3>6. doc' = NextDoc(Target, stack, doc)
      <4>1. CASE Target \in DocumentTargets
        BY <4>1 DEF Next1
      <4>2. CASE Target \notin DocumentTargets
        BY <4>2, <3>3, <3>5, WholeTargets DEF NextDoc
      <4> QED
        BY <4>1, <4>2
    <3>7. OnTheWay(i + 1)'
      BY <2>2, <3>1, <3>4, <3>5, <3>6 DEF OnTheWay
    <3> QED
      BY <3>2, <3>3, <3>7 DEF PlanInv
  <2> QED
    BY <2>4, <2>5
<1> QED
  BY <1>1, <1>2

LEMMA StepPlan == PlanInv /\ [Next]_vars => PlanInv'
<1> SUFFICES ASSUME PlanInv, [Next]_vars PROVE PlanInv'
  OBVIOUS
<1>1. ASSUME NEW b \in DOMAIN Blocks, EditStack(b)
      PROVE  PlanInv'
  BY <1>1 DEF EditStack, PlanInv
<1>2. ASSUME NEW e \in UserEdits, EditDocument(e)
      PROVE  PlanInv'
  <2>1. IsFcn(doc') /\ doc' # Refused
    <3>1. IsFcn(e) /\ e # Refused
      BY UserAssumption DEF IsDocument, IsFcn
    <3> QED
      BY <1>2, <3>1, EditNotRefused, OverrideIsFcn DEF EditDocument, PlanInv
  <2> QED
    BY <1>2, <2>1 DEF EditDocument, PlanInv
<1>3. ASSUME NEW s, EditSkill(s)
      PROVE  PlanInv'
  BY <1>3 DEF EditSkill, PlanInv
<1>4. CASE MigrateFromOpenChad \/ MigrateInit
  BY <1>4 DEF MigrateFromOpenChad, MigrateInit, WriteMigrated, PlanInv
<1>5. CASE BeginApply
  <2>1. UNCHANGED doc /\ finished' = FALSE
    BY <1>5 DEF BeginApply
  <2>2. CASE todo' = Whole
    <3>1. plan' = Composed(stack', doc, AllTargets) /\ doc' = Composed(stack', doc, Before(1))
      BY <1>5, <2>2, ComposedStart DEF BeginApply
    <3>2. Whole = From(1)
      BY FromFirst
    <3>3. OnTheWay(1)'
      BY <2>2, <3>1, <3>2 DEF OnTheWay
    <3> QED
      BY <2>1, <3>3 DEF PlanInv
  <2>3. CASE todo' # Whole
    BY <1>5, <2>1, <2>3 DEF BeginApply, PlanInv
  <2> QED
    BY <2>2, <2>3
<1>6. CASE Refuse
  BY <1>6 DEF Refuse, PlanInv
<1>7. CASE ApplyDocument
  <2>1. IsFcn(doc') /\ doc' # Refused
    BY <1>7, NextIsFcn DEF ApplyDocument, PlanInv, Next1
  <2> QED
    BY <1>7, <2>1, AdvanceOnTheWay DEF ApplyDocument
<1>8. CASE ApplySkills
  BY <1>8, WholeTargets, AdvanceOnTheWay DEF ApplySkills, PlanInv
<1>9. CASE ApplyTemporal
  BY <1>9, WholeTargets, AdvanceOnTheWay DEF ApplyTemporal, PlanInv
<1>10. CASE Kill
  <2>1. IsFcn(doc') /\ doc' # Refused
    BY <1>10, NextIsFcn DEF Kill, PlanInv, Next1
  <2> QED
    BY <1>10, <2>1 DEF Kill, PlanInv
<1>11. CASE UNCHANGED vars
  BY <1>11 DEF vars, PlanInv, OnTheWay
<1> QED
  BY <1>1, <1>2, <1>3, <1>4, <1>5, <1>6, <1>7, <1>8, <1>9, <1>10, <1>11 DEF Next

\* The document that oca diff said is the one that a whole apply leaves, unless
\* somebody edits it in between.
THEOREM DiffTellsTheApply == Spec => []PlanIsApplied
<1>1. PlanInv => PlanIsApplied
  BY DEF PlanInv, PlanIsApplied
<1> QED
  BY <1>1, InitPlan, StepPlan, PTL DEF Spec

--------------------------------------------------------------------------------
(* The user's keys: what a target may take from opencode.json. *)

\* A key of the document that a target leaves as it was, or that the stack
\* declares.
Survives(t, d, e, p) ==
    \/ Kind(d, p) = "table" \/ Claimed(Declarations(t), p)
    \/ \E o \in OpaqueTables, declared \in Declarations(t) : IsPrefix(o, p) /\ Has(declared, o)
    \/ p \in DOMAIN Arrays(t)
    \/ p \in DOMAIN e /\ e[p] = d[p]

\* Override takes what is related to what it writes.
LEMMA OverrideKeeps ==
    ASSUME NEW d, NEW s, NEW p \in DOMAIN d, p \in Seq(STRING), \A q \in DOMAIN s : ~Related(p, q)
    PROVE  p \in DOMAIN Override(d, s) /\ Override(d, s)[p] = d[p]
<1> DEFINE below == Only(d, {r \in DOMAIN d : \A q \in DOMAIN s : ~Related(r, q)})
<1>1. p \in DOMAIN below /\ below[p] = d[p]
  BY DEF Only
<1>2. p \notin DOMAIN s
  <2>1. Related(p, p)
    BY DEF Related, IsPrefix
  <2> QED
    BY <2>1
<1>3. Override(d, s) = s ++ below
  BY DEF Override
<1> HIDE DEF below
<1> QED
  BY <1>1, <1>2, <1>3 DEF ++

\* The keys above a key of one name, and of two.
LEMMA AboveOne ==
    ASSUME NEW p \in Seq(STRING), NEW a, IsPrefix(p, <<a>>)
    PROVE  p = << >> \/ p = <<a>>
<1>1. Len(p) \in Nat /\ Len(p) <= 1 /\ SubSeq(p, 1, Len(p)) = SubSeq(<<a>>, 1, Len(p))
  BY DEF IsPrefix
<1>2. CASE Len(p) = 0
  BY <1>2
<1>3. CASE Len(p) = 1
  BY <1>1, <1>3
<1> QED
  BY <1>1, <1>2, <1>3

LEMMA AboveTwo ==
    ASSUME NEW p \in Seq(STRING), NEW a, NEW b, IsPrefix(p, <<a, b>>)
    PROVE  p = << >> \/ p = <<a>> \/ p = <<a, b>>
<1>1. Len(p) \in Nat /\ Len(p) <= 2 /\ SubSeq(p, 1, Len(p)) = SubSeq(<<a, b>>, 1, Len(p))
  BY DEF IsPrefix
<1>2. CASE Len(p) = 0
  BY <1>2
<1>3. CASE Len(p) = 1
  BY <1>1, <1>3
<1>4. CASE Len(p) = 2
  BY <1>1, <1>4
<1>5. Len(p) = 0 \/ Len(p) = 1 \/ Len(p) = 2
  <2> DEFINE n == Len(p)
  <2>1. n \in Nat /\ n <= 2
    BY <1>1
  <2> HIDE DEF n
  <2>2. n = 0 \/ n = 1 \/ n = 2
    BY <2>1
  <2> QED
    BY <2>2 DEF n
<1> QED
  BY <1>2, <1>3, <1>4, <1>5

\* MergeMCP.
LEMMA FragmentLeaves ==
    ASSUME NEW t, NEW q \in DOMAIN DeclaredMCP(t)
    PROVE  DeclaredMCP(t)[q] # EmptyTable
<1> DEFINE fragments == {GroupFragment(t, g) : g \in GroupsOf(t)}
                        \cup {ServerFragment(t, n) : n \in ServersOf(t) \ GroupsOf(t)}
<1>1. PICK f \in fragments : q \in DOMAIN f /\ DeclaredMCP(t)[q] = f[q]
  <2>1. DeclaredMCP(t) = [p \in UNION {DOMAIN f : f \in fragments} |->
                            (CHOOSE f \in fragments : p \in DOMAIN f)[p]]
    BY DEF DeclaredMCP, Union
  <2> HIDE DEF fragments
  <2> QED
    BY <2>1
<1>2. PICK name, port, enabled, timeout : f = Fragment(name, port, enabled, timeout)
  BY DEF GroupFragment, ServerFragment
<1>3. f[q][1] \in {"string", "url", "bool", "int"}
  BY <1>1, <1>2 DEF Fragment, Str, Bool, Num
<1>4. EmptyTable[1] = "table"
  BY DEF EmptyTable
<1>5. f[q] # EmptyTable
  BY <1>3, <1>4
<1> QED
  BY <1>1, <1>5

LEMMA MCPKeeps ==
    ASSUME NEW t, NEW d, NextDoc("mcp", t, d) # Refused, NEW p \in KeyPaths(d)
    PROVE  Survives(t, d, NextDoc("mcp", t, d), p)
<1> DEFINE declared == DeclaredMCP(t)
           names == Keys(declared, <<"mcp">>)
           taken == {q \in DOMAIN d : Len(q) >= 2 /\ q[1] = "mcp" /\ q[2] \in names}
           kept == Only(d, {q \in DOMAIN d : ~(Len(q) >= 2 /\ q[1] = "mcp" /\ q[2] \in names)})
<1>1. p \in DOMAIN d /\ p \in Seq(STRING)
  BY DEF KeyPaths
<1>2. IsObject(d) /\ NextDoc("mcp", t, d) = MergeMCP(d, declared)
  BY DEF NextDoc, MergeMCP
<1>3. CASE names = {} /\ ~Has(d, <<"mcp">>)
  <2>1. NextDoc("mcp", t, d) = Override(d, Leaf(<<"mcp">>, EmptyTable))
    BY <1>2, <1>3 DEF MergeMCP, Set
  <2>2. ~IsPrefix(<<"mcp">>, p)
    BY <1>1, <1>3 DEF Has, Under
  <2>3. CASE IsPrefix(p, <<"mcp">>)
    <3>1. p = << >> \/ p = <<"mcp">>
      BY <1>1, <2>3, AboveOne
    <3>2. IsPrefix(<<"mcp">>, <<"mcp">>)
      BY DEF IsPrefix
    <3>3. p = << >>
      BY <2>2, <3>1, <3>2
    <3> QED
      BY <1>2, <3>3 DEF IsObject, Survives
  <2>4. CASE ~IsPrefix(p, <<"mcp">>)
    <3>1. \A q \in DOMAIN Leaf(<<"mcp">>, EmptyTable) : ~Related(p, q)
      BY <2>2, <2>4 DEF Leaf, Related
    <3> QED
      BY <1>1, <2>1, <3>1, OverrideKeeps DEF Survives
  <2> QED
    BY <2>3, <2>4
<1>4. CASE ~(names = {} /\ ~Has(d, <<"mcp">>))
  <2>1. NextDoc("mcp", t, d) = Override(kept, declared)
    BY <1>2, <1>4 DEF MergeMCP
  <2>2. declared \in Declarations(t)
    BY DEF Declarations
  <2>3. CASE Len(p) >= 2 /\ p[1] = "mcp" /\ p[2] \in names
    BY <2>2, <2>3 DEF Claims, Claimed, Survives
  <2>4. CASE \E q \in DOMAIN declared : Related(p, q)
    <3>1. Claims(declared, p)
      BY <2>4, FragmentLeaves DEF Claims
    <3> QED
      BY <2>2, <3>1 DEF Claimed, Survives
  <2>5. CASE /\ ~(Len(p) >= 2 /\ p[1] = "mcp" /\ p[2] \in names)
             /\ \A q \in DOMAIN declared : ~Related(p, q)
    <3>1. p \in DOMAIN kept /\ kept[p] = d[p]
      BY <1>1, <2>5 DEF Only
    <3> HIDE DEF kept, names, declared
    <3> QED
      BY <1>1, <2>1, <2>5, <3>1, OverrideKeeps DEF Survives
  <2> QED
    BY <2>3, <2>4, <2>5
<1> QED
  BY <1>3, <1>4

\* mergeRecursive takes what is related to what it writes, and whole tables that
\* are opaque.
LEMMA MergeKeysKeeps ==
    ASSUME NEW t, NEW d, NEW declared \in Declarations(t), NEW p \in KeyPaths(d)
    PROVE  Survives(t, d, MergeKeys(d, declared), p)
<1> DEFINE opaque == {o \in OpaqueTables : Has(declared, o)}
           kept == Only(d, {q \in DOMAIN d : ~ \E o \in opaque : IsPrefix(o, q)})
           written == Only(declared, Writes(kept, declared))
<1>1. p \in DOMAIN d /\ p \in Seq(STRING)
  BY DEF KeyPaths
<1>2. MergeKeys(d, declared) = Override(kept, written)
  BY DEF MergeKeys
<1>3. CASE \E o \in opaque : IsPrefix(o, p)
  BY <1>3 DEF Survives
<1>4. CASE ~ \E o \in opaque : IsPrefix(o, p)
  <2>1. p \in DOMAIN kept /\ kept[p] = d[p]
    <3> HIDE DEF opaque
    <3> QED
      BY <1>1, <1>4 DEF Only
  <2>2. CASE \E q \in DOMAIN written : Related(p, q)
    <3>1. PICK q \in DOMAIN written : Related(p, q)
      BY <2>2
    <3>2. q \in DOMAIN declared /\ (declared[q] = EmptyTable => Under(kept, q) \subseteq {q})
      <4> HIDE DEF kept
      <4> QED
        BY <3>1 DEF Only, Writes
    <3>3. declared[q] = EmptyTable => IsPrefix(p, q)
      <4> HIDE DEF kept
      <4>1. CASE IsPrefix(q, p)
        <5>1. IsPrefix(p, p)
          BY <1>1 DEF IsPrefix
        <5>2. p \in Under(kept, q)
          BY <2>1, <4>1 DEF Under
        <5> QED
          BY <3>2, <5>1, <5>2
      <4>2. CASE IsPrefix(p, q)
        BY <4>2
      <4> QED
        BY <3>1, <4>1, <4>2 DEF Related
    <3> QED
      BY <3>1, <3>2, <3>3 DEF Claims, Claimed, Survives
  <2>3. CASE \A q \in DOMAIN written : ~Related(p, q)
    <3> HIDE DEF kept, written
    <3> QED
      BY <1>1, <1>2, <2>1, <2>3, OverrideKeeps DEF Survives
  <2> QED
    BY <2>2, <2>3
<1> QED
  BY <1>3, <1>4

LEMMA ArrayKeys ==
    ASSUME NEW t
    PROVE  DOMAIN Arrays(t) = {<<"plugin">>, <<"instructions">>, <<"watcher", "ignore">>}
  BY DEF Arrays, Leaf, ++

\* An array of one name is declared itself, and the document is above it.
LEMMA ArrayKeeps ==
    ASSUME NEW t, NEW d, NEW a \in DOMAIN Arrays(t), NEW declared, NEW stale,
           MergeArrayAt(d, a, declared, stale) # Refused,
           NEW p \in KeyPaths(d),
           IsPrefix(p, a) => p = a \/ p = << >> \/ Kind(d, p) = "table"
    PROVE  Survives(t, d, MergeArrayAt(d, a, declared, stale), p)
<1>1. p \in DOMAIN d /\ p \in Seq(STRING)
  BY DEF KeyPaths
<1>2. IsObject(d) /\ (Has(d, a) => Kind(d, a) = "array")
  BY DEF MergeArrayAt
<1>3. PICK leaf : MergeArrayAt(d, a, declared, stale) = Override(d, Leaf(a, leaf))
  BY DEF MergeArrayAt, Set
<1>4. CASE IsPrefix(p, a)
  BY <1>2, <1>4 DEF Survives, IsObject
<1>5. CASE ~IsPrefix(p, a) /\ IsPrefix(a, p)
  <2>1. Has(d, a)
    BY <1>1, <1>5 DEF Has, Under
  <2>2. a \in DOMAIN d
    BY <1>2, <2>1 DEF Kind
  <2>3. a # p
    BY <1>1, <1>5 DEF IsPrefix
  <2> QED
    BY <1>5, <2>2, <2>3 DEF KeyPaths, IsStrictPrefix
<1>6. CASE ~IsPrefix(p, a) /\ ~IsPrefix(a, p)
  <2>1. \A q \in DOMAIN Leaf(a, leaf) : ~Related(p, q)
    BY <1>6 DEF Leaf, Related
  <2> QED
    BY <1>1, <1>3, <2>1, OverrideKeeps DEF Survives
<1> QED
  BY <1>4, <1>5, <1>6

LEMMA TargetKeeps ==
    ASSUME NEW t, NEW d, NEW target \in DocumentTargets, NextDoc(target, t, d) # Refused,
           NEW p \in KeyPaths(d)
    PROVE  Survives(t, d, NextDoc(target, t, d), p)
<1>1. p \in DOMAIN d /\ p \in Seq(STRING)
  BY DEF KeyPaths
<1>2. target \in {"mcp", "plugins", "instructions", "watcher", "providers", "permissions",
                  "lsp", "commands", "formatters", "toggles"}
  BY DEF DocumentTargets, AllTargets, Range
<1>3. CASE target = "mcp"
  BY <1>3, MCPKeeps
<1>4. CASE target = "plugins"
  <2>1. NextDoc(target, t, d) = MergeArrayAt(d, <<"plugin">>, DeclaredPlugins(t), StaleWorktrees)
    BY <1>4 DEF NextDoc
  <2>2. <<"plugin">> \in DOMAIN Arrays(t)
    BY ArrayKeys
  <2>3. IsPrefix(p, <<"plugin">>) => p = << >> \/ p = <<"plugin">>
    BY <1>1, AboveOne
  <2> QED
    BY <2>1, <2>2, <2>3, ArrayKeeps
<1>5. CASE target = "instructions"
  <2>1. NextDoc(target, t, d) = MergeArrayAt(d, <<"instructions">>, DeclaredInstructions(t), {})
    BY <1>5 DEF NextDoc
  <2>2. <<"instructions">> \in DOMAIN Arrays(t)
    BY ArrayKeys
  <2>3. IsPrefix(p, <<"instructions">>) => p = << >> \/ p = <<"instructions">>
    BY <1>1, AboveOne
  <2> QED
    BY <2>1, <2>2, <2>3, ArrayKeeps
<1>6. CASE target = "watcher"
  <2> DEFINE ignored == Items(t, <<"watcher", "ignore">>)
  <2>1. NextDoc(target, t, d) = MergeWatcherIgnore(d, ignored)
    BY <1>6 DEF NextDoc
  <2>2. Kind(d, <<"watcher">>) = "table"
    BY <2>1 DEF MergeWatcherIgnore
  <2>3. NextDoc(target, t, d) = MergeArrayAt(d, <<"watcher", "ignore">>, ignored, {})
    BY <2>1 DEF MergeWatcherIgnore
  <2>4. <<"watcher", "ignore">> \in DOMAIN Arrays(t)
    BY ArrayKeys
  <2>5. IsPrefix(p, <<"watcher", "ignore">>)
          => p = << >> \/ p = <<"watcher">> \/ p = <<"watcher", "ignore">>
    BY <1>1, AboveTwo
  <2> HIDE DEF ignored
  <2> QED
    BY <2>2, <2>3, <2>4, <2>5, ArrayKeeps
<1>7. CASE target \in DOMAIN Sections
  <2> DEFINE declared == Translated(t, Sections[target])
  <2>1. declared \in Declarations(t)
    BY <1>7 DEF Declarations
  <2>2. NextDoc(target, t, d) = d \/ NextDoc(target, t, d) = MergeKeys(d, declared)
    BY <1>7 DEF NextDoc, Sections, MergeObject
  <2> HIDE DEF declared
  <2> QED
    BY <1>1, <2>1, <2>2, MergeKeysKeeps DEF Survives
<1> QED
  BY <1>2, <1>3, <1>4, <1>5, <1>6, <1>7 DEF Sections

\* Only an edit and a target write the document, and an edit is counted.
LEMMA DocumentSteps ==
    ASSUME edits \in Nat, [Next]_vars
    PROVE  /\ edits' \in Nat
           /\ \/ edits' # edits
              \/ doc' = doc
              \/ /\ doc' = Next1 /\ Next1 # Refused
                 /\ Target \in DocumentTargets \cup {"mcp"}
<1>1. ASSUME NEW b \in DOMAIN Blocks, EditStack(b)
      PROVE  edits' = edits + 1
  BY <1>1 DEF EditStack, Edit
<1>2. ASSUME NEW e \in UserEdits, EditDocument(e)
      PROVE  edits' = edits + 1
  BY <1>2 DEF EditDocument, Edit
<1>3. ASSUME NEW s \in DOMAIN SkillAssets, EditSkill(s)
      PROVE  edits' = edits + 1
  BY <1>3 DEF EditSkill, Edit
<1>4. CASE MigrateFromOpenChad \/ MigrateInit
  <2>1. edits' = edits + 1
    BY <1>4 DEF MigrateFromOpenChad, MigrateInit, WriteMigrated, Edit
  <2> QED
    BY <2>1
<1>5. BeginApply => UNCHANGED <<doc, edits>>
  BY DEF BeginApply
<1>6. Refuse \/ ApplySkills \/ ApplyTemporal => UNCHANGED <<doc, edits>>
  BY DEF Refuse, ApplySkills, ApplyTemporal
<1>7. ApplyDocument
        => UNCHANGED edits /\ doc' = Next1 /\ Next1 # Refused /\ Target \in DocumentTargets
  BY DEF ApplyDocument
<1>8. Kill => UNCHANGED edits /\ (doc' = doc \/ (doc' = Next1 /\ Next1 # Refused /\ Target = "mcp"))
  BY DEF Kill
<1>9. UNCHANGED vars => UNCHANGED <<doc, edits>>
  BY DEF vars
<1> HIDE DEF Next1, Target
<1> QED
  BY <1>1, <1>2, <1>3, <1>4, <1>5, <1>6, <1>7, <1>8, <1>9 DEF Next

\* An apply takes nothing from opencode.json that the stack does not declare,
\* whatever documents users write and whatever the stack has.
THEOREM UsersKeepTheirKeys == Spec => UserKeysSurvive
<1>1. Init => edits \in Nat
  BY DEF Init
<1>2. edits \in Nat /\ [Next]_vars => (edits \in Nat)'
  BY DocumentSteps
<1>3. ASSUME edits \in Nat, [Next]_vars, edits' = edits, doc' # doc, NEW p \in KeyPaths(doc)
      PROVE  Survives(stack, doc, doc', p)
  <2>1. doc' = Next1 /\ Next1 # Refused /\ Target \in DocumentTargets \cup {"mcp"}
    BY <1>3, DocumentSteps
  <2>2. "mcp" \in DocumentTargets
    BY DEF DocumentTargets, AllTargets, Range
  <2> QED
    BY <2>1, <2>2, TargetKeeps DEF Next1
<1>4. edits \in Nat /\ [Next]_vars
        => (edits' = edits /\ doc' # doc =>
             LET declarations == Declarations(stack) IN
             \A p \in KeyPaths(doc) :
               \/ Kind(doc, p) = "table" \/ Claimed(declarations, p)
               \/ \E o \in OpaqueTables, declared \in declarations :
                    IsPrefix(o, p) /\ Has(declared, o)
               \/ p \in DOMAIN Arrays(stack)
               \/ p \in DOMAIN doc' /\ doc'[p] = doc[p])
  BY <1>3 DEF Survives
<1> QED
  BY <1>1, <1>2, <1>4, PTL DEF Spec, UserKeysSurvive

--------------------------------------------------------------------------------
(* Settings: a key that is a switch is read as one, and no default takes it. *)

\* Keys of two and of three names, below and above another.
LEMMA BelowTwo ==
    ASSUME NEW p \in Seq(STRING), NEW a, NEW b, IsPrefix(<<a, b>>, p)
    PROVE  Len(p) \in Nat /\ Len(p) >= 2 /\ p[1] = a /\ p[2] = b
<1> DEFINE q == <<a, b>>
<1>1. Len(q) = 2 /\ q[1] = a /\ q[2] = b
  OBVIOUS
<1>2. 2 <= Len(p) /\ SubSeq(q, 1, 2) = SubSeq(p, 1, 2)
  BY <1>1 DEF IsPrefix
<1>3. SubSeq(q, 1, 2)[1] = a /\ SubSeq(q, 1, 2)[2] = b
  OBVIOUS
<1>4. SubSeq(p, 1, 2)[1] = p[1] /\ SubSeq(p, 1, 2)[2] = p[2]
  BY <1>2
<1> HIDE DEF q
<1> QED
  BY <1>2, <1>3, <1>4

LEMMA BelowThree ==
    ASSUME NEW p \in Seq(STRING), NEW a, NEW b, NEW c, IsPrefix(<<a, b, c>>, p)
    PROVE  Len(p) \in Nat /\ Len(p) >= 3 /\ p[1] = a /\ p[2] = b /\ p[3] = c
<1> DEFINE q == <<a, b, c>>
<1>1. Len(q) = 3
  OBVIOUS
<1>2. 3 <= Len(p) /\ SubSeq(q, 1, 3) = SubSeq(p, 1, 3)
  BY <1>1 DEF IsPrefix
<1>3. SubSeq(q, 1, 3)[1] = a /\ SubSeq(q, 1, 3)[2] = b /\ SubSeq(q, 1, 3)[3] = c
  OBVIOUS
<1>4. SubSeq(p, 1, 3)[1] = p[1] /\ SubSeq(p, 1, 3)[2] = p[2] /\ SubSeq(p, 1, 3)[3] = p[3]
  BY <1>2
<1> HIDE DEF q
<1> QED
  BY <1>2, <1>3, <1>4

LEMMA AboveThree ==
    ASSUME NEW p \in Seq(STRING), NEW a, NEW b, NEW c, IsPrefix(p, <<a, b, c>>), Len(p) >= 2
    PROVE  p = <<a, b>> \/ p = <<a, b, c>>
<1>1. Len(p) \in Nat /\ Len(p) <= 3 /\ SubSeq(p, 1, Len(p)) = SubSeq(<<a, b, c>>, 1, Len(p))
  BY DEF IsPrefix
<1>2. CASE Len(p) = 2
  BY <1>1, <1>2
<1>3. CASE Len(p) = 3
  BY <1>1, <1>3
<1>4. Len(p) = 2 \/ Len(p) = 3
  <2> DEFINE n == Len(p)
  <2>1. n \in Nat /\ n <= 3 /\ n >= 2
    BY <1>1
  <2> HIDE DEF n
  <2>2. n = 2 \/ n = 3
    BY <2>1
  <2> QED
    BY <2>2 DEF n
<1> QED
  BY <1>2, <1>3, <1>4

LEMMA PairConcat ==
    ASSUME NEW a, NEW b
    PROVE  <<a>> \o <<b>> = <<a, b>>
<1> DEFINE u == <<a>>
           v == <<b>>
           S == {a, b}
<1>1. u \in Seq(S) /\ v \in Seq(S) /\ Len(u) = 1 /\ Len(v) = 1 /\ u[1] = a /\ v[1] = b
  OBVIOUS
<1> HIDE DEF u, v
<1>2. /\ u \o v \in Seq(S) /\ Len(u \o v) = Len(u) + Len(v)
      /\ \A i \in 1..(Len(u) + Len(v)) :
           (u \o v)[i] = IF i <= Len(u) THEN u[i] ELSE v[i - Len(u)]
  BY <1>1, ConcatProperties, Zenon
<1>3. Len(u \o v) = 2 /\ (u \o v)[1] = a /\ (u \o v)[2] = b
  BY <1>1, <1>2
<1>4. u \o v = <<a, b>>
  <2> DEFINE w == u \o v
  <2>1. w \in Seq(S) /\ Len(w) = 2 /\ w[1] = a /\ w[2] = b
    BY <1>2, <1>3
  <2> HIDE DEF w
  <2>2. w = <<a, b>>
    BY <2>1
  <2> QED
    BY <2>2 DEF w
<1> QED
  BY <1>4 DEF u, v

LEMMA TripleConcat ==
    ASSUME NEW a, NEW b, NEW c
    PROVE  <<a, b>> \o <<c>> = <<a, b, c>>
<1> DEFINE u == <<a, b>>
           v == <<c>>
           S == {a, b, c}
<1>1. u \in Seq(S) /\ v \in Seq(S) /\ Len(u) = 2 /\ Len(v) = 1
  OBVIOUS
<1>2. u[1] = a /\ u[2] = b /\ v[1] = c
  OBVIOUS
<1> HIDE DEF u, v
<1>3. /\ u \o v \in Seq(S) /\ Len(u \o v) = Len(u) + Len(v)
      /\ \A i \in 1..(Len(u) + Len(v)) :
           (u \o v)[i] = IF i <= Len(u) THEN u[i] ELSE v[i - Len(u)]
  BY <1>1, ConcatProperties, Zenon
<1>4. Len(u \o v) = 3 /\ (u \o v)[1] = a /\ (u \o v)[2] = b /\ (u \o v)[3] = c
  BY <1>2, <1>1, <1>3
<1>5. u \o v = <<a, b, c>>
  <2> DEFINE w == u \o v
  <2>1. w \in Seq(S) /\ Len(w) = 3 /\ w[1] = a /\ w[2] = b /\ w[3] = c
    BY <1>3, <1>4
  <2> HIDE DEF w
  <2>2. w = <<a, b, c>>
    BY <2>1
  <2> QED
    BY <2>2 DEF w
<1> QED
  BY <1>5 DEF u, v

LEMMA PrefixOne ==
    ASSUME NEW p \in Seq(STRING), Len(p) >= 1
    PROVE  IsPrefix(<< >>, p) /\ IsPrefix(<<p[1]>>, p)
<1>1. IsPrefix(<< >>, p)
  BY DEF IsPrefix
<1>2. SubSeq(<<p[1]>>, 1, 1) = SubSeq(p, 1, 1)
  OBVIOUS
<1> QED
  BY <1>1, <1>2 DEF IsPrefix

LEMMA PrefixTwo ==
    ASSUME NEW p \in Seq(STRING), Len(p) >= 2
    PROVE  IsPrefix(<<p[1], p[2]>>, p)
<1>1. SubSeq(<<p[1], p[2]>>, 1, 2) = SubSeq(p, 1, 2)
  OBVIOUS
<1> QED
  BY <1>1 DEF IsPrefix

LEMMA PrefixThree ==
    ASSUME NEW p \in Seq(STRING), Len(p) >= 3
    PROVE  IsPrefix(<<p[1], p[2], p[3]>>, p)
<1>1. SubSeq(<<p[1], p[2], p[3]>>, 1, 3) = SubSeq(p, 1, 3)
  OBVIOUS
<1> QED
  BY <1>1 DEF IsPrefix

\* The names of a key are keys of the tables above it.
LEMMA KeysBelow ==
    ASSUME NEW t, NEW p \in KeyPaths(t), Len(p) >= 2
    PROVE  /\ p[1] \in Keys(t, << >>) /\ p[2] \in Keys(t, <<p[1]>>)
           /\ Len(p) >= 3 => p[3] \in Keys(t, <<p[1], p[2]>>)
           /\ Len(p) >= 3 => Kind(t, <<p[1], p[2]>>) = "table"
<1>1. p \in DOMAIN t /\ p \in Seq(STRING) /\ Len(p) \in Nat
  BY DEF KeyPaths
<1>2. p[1] \in Keys(t, << >>)
  <2>1. Len(<< >>) + 1 = 1 /\ Len(p) > Len(<< >>)
    BY <1>1
  <2>2. p \in Under(t, << >>)
    <3>1. IsPrefix(<< >>, p)
      <4>1. Len(p) >= 1
        BY <1>1
      <4> QED
        BY <1>1, <4>1, PrefixOne
    <3> QED
      BY <1>1, <3>1 DEF Under
  <2> QED
    BY <2>1, <2>2 DEF Keys
<1>3. p[2] \in Keys(t, <<p[1]>>)
  BY <1>1, PrefixOne DEF Keys, Under
<1>4. ASSUME Len(p) >= 3
      PROVE  p[3] \in Keys(t, <<p[1], p[2]>>) /\ Kind(t, <<p[1], p[2]>>) = "table"
  <2> DEFINE q == <<p[1], p[2]>>
  <2>1. Len(q) = 2 /\ IsPrefix(q, p) /\ q # p
    <3>1. Len(p) # 2
      <4>1. \A n \in Nat : n >= 3 => n # 2
        OBVIOUS
      <4> QED
        BY <1>1, <1>4, <4>1, Zenon
    <3>2. Len(q) = 2
      OBVIOUS
    <3>3. IsPrefix(q, p)
      BY <1>1, PrefixTwo
    <3> HIDE DEF q
    <3> QED
      BY <3>1, <3>2, <3>3
  <2> HIDE DEF q
  <2>2. p[3] \in Keys(t, q)
    BY <1>1, <1>4, <2>1 DEF Keys, Under
  <2>3. q \notin DOMAIN t
    BY <2>1 DEF KeyPaths, IsStrictPrefix
  <2> QED
    BY <2>2, <2>3 DEF Kind, q
<1> QED
  BY <1>2, <1>3, <1>4

\* A strict key q of the given kind is of this kind, or the file is not parsed.
StrictKey(t, q, kind) ==
    \E r, as, k :
      /\ q = r \o <<k>> /\ <<r, as>> \in TablesOf(t) /\ k \in Keys(t, r)
      /\ k \in DOMAIN as.strict /\ as.strict[k] = kind

LEMMA StrictFits ==
    ASSUME NEW t, ~ParseFails(t), NEW q, NEW kind, StrictKey(t, q, kind)
    PROVE  Fits(t, q, kind)
<1>1. PICK r, as, k : /\ q = r \o <<k>> /\ <<r, as>> \in TablesOf(t) /\ k \in Keys(t, r)
                      /\ k \in DOMAIN as.strict /\ as.strict[k] = kind
  BY DEF StrictKey
<1>2. ~Undecodable(t, r, as)
  BY <1>1 DEF ParseFails
<1> QED
  BY <1>1, <1>2 DEF Undecodable

\* The kinds that are no tables, and what a leaf of each is in the file.
LeafOf(kind) ==
    CASE kind = "strings" -> "array" [] kind = "duration" -> "string" [] OTHER -> kind

LEMMA StrictLeaf ==
    ASSUME NEW t, ~ParseFails(t), NEW p \in KeyPaths(t), NEW q,
           NEW kind \in {"string", "duration", "bool", "int", "strings"},
           StrictKey(t, q, kind), IsPrefix(q, p)
    PROVE  p = q /\ t[p][1] = LeafOf(kind)
<1>1. Kind(t, q) = LeafOf(kind)
  BY StrictFits DEF Fits, LeafOf
<1>2. q \in DOMAIN t /\ t[q][1] = Kind(t, q)
  BY <1>1 DEF Kind, LeafOf
<1>3. q = p
  BY <1>2 DEF KeyPaths, IsStrictPrefix
<1> QED
  BY <1>1, <1>2, <1>3

\* The same for a key of a section, of the watchdog's table and of a plugin.
LEMMA SectionKey ==
    ASSUME NEW t, ~ParseFails(t), NEW p \in KeyPaths(t),
           NEW s \in DOMAIN Single, NEW k \in DOMAIN Single[s].strict,
           IsPrefix(<<s, k>>, p)
    PROVE  StrictKey(t, <<s, k>>, Single[s].strict[k])
<1>1. p \in Seq(STRING)
  BY DEF KeyPaths
<1>2. Len(p) >= 2 /\ p[1] = s /\ p[2] = k
  BY <1>1, BelowTwo
<1>3. s \in Keys(t, << >>) /\ k \in Keys(t, <<s>>)
  BY <1>2, KeysBelow
<1>4. <<<<s>>, Single[s]>> \in TablesOf(t)
  BY <1>3, Zenon DEF TablesOf
<1>5. <<s>> \o <<k>> = <<s, k>>
  BY PairConcat
<1> QED
  BY <1>3, <1>4, <1>5 DEF StrictKey

LEMMA WatchdogTable ==
    ASSUME NEW t, "watchdog" \in Keys(t, <<"session">>)
    PROVE  <<<<"session", "watchdog">>, Watchdog>> \in TablesOf(t)
<1>1. <<"session">> \o <<"watchdog">> = <<"session", "watchdog">>
  BY PairConcat
<1>2. <<<<"session", "watchdog">>, Watchdog>> \in Within(t, <<"session">>, {"watchdog"}, Watchdog)
  BY <1>1 DEF Within
<1> QED
  BY <1>2, Zenon DEF TablesOf

LEMMA WatchdogKey ==
    ASSUME NEW t, ~ParseFails(t), NEW p \in KeyPaths(t), NEW k \in DOMAIN Watchdog.strict,
           IsPrefix(<<"session", "watchdog", k>>, p)
    PROVE  StrictKey(t, <<"session", "watchdog", k>>, Watchdog.strict[k])
<1>1. p \in Seq(STRING)
  BY DEF KeyPaths
<1>2. Len(p) >= 3 /\ Len(p) >= 2 /\ p[1] = "session" /\ p[2] = "watchdog" /\ p[3] = k
  BY <1>1, BelowThree
<1>3. "watchdog" \in Keys(t, <<"session">>) /\ k \in Keys(t, <<"session", "watchdog">>)
  BY <1>2, KeysBelow
<1>4. <<<<"session", "watchdog">>, Watchdog>> \in TablesOf(t)
  BY <1>3, WatchdogTable
<1>5. <<"session", "watchdog">> \o <<k>> = <<"session", "watchdog", k>>
  BY TripleConcat
<1> QED
  BY <1>3, <1>4, <1>5 DEF StrictKey

LEMMA PluginKey ==
    ASSUME NEW t, ~ParseFails(t), NEW p \in KeyPaths(t), NEW n, NEW k \in DOMAIN Plugin.strict,
           IsPrefix(<<"plugins", n, k>>, p)
    PROVE  StrictKey(t, <<"plugins", n, k>>, Plugin.strict[k])
<1>1. p \in Seq(STRING)
  BY DEF KeyPaths
<1>2. Len(p) >= 3 /\ Len(p) >= 2 /\ p[1] = "plugins" /\ p[2] = n /\ p[3] = k
  BY <1>1, BelowThree
<1>3. /\ n \in Keys(t, <<"plugins">>) /\ k \in Keys(t, <<"plugins", n>>)
      /\ Kind(t, <<"plugins", n>>) = "table"
  BY <1>2, KeysBelow
<1>4. <<<<"plugins", n>>, Plugin>> \in TablesOf(t)
  <2>1. <<"plugins">> \o <<n>> = <<"plugins", n>>
    BY PairConcat
  <2>2. <<<<"plugins", n>>, Plugin>> \in EachOf(t, <<"plugins">>, Plugin)
    BY <1>3, <2>1 DEF EachOf, Tables
  <2>3. "plugins" \in DOMAIN Named /\ Named["plugins"] = Plugin
    BY DEF Named
  <2> QED
    BY <2>2, <2>3, Zenon DEF TablesOf
<1>5. <<"plugins", n>> \o <<k>> = <<"plugins", n, k>>
  BY TripleConcat
<1> QED
  BY <1>3, <1>4, <1>5 DEF StrictKey

LEMMA RelatedTwo ==
    ASSUME NEW p \in Seq(STRING), Len(p) >= 2, NEW a, NEW b, Related(p, <<a, b>>)
    PROVE  IsPrefix(<<a, b>>, p)
<1>1. CASE IsPrefix(<<a, b>>, p)
  BY <1>1
<1>2. CASE IsPrefix(p, <<a, b>>)
  <2>1. p = << >> \/ p = <<a>> \/ p = <<a, b>>
    BY <1>2, AboveTwo
  <2>2. Len(<< >>) = 0 /\ Len(<<a>>) = 1
    OBVIOUS
  <2>3. p = <<a, b>>
    BY <2>1, <2>2
  <2>4. IsPrefix(p, p)
    BY DEF IsPrefix
  <2> QED
    BY <2>3, <2>4
<1> QED
  BY <1>1, <1>2 DEF Related

LEMMA RelatedThree ==
    ASSUME NEW p \in Seq(STRING), Len(p) >= 2, NEW a, NEW b, NEW c, Related(p, <<a, b, c>>)
    PROVE  IsPrefix(<<a, b, c>>, p) \/ p = <<a, b>>
<1>1. CASE IsPrefix(p, <<a, b, c>>)
  <2>1. p = <<a, b>> \/ p = <<a, b, c>>
    BY <1>1, AboveThree
  <2>2. IsPrefix(p, p)
    BY DEF IsPrefix
  <2> QED
    BY <2>1, <2>2
<1> QED
  BY <1>1 DEF Related

--------------------------------------------------------------------------------
\* A switch or a number of the file t that OCA keeps when it parses it.
Setting(t, p) == ~ParseFails(t) /\ p \in KeyPaths(t) /\ IsSetting(Parsed(t), p)

LEMMA ParsedSetting ==
    ASSUME NEW t, NEW p, Setting(t, p)
    PROVE  /\ p \in DOMAIN t /\ p \in Seq(STRING) /\ Len(p) \in Nat /\ Len(p) >= 2
           /\ p \in DOMAIN Parsed(t) /\ Parsed(t)[p] = t[p]
           /\ t[p][1] \in {"bool", "int"}
           /\ t[p][1] = "int" => p[1] = "update_probe"
<1> DEFINE In == {x \in TablesOf(t) : IsStrictPrefix(x[1], p)}
<1>1. p \in DOMAIN t /\ p \in Seq(STRING)
  BY DEF Setting, KeyPaths
<1>2. /\ Len(p) >= 2 /\ p \in DOMAIN Parsed(t)
      /\ Parsed(t)[p][1] = "bool" \/ (Parsed(t)[p][1] = "int" /\ p[1] = "update_probe")
  BY DEF Setting, IsSetting
<1>3. Parsed(t)[p] \in {EmptyTable, OnlyStrings(t[p]), t[p]}
  BY <1>2 DEF Parsed, ++
<1>4. EmptyTable[1] = "table"
  BY DEF EmptyTable
<1>5. OnlyStrings(t[p]) = t[p] \/ OnlyStrings(t[p])[1] = "array"
  BY DEF OnlyStrings, Arr
<1>6. Parsed(t)[p] = t[p]
  BY <1>2, <1>3, <1>4, <1>5
<1> QED
  BY <1>1, <1>2, <1>6

\* A bound of bumps that is no number is not kept.
LEMMA NoMaxBumps ==
    ASSUME NEW t, NEW p, Setting(t, p)
    PROVE  ~IsPrefix(<<"session", "watchdog", "max_bumps">>, p)
<1> DEFINE q == <<"session", "watchdog", "max_bumps">>
           x == <<<<"session", "watchdog">>, Watchdog>>
<1> SUFFICES ASSUME IsPrefix(q, p)
             PROVE  FALSE
  OBVIOUS
<1>1. /\ p \in DOMAIN t /\ p \in Seq(STRING) /\ p \in KeyPaths(t) /\ p \in DOMAIN Parsed(t)
      /\ Parsed(t)[p] = t[p] /\ t[p][1] \in {"bool", "int"}
      /\ t[p][1] = "int" => p[1] = "update_probe"
  BY ParsedSetting DEF Setting
<1>2. /\ Len(p) \in Nat /\ Len(p) >= 3 /\ p[1] = "session" /\ p[2] = "watchdog"
      /\ p[3] = "max_bumps"
  BY <1>1, BelowThree
<1>3. x \in TablesOf(t)
  <2>1. Len(p) >= 2
    BY <1>2
  <2> QED
    BY <1>1, <1>2, <2>1, KeysBelow, WatchdogTable
<1>4. IsStrictPrefix(x[1], p) /\ p[Len(x[1]) + 1] = "max_bumps"
  <2>1. x[1] = <<p[1], p[2]>> /\ Len(x[1]) = 2
    BY <1>2
  <2>2. IsPrefix(x[1], p)
    <3>1. Len(p) >= 2
      BY <1>2
    <3> QED
      BY <1>1, <2>1, <3>1, PrefixTwo
  <2>3. Len(p) # 2
    <3> DEFINE n == Len(p)
    <3>1. n \in Nat /\ n >= 3
      BY <1>2
    <3> HIDE DEF n
    <3>2. n # 2
      BY <3>1
    <3> QED
      BY <3>2 DEF n
  <2> HIDE DEF x
  <2> QED
    BY <1>2, <2>1, <2>2, <2>3 DEF IsStrictPrefix
<1>5. "max_bumps" \in DOMAIN Watchdog.lenient /\ Watchdog.lenient["max_bumps"] = "int"
  BY DEF Watchdog, Table, Of, ++
<1>6. x[1] \o <<"max_bumps">> = q /\ x[2] = Watchdog
  BY TripleConcat
<1>7. Fits(t, q, "int")
  <2>1. \A y \in TablesOf(t) :
          IsStrictPrefix(y[1], p) /\ p[Len(y[1]) + 1] \in DOMAIN y[2].lenient
            => Fits(t, y[1] \o <<p[Len(y[1]) + 1]>>, y[2].lenient[p[Len(y[1]) + 1]])
    <3>1. EmptyTable[1] = "table"
      BY DEF EmptyTable
    <3> QED
      BY <1>1, <3>1 DEF Parsed, ++
  <2> HIDE DEF x, q
  <2> QED
    BY <1>3, <1>4, <1>5, <1>6, <2>1
<1>8. Kind(t, q) = "int"
  BY <1>7 DEF Fits
<1>9. q \in DOMAIN t /\ t[q][1] = "int"
  BY <1>8 DEF Kind
<1>10. q = p
  BY <1>1, <1>9 DEF KeyPaths, IsStrictPrefix
<1> QED
  BY <1>1, <1>2, <1>9, <1>10

\* A setting is no string, and what is related to a key of its section is this
\* key, or below its table.
LEMMA SectionSetting ==
    ASSUME NEW t, NEW p, Setting(t, p), NEW s \in DOMAIN Single, NEW k \in DOMAIN Single[s].strict,
           Related(p, <<s, k>>)
    PROVE  /\ Single[s].strict[k] \notin {"string", "duration"}
           /\ Single[s].strict[k] \in {"bool", "int"} => p = <<s, k>>
           /\ Single[s].strict[k] = "table" => p # <<s, k>>
<1> DEFINE kind == Single[s].strict[k]
           q == <<s, k>>
<1>1. /\ p \in DOMAIN t /\ p \in Seq(STRING) /\ p \in KeyPaths(t) /\ ~ParseFails(t)
      /\ Len(p) >= 2 /\ t[p][1] \in {"bool", "int"}
  BY ParsedSetting DEF Setting
<1>2. IsPrefix(q, p)
  BY <1>1, RelatedTwo
<1>3. StrictKey(t, q, kind)
  BY <1>1, <1>2, SectionKey
<1> HIDE DEF kind, q
<1>4. ASSUME kind \in {"string", "duration", "bool", "int"}
      PROVE  p = q /\ kind \notin {"string", "duration"}
  <2>1. p = q /\ t[p][1] = LeafOf(kind)
    BY <1>1, <1>2, <1>3, <1>4, StrictLeaf
  <2> QED
    BY <1>1, <2>1 DEF LeafOf
<1>5. ASSUME kind = "table", p = q
      PROVE  FALSE
  <2>1. Kind(t, q) = "table"
    BY <1>1, <1>3, <1>5, StrictFits DEF Fits
  <2> QED
    BY <1>1, <1>5, <2>1 DEF Kind
<1> QED
  BY <1>4, <1>5 DEF kind, q

LEMMA WatchdogSetting ==
    ASSUME NEW t, NEW p, Setting(t, p), NEW k \in {"max_bumps", "idle_timeout"}
    PROVE  ~Related(p, <<"session", "watchdog", k>>)
<1> SUFFICES ASSUME Related(p, <<"session", "watchdog", k>>)
             PROVE  FALSE
  OBVIOUS
<1>1. /\ p \in DOMAIN t /\ p \in Seq(STRING) /\ p \in KeyPaths(t) /\ ~ParseFails(t)
      /\ Len(p) >= 2 /\ t[p][1] \in {"bool", "int"}
  BY ParsedSetting DEF Setting
<1>2. CASE p = <<"session", "watchdog">>
  <2>1. /\ "session" \in DOMAIN Single /\ "watchdog" \in DOMAIN Single["session"].strict
        /\ Single["session"].strict["watchdog"] = "table"
    BY DEF Single, Session, Table, Of, ++
  <2>2. Related(p, <<"session", "watchdog">>)
    BY <1>1, <1>2 DEF Related, IsPrefix
  <2> QED
    BY <1>2, <2>1, <2>2, SectionSetting
<1>3. CASE IsPrefix(<<"session", "watchdog", k>>, p)
  <2>1. CASE k = "max_bumps"
    BY <1>3, <2>1, NoMaxBumps
  <2>2. CASE k = "idle_timeout"
    <3>1. "idle_timeout" \in DOMAIN Watchdog.strict /\ Watchdog.strict["idle_timeout"] = "duration"
      BY DEF Watchdog, Table, Of, ++
    <3>2. StrictKey(t, <<"session", "watchdog", "idle_timeout">>, "duration")
      BY <1>1, <1>3, <2>2, <3>1, WatchdogKey
    <3>3. t[p][1] = LeafOf("duration")
      BY <1>1, <1>3, <2>2, <3>2, StrictLeaf
    <3> QED
      BY <1>1, <3>3 DEF LeafOf
  <2> QED
    BY <2>1, <2>2
<1> QED
  BY <1>1, <1>2, <1>3, RelatedThree

LEMMA PluginSetting ==
    ASSUME NEW t, NEW p, Setting(t, p), NEW n, NEW k \in {"path", "sync", "instructions"}
    PROVE  ~Related(p, <<"plugins", n, k>>)
<1> SUFFICES ASSUME Related(p, <<"plugins", n, k>>)
             PROVE  FALSE
  OBVIOUS
<1>1. /\ p \in DOMAIN t /\ p \in Seq(STRING) /\ p \in KeyPaths(t) /\ ~ParseFails(t)
      /\ Len(p) >= 2 /\ t[p][1] \in {"bool", "int"}
  BY ParsedSetting DEF Setting
<1>2. CASE p = <<"plugins", n>>
  <2>1. Len(p) = 2 /\ p[1] = "plugins"
    BY <1>2
  <2> QED
    BY <1>1, <2>1 DEF ParseFails, NoTable
<1>3. CASE IsPrefix(<<"plugins", n, k>>, p)
  <2>1. k \in DOMAIN Plugin.strict /\ Plugin.strict[k] \in {"string", "strings"}
    BY DEF Plugin, Table, Of, ++
  <2>2. StrictKey(t, <<"plugins", n, k>>, Plugin.strict[k])
    BY <1>1, <1>3, <2>1, PluginKey
  <2>3. t[p][1] = LeafOf(Plugin.strict[k])
    BY <1>1, <1>3, <2>1, <2>2, StrictLeaf
  <2> QED
    BY <1>1, <2>1, <2>3 DEF LeafOf
<1> QED
  BY <1>1, <1>2, <1>3, RelatedThree

LEMMA ResolvedSetting ==
    ASSUME NEW t, NEW p, Setting(t, p)
    PROVE  p \in DOMAIN Resolved(Parsed(t)) /\ Resolved(Parsed(t))[p] = t[p]
<1> DEFINE parsed == Parsed(t)
           expanded == [r \in DOMAIN parsed |->
                          IF Expanded(r) THEN ExpandLeaf(parsed[r]) ELSE parsed[r]]
           plugins == Union({ExpandPlugin(parsed, <<"plugins", n>>) :
                               n \in Keys(parsed, <<"plugins">>)})
<1>1. /\ p \in Seq(STRING) /\ p \in DOMAIN parsed /\ parsed[p] = t[p]
      /\ t[p][1] \in {"bool", "int"}
  BY ParsedSetting
<1>2. p \in DOMAIN expanded /\ expanded[p] = t[p]
  <2>1. ExpandLeaf(t[p]) = t[p]
    BY <1>1 DEF ExpandLeaf
  <2> HIDE DEF parsed
  <2> QED
    BY <1>1, <2>1
<1>3. ASSUME NEW q \in DOMAIN plugins
      PROVE  ~Related(p, q)
  <2>1. PICK n : q \in DOMAIN ExpandPlugin(parsed, <<"plugins", n>>)
    BY DEF Union
  <2>2. q \in {<<"plugins", n>> \o <<"path">>, <<"plugins", n>> \o <<"sync">>,
              <<"plugins", n>> \o <<"instructions">>}
    BY <2>1 DEF ExpandPlugin, NoDocument, Leaf, ++
  <2>3. PICK k \in {"path", "sync", "instructions"} : q = <<"plugins", n, k>>
    BY <2>2, TripleConcat
  <2> QED
    BY <2>3, PluginSetting
<1>4. ASSUME NEW q \in DOMAIN SessionDefaults(parsed)
      PROVE  ~Related(p, q)
  <2> DEFINE s == <<"session">>
             w == <<"session", "watchdog">>
  <2>1. \/ \E k \in {"mode", "theme", "reaper_threshold"} : q = s \o <<k>>
        \/ \E k \in {"reaper", "boot_splash"} : q = s \o <<k>> /\ q \notin DOMAIN parsed
        \/ \E k \in {"max_bumps", "idle_timeout"} : q = w \o <<k>>
    <3> HIDE DEF parsed
    <3> QED
      BY DEF SessionDefaults, IfZero, IfAbsent, NoDocument, Leaf, ++
  <2>2. \A k : s \o <<k>> = <<"session", k>> /\ w \o <<k>> = <<"session", "watchdog", k>>
    BY PairConcat, TripleConcat
  <2>3. /\ "session" \in DOMAIN Single
        /\ \A k \in {"mode", "theme"} :
             k \in DOMAIN Single["session"].strict /\ Single["session"].strict[k] = "string"
        /\ \A k \in {"reaper", "boot_splash"} :
             k \in DOMAIN Single["session"].strict /\ Single["session"].strict[k] = "bool"
        /\ "reaper_threshold" \in DOMAIN Single["session"].strict
        /\ Single["session"].strict["reaper_threshold"] = "duration"
    BY DEF Single, Session, Table, Of, ++
  <2> HIDE DEF s, w, parsed
  <2>4. CASE \E k \in {"mode", "theme", "reaper_threshold"} : q = s \o <<k>>
    <3>1. PICK k \in {"mode", "theme", "reaper_threshold"} : q = <<"session", k>>
      BY <2>2, <2>4
    <3>2. /\ "session" \in DOMAIN Single /\ k \in DOMAIN Single["session"].strict
          /\ Single["session"].strict[k] \in {"string", "duration"}
      BY <2>3
    <3> QED
      BY <3>1, <3>2, SectionSetting
  <2>5. CASE \E k \in {"reaper", "boot_splash"} : q = s \o <<k>> /\ q \notin DOMAIN parsed
    <3>1. PICK k \in {"reaper", "boot_splash"} : q = <<"session", k>> /\ q \notin DOMAIN parsed
      BY <2>2, <2>5
    <3>2. /\ "session" \in DOMAIN Single /\ k \in DOMAIN Single["session"].strict
          /\ Single["session"].strict[k] = "bool"
      BY <2>3
    <3>3. Related(p, q) => p = q
      BY <3>1, <3>2, SectionSetting
    <3> QED
      BY <1>1, <3>1, <3>3
  <2>6. CASE \E k \in {"max_bumps", "idle_timeout"} : q = w \o <<k>>
    BY <2>2, <2>6, WatchdogSetting
  <2> QED
    BY <2>1, <2>4, <2>5, <2>6
<1>5. \A q \in DOMAIN (plugins ++ SessionDefaults(parsed)) : ~Related(p, q)
  <2> HIDE DEF plugins, parsed
  <2> QED
    BY <1>3, <1>4 DEF ++
<1>6. Resolved(parsed) = Override(expanded, plugins ++ SessionDefaults(parsed))
  BY DEF Resolved
<1> HIDE DEF expanded, plugins, parsed
<1>7. p \in DOMAIN Resolved(parsed) /\ Resolved(parsed)[p] = expanded[p]
  BY <1>1, <1>2, <1>5, <1>6, OverrideKeeps
<1> QED
  BY <1>2, <1>7 DEF parsed

LEMMA FilledSetting ==
    ASSUME NEW t, NEW p, Setting(t, p), NEW r, p \in DOMAIN r
    PROVE  p \in DOMAIN Filled(r) /\ Filled(r)[p] = r[p]
<1>1. p \in Seq(STRING)
  BY ParsedSetting
<1>2. /\ {"temporal", "shell", "update_probe"} \subseteq DOMAIN Single
      /\ \A k \in {"address", "namespace"} :
           k \in DOMAIN Single["temporal"].strict /\ Single["temporal"].strict[k] = "string"
      /\ "auto_refresh_notice" \in DOMAIN Single["shell"].strict
      /\ Single["shell"].strict["auto_refresh_notice"] = "string"
      /\ "default" \in DOMAIN Single["update_probe"].strict
      /\ Single["update_probe"].strict["default"] = "string"
      /\ \A k \in DOMAIN Timeouts :
           k \in DOMAIN Single["update_probe"].strict /\ Single["update_probe"].strict[k] = "int"
  BY DEF Single, Temporal, Shell, UpdateProbe, Timeouts, Table, Of, ++
<1>3. ASSUME NEW q \in DOMAIN TemporalDefaults(r)
      PROVE  ~Related(p, q)
  <2>1. \E k \in {"address", "namespace"} : q = <<"temporal", k>>
    BY DEF TemporalDefaults, IfZero, NoDocument, Leaf, ++
  <2> QED
    BY <1>2, <2>1, SectionSetting
<1>4. ASSUME NEW q \in DOMAIN ShellDefaults(r)
      PROVE  ~Related(p, q)
  <2> DEFINE probes == Union({ProbeDefault(r, k) : k \in DOMAIN Timeouts})
  <2>1. ASSUME q \in DOMAIN probes
        PROVE  \E k \in DOMAIN Timeouts : q = <<"update_probe", k>> /\ q \notin DOMAIN r
    <3>1. PICK k \in DOMAIN Timeouts : q \in DOMAIN ProbeDefault(r, k)
      BY <2>1 DEF Union
    <3> QED
      BY <3>1 DEF ProbeDefault, IfAbsent, NoDocument, Leaf
  <2>2. \/ q \in {<<"shell", "auto_refresh_notice">>, <<"update_probe", "default">>}
        \/ q \in DOMAIN probes
    <3> HIDE DEF probes
    <3>1. ShellDefaults(r) = IfZero(r, <<"shell", "auto_refresh_notice">>, Str("off"), "")
                             ++ IfZero(r, <<"update_probe", "default">>, Str("passive"), "")
                             ++ probes
      BY DEF ShellDefaults, probes
    <3> QED
      BY <3>1 DEF IfZero, NoDocument, Leaf, ++
  <2> HIDE DEF probes
  <2>3. CASE q \in {<<"shell", "auto_refresh_notice">>, <<"update_probe", "default">>}
    BY <1>2, <2>3, SectionSetting
  <2>4. CASE q \in DOMAIN probes
    BY <1>2, <2>1, <2>4, SectionSetting
  <2> QED
    BY <2>2, <2>3, <2>4
<1>5. \A q \in DOMAIN (TemporalDefaults(r) ++ ShellDefaults(r)) : ~Related(p, q)
  BY <1>3, <1>4 DEF ++
<1> QED
  BY <1>1, <1>5, OverrideKeeps DEF Filled

LEMMA LoadedSetting ==
    ASSUME NEW t, Accepted(Load(t)), NEW p \in KeyPaths(t), IsSetting(Parsed(t), p)
    PROVE  p \in DOMAIN Load(t) /\ Load(t)[p] = t[p]
<1>1. Setting(t, p) /\ Load(t) = Filled(Resolved(Parsed(t)))
  BY DEF Accepted, Load, Setting
<1> QED
  BY <1>1, ResolvedSetting, FilledSetting

\* A switch or a number that stack.toml has keeps its value in every stack that
\* an apply loads, whatever else the file has.
THEOREM SettingsAreKept == Spec => SettingsKept
<1>1. [Next]_vars => stack' = stack \/ (stack' = Load(Raw) /\ Accepted(stack'))
  <2>1. ASSUME NEW b \in DOMAIN Blocks, EditStack(b)
        PROVE  stack' = stack
    BY <2>1 DEF EditStack
  <2>2. ASSUME NEW e \in UserEdits, EditDocument(e)
        PROVE  stack' = stack
    BY <2>2 DEF EditDocument
  <2>3. ASSUME NEW s \in DOMAIN SkillAssets, EditSkill(s)
        PROVE  stack' = stack
    BY <2>3 DEF EditSkill
  <2>4. MigrateFromOpenChad \/ MigrateInit => stack' = stack
    BY DEF MigrateFromOpenChad, MigrateInit, WriteMigrated
  <2>5. BeginApply => stack' = Load(Raw) /\ Accepted(stack')
    BY DEF BeginApply
  <2>6. Refuse \/ ApplyDocument \/ ApplySkills \/ ApplyTemporal \/ Kill => stack' = stack
    BY DEF Refuse, ApplyDocument, ApplySkills, ApplyTemporal, Kill
  <2>7. UNCHANGED vars => stack' = stack
    BY DEF vars
  <2> HIDE DEF Raw
  <2> QED
    BY <2>1, <2>2, <2>3, <2>4, <2>5, <2>6, <2>7 DEF Next
<1>2. ASSUME [Next]_vars, stack' # stack, NEW p \in KeyPaths(Raw), IsSetting(Parsed(Raw), p)
      PROVE  p \in DOMAIN stack' /\ stack'[p] = Raw[p]
  BY <1>1, <1>2, LoadedSetting
<1>3. [Next]_vars
        => (stack' # stack =>
              LET raw == Raw
                  parsed == Parsed(raw)
              IN  \A p \in KeyPaths(raw) :
                    IsSetting(parsed, p) => p \in DOMAIN stack' /\ stack'[p] = raw[p])
  BY <1>2
<1> QED
  BY <1>3, PTL DEF Spec, SettingsKept
================================================================================
