------------------------------ MODULE RenderStack ------------------------------
(***************************************************************************)
(* internal/render: what a loaded stack makes of opencode.json, of Vision's *)
(* servers.yaml, of the skills directory and of temporal.env.  Each stage   *)
(* of an apply takes the document and returns the one it writes.            *)
(***************************************************************************)
EXTENDS StackConfig

CONSTANTS
    Canonical,        \* what canonicalPath makes of an entry it changes
    StaleWorktrees,   \* the entries that name a worktree which is gone
    NameOrder,        \* the plugin names, sorted
    PluginEntry,      \* the entry of an npm or local plugin, by source and path
    AdvInstructions,  \* the files that end with ADV_INSTRUCTIONS.md
    SkillAssets       \* the contents of the skills that OCA brings

ASSUME NameAssumption == NameOrder \in Seq(STRING)

\* A document that cannot be merged: it is no object, or what a stage works on
\* is of another type.
Refused == Leaf(<<"not rendered">>, EmptyTable)
IsObject(doc) == Kind(doc, << >>) = "table"

ZeroLeaves == {Str(""), Num(0), Bool(FALSE), Arr(<< >>), EmptyTable}
IsZero(leaf) == leaf \in ZeroLeaves \/ (leaf[1] = "int" /\ leaf[2] < 0)
--------------------------------------------------------------------------------
(* opencode_json.go, MergeMCP: one entry for each server and slot group. *)

DefaultTimeout == 5000
Truncated(n, d) == IF n >= 0 THEN n \div d ELSE -((-n) \div d)

\* The timeout of the server table p, in milliseconds.
EffectiveTimeout(t, p) ==
    LET request == Text(t, p \o <<"request_timeout">>) IN
    CASE Number(t, p \o <<"timeout">>) > 0 -> Number(t, p \o <<"timeout">>)
      [] OTHER -> IF IsDuration(request) THEN Truncated(Durations[request], 1000)
                  ELSE DefaultTimeout

Fragment(name, port, enabled, timeout) ==
    LET entry == [type |-> Str("remote"), url |-> <<"url", port>>,
                  enabled |-> Bool(enabled), oauth |-> Bool(FALSE),
                  timeout |-> Num(timeout)]
    IN  [p \in {<<"mcp", name, k>> : k \in DOMAIN entry} |-> entry[p[3]]]

ServerFragment(t, n) ==
    Fragment(n, ServerPort(t, n), Value(t, OfServer(n, "enabled"), TRUE),
             EffectiveTimeout(t, <<"mcp", "servers", n>>))

\* Mutant: the group is reached at its first slot.
SlotFragment(t, g) ==
    Fragment(g, BasePort(t, g), TRUE, EffectiveTimeout(t, OfGroup(g, "defaults")))

GroupFragment(t, g) ==
    Fragment(g, GroupPort(t, g), TRUE, EffectiveTimeout(t, OfGroup(g, "defaults")))

\* A group comes before a server of its name.
DeclaredMCP(t) ==
    Union({GroupFragment(t, g) : g \in GroupsOf(t)}
          \cup {ServerFragment(t, n) : n \in ServersOf(t) \ GroupsOf(t)})

\* Entries are replaced as they are declared, the others stay.
MergeMCP(doc, declared) ==
    IF ~IsObject(doc) \/ Kind(doc, <<"mcp">>) # "table" THEN Refused
    ELSE LET names == Keys(declared, <<"mcp">>)
             kept == Only(doc, {p \in DOMAIN doc :
                                  ~(Len(p) >= 2 /\ p[1] = "mcp" /\ p[2] \in names)})
         IN  IF names = {} /\ ~Has(doc, <<"mcp">>)
             THEN Set(doc, <<"mcp">>, EmptyTable)
             ELSE Override(kept, declared)
--------------------------------------------------------------------------------
(* vision_yaml.go: the registry of Vision's servers. *)

RegistryKeys ==
    DOMAIN Server.strict \ {"type", "enabled", "env_file", "timeout",
                            "transport", "request_timeout"}

\* The keys of a server that are not zero, its transport and its timeout.
ServerNode(t, p) ==
    LET Key(q) == q[Len(p) + 1]
        shown == {q \in Under(t, p) \ {p} :
                    /\ Key(q) \in RegistryKeys
                    /\ \/ Len(q) > Len(p) + 1 \/ Key(q) \in {"retry", "circuit_breaker"}
                       \/ t[q] \notin ZeroLeaves}
        type == Text(t, p \o <<"type">>)
        transport == Text(t, p \o <<"transport">>)
        request == Text(t, p \o <<"request_timeout">>)
        timeout == Number(t, p \o <<"timeout">>)
        Shown(k, leaf) == IF leaf \in ZeroLeaves THEN NoDocument ELSE Leaf(p \o <<k>>, leaf)
        node == Only(t, shown)
                ++ Shown("transport",
                         Str(IF transport # "" \/ type = "daemon" THEN transport ELSE type))
                ++ Shown("request_timeout",
                         IF request = "" /\ timeout > 0 THEN <<"ms", timeout>> ELSE Str(request))
    IN  IF node = NoDocument THEN Leaf(p, EmptyTable) ELSE node

GroupNode(t, g) ==
    LET p == <<"mcp", "slot_groups", g>>
        keys == {"base_port", "count", "group_port"}
    IN  Leaf(OfGroup(g, "template"), Str(Text(t, OfGroup(g, "template"))))
        ++ [q \in {OfGroup(g, k) : k \in keys} |-> Num(Number(t, q))]
        ++ (IF Has(t, OfGroup(g, "defaults")) THEN ServerNode(t, OfGroup(g, "defaults"))
            ELSE NoDocument)

VisionServers(t) ==
    LET served == {n \in ServersOf(t) : ~IsDaemon(t, n)}
        nodes == Union({ServerNode(t, <<"mcp", "servers", n>>) : n \in served}
                       \cup {GroupNode(t, g) : g \in GroupsOf(t)})
    IN  Renamed(nodes, DOMAIN nodes, Tail)
        ++ (IF served = {} THEN Leaf(<<"servers">>, EmptyTable) ELSE NoDocument)
--------------------------------------------------------------------------------
(* array_merge.go: the arrays of plugins and instructions. *)

CanonicalPath(s) == IF s \in DOMAIN Canonical THEN Canonical[s] ELSE s

\* Mutant: what is declared is there once more.
Appended(existing, declared, stale) == Selected(existing, Range(existing) \ stale)

\* Mutant: what users have is dropped.
Forgotten(existing, declared, stale) == << >>

\* The entries that stay: those that are neither declared nor stale.
Preserved(existing, declared, stale) ==
    Selected(existing, {s \in Range(existing) :
        /\ \A i \in DOMAIN declared : CanonicalPath(declared[i]) # CanonicalPath(s)
        /\ s \notin stale})

\* What is no string in the array is left out.
MergeArrayAt(doc, p, declared, stale) ==
    IF ~IsObject(doc) \/ (Has(doc, p) /\ Kind(doc, p) # "array") THEN Refused
    ELSE LET existing == IF Has(doc, p) THEN OnlyStrings(doc[p])[2] ELSE << >>
             texts == [i \in DOMAIN existing |-> existing[i][2]]
         IN  Set(doc, p, Strings(declared \o Preserved(texts, declared, stale)))

IsEnabled(t, n) == Value(t, OfPlugin(n, "enabled"), TRUE)
EnabledPlugins(t) ==
    Selected(NameOrder, {n \in Keys(t, <<"plugins">>) : IsEnabled(t, n)})

RenderPlugin(t, n) ==
    LET source == Text(t, OfPlugin(n, "source"))
        path == Text(t, OfPlugin(n, "path"))
    IN  IF KindOf(t, n) \in {"npm", "local"} THEN PluginEntry[<<source, path>>] ELSE path

DeclaredPlugins(t) ==
    LET names == EnabledPlugins(t) IN [i \in DOMAIN names |-> RenderPlugin(t, names[i])]

\* Advance's own instructions are left to Advance when a plugin provides them.
DeclaredInstructions(t) ==
    LET names == EnabledPlugins(t)
        provided == \E n \in Keys(t, <<"plugins">>) :
                      "adv-instructions" \in Range(Items(t, OfPlugin(n, "provides")))
        Of1(n) == LET files == Items(t, OfPlugin(n, "instructions"))
                  IN  Selected(files, Range(files) \ (IF provided THEN AdvInstructions ELSE {}))
    IN  Items(t, <<"instructions", "order">>)
        \o FlattenSeq([i \in DOMAIN names |-> Of1(names[i])])

MergeWatcherIgnore(doc, declared) ==
    IF ~IsObject(doc) \/ Kind(doc, <<"watcher">>) # "table" THEN Refused
    ELSE MergeArrayAt(doc, <<"watcher", "ignore">>, declared, {})
--------------------------------------------------------------------------------
(* The sections that are merged key by key: providers.go, permissions.go,
   lsp.go, commands.go, formatters.go, toggles.go. *)

\* Where a key of the stack is in opencode.json.
JSONPath(q) ==
    CASE q[1] = "providers" ->
           <<"provider">> \o
           (IF Len(q) = 5 /\ q[3] = "models" /\ q[5] \in {"context", "output"}
            THEN SubSeq(q, 2, 4) \o <<"limit", q[5]>>
            ELSE IF Len(q) = 5 /\ q[3] = "models" /\ q[5] \in {"inputs", "outputs"}
            THEN SubSeq(q, 2, 4) \o
                 <<"modalities", IF q[5] = "inputs" THEN "input" ELSE "output">>
            ELSE Tail(q))
      [] q[1] = "permissions" ->
           <<"permission">> \o (IF q = <<"permissions", "default">> THEN <<"*">> ELSE Tail(q))
      [] q[1] = "lsp" -> q
      [] q[1] = "formatters" -> <<"formatter">> \o Tail(q)
      [] q[1] = "commands" -> <<"command">> \o Tail(q)
      [] q[1] = "opencode" -> Tail(q)

\* The keys that are left out when they are zero.
OmitsZero(q) ==
    CASE Len(q) = 1 -> q[1] \notin {"providers", "lsp"}
      [] Len(q) = 2 ->
           \/ q[1] = "permissions" /\ q[2] \in DOMAIN Permissions.strict
           \/ q[1] = "opencode" /\ q[2] \in {"theme", "default_agent", "share",
                                              "disabled_providers", "enabled_providers"}
      [] Len(q) = 3 ->
           \/ q[1] \in {"lsp", "formatters"} /\ q[3] \in DOMAIN LSP.lenient
           \/ q[1] = "formatters" /\ q[3] = "environment"
           \/ q[1] = "commands" /\ q[3] \in {"agent", "model"}
           \/ q \in {<<"opencode", "compaction", "reserved">>,
                     <<"opencode", "disabled_providers", "list">>,
                     <<"opencode", "enabled_providers", "list">>}
      [] Len(q) = 5 ->
           q[1] = "providers" /\ q[3] = "models" /\ q[5] \in DOMAIN ProviderModel.lenient
      [] OTHER -> FALSE

\* An unknown key "limit" or "modalities" of a model, and "*" of the
\* permissions, stands in the place of the translated keys.
Shadowed(t, q) ==
    LET r == JSONPath(q) IN
    \/ Len(q) = 5 /\ Len(r) = 6 /\ Has(t, Front(q) \o <<r[5]>>)
    \/ q = <<"permissions", "default">> /\ Has(t, <<"permissions", "*">>)

\* A table that has only such keys is rendered empty.
Translated(t, section) ==
    LET leaves == Under(t, <<section>>)
        dropped == {q \in leaves : OmitsZero(q) /\ IsZero(t[q])}
        shown == {q \in leaves \ dropped : ~Shadowed(t, q)}
        empty == {e \in {Front(q) : q \in {q \in dropped : Len(q) \in {3, 5}}} :
                    /\ ~ \E q \in shown : IsPrefix(e, q)
                    /\ e[Len(e)] \notin {"disabled_providers", "enabled_providers"}}
    IN  Renamed(t, shown, JSONPath)
        ++ [p \in {JSONPath(e) : e \in empty} |-> EmptyTable]

\* These are replaced as a whole: they are no map[string]any.
OpaqueTables == {<<"permission", "bash">>, <<"permission", "external_directory">>}

\* Mutant: what is declared replaces the top-level key.
MergeTop(doc, declared) ==
    Override(Only(doc, {p \in DOMAIN doc : p = << >> \/ p[1] \notin Keys(declared, << >>)}),
             declared)

MergeKeys(doc, declared) ==
    LET opaque == {p \in OpaqueTables : Has(declared, p)}
        kept == Only(doc, {p \in DOMAIN doc : ~ \E o \in opaque : IsPrefix(o, p)})
    IN  Override(kept, Only(declared, Writes(kept, declared)))

MergeObject(doc, declared) ==
    IF IsObject(doc) THEN MergeKeys(doc, declared) ELSE Refused
--------------------------------------------------------------------------------
(* skills.go and temporal.go *)

DesiredSkills(t) ==
    LET order == Range(Items(t, <<"skills", "order">>))
    IN  (IF order # {} THEN order ELSE DOMAIN SkillAssets) \ AdvSkills

\* The skills that are copied, over those that are there.
CopySkills(t, skills) ==
    [s \in DesiredSkills(t) \cap DOMAIN SkillAssets |-> SkillAssets[s]] ++ skills

TemporalEnv(t) ==
    Only(t, {q \in DOMAIN t :
               /\ Len(q) = 2 /\ q[1] = "temporal"
               /\ q[2] \in {"address", "namespace", "allow_remote", "node_path"}
               /\ t[q] # Str("")})
--------------------------------------------------------------------------------
(* plan.go: the stages, in the order of an apply. *)

Sections == [providers |-> "providers", permissions |-> "permissions", lsp |-> "lsp",
             commands |-> "commands", formatters |-> "formatters", toggles |-> "opencode"]

AllTargets ==
    <<"mcp", "plugins", "instructions", "providers", "permissions", "watcher",
      "lsp", "skills", "commands", "formatters", "toggles">>

DocumentTargets == Range(AllTargets) \ {"skills"}

\* composeTargetOps, and what planForTarget's plans write.
NextDoc(target, t, doc) ==
    CASE target = "mcp" -> MergeMCP(doc, DeclaredMCP(t))
      [] target = "plugins" ->
           MergeArrayAt(doc, <<"plugin">>, DeclaredPlugins(t), StaleWorktrees)
      [] target = "instructions" ->
           MergeArrayAt(doc, <<"instructions">>, DeclaredInstructions(t), {})
      [] target = "watcher" ->
           MergeWatcherIgnore(doc, Items(t, <<"watcher", "ignore">>))
      [] target = "skills" -> doc
      [] OTHER ->
           LET declared == Translated(t, Sections[target])
           IN  IF target = "toggles" /\ declared = NoDocument THEN doc
               ELSE MergeObject(doc, declared)

\* Mutant: every target is planned from the file, and the last one stays.
Stomped(t, doc, targets) == NextDoc(targets[Len(targets)], t, doc)

\* ComposeApplyPlan: each target starts from what the one before it made.
Composed(t, doc, targets) ==
    FoldLeft(LAMBDA d, target : IF d = Refused THEN d ELSE NextDoc(target, t, d),
             doc, targets)

\* oca diff: a target would write something.
Drift(t, doc, servers, skills) ==
    \/ \E i \in DOMAIN AllTargets : Composed(t, doc, SubSeq(AllTargets, 1, i)) # doc
    \/ servers # VisionServers(t)
    \/ CopySkills(t, skills) # skills
================================================================================
