------------------------------ MODULE StackConfig ------------------------------
(***************************************************************************)
(* internal/config: how stack.toml is loaded.  The file is parsed into the *)
(* sections that OCA knows, its variables are expanded, defaults are       *)
(* filled in and the result is validated.  A stack is the document of what *)
(* is left: a key without a value has the zero of its type.                *)
(*                                                                         *)
(* What strings look like is a matter of the constants: which ones have    *)
(* variables, tokens, a suffix or a duration in them.                      *)
(***************************************************************************)
EXTENDS Documents, Functions, Integers

CONSTANTS
    Expansion,   \* what expandAll makes of a string with variables
    Pieces,      \* the parts of a string with {tokens}
    CleanPath,   \* what filepath.Clean makes of a path it changes
    McpURLs,     \* the URLs that end with /mcp
    Loopback,    \* the addresses of this host
    Durations,   \* the microseconds of a string that is a duration
    SourceKind,  \* "npm", "local", "git" or "other": what a plugin's source begins with
    AdvSkills    \* the names that begin with adv-

ASSUME StringAssumption ==
    /\ "" \in DOMAIN CleanPath /\ CleanPath[""] = "."
    /\ "" \notin DOMAIN Expansion \cup DOMAIN Pieces \cup DOMAIN Durations
    /\ {"4h", "5m"} \subseteq DOMAIN Durations
    /\ \A d \in DOMAIN Durations : Durations[d] \in Int
    /\ \A s \in DOMAIN SourceKind : SourceKind[s] \in {"npm", "local", "git", "other"}

ExpandAll(s) == IF s \in DOMAIN Expansion THEN Expansion[s] ELSE s
Cleaned(s) == IF s \in DOMAIN CleanPath THEN CleanPath[s] ELSE s
IsDuration(s) == s \in DOMAIN Durations
--------------------------------------------------------------------------------
(* parse.go and types.go: what becomes of each key of a table.  A strict key
   of another type is an error, a lenient one is dropped; other keys are kept
   (Extra), dropped, or errors. *)

Table(strict, lenient, other) ==
    [strict |-> strict, lenient |-> lenient, other |-> other]
NoKeys == [k \in {} |-> ""]
Of(keys, kind) == [k \in keys |-> kind]

Server ==
    Table(Of({"type", "transport", "command", "url", "restart_policy",
              "availability_profile", "session_timeout", "session_ttl",
              "health_check_interval", "request_timeout",
              "shared_result_cache_ttl", "source", "description", "env_file"},
             "string")
          ++ Of({"port", "max_restarts", "max_sessions", "timeout",
                 "shared_result_cache_size", "max_in_flight_requests"}, "int")
          ++ Of({"autostart", "stateful", "required", "enabled"}, "bool")
          ++ Of({"args", "shared_read_only_tools"}, "strings")
          ++ Of({"env", "headers"}, "strings table")
          ++ Of({"retry", "circuit_breaker"}, "table"), NoKeys, "drop")

SlotGroup ==
    Table(Of({"base_port", "count", "group_port"}, "int")
          ++ Of({"template"}, "string") ++ Of({"defaults"}, "table"), NoKeys, "drop")

Plugin ==
    Table(Of({"source", "ref", "checkout", "subdir", "path", "sync"}, "string")
          ++ Of({"build", "provides", "instructions"}, "strings")
          ++ Of({"enabled"}, "bool"), NoKeys, "drop")

Provider ==
    Table(Of({"models", "options", "variants"}, "table"), NoKeys, "extra")

ProviderModel ==
    Table(Of({"options", "variants"}, "table"),
          Of({"context", "output"}, "int") ++ Of({"inputs", "outputs"}, "strings")
          ++ Of({"name"}, "string"), "extra")

Permissions ==
    Table(Of({"default", "doom_loop"}, "string")
          ++ Of({"external_directory", "bash"}, "strings table"),
          NoKeys, "extra")

LSP ==
    Table(NoKeys, Of({"command", "extensions"}, "strings")
                  ++ Of({"disabled"}, "bool"), "extra")

Formatter ==
    Table(Of({"environment"}, "table"),
          Of({"command", "extensions"}, "strings") ++ Of({"disabled"}, "bool"),
          "extra")

Command ==
    Table(NoKeys, Of({"description", "template", "agent", "model"}, "string")
                  ++ Of({"subtask"}, "bool"), "extra")

OpenCode ==
    Table(Of({"compaction", "disabled_providers", "enabled_providers"}, "table"),
          Of({"theme", "default_agent", "share"}, "string")
          ++ Of({"snapshot"}, "bool") ++ Of({"autoupdate"}, "bool or string"), "extra")

Session ==
    Table(Of({"mode", "theme"}, "string") ++ Of({"reaper", "boot_splash"}, "bool")
          ++ Of({"reaper_threshold"}, "duration") ++ Of({"watchdog"}, "table"),
          Of({"prefix"}, "string"), "extra")

Watchdog ==
    Table(Of({"idle_timeout"}, "duration"),
          Of({"enabled"}, "bool") ++ Of({"max_bumps"}, "int"), "drop")

UpdateProbe ==
    Table(Of({"timeout_per_plugin_ms", "timeout_global_ms", "cache_ttl_minutes"},
             "int") ++ Of({"default"}, "string"), NoKeys, "error")

Meta == Table(Of({"version", "name", "description"}, "string"), NoKeys, "drop")
MCP == Table(Of({"servers", "slot_groups", "tool_suites"}, "tables"), NoKeys, "drop")
ToolSuite == Table(Of({"servers"}, "strings") ++ Of({"description"}, "string"), NoKeys, "drop")
Order == Table(Of({"order"}, "strings"), NoKeys, "drop")
Watcher == Table(Of({"ignore"}, "strings"), NoKeys, "extra")
Compaction == Table(Of({"auto", "prune"}, "bool") ++ Of({"reserved"}, "int"), NoKeys, "extra")
ProviderList == Table(Of({"list"}, "strings"), NoKeys, "drop")
Shell == Table(Of({"auto_refresh"}, "bool") ++ Of({"auto_refresh_notice"}, "string"), NoKeys, "drop")
Temporal ==
    Table(Of({"address", "namespace", "node_path"}, "string")
          ++ Of({"enabled", "allow_remote"}, "bool"), NoKeys, "drop")

\* The sections that are one table, and those with a table for each name.
Single ==
    [meta |-> Meta, mcp |-> MCP, instructions |-> Order, temporal |-> Temporal,
     permissions |-> Permissions, watcher |-> Watcher, skills |-> Order,
     opencode |-> OpenCode, session |-> Session, shell |-> Shell,
     update_probe |-> UpdateProbe]
Named ==
    [plugins |-> Plugin, providers |-> Provider, lsp |-> LSP,
     formatters |-> Formatter, commands |-> Command]
Deferred == {"agents", "discord"}
KnownSections == DOMAIN Single \cup DOMAIN Named \cup Deferred

\* The tables of a document, with how they are decoded.
EachOf(t, p, as) == {<<p \o <<k>>, as>> : k \in Tables(t, p)}
Within(t, p, names, as) == {<<p \o <<k>>, as>> : k \in names \cap Keys(t, p)}
TablesOf(t) ==
    {<<<<s>>, Single[s]>> : s \in DOMAIN Single \cap Keys(t, << >>)}
    \cup (UNION {EachOf(t, <<s>>, Named[s]) : s \in DOMAIN Named})
    \cup EachOf(t, <<"mcp", "servers">>, Server)
    \cup EachOf(t, <<"mcp", "slot_groups">>, SlotGroup)
    \cup EachOf(t, <<"mcp", "tool_suites">>, ToolSuite)
    \cup {<<<<"mcp", "slot_groups", g, "defaults">>, Server>> :
            g \in {g \in Tables(t, <<"mcp", "slot_groups">>) :
                     Has(t, <<"mcp", "slot_groups", g, "defaults">>)}}
    \cup (UNION {EachOf(t, <<"providers", p, "models">>, ProviderModel) :
                   p \in Tables(t, <<"providers">>)})
    \cup Within(t, <<"opencode">>, {"disabled_providers", "enabled_providers"}, ProviderList)
    \cup Within(t, <<"opencode">>, {"compaction"}, Compaction)
    \cup Within(t, <<"session">>, {"watchdog"}, Watchdog)

\* A value is of the type that its key has.
Fits(t, p, kind) ==
    CASE kind = "strings" -> Kind(t, p) = "array"
      [] kind = "strings table" ->
           /\ Kind(t, p) = "table"
           /\ \A k \in Keys(t, p) : Kind(t, p \o <<k>>) = "string"
      [] kind = "tables" ->
           /\ Kind(t, p) = "table"
           /\ \A k \in Keys(t, p) : Kind(t, p \o <<k>>) = "table"
      [] kind = "duration" -> Kind(t, p) = "string" /\ IsDuration(Text(t, p))
      [] kind = "bool or string" -> Kind(t, p) \in {"bool", "string"}
      [] OTHER -> Kind(t, p) = kind

AllStrings(t, p) == \A i \in DOMAIN t[p][2] : t[p][2][i][1] = "string"

\* toStringSlice, decodeStringMap: what is no string is left out.
OnlyStrings(leaf) ==
    IF leaf[1] # "array" THEN leaf
    ELSE Arr(Selected(leaf[2], {x \in Range(leaf[2]) : x[1] = "string"}))

\* Mutant: unknown keys are lost.
OnlyFields(d, k) == k \in DOMAIN d.strict \cup DOMAIN d.lenient

Takes(d, k) == d.other = "extra" \/ k \in DOMAIN d.strict \cup DOMAIN d.lenient

\* The errors of one table.
Undecodable(t, p, d) ==
    \/ Kind(t, p) # "table"
    \/ \E k \in Keys(t, p) :
         LET q == p \o <<k>> IN
         \/ k \in DOMAIN d.strict /\ ~Fits(t, q, d.strict[k])
         \/ k \in DOMAIN d.strict /\ d.strict[k] = "strings" /\ ~AllStrings(t, q)
         \/ d.other = "error" /\ ~Takes(d, k)

\* An entry that is no table is an error in [plugins] and in the models of a
\* provider.  In the other named sections it is passed over.
NoTable(t, p) ==
    /\ t[p][1] # "table"
    /\ \/ p[1] = "plugins" /\ Len(p) \in {1, 2}
       \/ p[1] = "providers" /\ Len(p) = 4 /\ p[3] = "models"

\* A key with a value has no keys below it: BurntSushi/toml refuses such a file.
ParseFails(t) ==
    \/ ~IsTree(t)
    \/ \E x \in TablesOf(t) : Undecodable(t, x[1], x[2])
    \/ \E p \in DOMAIN t : NoTable(t, p)

PassedOver(t, p) ==
    \/ t[p][1] # "table" /\ p[1] \in DOMAIN Named /\ Len(p) \in {1, 2}
    \/ /\ Len(p) = 4 /\ p[1] = "formatters" /\ p[3] = "environment"
       /\ t[p][1] # "string"

\* A table is there when nothing of it is kept, with the zeros of its type.
Parsed(t) ==
    LET tables == TablesOf(t)
        In(p) == {x \in tables : IsStrictPrefix(x[1], p)}
        Field(x, p) == p[Len(x[1]) + 1]
        kept == {p \in DOMAIN t :
                   /\ ~PassedOver(t, p)
                   /\ \A x \in In(p) :
                        LET k == Field(x, p) IN
                        /\ Takes(x[2], k)
                        /\ k \in DOMAIN x[2].lenient
                             => Fits(t, x[1] \o <<k>>, x[2].lenient[k])}
        gone == {p \in {x[1] : x \in tables}
                       \cup {<<s>> : s \in DOMAIN Named \cap Keys(t, << >>)} :
                   ~ \E q \in kept : IsPrefix(p, q)}
        empty == {p \in gone : ~ \E q \in gone : IsStrictPrefix(p, q)}
    IN  [p \in kept |->
           IF \E x \in In(p) : Field(x, p) \in DOMAIN x[2].lenient
           THEN OnlyStrings(t[p]) ELSE t[p]]
        ++ [p \in empty |-> EmptyTable]
--------------------------------------------------------------------------------
(* resolve.go *)

\* The keys of a server that have their variables expanded.
Expanded(p) ==
    /\ Len(p) >= 4 /\ IsPrefix(<<"mcp", "servers">>, p)
    /\ p[4] \in {"command", "url", "env_file", "args", "env"}

ExpandLeaf(leaf) ==
    CASE leaf[1] = "string" -> Str(ExpandAll(leaf[2]))
      [] leaf[1] = "array" -> Arr([i \in DOMAIN leaf[2] |-> Str(ExpandAll(leaf[2][i][2]))])
      [] OTHER -> leaf

\* The parts of a plugin's string: <<TRUE, name>> is a token.
PiecesOf(s) == IF s \in DOMAIN Pieces THEN Pieces[s] ELSE << <<FALSE, s>> >>

UnknownToken(s) ==
    \E x \in Range(PiecesOf(s)) : x[1] /\ x[2] \notin {"checkout", "subdir"}

\* A token without a value stays as it is.
ReplaceTokens(s, value) ==
    FoldLeft(LAMBDA before, x :
               before \o (IF ~x[1] THEN x[2]
                          ELSE IF value[x[2]] # "" THEN value[x[2]]
                          ELSE "{" \o x[2] \o "}"),
             "", PiecesOf(s))

\* expandPluginTokens.  With an unknown token nothing is expanded, and its
\* error goes no further.  The path of a plugin that has none becomes ".".
ExpandPlugin(t, p) ==
    LET value == [checkout |-> ExpandAll(Text(t, p \o <<"checkout">>)),
                  subdir |-> Text(t, p \o <<"subdir">>)]
        path == Text(t, p \o <<"path">>)
        sync == Text(t, p \o <<"sync">>)
        files == Items(t, p \o <<"instructions">>)
        Resolved(s) == Str(Cleaned(ReplaceTokens(s, value)))
    IN  IF \E s \in {path, sync} \cup Range(files) : UnknownToken(s)
        THEN NoDocument
        ELSE Leaf(p \o <<"path">>, Resolved(path))
             ++ Leaf(p \o <<"sync">>, Str(ReplaceTokens(sync, value)))
             ++ Leaf(p \o <<"instructions">>,
                     Arr([i \in DOMAIN files |-> Resolved(files[i])]))

\* Mutant: a setting that is false counts as none.
UnlessTrue(t, p, leaf) ==
    IF p \in DOMAIN t /\ t[p] \notin {Bool(FALSE), Num(0), Str("")}
    THEN NoDocument ELSE Leaf(p, leaf)

\* The default of a key that is not there.
IfAbsent(t, p, leaf) == IF p \in DOMAIN t THEN NoDocument ELSE Leaf(p, leaf)

\* The default of a key that is zero, or not there.
IfZero(t, p, leaf, zero) ==
    IF Value(t, p, zero) = zero THEN Leaf(p, leaf) ELSE NoDocument

ZeroDuration(t, p) == p \notin DOMAIN t \/ Durations[Text(t, p)] = 0

SessionDefaults(t) ==
    LET s == <<"session">>
        w == <<"session", "watchdog">>
    IN  IF ~Has(t, s) THEN NoDocument
        ELSE IfZero(t, s \o <<"mode">>, Str("project"), "")
             ++ IfAbsent(t, s \o <<"reaper">>, Bool(TRUE))
             ++ (IF ZeroDuration(t, s \o <<"reaper_threshold">>)
                 THEN Leaf(s \o <<"reaper_threshold">>, Str("4h")) ELSE NoDocument)
             ++ IfZero(t, s \o <<"theme">>, Str("obsidian"), "")
             ++ IfAbsent(t, s \o <<"boot_splash">>, Bool(TRUE))
             ++ (IF Has(t, w)
                 THEN IfZero(t, w \o <<"max_bumps">>, Num(3), 0)
                      ++ (IF ZeroDuration(t, w \o <<"idle_timeout">>)
                          THEN Leaf(w \o <<"idle_timeout">>, Str("5m")) ELSE NoDocument)
                 ELSE NoDocument)

Resolved(t) ==
    LET expanded == [p \in DOMAIN t |-> IF Expanded(p) THEN ExpandLeaf(t[p]) ELSE t[p]]
        plugins == Union({ExpandPlugin(t, <<"plugins", n>>) : n \in Keys(t, <<"plugins">>)})
    IN  Override(expanded, plugins ++ SessionDefaults(t))
--------------------------------------------------------------------------------
(* validate.go: the stacks that are accepted, section by section. *)

MinPort == 6275
MaxPort == 6325
InRange(n) == n \in MinPort..MaxPort

ServersOf(t) == Keys(t, <<"mcp", "servers">>)
GroupsOf(t) == Keys(t, <<"mcp", "slot_groups">>)
OfServer(n, k) == <<"mcp", "servers", n, k>>
OfGroup(g, k) == <<"mcp", "slot_groups", g, k>>
ServerPort(t, n) == Number(t, OfServer(n, "port"))

IsDaemon(t, n) == Text(t, OfServer(n, "type")) = "daemon"

InferTransport(t, n) ==
    LET transport == Text(t, OfServer(n, "transport"))
        type == Text(t, OfServer(n, "type"))
        url == Text(t, OfServer(n, "url"))
    IN  CASE transport # "" -> transport
          [] transport = "" /\ type \notin {"", "daemon"} -> type
          [] OTHER ->
               IF Text(t, OfServer(n, "command")) # "" \/ url = "" THEN "stdio"
               ELSE IF url \in McpURLs THEN "http" ELSE "sse"

PositiveDuration(s) == IsDuration(s) /\ Durations[s] > 0

DaemonValid(t, n) ==
    /\ n = "vision"
    /\ \A k \in {"command", "url"} : Text(t, OfServer(n, k)) = ""
    /\ Items(t, OfServer(n, "args")) = << >>

\* A transport of another name is not looked at.
TransportValid(t, n) ==
    LET command == Text(t, OfServer(n, "command"))
        url == Text(t, OfServer(n, "url"))
    IN  /\ command = "" \/ url = ""
        /\ CASE InferTransport(t, n) = "stdio" -> command # ""
             [] InferTransport(t, n) = "http" -> url \in McpURLs
             [] InferTransport(t, n) = "sse" -> url # ""
             [] OTHER -> TRUE

ServersValid(t) ==
    \A n \in ServersOf(t) :
      /\ InRange(ServerPort(t, n))
      /\ \A m \in ServersOf(t) \ {n} : ServerPort(t, n) # ServerPort(t, m)
      /\ Text(t, OfServer(n, "type")) \in {"", "stdio", "http", "sse", "daemon"}
      /\ IF IsDaemon(t, n) THEN DaemonValid(t, n)
         ELSE /\ TransportValid(t, n)
              /\ Text(t, OfServer(n, "restart_policy"))
                   \in {"", "always", "on-failure", "never"}
              /\ Text(t, OfServer(n, "availability_profile")) \in {"", "networked"}
              /\ LET d == Text(t, OfServer(n, "request_timeout"))
                 IN  d = "" \/ PositiveDuration(d)

\* Ports that are not positive are not looked at.
Positive(ports) == {n \in ports : n > 0}
GroupPort(t, g) == Number(t, OfGroup(g, "group_port"))
BasePort(t, g) == Number(t, OfGroup(g, "base_port"))
SlotCount(t, g) == Number(t, OfGroup(g, "count"))
SlotPorts(t, g) ==
    IF BasePort(t, g) > 0
    THEN {BasePort(t, g) + i : i \in 0..(SlotCount(t, g) - 1)} ELSE {}
SlotNames(t, g) ==
    IF BasePort(t, g) > 0
    THEN {Text(t, OfGroup(g, "template")) \o "-" \o ToString(i) : i \in 1..SlotCount(t, g)}
    ELSE {}
GroupPorts(t, g) == SlotPorts(t, g) \cup Positive({GroupPort(t, g)})

\* Mutant: only servers are looked at.
ServerPorts(t, g) == {ServerPort(t, n) : n \in ServersOf(t)}

\* The ports that a group must not have: those of servers and other groups.
ClaimedPorts(t, g) ==
    {ServerPort(t, n) : n \in ServersOf(t)}
    \cup UNION {GroupPorts(t, h) : h \in GroupsOf(t) \ {g}}

GroupsValid(t) ==
    \A g \in GroupsOf(t) :
      /\ Text(t, OfGroup(g, "template")) # ""
      /\ BasePort(t, g) # 0 /\ GroupPort(t, g) # 0 /\ SlotCount(t, g) >= 2
      /\ \A port \in GroupPorts(t, g) : InRange(port)
      /\ ~(Number(t, OfGroup(g, "defaults") \o <<"port">>) > 0)
      /\ GroupPorts(t, g) \cap ClaimedPorts(t, g) = {}
      /\ GroupPort(t, g) \notin SlotPorts(t, g)
      /\ SlotNames(t, g) \cap ServersOf(t) = {}

Categories == {"adv-commands", "adv-agents", "adv-skills", "adv-overlays",
               "adv-instructions", "adv-temporal"}

OfPlugin(n, k) == <<"plugins", n, k>>
KindOf(t, n) == SourceKind[Text(t, OfPlugin(n, "source"))]

PluginsValid(t) ==
    \A n \in Keys(t, <<"plugins">>) :
      /\ Text(t, OfPlugin(n, "source")) # ""
      /\ \/ KindOf(t, n) \in {"npm", "local"}
         \/ Text(t, OfPlugin(n, "checkout")) # "" /\ Text(t, OfPlugin(n, "path")) # ""
      /\ Range(Items(t, OfPlugin(n, "provides"))) \subseteq Categories

NoEmptyItem(t, p) == "" \notin Range(Items(t, p))

InstructionsValid(t) ==
    <<"instructions", "order">> \in DOMAIN t
      => /\ Items(t, <<"instructions", "order">>) # << >>
         /\ NoEmptyItem(t, <<"instructions", "order">>)

TemporalEnabled(t) ==
    Has(t, <<"temporal">>) /\ Value(t, <<"temporal", "enabled">>, TRUE)

TemporalDefaults(t) ==
    IF ~TemporalEnabled(t) THEN NoDocument
    ELSE IfZero(t, <<"temporal", "address">>, Str("127.0.0.1:7233"), "")
         ++ IfZero(t, <<"temporal", "namespace">>, Str("default"), "")

TemporalValid(t) ==
    TemporalEnabled(t)
      => \/ Text(t, <<"temporal", "address">>) \in Loopback
         \/ Value(t, <<"temporal", "allow_remote">>, FALSE)

ModelValid(t, m) ==
    /\ Text(t, m \o <<"name">>) # "" \/ Keys(t, m \o <<"variants">>) # {}
    /\ Number(t, m \o <<"context">>) >= 0 /\ Number(t, m \o <<"output">>) >= 0
    /\ NoEmptyItem(t, m \o <<"inputs">>) /\ NoEmptyItem(t, m \o <<"outputs">>)

ProvidersValid(t) ==
    \A n \in Keys(t, <<"providers">>) :
      LET p == <<"providers", n>> IN
      /\ Keys(t, p \o <<"models">>) # {} \/ Keys(t, p) \ DOMAIN Provider.strict # {}
      /\ \A m \in Keys(t, p \o <<"models">>) : ModelValid(t, p \o <<"models", m>>)

Actions == {"allow", "ask", "deny"}

PermissionsValid(t) ==
    /\ \A k \in {"default", "doom_loop"} : Text(t, <<"permissions", k>>) \in Actions \cup {""}
    /\ \A k \in {"external_directory", "bash"} :
         \A x \in Keys(t, <<"permissions", k>>) : Text(t, <<"permissions", k, x>>) \in Actions

LSPValid(t) ==
    \A n \in Keys(t, <<"lsp">>) :
      \/ Value(t, <<"lsp", n, "disabled">>, FALSE)
      \/ Items(t, <<"lsp", n, "command">>) # << >>

SkillsValid(t) ==
    LET order == Items(t, <<"skills", "order">>) IN
    /\ NoEmptyItem(t, <<"skills", "order">>)
    /\ Range(order) \cap AdvSkills = {}
    /\ IsInjective(order)

FormattersValid(t) ==
    \A n \in Keys(t, <<"formatters">>) :
      \/ Value(t, <<"formatters", n, "disabled">>, FALSE)
      \/ \A k \in {"command", "extensions"} : Items(t, <<"formatters", n, k>>) # << >>

CommandsValid(t) ==
    \A n \in Keys(t, <<"commands">>) :
      \A k \in {"description", "template"} : Text(t, <<"commands", n, k>>) # ""

OpenCodeValid(t) ==
    /\ Text(t, <<"opencode", "share">>) \in {"", "manual", "auto", "disabled"}
    /\ Kind(t, <<"opencode", "autoupdate">>) = "string"
         => Text(t, <<"opencode", "autoupdate">>) = "notify"

Timeouts == [timeout_per_plugin_ms |-> 3000, timeout_global_ms |-> 10000,
             cache_ttl_minutes |-> 5]

ProbeDefault(t, k) == IfAbsent(t, <<"update_probe", k>>, Num(Timeouts[k]))

ShellDefaults(t) ==
    IfZero(t, <<"shell", "auto_refresh_notice">>, Str("off"), "")
    ++ IfZero(t, <<"update_probe", "default">>, Str("passive"), "")
    ++ Union({ProbeDefault(t, k) : k \in DOMAIN Timeouts})

ShellValid(t) ==
    /\ Text(t, <<"shell", "auto_refresh_notice">>) \in {"", "off", "once", "every"}
    /\ Text(t, <<"update_probe", "default">>) \in {"", "off", "passive", "warn"}
    /\ \A k \in DOMAIN Timeouts :
         <<"update_probe", k>> \in DOMAIN t => Number(t, <<"update_probe", k>>) > 0

\* After Resolve the idle timeout is zero no more.
SessionValid(t) ==
    LET w == <<"session", "watchdog">>
        idle == Durations[Value(t, w \o <<"idle_timeout">>, "5m")]
    IN  /\ Value(t, <<"session", "mode">>, "project") \in {"project", "per-invocation"}
        /\ Number(t, w \o <<"max_bumps">>) >= 0
        /\ idle > 0 => idle >= 1000000
        /\ idle # 0 \/ ~Value(t, w \o <<"enabled">>, FALSE)

Valid(t) ==
    /\ Text(t, <<"meta", "version">>) = "1.0.0"
    /\ ServersValid(t) /\ GroupsValid(t) /\ PluginsValid(t)
    /\ InstructionsValid(t) /\ ProvidersValid(t) /\ PermissionsValid(t)
    /\ NoEmptyItem(t, <<"watcher", "ignore">>)
    /\ LSPValid(t) /\ SkillsValid(t) /\ FormattersValid(t) /\ CommandsValid(t)
    /\ OpenCodeValid(t) /\ SessionValid(t) /\ TemporalValid(t) /\ ShellValid(t)
    /\ Keys(t, << >>) \subseteq KnownSections

\* Validate fills in defaults where it validates.
Filled(t) == Override(t, TemporalDefaults(t) ++ ShellDefaults(t))

\* Load: NotLoaded, or the stack.
NotLoaded == Leaf(<<"rejected">>, EmptyTable)

Load(raw) ==
    IF ParseFails(raw) THEN NotLoaded
    ELSE LET t == Filled(Resolved(Parsed(raw)))
         IN  IF Valid(t) THEN t ELSE NotLoaded

Accepted(t) == t # NotLoaded
================================================================================
