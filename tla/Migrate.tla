-------------------------------- MODULE Migrate --------------------------------
(***************************************************************************)
(* internal/migrate: the stack.toml that `oca migrate` writes, either from *)
(* what it finds of an earlier set-up (opencode.json, Vision's registry,   *)
(* plugin checkouts, bundled instructions and skills) or as a starter.     *)
(*                                                                         *)
(* Names are such that they need no quotes in TOML.                        *)
(***************************************************************************)
EXTENDS RenderStack

CONSTANTS
    URLPorts,             \* the URLs that have a port, with it
    Classified,           \* the entries of .plugin that are understood: name, source, checkout
    Checkouts,            \* the git checkouts, by path: name, remote and commit
    PluginDirs,           \* those in the plugins directory, in order
    CheckoutNames,        \* the names that a checkout of .plugin stands for
    Absolute,             \* what a checkout is as an absolute path, if not itself
    BundledInstructions,  \* the files and skills of the old repository
    BundledSkills         \* that are not stale

ASSUME BundleAssumption ==
    BundledInstructions \in Seq(STRING) /\ BundledSkills \in Seq(STRING)

\* A text that is no TOML document.
NotTOML == Leaf(<<"meta">>, Num(0))

\* The address that OCA gives a client (opencode_json.go:19).
VisionURL(port) == "http://localhost:" \o ToString(port) \o "/mcp"

StringAt(t, p) ==
    CASE Kind(t, p) = "string" -> Text(t, p)
      [] Kind(t, p) = "url" -> VisionURL(t[p][2])
      [] OTHER -> ""
StringsAt(t, p) ==
    IF Kind(t, p) # "array" THEN << >> ELSE Items(Leaf(p, OnlyStrings(t[p])), p)
--------------------------------------------------------------------------------
(* openchad.go: servers and slot groups *)

TranslateMCPType(type, url) ==
    CASE type # "remote" -> type
      [] url = "" -> ""
      [] OTHER -> IF url \in McpURLs THEN "http" ELSE "sse"

PortFromURL(url) == IF url \in DOMAIN URLPorts THEN URLPorts[url] ELSE 0

\* normalizeTransportFields: a server has a URL or a command.
Normalized(server) ==
    CASE server.type[2] \in {"stdio", "daemon"} -> [server EXCEPT !.url = Str("")]
      [] server.type[2] \in {"http", "sse"} ->
           [server EXCEPT !.command = Str(""), !.args = Arr(<< >>)]
      [] OTHER -> server

\* What opencode.json says of a server, and over it what Vision's registry has.
ReadServer(doc, registry, n) ==
    LET client == <<"mcp", n>>
        impl == <<"servers", n>>
        url == StringAt(doc, client \o <<"url">>)
        port == Number(registry, impl \o <<"port">>)
        Shown(k, zero) == Value(registry, impl \o <<k>>, zero)
        enabled == Kind(doc, client \o <<"enabled">>) = "bool"
                   /\ Value(doc, client \o <<"enabled">>, FALSE)
    IN  Normalized(
          [type |-> Str(TranslateMCPType(StringAt(doc, client \o <<"type">>), url)),
           url |-> Str(url),
           port |-> Num(IF port # 0 THEN port ELSE PortFromURL(url)),
           command |-> Str(Shown("command", "")),
           args |-> IF Kind(registry, impl \o <<"args">>) = "array"
                    THEN registry[impl \o <<"args">>] ELSE Arr(<< >>),
           autostart |-> Bool(IF Has(registry, impl) THEN Shown("autostart", FALSE)
                              ELSE enabled),
           source |-> Str(Shown("source", "")),
           timeout |-> Num(Shown("timeout", 0))])

\* Mutant: a port is all it takes.
HasPort(server) == server.port[2] # 0

\* A server that Vision has no port for is left to the user.
Emittable(server) == InRange(server.port[2])

EmitServers(doc, registry) ==
    LET names == Tables(doc, <<"mcp">>) \cup Tables(registry, <<"servers">>)
        Emit(n) ==
          LET server == ReadServer(doc, registry, n) IN
          IF ~Emittable(server) THEN NoDocument
          ELSE [p \in {OfServer(n, k) : k \in {k \in DOMAIN server : ~IsZero(server[k])}}
                  |-> server[p[4]]]
    IN  Union({Emit(n) : n \in names})

EmitGroups(registry) ==
    LET Emit(g) ==
          LET p == <<"slot_groups", g>>
              shown == {k \in {"group_port", "template", "base_port", "count"} :
                          p \o <<k>> \in DOMAIN registry /\ ~IsZero(registry[p \o <<k>>])}
          IN  IF shown = {} THEN Leaf(<<"mcp">> \o p, EmptyTable)
              ELSE [q \in {OfGroup(g, k) : k \in shown} |-> registry[Tail(q)]]
    IN  Union({Emit(g) : g \in Tables(registry, <<"slot_groups">>)})
--------------------------------------------------------------------------------
(* openchad.go: plugins *)

NewPlugin(name, source, checkout) ==
    [name |-> name, source |-> source, ref |-> "", checkout |-> checkout]

\* classifyPluginEntry; what is not understood is skipped.
ReadPlugins(doc) ==
    LET entries == SelectSeq(StringsAt(doc, <<"plugin">>), LAMBDA e : e \in DOMAIN Classified)
        Read(e) == NewPlugin(Classified[e].name, Classified[e].source, Classified[e].checkout)
    IN  [i \in DOMAIN entries |-> Read(entries[i])]

OrElse(s, other) == IF s # "" THEN s ELSE other

\* A plugin at a checkout has what can be read of its git files.
At(plugin, path) ==
    [plugin EXCEPT !.checkout = path,
                   !.source = OrElse(Checkouts[path].url, @),
                   !.ref = OrElse(Checkouts[path].head, @)]

\* One checkout of the plugins directory: the first plugin of its name, or a
\* new one.
Discover(plugins, path) ==
    LET name == Checkouts[path].name
        found == {i \in DOMAIN plugins :
                    /\ plugins[i].checkout \in DOMAIN CheckoutNames
                    /\ name \in CheckoutNames[plugins[i].checkout]}
    IN  IF found = {} THEN Append(plugins, At(NewPlugin(name, "", path), path))
        ELSE [plugins EXCEPT ![Min(found)] = At(@, path)]

\* A plugin whose source is not known yet.
ResolveSource(plugin) ==
    LET path == IF plugin.checkout \in DOMAIN Absolute THEN Absolute[plugin.checkout]
                ELSE plugin.checkout
    IN  CASE plugin.source # "" \/ plugin.checkout = "" -> plugin
          [] OTHER ->
               IF path \in DOMAIN Checkouts /\ Checkouts[path].url # "" THEN At(plugin, path)
               ELSE [plugin EXCEPT !.source = "local:" \o path, !.checkout = ""]

PluginsRead(doc) ==
    LET found == FoldLeft(Discover, ReadPlugins(doc), PluginDirs)
    IN  [i \in DOMAIN found |-> ResolveSource(found[i])]

EmitPlugin(plugin) ==
    LET shown == {k \in {"source", "ref", "checkout"} : plugin[k] # ""}
    IN  IF shown = {} THEN Leaf(<<"plugins", plugin.name>>, EmptyTable)
        ELSE [p \in {OfPlugin(plugin.name, k) : k \in shown} |-> Str(plugin[p[3]])]
--------------------------------------------------------------------------------
(* emit.go and init.go *)

EmitOrder(section, items) ==
    IF items = << >> THEN NoDocument ELSE Leaf(<<section, "order">>, Strings(items))

EmitTheme(doc) ==
    CASE Kind(doc, <<"theme">>) # "string" -> NoDocument
      [] Text(doc, <<"theme">>) = "" -> Leaf(<<"opencode">>, EmptyTable)
      [] OTHER -> Leaf(<<"opencode", "theme">>, Str(Text(doc, <<"theme">>)))

MetaEmitted == Leaf(<<"meta", "version">>, Str("1.0.0"))

\* Two tables of one name are no TOML document.
EmitTOML(doc, registry) ==
    LET plugins == PluginsRead(doc)
        names == [i \in DOMAIN plugins |-> plugins[i].name]
    IN  IF ~IsInjective(names) THEN NotTOML
        ELSE Union({MetaEmitted, EmitServers(doc, registry), EmitGroups(registry),
                    Union({EmitPlugin(p) : p \in Range(plugins)}),
                    EmitOrder("instructions",
                              StringsAt(doc, <<"instructions">>) \o BundledInstructions),
                    EmitOrder("skills", BundledSkills), EmitTheme(doc)})

\* The stack of `oca migrate init`: its numbers, and what else it has.
StarterModel == <<"providers", "google", "models", "gemini-2.5-flash">>
StarterNumbers ==
    {Leaf(OfServer("vision", "port"), Num(6275)),
     Leaf(OfServer("context7", "port"), Num(6276)),
     Leaf(OfServer("context7", "timeout"), Num(10000)),
     Leaf(StarterModel \o <<"context">>, Num(32000))}
StarterTexts ==
    {MetaEmitted,
     Leaf(OfServer("vision", "type"), Str("daemon")),
     Leaf(OfServer("vision", "required"), Bool(TRUE)),
     Leaf(OfServer("context7", "command"), Str("npx")),
     Leaf(OfServer("context7", "args"),
          Strings(<<"-y", "@upstash/context7-mcp@latest">>)),
     Leaf(OfServer("context7", "autostart"), Bool(TRUE)),
     Leaf(OfPlugin("advance", "source"),
          Str("https://github.com/Sharper-Flow/Advance.git")),
     Leaf(OfPlugin("advance", "checkout"), Str("{checkout}/advance")),
     Leaf(OfPlugin("advance", "path"), Str("plugin")),
     Leaf(OfPlugin("advance", "build"),
          Strings(<<"cd plugin && pnpm install && pnpm build">>)),
     Leaf(OfPlugin("advance", "provides"),
          Strings(<<"adv-commands", "adv-agents", "adv-skills", "adv-overlays">>)),
     Leaf(OfPlugin("advance", "sync"), Str("scripts/sync-global.sh --fix")),
     Leaf(<<"instructions", "order">>,
          Strings(<<"{assets}/instructions/identity.md", "{assets}/instructions/rules.yaml">>)),
     Leaf(StarterModel \o <<"name">>, Str("gemini-2.5-flash")),
     Leaf(StarterModel \o <<"inputs">>, Strings(<<"text", "image">>)),
     Leaf(StarterModel \o <<"outputs">>, Strings(<<"text">>)),
     Leaf(<<"opencode", "theme">>, Str("obsidian"))}

StarterStack == Union(StarterNumbers \cup StarterTexts)
================================================================================
