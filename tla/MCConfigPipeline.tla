---------------------------- MODULE MCConfigPipeline ----------------------------
(***************************************************************************)
(* Pieces of stack.toml that between them have every kind of section, and  *)
(* documents that users have.                                              *)
(***************************************************************************)
EXTENDS ConfigPipeline

MCExpansion == "~/bin/kagi" :> "/home/u/bin/kagi" @@ "~/adv" :> "/home/u/adv"
MCPieces ==
    "{checkout}/plugin" :> << <<TRUE, "checkout">>, <<FALSE, "/plugin">> >>
    @@ "{checkout}/ADV_INSTRUCTIONS.md" :>
         << <<TRUE, "checkout">>, <<FALSE, "/ADV_INSTRUCTIONS.md">> >>
    @@ "{home}/x" :> << <<TRUE, "home">>, <<FALSE, "/x">> >>
MCCleanPath == "" :> "."
MCDurations ==
    "30s" :> 30000000 @@ "0s" :> 0 @@ "-5s" :> -5000000 @@ "5m" :> 300000000
    @@ "4h" :> 2000000000
MCSourceKind ==
    "git@adv" :> "git" @@ "https://github.com/Sharper-Flow/Advance.git" :> "git"
    @@ "local:/work/my-plugin" :> "local" @@ "local:/home/u/dev/oc-plugins/new" :> "local"
    @@ "local:plugins/oca" :> "local" @@ "npm:helper@1" :> "npm"
    @@ "file:///srv/odd" :> "other"
MCCanonical ==
    "~/AGENTS.md" :> "/home/u/AGENTS.md" @@ "/home/u/adv/./plugin" :> "/home/u/adv/plugin"
MCNameOrder == <<"adv", "advance", "helper", "my-plugin", "new", "oca", "odd">>
MCPluginEntry ==
    <<"local:/work/my-plugin", ".">> :> "/work/my-plugin"
    @@ <<"local:/home/u/dev/oc-plugins/new", ".">> :> "/home/u/dev/oc-plugins/new" @@
    <<"local:plugins/oca", ".">> :> "plugins/oca"
    @@ <<"local:plugins/oca", "">> :> "plugins/oca/dist/index.js"
    @@ <<"npm:helper@1", ".">> :> "helper@1"
MCMcpURLs == {"https://exa/mcp", "https://ext:8443/mcp"} \cup {VisionURL(n) : n \in MinPort..MaxPort}
MCURLPorts ==
    [u \in {VisionURL(n) : n \in MinPort..MaxPort} |->
       CHOOSE n \in MinPort..MaxPort : u = VisionURL(n)]
    @@ "https://ext:8443/mcp" :> 8443 @@ "http://127.0.0.1:6301/sse" :> 6301
MCEntry(name, source, checkout) == [name |-> name, source |-> source, checkout |-> checkout]
MCClassified ==
    "/home/u/adv/./plugin" :> MCEntry("adv", "", "/home/u/adv/./plugin")
    @@ "/home/u/adv/plugin" :> MCEntry("adv", "", "/home/u/adv/plugin")
    @@ "my-plugin" :> MCEntry("my-plugin", "", "my-plugin")
    @@ "helper@1" :> MCEntry("helper", "npm:helper@1", "")
MCCheckouts ==
    "/home/u/dev/oc-plugins/adv" :> [name |-> "adv", url |-> "git@adv", head |-> "c1"]
    @@ "/home/u/dev/oc-plugins/new" :> [name |-> "new", url |-> "", head |-> "c2"]
MCPluginDirs == <<"/home/u/dev/oc-plugins/adv", "/home/u/dev/oc-plugins/new">>
MCCheckoutNames ==
    "/home/u/adv/./plugin" :> {"plugin", "adv"} @@ "/home/u/adv/plugin" :> {"plugin", "adv"}
    @@ "my-plugin" :> {"my-plugin"} @@ "/home/u/dev/oc-plugins/new" :> {"new"}
MCBundledInstructions == <<"/home/u/dev/open-chad/rules.md">>
MCBundledSkills == <<"debug">>
MCAbsolute == "my-plugin" :> "/work/my-plugin"
MCSkillAssets == "review" :> "OCA's" @@ "debug" :> "OCA's"

Version == <<"meta", "version">> :> Str("1.0.0")
S(n, k) == <<"mcp", "servers", n, k>>
G(g, k) == <<"mcp", "slot_groups", g, k>>
P(n, k) == <<"plugins", n, k>>

Kagi == S("kagi", "port") :> Num(6280) @@ S("kagi", "command") :> Str("~/bin/kagi")
        @@ S("kagi", "request_timeout") :> Str("30s") @@ S("kagi", "enabled") :> Bool(FALSE)
        @@ <<"mcp", "servers", "kagi", "env", "KEY">> :> Str("x")
Vision == S("vision", "port") :> Num(6275) @@ S("vision", "type") :> Str("daemon")
          @@ S("exa", "port") :> Num(6283) @@ S("exa", "url") :> Str("https://exa/mcp")
          @@ S("exa", "type") :> Str("http") @@ S("exa", "timeout") :> Num(9000)
Pool == G("pool", "template") :> Str("kagi") @@ G("pool", "base_port") :> Num(6281)
        @@ G("pool", "count") :> Num(2) @@ G("pool", "group_port") :> Num(6290)
        @@ <<"mcp", "slot_groups", "pool", "defaults", "command">> :> Str("~/bin/kagi")
        @@ <<"mcp", "slot_groups", "pool", "defaults", "request_timeout">> :> Str("-5s")
Collision == G("other", "template") :> Str("x") @@ G("other", "base_port") :> Num(6282)
             @@ G("other", "count") :> Num(2) @@ G("other", "group_port") :> Num(6291)
Adv == P("adv", "source") :> Str("git@adv") @@ P("adv", "checkout") :> Str("~/adv")
       @@ P("adv", "path") :> Str("{checkout}/plugin")
       @@ P("adv", "provides") :> Strings(<<"adv-instructions">>)
       @@ P("adv", "instructions") :> Strings(<<"{checkout}/ADV_INSTRUCTIONS.md", "more.md">>)
Local == P("oca", "source") :> Str("local:plugins/oca") @@ P("oca", "sync") :> Str("{home}/x")
         @@ P("helper", "source") :> Str("npm:helper@1")
         @@ P("odd", "source") :> Str("file:///srv/odd") @@ P("odd", "checkout") :> Str("/srv/odd")
         @@ <<"instructions", "order">> :> Strings(<<"~/AGENTS.md">>)
         @@ P("adv", "enabled") :> Bool(FALSE) @@ P("adv", "source") :> Str("git@adv")
         @@ P("adv", "checkout") :> Str("~/adv")
M(k) == <<"providers", "openai", "models", "gpt", k>>
Models == M("name") :> Str("GPT") @@ M("context") :> Num(100) @@ M("output") :> Num(0)
          @@ M("inputs") :> Strings(<<"text">>) @@ M("cost") :> Num(3)
          @@ <<"providers", "openai", "options", "baseURL">> :> Str("here")
Limits == <<"providers", "openai", "models", "gpt", "limit", "context">> :> Num(7)
          @@ M("name") :> Str("GPT") @@ <<"permissions", "webfetch">> :> Str("ask")
Permits == <<"permissions", "default">> :> Str("ask")
           @@ <<"permissions", "bash", "rm *">> :> Str("deny")
Tools == <<"lsp", "gopls", "command">> :> Strings(<<"gopls">>)
         @@ <<"lsp", "gopls", "disabled">> :> Bool(FALSE)
         @@ <<"lsp", "gopls", "initialization", "usePlaceholders">> :> Bool(TRUE)
         @@ <<"lsp", "old", "disabled">> :> Num(1)
         @@ <<"formatters", "gofmt", "disabled">> :> Bool(TRUE)
         @@ <<"formatters", "gofmt", "environment", "GO">> :> Str("1")
Broken == <<"lsp", "old", "disabled">> :> Bool(FALSE) @@ <<"lsp", "typo">> :> Str("x")
Commands == <<"commands", "review", "description">> :> Str("Review")
            @@ <<"commands", "review", "template">> :> Str("Review it")
            @@ <<"commands", "review", "subtask">> :> Bool(FALSE)
            @@ <<"commands", "review", "color">> :> Str("red")
Toggles == <<"opencode", "theme">> :> Str("obsidian") @@ <<"opencode", "autoupdate">> :> Bool(FALSE)
           @@ <<"opencode", "compaction", "reserved">> :> Num(0)
           @@ <<"opencode", "disabled_providers", "list">> :> Strings(<< >>)
           @@ <<"opencode", "keybinds", "leader">> :> Str("ctrl+x")
Overlap == <<"opencode", "provider", "openai", "models">> :> Str("none")
Off == <<"session", "reaper">> :> Bool(FALSE) @@ <<"session", "watchdog", "enabled">> :> Bool(TRUE)
       @@ <<"session", "reaper_threshold">> :> Str("0s")
       @@ <<"temporal", "enabled">> :> Bool(FALSE) @@ <<"temporal", "address">> :> Str("far:1")
       @@ <<"update_probe", "cache_ttl_minutes">> :> Num(1)
On == <<"temporal", "namespace">> :> Str("adv") @@ <<"skills", "order">> :> Strings(<<"debug", "gone">>)
      @@ <<"watcher", "ignore">> :> Strings(<<"dist">>)
Zeroes == <<"update_probe", "timeout_global_ms">> :> Num(0)
Unheard == <<"discort", "token">> :> Str("x")

MCBlocks ==
    [kagi |-> Version @@ Kagi, vision |-> Version @@ Vision @@ On, pool |-> Version @@ Pool,
     collision |-> Version @@ Collision, adv |-> Version @@ Adv, local |-> Version @@ Local,
     models |-> Version @@ Models, permits |-> Version @@ Permits @@ Limits,
     tools |-> Version @@ Tools @@ Commands, broken |-> Version @@ Broken,
     toggles |-> Version @@ Toggles, overlap |-> Version @@ Overlap, off |-> Version @@ Off,
     zeroes |-> Version @@ Zeroes, unheard |-> Version @@ Unheard]

C(n, k) == <<"mcp", n, k>>
V(n, k) == <<"servers", n, k>>
OldServers ==
    C("ext", "type") :> Str("remote") @@ C("ext", "url") :> Str("https://ext:8443/mcp")
    @@ C("push", "type") :> Str("remote") @@ C("push", "url") :> Str("http://127.0.0.1:6301/sse")
    @@ C("kagi", "type") :> Str("remote") @@ C("kagi", "url") :> Str(VisionURL(6280))
    @@ C("kagi", "enabled") :> Bool(TRUE)
    @@ C("local", "type") :> Str("stdio") @@ C("local", "url") :> Str(VisionURL(6282))
    @@ C("plain", "url") :> Str(VisionURL(6285))

\* A type that OCA does not know, and a port that is taken if there is a registry.
Unknowns == C("tool", "type") :> Str("local") @@ C("tool", "url") :> Str(VisionURL(6283))
Twin == C("twin", "type") :> Str("remote") @@ C("twin", "url") :> Str(VisionURL(6280))
MCRegistries ==
    { V("kagi", "port") :> Num(6280) @@ V("kagi", "command") :> Str("~/bin/kagi")
      @@ V("kagi", "args") :> Strings(<<"serve">>) @@ V("local", "port") :> Num(6282)
      @@ V("local", "command") :> Str("run") @@ V("local", "timeout") :> Num(-1)
      @@ V("quiet", "port") :> Num(6284) @@ V("quiet", "command") :> Str("quiet")
      @@ V("quiet", "autostart") :> Bool(TRUE)
      @@ <<"slot_groups", "pool", "template">> :> Str("kagi")
      @@ <<"slot_groups", "pool", "base_port">> :> Num(6291)
      @@ <<"slot_groups", "pool", "count">> :> Num(2)
      @@ <<"slot_groups", "pool", "group_port">> :> Num(6290) }

MCUserEdits ==
    { <<"mcp", "mine", "url">> :> Str("http://mine") @@ <<"mcp", "kagi", "headers">> :> Str("x")
      @@ <<"plugin">> :> Arr(<<Str("/home/u/adv/./plugin"), Str("gone"), Str("my-plugin"), Num(1)>>)
      @@ <<"instructions">> :> Strings(<<"/home/u/AGENTS.md", "my.md">>)
      @@ <<"watcher", "ignore">> :> Strings(<<"out">>) @@ <<"watcher", "poll">> :> Bool(TRUE),
      OldServers @@ <<"permission", "bash", "git push">> :> Str("deny") @@ <<"permission", "edit">> :> Str("ask")
      @@ <<"provider", "openai", "options", "apiKey">> :> Str("k")
      @@ <<"provider", "mine", "npm">> :> Str("p") @@ <<"lsp">> :> EmptyTable
      @@ <<"formatter", "gofmt", "environment", "MINE">> :> Str("1")
      @@ <<"theme">> :> Str("mine") @@ <<"compaction", "auto">> :> Bool(TRUE),
      Unknowns, Twin @@ <<"watcher">> :> Str("on"),
      << >> :> Str("a comment in it") }
================================================================================
