----------------------------- MODULE ConfigPipeline -----------------------------
(***************************************************************************)
(* oca apply, oca diff and oca migrate on configuration files: the user     *)
(* edits stack.toml and opencode.json or has stack.toml written, an apply   *)
(* loads the stack once and then renders target after target, each from the *)
(* file it finds.  It may be killed between two writes.  Two applies at     *)
(* once are ApplyEngine's.                                                  *)
(***************************************************************************)
EXTENDS Migrate

CONSTANTS
    Blocks,      \* pieces of stack.toml, by name
    UserEdits,   \* documents that the user writes over opencode.json
    Registries,  \* registries of Vision from before OCA
    Alone,       \* bound: the targets that an apply may be asked for alone
    MaxBlocks,   \* bound: the blocks of the first stack.toml
    MaxEdits,    \* bound: the edits of the files
    MaxApplies,  \* bound: the applies
    MaxKills     \* bound: the applies that are killed

\* What users write are documents, and none is the mark of a refusal.
ASSUME UserAssumption ==
    /\ \A e \in UserEdits : IsDocument(e) /\ e # Refused
    /\ \A b \in DOMAIN Blocks : IsDocument(Blocks[b])
    /\ \A r \in Registries : IsDocument(r)

VARIABLES
    blocks,      \* the blocks of stack.toml
    migrated,    \* what oca migrate has written of it
    doc,         \* opencode.json
    servers,     \* vision/servers.yaml
    skills,      \* the skills directory, a content for each
    env,         \* temporal.env
    stack,       \* the stack of the last apply
    todo,        \* the targets that the apply has left
    plan,        \* what oca diff said of the whole apply: the document it makes
    finished,    \* the last whole apply went through and nothing was edited since
    edits, applies, kills

vars == <<blocks, migrated, doc, servers, skills, env, stack, todo, plan, finished, edits,
          applies, kills>>

Raw == Union({Blocks[b] : b \in blocks}) ++ migrated
NoPlan == Leaf(<<"no plan">>, EmptyTable)

Init ==
    /\ blocks \in UNION {kSubset(n, DOMAIN Blocks) : n \in 0..MaxBlocks}
    /\ migrated = NoDocument
    /\ doc \in {NoDocument} \cup UserEdits
    /\ servers \in {NoDocument} \cup (IF blocks = {} THEN Registries ELSE {})
    /\ skills = [s \in {} |-> ""] /\ env = NoDocument
    /\ stack = NotLoaded /\ todo = << >> /\ plan = NoPlan /\ finished = FALSE
    /\ edits = 0 /\ applies = 0 /\ kills = 0

Edit == edits < MaxEdits /\ edits' = edits + 1

\* The user adds or removes a block.  An apply that runs has read the file.
EditStack(b) ==
    /\ Edit /\ todo = << >>
    /\ blocks' = IF b \in blocks THEN blocks \ {b} ELSE blocks \cup {b}
    /\ UNCHANGED <<migrated, doc, servers, skills, env, stack, todo, plan, finished, applies, kills>>

\* oca migrate from-open-chad and oca migrate init, to stack.toml.
WriteMigrated(t) ==
    /\ Edit /\ todo = << >>
    /\ blocks' = {} /\ migrated' = t
    /\ UNCHANGED <<doc, servers, skills, env, stack, todo, plan, finished, applies, kills>>

MigrateFromOpenChad == WriteMigrated(EmitTOML(doc, servers))
MigrateInit == WriteMigrated(StarterStack)

\* The user, OpenCode or Advance writes to opencode.json or to a skill.
EditDocument(e) ==
    /\ Edit
    /\ doc' = Override(doc, e)
    /\ plan' = NoPlan /\ finished' = FALSE
    /\ UNCHANGED <<blocks, migrated, servers, skills, env, stack, todo, applies, kills>>

EditSkill(s) ==
    /\ Edit
    /\ skills' = Leaf(s, "the user's") ++ skills
    /\ plan' = NoPlan /\ finished' = FALSE
    /\ UNCHANGED <<blocks, migrated, doc, servers, env, stack, todo, applies, kills>>

Whole == AllTargets \o <<"temporal">>

Requests == {Whole} \cup {<<target>> : target \in Alone}

\* applyTargetsInOrder: the stack is loaded once.  One that is not accepted
\* changes nothing.
BeginApply ==
    /\ todo = << >>
    /\ applies < MaxApplies /\ applies' = applies + 1
    /\ stack' = Load(Raw) /\ Accepted(stack')
    /\ todo' \in Requests
    /\ plan' = IF todo' = Whole THEN Composed(stack', doc, AllTargets) ELSE NoPlan
    /\ finished' = FALSE
    /\ UNCHANGED <<blocks, migrated, doc, servers, skills, env, edits, kills>>

Target == Head(todo)
Next1 == NextDoc(Target, stack, doc)

\* The next target, with its writes.  One that cannot be planned ends the apply.
Advance ==
    /\ todo' = Tail(todo)
    /\ finished' = (plan # NoPlan /\ todo' = << >>)

Refuse ==
    /\ todo # << >> /\ Target \in DocumentTargets /\ Next1 = Refused
    /\ todo' = << >>
    /\ UNCHANGED <<blocks, migrated, doc, servers, skills, env, stack, plan, finished, edits, applies, kills>>

ApplyDocument ==
    /\ todo # << >> /\ Target \in DocumentTargets /\ Next1 # Refused
    /\ doc' = Next1
    /\ servers' = IF Target = "mcp" THEN VisionServers(stack) ELSE servers
    /\ Advance
    /\ UNCHANGED <<blocks, migrated, skills, env, stack, plan, edits, applies, kills>>

ApplySkills ==
    /\ todo # << >> /\ Target = "skills"
    /\ skills' = CopySkills(stack, skills)
    /\ Advance
    /\ UNCHANGED <<blocks, migrated, doc, servers, env, stack, plan, edits, applies, kills>>

\* A file of an earlier stack stays when Temporal is off.
ApplyTemporal ==
    /\ todo # << >> /\ Target = "temporal"
    /\ env' = IF TemporalEnabled(stack) THEN TemporalEnv(stack) ELSE env
    /\ Advance
    /\ UNCHANGED <<blocks, migrated, doc, servers, skills, stack, plan, edits, applies, kills>>

\* Between two targets, or between the two files of the first.
Kill ==
    /\ todo # << >> /\ kills < MaxKills /\ kills' = kills + 1
    /\ todo' = << >>
    /\ \/ doc' = doc
       \/ Target = "mcp" /\ Next1 # Refused /\ doc' = Next1
    /\ UNCHANGED <<blocks, migrated, servers, skills, env, stack, plan, finished, edits, applies>>

Next ==
    \/ \E b \in DOMAIN Blocks : EditStack(b)
    \/ \E e \in UserEdits : EditDocument(e)
    \/ \E s \in DOMAIN SkillAssets : EditSkill(s)
    \/ MigrateFromOpenChad \/ MigrateInit
    \/ BeginApply \/ Refuse \/ ApplyDocument \/ ApplySkills \/ ApplyTemporal \/ Kill

Spec == Init /\ [][Next]_vars
--------------------------------------------------------------------------------
(* What a stack declares. *)

\* The keys of opencode.json that belong to a target.
TargetKeys == {"mcp", "plugin", "instructions", "provider", "permission",
               "watcher", "lsp", "command", "formatter"}

\* [opencode] passes keys through that it does not know: none of another target's.
OwnKeys(t) == Keys(t, <<"opencode">>) \cap TargetKeys = {}

Declarations(t) == {DeclaredMCP(t)} \cup {Translated(t, Sections[s]) : s \in DOMAIN Sections}

Arrays(t) == Leaf(<<"plugin">>, DeclaredPlugins(t))
             ++ Leaf(<<"instructions">>, DeclaredInstructions(t))
             ++ Leaf(<<"watcher", "ignore">>, Items(t, <<"watcher", "ignore">>))

\* A key that a declaration may take.  An entry of .mcp is taken as a whole; an
\* empty table takes nothing from a table.
Claims(declared, p) ==
    \/ Len(p) >= 2 /\ p[1] = "mcp" /\ p[2] \in Keys(declared, <<"mcp">>)
    \/ \E q \in DOMAIN declared :
         Related(p, q) /\ (declared[q] = EmptyTable => IsPrefix(p, q))

Claimed(declarations, p) == \E declared \in declarations : Claims(declared, p)

\* A key of a section that OCA does not know, and passes on.
Unknown(p) ==
    /\ Len(p) >= 2
    /\ CASE p[1] = "permissions" -> p[2] \notin DOMAIN Permissions.strict
         [] p[1] = "opencode" -> p[2] \notin DOMAIN OpenCode.strict \cup DOMAIN OpenCode.lenient
         [] Len(p) >= 3 /\ p[1] = "lsp" -> p[3] \notin DOMAIN LSP.lenient
         [] Len(p) >= 3 /\ p[1] = "formatters" ->
              p[3] \notin DOMAIN Formatter.lenient \cup {"environment"}
         [] Len(p) >= 3 /\ p[1] = "commands" -> p[3] \notin DOMAIN Command.lenient
         [] Len(p) >= 3 /\ p[1] = "providers" ->
              \/ p[3] \notin DOMAIN Provider.strict
              \/ /\ p[3] = "models" /\ Len(p) >= 5
                 /\ p[5] \notin DOMAIN ProviderModel.strict \cup DOMAIN ProviderModel.lenient
         [] OTHER -> FALSE
--------------------------------------------------------------------------------
(* Properties *)

\* Who has ports: servers, slot groups, and the slots that a group stands for.
PortOwners(t) == {"server"} \X ServersOf(t) \cup {"group", "slots"} \X GroupsOf(t)

PortsOf(t, owner) ==
    CASE owner[1] = "server" -> {ServerPort(t, owner[2])}
      [] owner[1] = "group" -> Positive({GroupPort(t, owner[2])})
      [] owner[1] = "slots" -> SlotPorts(t, owner[2])

\* No two servers, slot groups or slots of an accepted stack have one port
\* (validate.go:320-470).  Ports that are not positive are not looked at.
PortsDisjoint ==
    \A o1, o2 \in PortOwners(stack) :
      o1 # o2 => PortsOf(stack, o1) \cap PortsOf(stack, o2) = {}

\* A key of a section that is read as a switch, or as a number of update_probe.
IsSetting(parsed, p) ==
    /\ Len(p) >= 2 /\ p \in DOMAIN parsed
    /\ parsed[p][1] = "bool" \/ (parsed[p][1] = "int" /\ p[1] = "update_probe")

\* A switch that stack.toml has keeps its value, FALSE too, and so does a number
\* of update_probe: defaults are for what is not there (types.go:859-945,
\* validate.go:954-981).
SettingsKept ==
    [][stack' # stack =>
         LET raw == Raw
             parsed == Parsed(raw)
         IN  \A p \in KeyPaths(raw) :
               IsSetting(parsed, p) => p \in DOMAIN stack' /\ stack'[p] = raw[p]]_vars

\* The document that oca diff said is the one that the apply leaves
\* (plan.go:427-433), when nothing was edited in between.
PlanIsApplied == finished => doc = plan

\* An apply that was killed anywhere, or ended, is completed by a whole apply:
\* from every document on the way the plan is the same.
Resumable ==
    plan \notin {NoPlan, Refused} /\ OwnKeys(stack)
      => Composed(stack, doc, AllTargets) = plan

\* After a whole apply oca diff reports no drift (diff.go:16-18).
InSync == finished /\ OwnKeys(stack) => ~Drift(stack, doc, servers, skills)

\* Where opencode.json says that a declared server or group is, Vision's
\* registry has one, or it is Vision itself.
EndpointsServed ==
    finished /\ OwnKeys(stack) =>
      LET ports == {q \in DOMAIN servers : Len(q) = 3 /\ q[3] \in {"port", "group_port"}}
          listening == {servers[q][2] : q \in ports}
                       \cup {ServerPort(stack, n) : n \in {n \in ServersOf(stack) : IsDaemon(stack, n)}}
      IN  \A n \in ServersOf(stack) \cup GroupsOf(stack) :
            doc[<<"mcp", n, "url">>][2] \in listening

\* A key that OCA does not know is passed on to opencode.json as it is
\* (parse.go:348-385 and the Extra fields of types.go).
ExtrasPassThrough ==
    [][plan' \notin {plan, NoPlan, Refused} /\ OwnKeys(stack') =>
         \A p \in DOMAIN Raw :
           Unknown(p) /\ Raw[p] # EmptyTable
             => JSONPath(p) \in DOMAIN plan' /\ plan'[JSONPath(p)] = Raw[p]]_vars

\* A server that is migrated has one transport, and what that transport needs.
\* Of a type that OCA does not know, or of none and neither a command nor a URL,
\* the code says itself that it will fail validation (openchad.go:32-35).
OneTransport(n, server) ==
    LET url == server.url[2]
        command == server.command[2]
    IN  CASE server.type[2] = "stdio" -> command # ""
          [] server.type[2] = "http" -> url \in McpURLs
          [] server.type[2] = "sse" -> url # ""
          [] server.type[2] = "daemon" ->
               n = "vision" /\ command = "" /\ server.args = Arr(<< >>)
          [] server.type[2] = "" -> (command = "") # (url = "")
          [] OTHER -> FALSE

\* What is there to migrate: each server has one transport and a port that is no
\* other's, and is neither in the ports nor among the names of a slot group of
\* the registry.
Migratable ==
    LET Old(n) == ReadServer(doc, servers, n)
        migrating == {n \in Tables(doc, <<"mcp">>) \cup Tables(servers, <<"servers">>) :
                        Emittable(Old(n))}
        groups == EmitGroups(servers)
    IN  \A n \in migrating :
          /\ OneTransport(n, Old(n))
          /\ \A m \in migrating \ {n} : Old(n).port # Old(m).port
          /\ \A g \in GroupsOf(groups) :
               Old(n).port[2] \notin GroupPorts(groups, g) /\ n \notin SlotNames(groups, g)

\* What oca migrate writes of such a set-up is a valid stack.toml
\* (docs/proposals/v1-implementation.md:106, openchad.go:1), whatever else its
\* three files have of plugins, instructions, skills and servers of other hosts.
MigratedIsAccepted ==
    [][migrated' # migrated /\ Migratable => Accepted(Load(migrated'))]_vars

\* An apply takes nothing from opencode.json that the stack does not declare
\* (docs/design/opencode-json-section-contract.md:61).  The tables of
\* permissions are replaced as a whole; see UserPermissionsSurvive.
UserKeysSurvive ==
    [][edits' = edits /\ doc' # doc =>
         LET declarations == Declarations(stack) IN
         \A p \in KeyPaths(doc) :
           \/ Kind(doc, p) = "table" \/ Claimed(declarations, p)
           \/ \E o \in OpaqueTables, declared \in declarations :
                IsPrefix(o, p) /\ Has(declared, o)
           \/ p \in DOMAIN Arrays(stack)
           \/ p \in DOMAIN doc' /\ doc'[p] = doc[p]]_vars

KeepsEntries(t, p) ==
    LET entries == Items(Only(doc, {p}), p)
        Mine(s) == /\ s \notin StaleWorktrees
                   /\ \A d \in Range(Arrays(t)[p]) : CanonicalPath(d) # CanonicalPath(s)
    IN  \A i \in DOMAIN entries :
          doc[p][2][i][1] = "string" /\ Mine(entries[i])
            => <<"string", entries[i]>> \in Range(doc'[p][2])

\* Of the plugins, the instructions and the ignored files an apply takes only
\* what is declared or stale (array_merge.go:54-59).
UserEntriesSurvive ==
    [][edits' = edits /\ doc' # doc =>
         LET declarations == Declarations(stack) IN
         \A p \in DOMAIN Arrays(stack) \cap DOMAIN doc :
           \/ Claimed(declarations, p) \/ Kind(doc, p) = "table"
           \/ p \in DOMAIN doc' /\ doc'[p] = doc[p]
           \/ Kind(doc, p) = "array" /\ KeepsEntries(stack, p)]_vars

\* "OCA must never delete entries it didn't create"
\* (docs/design/opencode-json-section-contract.md:61), of the permissions that
\* the user has added to those that the stack declares.
UserPermissionsSurvive ==
    [][edits' = edits =>
         LET declarations == Declarations(stack) IN
         \A p \in {p \in DOMAIN doc : IsPrefix(<<"permission">>, p)} :
           Claimed(declarations, p) \/ p \in DOMAIN doc']_vars
================================================================================
