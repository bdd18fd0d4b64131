---------------------------- MODULE MCApplyEngine ----------------------------
(* Small instances of ApplyEngine for TLC. *)
EXTENDS ApplyTransaction, TLC

CONSTANTS p1, p2, json, vision, mcp, plugin, own, adv, old

\* A target of opencode.json that declares `d`.
Merge(d) == [path |-> json, declared |-> d, stale |-> {}, whole |-> FALSE,
             suppress |-> FALSE]

\* PlanMCP: opencode.json, then vision/servers.yaml.
MCPStage ==
    [targets |-> << Merge({mcp}),
                    [Merge({mcp}) EXCEPT !.path = vision, !.whole = TRUE] >>,
     sync |-> {}]

\* PlanPlugins for a plugin with a sync script: no backup, stale worktrees
\* are dropped, the script adds `adv`.
PluginStage ==
    [targets |-> << [Merge({plugin}) EXCEPT !.stale = {old},
                                            !.suppress = TRUE] >>,
     sync |-> {adv}]

\* A later stage that declares `own`.
OwnStage == [targets |-> << Merge({own}) >>, sync |-> {}]

MCPaths == {json, vision}

\* Two people apply at the same time, one of them only the MCP target.
FreshPluginStage == [PluginStage EXCEPT !.targets[1].stale = {}]
ConcurrentRuns ==
    p1 :> << MCPStage, FreshPluginStage >> @@ p2 :> << MCPStage >>

\* One invocation of three stages, run again after it ended or was killed.
OneRun == p1 :> << MCPStage, PluginStage, OwnStage >>

\* Two applications of the MCP target alone.
TwoMCP == [p \in {p1, p2} |-> << MCPStage >>]

\* Two full invocations of the same three-stage stack, without a sync script.
UnsyncedStage == [FreshPluginStage EXCEPT !.sync = {}]
SameStack == [p \in {p1, p2} |-> << MCPStage, UnsyncedStage, OwnStage >>]

=============================================================================
