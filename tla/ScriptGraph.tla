------------------------------ MODULE ScriptGraph ------------------------------
(***************************************************************************)
(* Static tracing of package scripts to the tools they run                 *)
(* (packages/rules-javascript/src/script-graph.ts).  A script is a record  *)
(* [name, purpose, commands]: purpose is what the name says it is for, and *)
(* commands is Dynamic when the shell text is outside the small grammar.   *)
(* A command is a record [do, at, script, tool, arguments]:                *)
(*   "noop"      echo, printf, true, and runners that are asked to do      *)
(*               nothing ("vitest list", "tsc --noCheck", "--help")        *)
(*   "delegate"  npm, pnpm, yarn or turbo starting a script in the members *)
(*               at the paths `at`, the empty set being no match           *)
(*   "runner"    a tool, with the arguments left over                      *)
(*   "dynamic"   the one command of a Dynamic script                       *)
(*   "other"     anything else                                             *)
(***************************************************************************)
EXTENDS WorkspaceProject

CONSTANTS
    ToolPackage,       \* [tool -> the package that installs it]
    ToolPurpose,       \* [tool -> "test", "lint" or "typecheck"]
    MaxScriptDepth     \* 16 delegations

NodeTest == "node"       \* needs no declaration

Command(do, at, script, tool, arguments) ==
    [do |-> do, at |-> at, script |-> script, tool |-> tool, arguments |-> arguments]

Dynamic == {Command("dynamic", {}, "", "", {})}

ScriptsNamed(member, name) == {s \in member.scripts : s.name = name}

\* The package or an ancestor declares the tool, and not as a peer.
DeclaredTool(members, path, package) ==
    \E m \in members :
        /\ m.path \in {path, Root}
        /\ \E d \in m.declarations : d.name = package /\ d.group # PeerGroup

RunnerDeclared(members, path, tool) ==
    tool = NodeTest \/ DeclaredTool(members, path, ToolPackage[tool])

Purpose(tool) == IF tool = NodeTest THEN "test" ELSE ToolPurpose[tool]

\* Where tracing starts: a name that says it, or a first command that does.
SelectedScripts(member, purpose) ==
    {s \in member.scripts :
        \/ s.purpose = purpose
        \/ \E c \in s.commands : c.do = "runner" /\ Purpose(c.tool) = purpose}

-----------------------------------------------------------------------------
(* Expansion: nodes are pairs of a member's path and a script's name.      *)

MemberAt(members, path) == CHOOSE m \in members : m.path = path

ScriptsAt(members, node) ==
    UNION {ScriptsNamed(m, node[2]) : m \in {x \in members : x.path = node[1]}}

CommandsAt(members, node) == UNION {s.commands : s \in ScriptsAt(members, node)}

Delegated(members, node) ==
    LET followed == {c \in CommandsAt(members, node) : c.do = "delegate" /\ c.arguments = {}}
    IN  UNION {(c.at \cap {m.path : m \in members}) \X {c.script} : c \in followed}

\* What can be reached in at most n delegations.
Reached(members, start, n) ==
    LET reach[i \in 0..n] ==
            IF i = 0 THEN start
            ELSE LET before == reach[i - 1]
                 IN  before \cup UNION {Delegated(members, x) : x \in before}
    IN  reach[n]

ScriptCount(members) == Cardinality(UNION {{m.path} \X m.scripts : m \in members})

Visited(members, start) == Reached(members, start, ScriptCount(members) + 1)

\* A script that starts itself again, or one no chain of 16 delegations reaches.
\* (Of several chains to one script, the code measures the one it walks first.)
CycleOrBound(members, start) ==
    \/ \E x \in Visited(members, start) : x \in Visited(members, Delegated(members, x))
    \/ Visited(members, start) # Reached(members, start, MaxScriptDepth)

CommandUnresolved(members, node, c) ==
    CASE c.do \in {"other", "dynamic"} -> TRUE
      [] c.do = "delegate" -> c.at = {} \/ c.arguments # {}
      [] c.do = "runner"   -> ~RunnerDeclared(members, node[1], c.tool)
      [] OTHER             -> FALSE

ScriptUnresolved(members, node) ==
    \/ ScriptsAt(members, node) = {}
    \/ \E c \in CommandsAt(members, node) : CommandUnresolved(members, node, c)

Executions(members, visited) ==
    UNION {{[path |-> x[1], tool |-> c.tool, arguments |-> c.arguments] :
               c \in {e \in CommandsAt(members, x) :
                         e.do = "runner" /\ ~CommandUnresolved(members, x, e)}} : x \in visited}

\* Anything unresolved on the way makes the answer unknown, whatever was found.
TraceScripts(members, member, purpose) ==
    LET start   == {<<member.path, s.name>> : s \in SelectedScripts(member, purpose)}
        visited == Visited(members, start)
        found   == Executions(members, visited)
    IN  [executions |-> found,
         state      |-> IF \/ CycleOrBound(members, start)
                           \/ \E x \in visited : ScriptUnresolved(members, x)
                        THEN "unknown"
                        ELSE IF \E e \in found : Purpose(e.tool) = purpose THEN "pass" ELSE "fail"]
=============================================================================
