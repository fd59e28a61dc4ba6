------------------------------- MODULE Policy -------------------------------
(***************************************************************************)
(* What the MCP proxy thinks of a tool call: the operation it reads off    *)
(* the tool's name, the risk score (mcp-proxy/internal/audit) and the      *)
(* verdict of the policy rules (mcp-proxy/internal/policy).                *)
(*                                                                         *)
(* A tool is a record of what these functions look for: its first and last *)
(* word ("other" if it is none they know), the words that occur anywhere   *)
(* in its name, whether an argument under an SQL key holds a mutation      *)
(* without a WHERE, and whether the params of the call decode.  A pattern  *)
(* is one of the globs in DefaultRules, "" for a rule without one, or "[", *)
(* which is no glob.                                                       *)
(***************************************************************************)
EXTENDS Integers, Sequences

(* The verbs by operation; the first word counts before the last. *)
Verbs ==
    [delete  |-> {"delete", "remove", "drop", "destroy", "purge"},
     execute |-> {"run", "exec", "invoke", "call", "trigger"},
     write   |-> {"create", "update", "set", "add", "put", "edit", "modify", "write",
                  "request", "assign"},
     read    |-> {"get", "read", "list", "search", "describe", "show"}]

Endings ==
    [delete |-> {"delete", "remove"}, execute |-> {"run", "exec"},
     write |-> {"create", "update", "write"}, read |-> {"read"}]

OperationOf(word, table) == {op \in DOMAIN table : word \in table[op]}

ClassifyOperation(tool) ==
    LET byFirst == OperationOf(tool.first, Verbs)
        byLast  == OperationOf(tool.last, Endings)
    IN IF byFirst # {} THEN CHOOSE op \in byFirst : TRUE
       ELSE IF byLast # {} THEN CHOOSE op \in byLast : TRUE ELSE "unknown"

Sensitive == {"auth", "credential", "password", "token", "secret", "key"}

Points(condition, n) == IF condition THEN n ELSE 0

ScoreRisk(tool) ==
    LET base  == [read |-> 0, write |-> 20, delete |-> 40, execute |-> 30, unknown |-> 10]
        score == base[ClassifyOperation(tool)]
                 + Points(tool.words \cap Sensitive # {}, 30)
                 + Points(tool.mutation, 30)
                 + Points(tool.words \cap {"config", "setting"} # {}, 20)
                 + Points(tool.first \in {"send", "post"}, 15)
    IN IF score > 100 THEN 100 ELSE score
-----------------------------------------------------------------------------
actionSeverity == [pass |-> 0, flag |-> 1, pause |-> 2, block |-> 3]

Glob(pattern, tool) ==
    \/ pattern = ""
    \/ pattern = "delete_*" /\ tool.first = "delete"
    \/ pattern = "send_*"   /\ tool.first = "send"
    \/ pattern = "*auth*"   /\ "auth" \in tool.words
    \/ pattern = "*config*" /\ "config" \in tool.words

(* NewEngine switches a rule off whose action it does not know or whose      *)
(* pattern is none.                                                          *)
Effective(rule) ==
    rule.enabled /\ rule.action \in DOMAIN actionSeverity /\ "[" \notin {rule.tool, rule.server}

(* matchesRule.  A rule for a server names the server itself. *)
MatchesRule(rule, server, tool) ==
    /\ Glob(rule.tool, tool)
    /\ rule.server \in {"", server}
    /\ rule.ops = {} \/ ClassifyOperation(tool) \in rule.ops
    /\ ScoreRisk(tool) >= rule.min

(* The effective rules that match. *)
Matching(rules, server, tool) ==
    {i \in DOMAIN rules : Effective(rules[i]) /\ MatchesRule(rules[i], server, tool)}

WrongEvaluate(rules, server, tool) == \* the last of them
    LET hits == Matching(rules, server, tool)
    IN IF hits = {} THEN "pass" ELSE rules[CHOOSE i \in hits : \A j \in hits : j <= i].action

(* Evaluate: the most restrictive of their actions. *)
Evaluate(rules, server, tool) ==
    LET actions == {"pass"} \cup {rules[i].action : i \in Matching(rules, server, tool)}
    IN CHOOSE a \in actions : \A b \in actions : actionSeverity[b] <= actionSeverity[a]

Rule(tool, server, ops, min, action) ==
    [enabled |-> TRUE, tool |-> tool, server |-> server, ops |-> ops, min |-> min, action |-> action]

DefaultRules ==
    << Rule("delete_*", "", {"delete"}, 70, "block"),
       Rule("", "", {}, 50, "pause"),
       Rule("", "postgres", {"write", "delete", "execute"}, 0, "flag"),
       Rule("*auth*", "", {}, 0, "flag"),
       Rule("*config*", "", {"write", "delete"}, 0, "flag"),
       Rule("send_*", "", {}, 0, "flag") >>
=============================================================================
