------------------------------- MODULE MCProxy -------------------------------
(* The default rules and one the engine has to switch off; a tool for every  *)
(* verdict.  Two ids and three calls: an id can be used again, after the     *)
(* answer or before it.                                                      *)
EXTENDS Proxy

Tool(first, words, mutation) ==
    [first |-> first, last |-> "other", words |-> words, mutation |-> mutation,
     decodes |-> TRUE]

MCTools ==
    { Tool("get", {}, FALSE),             \* passes
      Tool("send", {}, FALSE),            \* flagged
      Tool("run", {"auth"}, FALSE),       \* paused, and flagged by a later rule
      Tool("delete", {}, TRUE),           \* blocked, and would be paused
      [Tool("delete", {}, TRUE) EXCEPT !.decodes = FALSE] } \* never looked at

MCRules == <<Rule("[", "", {}, 0, "block")>> \o DefaultRules
=============================================================================
