------------------------------ MODULE Clients ------------------------------
(***************************************************************************)
(* The events of a tool call as those who report it make them: the hook    *)
(* of a runtime (hook/cmd/obsigna-hook), and the MCP proxy or any other    *)
(* program with the Go SDK.                                                *)
(*                                                                         *)
(* A string is one of three lengths: Long is over the cap of the identity  *)
(* fields, LongPath over the cap of a resource too.  A payload is the kind *)
(* of a JSON value and its size; "huge" holds a number no float64          *)
(* represents.  A resource is a sequence of the strings it is composed of. *)
(***************************************************************************)
EXTENDS Command, Redaction

CONSTANTS
    HookCap,     \* runes of an error the hook passes on (maxErrorTextLen)
    MaxFrameSize \* size of a frame

Long == "long"
LongPath == "longpath"
Query == "?q"       \* the query or fragment of a URI

Payload(kind) == [kind |-> kind, isError |-> FALSE, size |-> 1]
Absent == [Payload("none") EXCEPT !.size = 0]
NoResource == [system |-> "", resource |-> <<>>]

Event == [channel |-> "claude-code", tool |-> "Bash", server |-> "", action |-> "",
          target |-> NoResource, input |-> Absent, output |-> Absent, error |-> NoText,
          preview |-> NoText, decision |-> "allowed", operator |-> [id |-> "", name |-> ""],
          correlation |-> "", agent |-> "", agentType |-> "",
          model |-> "", usage |-> Absent, capture |-> ""]
-----------------------------------------------------------------------------
(* The transcript of a session: lines with the id of the tool call they      *)
(* mention.  The turn that made the call is of type "assistant"; a line may  *)
(* be over the length the hook reads, or no JSON.                            *)

NoTurn == [model |-> "", usage |-> Absent, capture |-> ""]

WrongLookupTranscriptUsage(lines, id) ==
    LET hits == {i \in DOMAIN lines : lines[i].id = id /\ lines[i].form = "good"}
        hit  == lines[CHOOSE i \in hits : \A j \in hits : i <= j]
    IN IF hits = {} THEN NoTurn
       ELSE [model |-> hit.model, usage |-> hit.usage, capture |-> "transcript"]

lookupTranscriptUsage(lines, id) ==
    LET hits == {i \in DOMAIN lines : /\ lines[i].id = id
                                      /\ lines[i].form = "good"
                                      /\ lines[i].type = "assistant"}
        hit  == lines[CHOOSE i \in hits : \A j \in hits : i <= j]
    IN IF hits = {} THEN NoTurn
       ELSE [model |-> hit.model, usage |-> hit.usage, capture |-> "transcript"]

(* The transcript of a frame: at the path it names, or under its session id. *)
resolveTranscript(use, lines) == IF use.transcript \in {"named", "bySession"} THEN lines ELSE <<>>
-----------------------------------------------------------------------------
nativeActionTypes ==
    [tool \in {"Read", "Write", "Edit", "MultiEdit"} |-> IF tool = "Read" THEN Read ELSE Modify]

nativeToolActionType(tool) ==
    IF tool \in DOMAIN nativeActionTypes THEN nativeActionTypes[tool] ELSE ""

skipTools == {"Bash", "Agent", "WebFetch", "WebSearch", "mcp__db"}

extractFileTarget(use) ==
    IF use.tool \in skipTools \/ use.input.kind # "object" THEN "" ELSE use.file

(* Never empty, so that a failure is not taken for a success; cut before the *)
(* daemon redacts it.                                                        *)
failureErrorText(use) ==
    LET runes == Rendered(use.error)
    IN CASE runes = <<>> /\ use.interrupt  -> PlainText(<<"i">>)
         [] runes = <<>> /\ ~use.interrupt -> PlainText(<<"f">>)
         [] Len(runes) > HookCap -> PlainText(SubSeq(runes, 1, HookCap) \o <<"...">>)
         [] OTHER -> use.error

(* What the hook made of the command or the path.  (The path is completed    *)
(* with the working directory of the frame.)                                 *)
TargetOf(use) ==
    LET shell == extractBashTarget(use.command)
        file  == extractFileTarget(use)
    IN CASE use.tool = "Bash" /\ use.input.kind = "object" -> shell
         [] file # "" -> [action |-> nativeToolActionType(use.tool), path |-> file]
         [] OTHER -> NoTarget

(* readClaudeCode.  PreToolUse is pending, everything else was allowed. *)
readClaudeCode(use, phase, lines) ==
    LET target == TargetOf(use)
        turn   == IF use.id = "" THEN NoTurn
                  ELSE lookupTranscriptUsage(resolveTranscript(use, lines), use.id)
    IN [Event EXCEPT
          !.tool = use.tool, !.action = target.action, !.input = use.input,
          !.decision = IF phase = "pre" THEN "pending" ELSE "allowed",
          !.error = IF phase = "failure" THEN failureErrorText(use) ELSE NoText,
          !.output = IF phase = "post" THEN use.output ELSE Absent,
          !.target = IF target.path = "" THEN NoResource
                     ELSE [system |-> "filesystem", resource |-> <<target.path>>],
          !.correlation = use.id, !.agent = use.agent, !.agentType = use.agentType,
          !.model = turn.model, !.usage = turn.usage, !.capture = turn.capture]
-----------------------------------------------------------------------------
(* ExtractTarget of the proxy.  The arguments are a function from the keys   *)
(* that carry a string.                                                      *)
uriKeys == <<"url", "endpoint">>
tableKeys == <<"table", "collection">>
dbQualifierKeys == <<"database", "schema">>
genericKeys == <<"path", "bucket">>

firstStringValue(args, keys) ==
    LET Given(k) == k \in DOMAIN args
        given    == SelectSeq(keys, Given)
    IN IF given = <<>> THEN <<>> ELSE args[Head(given)]

canonicalURI(uri) == LET Part(s) == s # Query IN SelectSeq(uri, Part)

repoResource(args) ==
    IF {"owner", "repo"} \subseteq DOMAIN args THEN args.owner \o <<"/">> \o args.repo ELSE <<>>

(* The most specific shape the arguments have; an endpoint that is all query *)
(* leaves nothing.                                                           *)
extractResource(args) ==
    LET uri   == firstStringValue(args, uriKeys)
        table == firstStringValue(args, tableKeys)
        qual  == firstStringValue(args, dbQualifierKeys)
    IN CASE uri # <<>> -> canonicalURI(uri)
         [] uri = <<>> /\ table # <<>> -> IF qual = <<>> THEN table ELSE qual \o <<".">> \o table
         [] uri = <<>> /\ table = <<>> /\ repoResource(args) # <<>> -> repoResource(args)
         [] OTHER -> firstStringValue(args, genericKeys)

ExtractTarget(server, args) ==
    LET resource == extractResource(args)
    IN IF server \in {"", Long, LongPath} \/ resource = <<>> \/ LongPath \in ToSet(resource)
       THEN NoResource
       ELSE [system |-> server, resource |-> resource]

(* The proxy's mappings of tools to action types, a function (a file that    *)
(* maps a tool twice is refused), give a type the registry knows or "".      *)
Registered == {Delete, Move, Create, Read, Modify}

ClassifyToolCall(tool, mappings) ==
    IF tool \in DOMAIN mappings /\ mappings[tool] \in Registered THEN mappings[tool] ELSE "unknown"

resolveActionType(tool, mappings) ==
    LET type == ClassifyToolCall(tool, mappings) IN IF type = "unknown" THEN "" ELSE type

(* emitToContext. *)
ProxyEvent(use) ==
    [use.event EXCEPT !.channel = "mcp",
                      !.action = resolveActionType(use.event.tool, use.mappings),
                      !.target = ExtractTarget(use.event.server, use.args)]
=============================================================================
