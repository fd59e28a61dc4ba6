----------------------------- MODULE MCRecording -----------------------------
(* Sessions of one kind for each question: the shell commands, the texts,    *)
(* the fields one by one at and over their caps, two calls side by side, and *)
(* the settings of the daemon.                                               *)
EXTENDS Recording

Settings(key, params, response, cap) ==
    [key |-> key, params |-> params, response |-> response, maxError |-> cap, maxPreview |-> cap]
Quiet == Settings(None, <<"off">>, <<"">>, 0)
High  == Settings("k1", <<"high">>, <<"off">>, 0)

Hook == [client |-> "hook", known |-> "frame", tool |-> "Bash", input |-> Payload("object"),
         command |-> <<"echo", "f">>, file |-> "", output |-> Payload("object"),
         failed |-> FALSE, error |-> NoText, interrupt |-> FALSE, id |-> "c1",
         agent |-> "", agentType |-> "", transcript |-> "named", line |-> "good",
         model |-> "m1", usage |-> Payload("object"), operator |-> [id |-> "", name |-> ""]]

Sdk(ev) == [client |-> "sdk", event |-> ev, args |-> <<>>, mappings |-> <<>>, failed |-> FALSE,
            id |-> "c1", operator |-> [id |-> "", name |-> ""]]
Proxied(ev, args) ==
    [Sdk(ev) EXCEPT !.client = "proxy", !.args = args, !.mappings = [drop |-> Delete, list |-> "x.y"]]

Alone(use, settings) ==
    [uses |-> [c \in {"c1"} |-> use], settings |-> settings, damage |-> FALSE, follow |-> None]

SeqsUpTo(S, n) == UNION {[1..k -> S] : k \in 0..n}

(* Every verb and prefix, up to three arguments, redirects behind and before. *)
Args == SeqsUpTo({"-f", "--", "f"}, 3) \cup SeqsUpTo({"-t", "*", EscapedSpace, "f", "g"}, 2)
           \cup {<<"-t", "f", "g">>, <<"--", "-t", "f">>, <<"f", ";", "g">>, <<IntoDir, "f", "*">>,
                 <<"--", IntoDir, "f">>, <<"f", "g", Comment, "*">>, <<"f", Comment, ">", "*">>}
Commands ==
    LET Bare == {p \o <<v>> \o a : p \in {<<>>, <<"sudo">>}, v \in {"echo", "rm", "mv", "cp"}, a \in Args}
    IN {c \o r : c \in Bare, r \in {<<>>, <<">", "g">>, <<">", EscapedSpace>>}}
       \cup {<<">", "g", "rm", "f">>, <<"rm", "f", ">">>, <<">", "*">>, <<"rm", ">", "f", ">", "g">>,
             <<"rm", "f", "2>">>, <<">", "f">>}

Texts == {PlainText(runes) : runes \in SeqsUpTo({"w", Secret}, 5)}
         \cup {[json |-> TRUE, leaves |-> <<Leaf(<<"w">>), [sensitive |-> TRUE, runes |-> r], Leaf(q)>>] :
                  r \in {<<"k">>, <<"k", "k", "k", "k">>, <<Secret>>}, q \in SeqsUpTo({"w", Secret}, 2)}

(* One field at a time. *)
HookFields ==
    {[Hook EXCEPT !.agentType = Long], [Hook EXCEPT !.agent = "a/b"], [Hook EXCEPT !.agent = Long],
     [Hook EXCEPT !.agent = "a1"], [Hook EXCEPT !.id = Long], [Hook EXCEPT !.id = ""],
     [Hook EXCEPT !.tool = ""], [Hook EXCEPT !.known = "no"], [Hook EXCEPT !.transcript = "none"],
     [Hook EXCEPT !.transcript = "bySession"], [Hook EXCEPT !.line = "long"],
     [Hook EXCEPT !.line = "torn"], [Hook EXCEPT !.model = Long], [Hook EXCEPT !.usage = Payload("huge")],
     [Hook EXCEPT !.usage = Absent], [Hook EXCEPT !.failed = TRUE],
     [Hook EXCEPT !.failed = TRUE, !.interrupt = TRUE]}
    \cup {[Hook EXCEPT !.input = Payload(k)] : k \in {"none", "null", "array", "huge"}}
    \cup {[Hook EXCEPT !.tool = t, !.file = f] : t \in {"Read", "Write", "Grep", "WebFetch", "mcp__db"},
                                                f \in {"", "f", LongPath}}

(* Frames near the cap, which is 20: a call that only its turn makes too      *)
(* long, calls too long for the emitter, and calls too long for the hook.    *)
Sized(n) == [Payload("object") EXCEPT !.size = n]
HookSizes ==
    {[Hook EXCEPT !.tool = "Grep", !.known = k, !.input = Sized(i), !.output = Sized(o), !.usage = Sized(u)] :
        k \in {"flag", "frame"}, i \in {14, 16, 17, 18, 20, 21}, o \in {0, 1, 3}, u \in {1, 3}}
    \cup {[Hook EXCEPT !.tool = "Grep", !.known = "flag", !.input = Sized(i), !.usage = Absent, !.model = m,
                       !.failed = TRUE, !.error = PlainText([r \in 1..n |-> "w"])] :
              i \in {10, 13}, m \in {"", "m1"}, n \in {1, 4, 10, 11}}
SdkSizes ==
    {[Event EXCEPT !.input = Sized(i), !.output = Sized(o), !.preview = t] :
        i \in {10, 18, 20}, o \in {0, 9, 10}, t \in {NoText, PlainText(<<"w", "w">>)}}

Mcp == [Event EXCEPT !.channel = "mcp", !.server = "db", !.input = Payload("object")]
SdkEvents ==
    {[Mcp EXCEPT !.server = Long], [Mcp EXCEPT !.action = Delete], [Mcp EXCEPT !.action = Long],
     [Mcp EXCEPT !.decision = "denied"], [Mcp EXCEPT !.decision = "maybe"],
     [Mcp EXCEPT !.output = [Payload("object") EXCEPT !.isError = TRUE]],
     [Event EXCEPT !.output = [Payload("object") EXCEPT !.isError = TRUE]],
     [Mcp EXCEPT !.operator.name = "ops"], [Mcp EXCEPT !.operator.id = "o1"],
     [Event EXCEPT !.target.system = "s"], [Event EXCEPT !.usage = Payload("huge")],
     [Event EXCEPT !.correlation = Long], [Event EXCEPT !.capture = Long]}
ArgSets ==
    { [url |-> <<"u", Query>>], [url |-> <<LongPath>>, path |-> <<"p">>],
      [table |-> <<"t">>, database |-> <<"d">>], [owner |-> <<"o">>, repo |-> <<"r">>],
      [owner |-> <<"o">>, path |-> <<"p">>], [none |-> <<"n">>] }

(* Two calls of one turn's session, the second by a sub-agent. *)
Second == [Hook EXCEPT !.id = "c2", !.agent = "a1", !.model = "m2", !.command = <<"rm", "f", ">", "g">>]
Pairs ==
    {[uses |-> [c \in {"c1", "c2"} |-> IF c = "c1" THEN u ELSE Second],
      settings |-> {High}, damage |-> FALSE, follow |-> None] :
        u \in {[Hook EXCEPT !.line = "long"], [Hook EXCEPT !.failed = TRUE, !.command = <<"rm", "g">>]}}

(* Somebody follows the receipts of two calls. *)
Asked == [chain |-> None, action |-> None, risk |-> None, status |-> None, limit |-> None]
Followed ==
    {[uses |-> [c \in {"c1", "c2"} |-> IF c = "c1" THEN Hook ELSE Sdk([Event EXCEPT !.agent = "a1"])],
      settings |-> {High}, damage |-> FALSE, follow |-> q] :
        q \in {[Asked EXCEPT !.limit = 1], [Asked EXCEPT !.status = "pending"],
               [Asked EXCEPT !.chain = "a1", !.limit = 1]}}

Reconfigured ==
    {[uses |-> [c \in {"c1"} |-> u],
      settings |-> {High, Settings("k2", <<Create, Delete>>, <<"true">>, -1), Settings("short", <<"all">>, <<"off">>, 0),
                    Settings(None, <<"high">>, <<"off">>, 0), Settings("k1", <<"high", "x">>, <<"off">>, 0)},
      damage |-> TRUE, follow |-> None] :
        u \in {[Hook EXCEPT !.command = c] : c \in {<<"rm", "f">>, <<"echo", "f", ">", "g">>}}
               \cup {[Hook EXCEPT !.input = Payload("array")]}}

MCSessions ==
    {Alone([Hook EXCEPT !.command = c, !.line = "torn"], {High}) : c \in Commands}
    \cup {Alone([Hook EXCEPT !.failed = TRUE, !.error = t, !.line = "torn"], {Quiet}) : t \in Texts}
    \cup {Alone(Sdk([Event EXCEPT !.error = t, !.preview = t]), {s}) :
             t \in Texts, s \in {Quiet, [Quiet EXCEPT !.maxError = -1, !.maxPreview = -1]}}
    \cup {Alone(u, {High}) : u \in HookFields \cup HookSizes}
    \cup {Alone([Sdk(ev) EXCEPT !.client = client], {High}) : ev \in SdkSizes, client \in {"sdk", "port"}}
    \cup {Alone([Sdk(ev) EXCEPT !.client = client], {High}) : ev \in SdkEvents, client \in {"sdk", "port"}}
    \cup {Alone(Proxied([Mcp EXCEPT !.server = s, !.tool = t], [path |-> <<"p">>]), {High}) :
             s \in {"", "db", Long}, t \in {"drop", "list", ""}}
    \cup {Alone([Proxied(Mcp, a) EXCEPT !.operator.id = "o1"], {High}) : a \in ArgSets}
    \cup {Alone([Sdk([Mcp EXCEPT !.operator.name = n]) EXCEPT !.operator = o], {High}) :
             n \in {"", "ops"}, o \in [id : {"", "o2", Long}, name : {"", "team"}]}
    \cup {Alone([Sdk([Event EXCEPT !.input = Payload("huge")]) EXCEPT !.client = "port"], {High})}
    \cup Pairs \cup Followed \cup Reconfigured
=============================================================================
