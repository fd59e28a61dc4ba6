------------------------------- MODULE Proxy --------------------------------
(***************************************************************************)
(* A session of the MCP proxy (mcp-proxy/cmd/obsigna-mcp): one pump takes  *)
(* the client's messages to the server and one the server's to the client  *)
(* (internal/proxy/proxy.go), both call the handler in main.go, a call     *)
(* that a rule pauses waits for an approver on an HTTP endpoint            *)
(* (internal/audit/approval.go), and every call that was refused or        *)
(* answered is handed to the daemon emitter.  The calls under way are kept *)
(* by their JSON-RPC id, a string: 1 and "1" are one key.                  *)
(***************************************************************************)
EXTENDS Policy

CONSTANTS
    Rules,    \* the rules of the session
    Server,   \* the name of the server
    Tools,    \* the tools the client calls, each with its arguments
    Key,      \* the ids of requests, as IDString gives them
    MaxCalls, \* bound on the tool calls of the session
    None      \* no call

Call == 1..MaxCalls

ASSUME ProxyAssumption ==
    /\ MaxCalls \in Nat
    /\ None \notin Call
    /\ \A tool \in Tools : tool.decodes \in BOOLEAN

VARIABLES
    approver, \* the session has an approval endpoint
    over,     \* the session is ending: a pump has stopped, or a signal came
    sent,     \* sent[n]: the id and the tool of call n
    pump,     \* what the client's pump does, and with which call
    entries,  \* pendingCalls: the call recorded under an id
    locked,   \* the call whose handler has panicked with pendingMu in its hands
    waiting,  \* the approval awaited: whether it can still be found, and what is in its channel
    verdicts, \* verdicts taken by the endpoint, on their way to the channel
    told,     \* the verdicts that were put in a channel, which the endpoint confirms
    upstream, \* the calls the server has and has not answered
    passed,   \* (history) the calls that went to the server
    events,   \* the events handed to the emitter
    answers,  \* the answers written to the client
    crossed   \* (history) an id was used again before it was answered

callVars     == <<entries, locked>>
approvalVars == <<waiting, verdicts, told>>
outVars      == <<upstream, passed, events, answers>>
vars == <<approver, over, sent, pump, callVars, approvalVars, outVars, crossed>>

Reading   == [at |-> "read", call |-> None]
NoRequest == [call |-> None, open |-> FALSE, channel |-> {}]

Init ==
    /\ approver \in BOOLEAN
    /\ over = FALSE
    /\ sent = <<>>
    /\ pump = Reading
    /\ entries = <<>>
    /\ locked = None
    /\ waiting = NoRequest
    /\ verdicts = {} /\ told = {}
    /\ upstream = {} /\ passed = {} /\ events = {} /\ answers = {}
    /\ crossed = FALSE

KeyOf(n)      == sent[n].key
Decodes(n)    == sent[n].tool.decodes
Answered(n)   == \E a \in answers : a.call = n
Less(f, x)    == [y \in DOMAIN f \ {x} |-> f[y]]
With(f, x, v) == [y \in DOMAIN f \cup {x} |-> IF y = x THEN v ELSE f[y]]

(* emitToContext: one event for the daemon emitter. *)
WrongEmit(n, decision) == events' = events \cup {[call |-> n, decision |-> "allowed"]}

Emit(n, decision) == events' = events \cup {[call |-> n, decision |-> decision]}
-----------------------------------------------------------------------------
(* The client's pump reads a tools/call, *)
Receive(key, tool) ==
    /\ pump = Reading
    /\ ~over
    /\ Len(sent) + 1 \in Call
    /\ sent' = Append(sent, [key |-> key, tool |-> tool])
    /\ crossed' = (crossed \/ \E m \in upstream : KeyOf(m) = key)

(* and records it; then the verdict decides.  A pause without an approver    *)
(* fails at once.                                                            *)
Read(key, tool) ==
    LET n == Len(sent) + 1
        action == Evaluate(Rules, Server, tool)
    IN
    /\ Receive(key, tool)
    /\ tool.decodes
    /\ locked = None
    /\ entries' = With(entries, key, n)
    /\ pump' = [at |-> IF action = "block" THEN "refuse"
                       ELSE IF action # "pause" THEN "forward"
                       ELSE IF approver THEN "wait" ELSE "refuse",
                call |-> n]
    /\ waiting' = IF pump'.at = "wait" THEN [call |-> n, open |-> TRUE, channel |-> {}] ELSE waiting
    /\ UNCHANGED <<approver, over, locked, verdicts, told, outVars>>

(* But if its params do not decode (the arguments or _meta are no object),   *)
(* the error is dropped: no rule is asked, nothing is recorded, no mutex is  *)
(* taken, and the call goes on to the server.                                *)
PassOn(key, tool) ==
    /\ Receive(key, tool)
    /\ ~tool.decodes
    /\ pump' = [at |-> "forward", call |-> Len(sent) + 1]
    /\ UNCHANGED <<approver, over, callVars, approvalVars, outVars>>

(* The endpoint takes the request out of the map of pending ones, *)
Decide(yes) ==
    /\ waiting.open
    /\ waiting' = [waiting EXCEPT !.open = FALSE]
    /\ verdicts' = verdicts \cup {[call |-> waiting.call, yes |-> yes]}
    /\ UNCHANGED <<approver, crossed, over, sent, pump, callVars, told, outVars>>

(* and then fills its channel, whether or not someone still waits, and tells *)
(* the approver so.                                                          *)
Deliver(v) ==
    /\ verdicts' = verdicts \ {v}
    /\ told' = told \cup {v}
    /\ waiting' = IF v.call = waiting.call THEN [waiting EXCEPT !.channel = {v.yes}] ELSE waiting
    /\ UNCHANGED <<approver, crossed, over, sent, pump, callVars, outVars>>

(* WaitForApproval: a verdict in the channel, or the timer or the end of the *)
(* session; when both are there either can win.                              *)
Hears(yes) ==
    /\ pump.at = "wait"
    /\ yes \in waiting.channel
    /\ pump' = [pump EXCEPT !.at = IF yes THEN "forward" ELSE "refuse"]
    /\ waiting' = NoRequest
    /\ UNCHANGED <<approver, crossed, over, sent, callVars, verdicts, told, outVars>>

WrongTimeOut ==
    /\ pump.at = "wait" /\ over
    /\ pump' = [pump EXCEPT !.at = "refuse"]
    /\ waiting' = NoRequest
    /\ UNCHANGED <<approver, crossed, over, sent, callVars, verdicts, told, outVars>>

TimeOut ==
    /\ pump.at = "wait"
    /\ pump' = [pump EXCEPT !.at = "refuse"]
    /\ waiting' = NoRequest
    /\ UNCHANGED <<approver, crossed, over, sent, callVars, verdicts, told, outVars>>

(* A blocked or rejected call is taken from the record, handed to the        *)
(* emitter as denied and answered with an error.                             *)
Refuse ==
    /\ pump.at = "refuse"
    /\ locked = None
    /\ KeyOf(pump.call) \in DOMAIN entries
    /\ entries' = Less(entries, KeyOf(pump.call))
    /\ Emit(pump.call, "denied")
    /\ answers' = answers \cup {[call |-> pump.call, kind |-> "error"]}
    /\ pump' = Reading
    /\ UNCHANGED <<approver, crossed, over, sent, locked, approvalVars, upstream, passed>>

(* If nothing is recorded under its id any more, the handler panics at       *)
(* pendingCalls[id].correlationID and keeps the lock; the pump recovers and  *)
(* takes the message for one to forward.                                     *)
Panic ==
    /\ pump.at = "refuse"
    /\ locked = None
    /\ KeyOf(pump.call) \notin DOMAIN entries
    /\ locked' = pump.call
    /\ pump' = [pump EXCEPT !.at = "forward"]
    /\ UNCHANGED <<approver, crossed, over, sent, entries, approvalVars, outVars>>

(* The message goes to the server; the write fails once it has been killed.  *)
Forward ==
    /\ pump.at = "forward"
    /\ IF over
       THEN pump' = [pump EXCEPT !.at = "stopped"] /\ UNCHANGED <<upstream, passed>>
       ELSE /\ pump' = Reading
            /\ upstream' = upstream \cup {pump.call}
            /\ passed' = passed \cup {pump.call}
    /\ UNCHANGED <<approver, crossed, over, sent, callVars, approvalVars, events, answers>>

(* The server's pump: the call recorded under the id of the response is      *)
(* handed to the emitter as allowed, and the response goes to the client.    *)
Respond(n) ==
    /\ n \in upstream
    /\ ~over /\ locked = None
    /\ upstream' = upstream \ {n}
    /\ IF KeyOf(n) \in DOMAIN entries
       THEN /\ entries' = Less(entries, KeyOf(n))
            /\ Emit(entries[KeyOf(n)], "allowed")
       ELSE UNCHANGED <<entries, events>>
    /\ answers' = answers \cup {[call |-> n, kind |-> "response"]}
    /\ UNCHANGED <<approver, crossed, over, sent, pump, locked, approvalVars, passed>>

(* A pump has stopped (the client or the server has closed its pipe, or a    *)
(* line was too long), the approval endpoint has died, or a signal came: Run *)
(* kills the server.                                                         *)
End ==
    /\ ~over
    /\ over' = TRUE
    /\ UNCHANGED <<approver, crossed, sent, pump, callVars, approvalVars, outVars>>

Pump == Hears(TRUE) \/ Hears(FALSE) \/ TimeOut \/ Refuse \/ Panic \/ Forward

Next ==
    \/ \E key \in Key, tool \in Tools : Read(key, tool) \/ PassOn(key, tool)
    \/ \E yes \in BOOLEAN : Decide(yes) \/ Hears(yes)
    \/ \E v \in verdicts : Deliver(v)
    \/ TimeOut \/ Refuse \/ Panic \/ Forward \/ End
    \/ \E n \in Call : Respond(n)

(* The client's pump goes on with the call it has, and the timer fires.      *)
(* Nothing makes the client call, the approver decide or the server answer.  *)
Spec == Init /\ [][Next]_vars /\ WF_vars(Pump)
-----------------------------------------------------------------------------
Forbids(n, action) ==
    \E i \in DOMAIN Rules : /\ Rules[i].action = action
                           /\ Effective(Rules[i])
                           /\ MatchesRule(Rules[i], Server, sent[n].tool)

Allowed(n) == /\ ~Forbids(n, "block")
              /\ Forbids(n, "pause") => [call |-> n, yes |-> TRUE] \in told

(* A call that a rule blocks never reaches the server, and one that a rule   *)
(* pauses only after the approver was told that it may, whatever the timer,  *)
(* the end of the session and the endpoint do at the same moment.  There are *)
(* two exceptions.  A call whose params do not decode is asked no rule,      *)
(* although jsonrpc.go says that a tools/call always yields params ("callers *)
(* always get a non-nil result for tool calls"), so that none can "silently  *)
(* bypass policy"; and one call can get through whose refusal made the       *)
(* handler panic.  That takes an id that was used again before it was        *)
(* answered (1 and "1" are one id here), and there is no second such call,   *)
(* for the mutex is never released.                                          *)
Mediated ==
    /\ \A n \in passed : Decodes(n) => n = locked \/ Allowed(n)
    /\ locked # None => crossed

Reported(n, decision) == [call |-> n, decision |-> decision] \in events
Got(n, kind)          == [call |-> n, kind |-> kind] \in answers

(* What the client was answered is what the daemon hears.  A call is         *)
(* reported as denied exactly if the proxy answered it with an error, and    *)
(* then it neither went to the server nor is reported as allowed.  The calls *)
(* reported as allowed are those that got a response and whose params        *)
(* decode, so that what is still under way or was lost with the session is   *)
(* not reported at all, unless an id was used again before its answer.       *)
Accounted ==
    /\ \A n \in Call : Reported(n, "denied") <=> Got(n, "error")
    /\ \A n \in Call : Got(n, "error") => n \notin passed /\ ~Reported(n, "allowed")
    /\ ~crossed => \A n \in Call : Reported(n, "allowed") <=> Got(n, "response") /\ Decodes(n)

(* A call the proxy has taken up goes to the server or is answered, however  *)
(* the approver behaves and whatever the ids, unless the session ends.  (For *)
(* a mutex that is never released Read waits: no more calls are taken up.)   *)
Decided == \A n \in Call : (n \in DOMAIN sent) ~> (n \in passed \/ Answered(n) \/ over)
-----------------------------------------------------------------------------
(* The inductive invariant behind Mediated and Accounted. *)

TypeOK ==
    /\ over \in BOOLEAN /\ locked \in Call \cup {None} /\ approver \in BOOLEAN /\ crossed \in BOOLEAN
    /\ sent \in Seq([key : Key, tool : Tools]) /\ Len(sent) <= MaxCalls
    /\ pump \in [at : {"read", "wait", "refuse", "forward", "stopped"}, call : Call \cup {None}]
    /\ DOMAIN entries \subseteq Key /\ \A key \in DOMAIN entries : entries[key] \in Call
    /\ waiting \in [call : Call \cup {None}, open : BOOLEAN, channel : SUBSET BOOLEAN]
    /\ verdicts \subseteq [call : Call, yes : BOOLEAN] /\ told \subseteq [call : Call, yes : BOOLEAN]
    /\ upstream \subseteq Call /\ passed \subseteq Call
    /\ events \subseteq [call : Call, decision : {"denied", "allowed"}]
    /\ answers \subseteq [call : Call, kind : {"error", "response"}]

(* The calls that are neither answered nor lost, ... *)
InHand ==
    upstream \cup IF pump.at \in {"wait", "refuse", "forward"} THEN {pump.call} ELSE {}

(* ... have not been answered, and the pump's has not been passed on.  An     *)
(* entry is under the id of its call, whose params decode, and goes when the *)
(* call is reported.                                                         *)
OneEntry ==
    /\ InHand \cup passed \cup {e.call : e \in events} \cup {a.call : a \in answers} \subseteq DOMAIN sent
    /\ upstream \subseteq passed
    /\ \A n \in InHand : ~Answered(n)
    /\ pump.at \in {"wait", "refuse", "forward"} => pump.call \notin passed
    /\ pump.at \in {"wait", "refuse"} =>
          /\ Decodes(pump.call)
          /\ KeyOf(pump.call) \in DOMAIN entries => entries[KeyOf(pump.call)] = pump.call
    /\ \A key \in DOMAIN entries :
          /\ entries[key] \in DOMAIN sent
          /\ KeyOf(entries[key]) = key /\ Decodes(entries[key])
          /\ \A e \in events : e.call # entries[key]

(* If no id is used again too early, each call in hand has an id of its own  *)
(* and, if its params decode, the entry under it; and there are no others.   *)
OwnEntry ==
    ~crossed =>
        /\ \A m, n \in InHand : KeyOf(m) = KeyOf(n) => m = n
        /\ \A n \in InHand : Decodes(n) => KeyOf(n) \in DOMAIN entries /\ entries[KeyOf(n)] = n
        /\ ~over => \A key \in DOMAIN entries : entries[key] \in InHand

(* What fills the channel of the approval awaited has been told. *)
OneVerdict ==
    /\ waiting.open => waiting.call # None
    /\ pump.at = "wait" => waiting.call = pump.call
    /\ TRUE \in waiting.channel => [call |-> waiting.call, yes |-> TRUE] \in told

(* A call on its way to the server may go there, but for the exceptions. *)
OnlyAllowed ==
    /\ pump.at = "wait" => ~Forbids(pump.call, "block")
    /\ pump.at = "forward" /\ Decodes(pump.call) => pump.call = locked \/ Allowed(pump.call)

ProxyInv == TypeOK /\ OneEntry /\ OwnEntry /\ OneVerdict /\ OnlyAllowed /\ Mediated /\ Accounted
=============================================================================
