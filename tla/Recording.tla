----------------------------- MODULE Recording -----------------------------
(***************************************************************************)
(* A tool call's way into a receipt: the runtime runs its calls and starts *)
(* a hook process before and after each (or a program reports the call     *)
(* through the Go SDK, or through a port of it in another language); the   *)
(* emitter looks the event over and sends it (sdk/go/emitter); the daemon, *)
(* which may be stopped and started with other settings in between, looks  *)
(* it over again and builds the receipt (daemon/internal/pipeline/         *)
(* build.go); somebody follows what is stored (sdk/go/store/store.go), and *)
(* somebody with a forensic key reads it.                                  *)
(*                                                                         *)
(* The socket and the commit path are in DaemonEmitter and Pipeline; here  *)
(* a frame that was written arrives, unless the daemon stops before.       *)
(***************************************************************************)
EXTENDS Clients, Disclosure, Queries

CONSTANTS Calls,      \* the tool calls
          Sessions,   \* what may happen: the calls made, the settings tried
          DefaultCap, \* the cap of the two texts if none is configured
          MaxStarts   \* bound on the starts of the daemon

VARIABLES
    session,    \* the session under way, one of Sessions
    stage,      \* of each call: "idle", "running" or "done"
    transcript, \* the lines of the session's transcript
    report,     \* of each call and phase: how its report fared
    wire,       \* the frames written and not yet handled
    config,     \* the daemon's settings, or None while there is no daemon
    starts,     \* how often it was started
    rows,       \* the receipts in the store
    under,      \* the settings each was written under
    rejected,   \* the frames the daemon refused, with a line in its log only
    cut,        \* the frames a stop left unread
    follower    \* what a follower of the store has seen, or None before it starts

clientVars == <<session, stage, transcript, report>>
daemonVars == <<config, starts, rows, under, rejected, cut>>
vars == <<session, stage, transcript, report, wire, config, starts, rows, under, rejected, cut, follower>>

Phases == {"pre", "post", "failure"}

(* What a session can consist of. *)
AnyPayload  == [kind : STRING, isError : BOOLEAN, size : Nat]
AnyText     == [json : BOOLEAN, leaves : Seq([sensitive : BOOLEAN, runes : Seq(STRING)])]
AnyOperator == [id : STRING, name : STRING]
AnyEvent ==
    [channel : STRING, tool : STRING, server : STRING, action : STRING,
     target : [system : STRING, resource : Seq(STRING)], input : AnyPayload, output : AnyPayload,
     error : AnyText, preview : AnyText, decision : STRING, operator : AnyOperator,
     correlation : STRING, agent : STRING, agentType : STRING,
     model : STRING, usage : AnyPayload, capture : STRING]
AnySettings ==
    [key : STRING \union {None}, params : Seq(STRING), response : Seq(STRING),
     maxError : Int, maxPreview : Int]
AnyQuery ==
    LET Field == STRING \union {None}
    IN [chain : Field, action : Field, risk : Field, status : Field, limit : Nat \union {None}]

(* How the runtime is known: by a flag or the environment, by the name of    *)
(* the event in the frame, or not at all.  The hook sets no defaults.        *)
HookUse ==
    [client : {"hook"}, known : {"flag", "frame", "no"}, tool : STRING, input : AnyPayload,
     command : Seq(STRING), file : STRING, output : AnyPayload, failed : BOOLEAN, error : AnyText,
     interrupt : BOOLEAN, id : STRING, agent : STRING, agentType : STRING,
     transcript : {"named", "bySession", "none"}, line : {"good", "long", "torn"}, model : STRING,
     usage : {p \in AnyPayload : p.kind # "empty"}, operator : {[id |-> "", name |-> ""]}]

(* In a JSON text "k" stands for what only the sensitive values consist of.  *)
KeysMarked(text) ==
    text.json => \A i \in DOMAIN text.leaves :
                    "k" \in ToSet(text.leaves[i].runes) => text.leaves[i].sensitive

UseOK(use) ==
    \/ use \in HookUse /\ KeysMarked(use.error)
    \/ use.client \in {"sdk", "port", "proxy"} /\ use.event \in AnyEvent
       /\ use.operator \in AnyOperator /\ KeysMarked(use.event.error)

(* The runtime gives every call an id of its own, if it gives it one. *)
SessionOK(s) ==
    /\ DOMAIN s.uses \subseteq Calls
    /\ \A c \in DOMAIN s.uses : UseOK(s.uses[c])
    /\ \A c, d \in {e \in DOMAIN s.uses : s.uses[e].client = "hook"} :
          c # d /\ s.uses[c].id = s.uses[d].id => s.uses[c].id = ""
    /\ s.settings \subseteq AnySettings
    /\ s.follow \in AnyQuery \union {None}

ASSUME RecordingAssumption ==
    /\ {HookCap, MaxFrameSize, DefaultCap, MaxStarts} \subseteq Nat
    /\ None \notin STRING /\ None \notin AnyPayload
    /\ None \notin [kid : STRING, ct : [to : STRING, plain : AnyPayload], intact : BOOLEAN]
    /\ \A s \in Sessions : SessionOK(s)

Init ==
    /\ session \in Sessions
    /\ stage = [c \in Calls |-> "idle"]
    /\ transcript = <<>>
    /\ report = [r \in Calls \X Phases |-> "none"]
    /\ wire = {}
    /\ config = None
    /\ starts = 0
    /\ rows = <<>>
    /\ under = <<>>
    /\ rejected = {}
    /\ cut = {}
    /\ follower = None

Use(c) == session.uses[c]
-----------------------------------------------------------------------------
(* The runtime.  Only a hook is told of a call before it runs. *)

Begin(c) ==
    /\ c \in DOMAIN session.uses
    /\ stage[c] = "idle"
    /\ stage' = [stage EXCEPT ![c] = "running"]
    /\ report' = IF Use(c).client = "hook" THEN [report EXCEPT ![<<c, "pre">>] = "started"]
                 ELSE report
    /\ UNCHANGED <<session, transcript, wire, daemonVars, follower>>

Line(c, type, form) ==
    [type |-> type, id |-> Use(c).id, form |-> form,
     model |-> IF type = "assistant" THEN Use(c).model ELSE "",
     usage |-> IF type = "assistant" THEN Use(c).usage ELSE Absent]

(* The runtime writes the turn that made the call down when it likes. *)
Turn(c) ==
    /\ stage[c] # "idle"
    /\ Use(c).client = "hook"
    /\ \A i \in DOMAIN transcript : transcript[i].id # Use(c).id
    /\ transcript' = Append(transcript, Line(c, "assistant", Use(c).line))
    /\ UNCHANGED <<session, stage, report, wire, daemonVars, follower>>

(* The end of a call; its result mentions the id of the call as well. *)
End(c) ==
    /\ stage[c] = "running"
    /\ stage' = [stage EXCEPT ![c] = "done"]
    /\ report' = [report EXCEPT ![<<c, IF Use(c).failed THEN "failure" ELSE "post">>] = "started"]
    /\ transcript' = IF \E i \in DOMAIN transcript : transcript[i].id = Use(c).id
                     THEN Append(transcript, Line(c, "user", "good")) ELSE transcript
    /\ UNCHANGED <<session, wire, daemonVars, follower>>
-----------------------------------------------------------------------------
(* The emitter.  Emit takes these events and returns an error for any other. *)

TooLong(s) == s \in {Long, LongPath}

(* The frame of an event: its payloads and texts, and the strings that a     *)
(* runtime or a turn adds; what else it has counts as one.  What JSON adds   *)
(* to a text or drops from a payload in writing it is left out.  A frame     *)
(* over the cap is no frame for the emitters and none for the daemon.        *)
FrameSize(ev) ==
    1 + ev.input.size + ev.output.size + ev.usage.size + Len(Rendered(ev.error)) + Len(Rendered(ev.preview))
      + Cardinality({f \in {"server", "action", "correlation", "agent", "agentType", "model", "capture"} :
                        ev[f] # ""})

Fits(ev) == FrameSize(ev) <= MaxFrameSize

WrongAccepts(ev) ==
    /\ "" \notin {ev.channel, ev.tool}
    /\ ev.decision \in {"allowed", "denied", "pending"}
    /\ \A p \in {ev.input, ev.output, ev.usage} : p.kind \notin {"empty", "huge"}
    /\ Fits(ev)
    /\ ev.operator.name # "" => ev.operator.id # ""
    /\ \A s \in {ev.operator.id, ev.correlation, ev.agent, ev.model, ev.action} : ~TooLong(s)

(* A payload is written or not at all, and with no number that is none for   *)
(* the daemon.                                                               *)
Accepts(ev) ==
    /\ "" \notin {ev.channel, ev.tool}
    /\ ev.decision \in {"allowed", "denied", "pending"}
    /\ \A p \in {ev.input, ev.output, ev.usage} : p.kind \notin {"empty", "huge"}
    /\ Fits(ev)
    /\ ev.operator.name # "" => ev.operator.id # ""
    /\ (ev.target.system = "") <=> (ev.target.resource = <<>>)
    /\ ~TooLong(ev.target.system)
    /\ LongPath \notin ToSet(ev.target.resource)
    /\ \A s \in {ev.operator.id, ev.operator.name, ev.correlation, ev.agent,
                 ev.model, ev.capture, ev.action} : ~TooLong(s)

EventOf(c, phase) ==
    CASE Use(c).client = "hook"  -> readClaudeCode(Use(c), phase, transcript)
      [] Use(c).client = "proxy" -> ProxyEvent(Use(c))
      [] OTHER -> Use(c).event

(* The emitter's defaults stand in, field by field, for what the event does  *)
(* not say of the operator.                                                  *)
WithDefaults(ev, operator) ==
    LET Or(own, default) == IF own = "" THEN default ELSE own
    IN [ev EXCEPT !.operator = [id   |-> Or(@.id, operator.id),
                                name |-> Or(@.name, operator.name)]]

FrameOf(c, phase) ==
    [call |-> c, phase |-> phase, event |-> WithDefaults(EventOf(c, phase), Use(c).operator)]

(* The hook reads no more of its frame than a little over the cap, and what  *)
(* is cut is no JSON.                                                        *)
StdinCut(use, phase) ==
    use.input.size + (IF phase = "post" THEN use.output.size ELSE 0)
      + (IF phase = "failure" THEN Len(Rendered(use.error)) ELSE 0) > MaxFrameSize

(* One report: a hook process from its start to its exit, or one call of the *)
(* SDK.  A runtime that detect does not know, or not by a frame that is cut, *)
(* is left alone; an event that is refused, a frame that cannot be parsed    *)
(* and a daemon that cannot be reached are told, by exit code 1 or an error. *)
(* A port sends what it has, if it is a frame.                               *)
Report(c, phase) ==
    LET use   == Use(c)
        frame == FrameOf(c, phase)
        whole == use.client = "hook" => ~StdinCut(use, phase)
        known == use.client = "hook" => use.known = "flag" \/ (use.known = "frame" /\ whole)
        valid == whole /\ IF use.client = "port" THEN Fits(frame.event) ELSE Accepts(frame.event)
        Ends(how) == report' = [report EXCEPT ![<<c, phase>>] = how]
    IN /\ report[<<c, phase>>] = "started"
       /\ \/ ~known /\ Ends("skipped") /\ UNCHANGED wire
          \/ known /\ ~valid /\ Ends("refused") /\ UNCHANGED wire
          \/ known /\ valid /\ config = None /\ Ends("unreachable") /\ UNCHANGED wire
          \/ known /\ valid /\ config # None /\ Ends("sent") /\ wire' = wire \cup {frame}
       /\ UNCHANGED <<session, stage, transcript, daemonVars, follower>>
-----------------------------------------------------------------------------
(* The daemon. *)

Valid(ev) ==
    /\ "" \notin {ev.channel, ev.tool}
    /\ ev.decision \in {"allowed", "denied", "pending"}
    /\ ev.operator.name # "" => ev.operator.id # ""
    /\ (ev.target.system = "") <=> (ev.target.resource = <<>>)
    /\ ~TooLong(ev.target.system)
    /\ LongPath \notin ToSet(ev.target.resource)
    /\ ev.agent # "a/b"
    /\ \A s \in {ev.operator.id, ev.operator.name, ev.correlation, ev.agent, ev.agentType,
                 ev.model, ev.capture} : ~TooLong(s)

hasJSONPayload(payload) == payload.kind \notin {"none", "null"}

(* canonicalSHA256 fails for a number it cannot represent. *)
Hashable(payload) == payload.kind # "huge"
HashOf(payload) == IF hasJSONPayload(payload) THEN payload ELSE None

mcpOutputIsError(ev) == ev.channel = "mcp" /\ ev.output.kind = "object" /\ ev.output.isError

Status(ev) ==
    CASE ev.decision = "pending" -> "pending"
      [] ev.decision = "denied"  -> "failure"
      [] OTHER -> IF Rendered(ev.error) # <<>> \/ mcpOutputIsError(ev)
                  THEN "failure" ELSE "success"

Synthetic(ev) == ev.channel \o "." \o (IF ev.server = "" THEN "" ELSE ev.server \o ".") \o ev.tool

WrongActionType(ev) == Synthetic(ev)

(* The type the emitter declares, or one that the registry hardly knows. *)
ActionType(ev) == IF ev.action # "" THEN ev.action ELSE Synthetic(ev)

(* A payload is sealed if the policy wants it; all that can fail leaves the  *)
(* receipt with the hash alone.                                              *)
Sealed(payload, policy, ev, settings) ==
    LET action == ActionType(ev)
    IN IF /\ settings.key # None
          /\ hasJSONPayload(payload)
          /\ ShouldDisclose(ParseDisclosurePolicy(policy), action, RiskOf(action))
       THEN EncryptDisclosure(payload, settings.key) ELSE None

Cap(configured) == IF configured = 0 THEN DefaultCap ELSE configured

(* issuer.runtime: there if any of it is, and without a usage that could not *)
(* be canonicalised.                                                         *)
validatedUsage(usage) == IF Hashable(usage) THEN HashOf(usage) ELSE None

RuntimeOf(ev) ==
    IF ev.agent = "" /\ ev.model = "" /\ ev.capture = "" /\ validatedUsage(ev.usage) = None
    THEN None
    ELSE [agent |-> ev.agent, agentType |-> ev.agentType, model |-> ev.model,
          capture |-> ev.capture, usage |-> validatedUsage(ev.usage)]

(* buildAndSign, for the chain the frame belongs to. *)
NextSeq(chain) == 1 + Cardinality({i \in DOMAIN rows : rows[i].chain = chain})

ReceiptOf(frame, settings, seq) ==
    LET ev == frame.event
    IN [call |-> frame.call, phase |-> frame.phase, chain |-> ev.agent, seq |-> seq,
        status |-> Status(ev), action |-> ActionType(ev), risk |-> RiskOf(ActionType(ev)),
        target |-> ev.target, correlation |-> ev.correlation,
        operator |-> IF ev.operator.id = "" THEN None ELSE ev.operator,
        runtime |-> RuntimeOf(ev),
        paramsHash |-> HashOf(ev.input), responseHash |-> HashOf(ev.output),
        params |-> Sealed(ev.input, settings.params, ev, settings),
        response |-> Sealed(ev.output, settings.response, ev, settings),
        error |-> StoredError(ev.error, Cap(settings.maxError)),
        preview |-> StoredPreview(ev.preview, Cap(settings.maxPreview))]

(* readFrame, then the pipeline: what can become a receipt. *)
Recordable(ev) == Fits(ev) /\ Valid(ev) /\ Hashable(ev.input) /\ Hashable(ev.output)

(* Connections are served side by side: any frame may be the next. *)
Handle(frame) ==
    /\ config # None
    /\ frame \in wire
    /\ wire' = wire \ {frame}
    /\ IF Recordable(frame.event)
       THEN /\ rows' = Append(rows, ReceiptOf(frame, config, NextSeq(frame.event.agent)))
            /\ under' = Append(under, config)
            /\ UNCHANGED rejected
       ELSE rejected' = rejected \cup {frame} /\ UNCHANGED <<rows, under>>
    /\ UNCHANGED <<clientVars, config, starts, cut, follower>>

Start(settings) ==
    /\ config = None
    /\ starts < MaxStarts
    /\ settings \in session.settings
    /\ Startable(settings)
    /\ config' = settings
    /\ starts' = starts + 1
    /\ UNCHANGED <<clientVars, wire, rows, under, rejected, cut, follower>>

Stop ==
    /\ config # None
    /\ config' = None
    /\ cut' = cut \cup wire
    /\ wire' = {}
    /\ UNCHANGED <<clientVars, starts, rows, under, rejected, follower>>

(* Somebody alters the ciphertext of an envelope in the store.  (Not the key *)
(* id beside it: if that is altered, the two messages of a key that does not *)
(* open the envelope change places.)                                         *)
Damage(i, field) ==
    /\ session.damage
    /\ rows[i][field] # None
    /\ rows' = [rows EXCEPT ![i][field].intact = FALSE]
    /\ UNCHANGED <<clientVars, wire, config, starts, under, rejected, cut, follower>>

(* A follower begins with the rows there are and the watermark of the same   *)
(* read transaction (QueryReceiptsWithWatermark), and polls from there.      *)
Follow ==
    /\ session.follow # None
    /\ follower = None
    /\ \E first \in QueryReceipts(rows, session.follow) :
          follower' = [first |-> first, from |-> MaxRowID(rows), mark |-> MaxRowID(rows), shown |-> <<>>]
    /\ UNCHANGED <<clientVars, daemonVars, wire>>

Poll ==
    LET answer == QueryAfterRowID(rows, session.follow, follower.mark)
    IN /\ follower # None
       /\ answer.shown # <<>>
       /\ follower' = [follower EXCEPT !.mark = answer.mark, !.shown = @ \o answer.shown]
       /\ UNCHANGED <<clientVars, daemonVars, wire>>

Next ==
    \/ \E c \in Calls : Begin(c) \/ Turn(c) \/ End(c)
    \/ \E c \in Calls, phase \in Phases : Report(c, phase)
    \/ \E frame \in wire : Handle(frame)
    \/ \E settings \in session.settings : Start(settings)
    \/ Stop \/ Follow \/ Poll
    \/ \E i \in DOMAIN rows, field \in {"params", "response"} : Damage(i, field)

Spec == Init /\ [][Next]_vars
-----------------------------------------------------------------------------
RowsOf(c, phase) == {i \in DOMAIN rows : rows[i].call = c /\ rows[i].phase = phase}

(* What the daemon refuses and the emitter does not: an agent type over the  *)
(* cap, and a separator in the agent's id.                                   *)
Unmirrored(ev) == TooLong(ev.agentType) \/ ev.agent = "a/b"

(* What the hook sends if it finds no turn, and if it finds the call's own.  *)
BareEvent(use, phase) ==
    CASE use.client = "hook"  -> readClaudeCode(use, phase, <<>>)
      [] use.client = "proxy" -> ProxyEvent(use)
      [] OTHER -> use.event

Enriched(use, phase) ==
    [BareEvent(use, phase) EXCEPT !.model = use.model, !.usage = use.usage, !.capture = "transcript"]

(* A turn with a model over the cap, a usage that is not representable, or   *)
(* more than the frame of the call has room for.                             *)
BadTurn(use, phase) == TooLong(use.model) \/ ~Hashable(use.usage) \/ ~Fits(Enriched(use, phase))

Unenriched(ev) == [ev EXCEPT !.model = "", !.usage = Absent, !.capture = ""]

(* A report the emitter took without an error becomes one receipt, unless a  *)
(* stop of the daemon comes between; the daemon refuses what this emitter    *)
(* takes only for the two checks that are not mirrored (emitter.go: "caught  *)
(* at the emitter rather than silently rejected by the daemon after the      *)
(* write").  A report that was not taken leaves no receipt; and the hook has *)
(* one refused for what is wrong with the call, or because it could not read *)
(* the whole of its frame, but not for what it added from the transcript,    *)
(* unless that is a bad turn (claude_code.go knows no such exception:        *)
(* "Enrichment never fails the hook").                                       *)
AcceptedIsRecorded ==
    \A c \in DOMAIN session.uses, phase \in Phases :
        LET Of(frames) == {f \in frames : f.call = c /\ f.phase = phase}
            fates == Cardinality(RowsOf(c, phase)) + Cardinality(Of(wire \cup rejected \cup cut))
        IN /\ fates = IF report[<<c, phase>>] = "sent" THEN 1 ELSE 0
           /\ Use(c).client # "port" => \A f \in Of(rejected) : Unmirrored(f.event)
           /\ (Use(c).client = "hook" /\ report[<<c, phase>>] = "refused") =>
                 \/ StdinCut(Use(c), phase) \/ BadTurn(Use(c), phase)
                 \/ ~Accepts(Unenriched(EventOf(c, phase)))

(* A follower sees every row that its filter finds once and in the order of  *)
(* the store, from its first query on and up to its watermark, whatever is   *)
(* written between two polls and wherever the limit cuts ("eliminating the   *)
(* race where a row inserted between a naive Query + MaxRowID pair can be    *)
(* silently skipped", store.go).                                             *)
FollowedOnce ==
    follower # None =>
        LET found == Found(rows, session.follow, 0)
        IN /\ \A i, j \in DOMAIN follower.shown : i < j => follower.shown[i] < follower.shown[j]
           /\ ToSet(follower.shown) = {i \in found : follower.from < i /\ i <= follower.mark}
           /\ session.follow.limit = None => follower.first = {i \in found : i <= follower.from}

Severity(risk) == CASE risk = "low" -> 1 [] risk = "medium" -> 2 [] risk = "high" -> 3

(* Commands the hook misreads: it takes a backslash for a character, a       *)
(* comment for operands, and of mv -t the last source for the destination;   *)
(* and a prefix for the verb.                                                *)
Misread(cmd) == ToSet(cmd) \cap {EscapedSpace, Comment, "-t", IntoDir} # {}
Prefixed(cmd) == "sudo" \in ToSet(cmd)

OutcomeTrue(row) ==
    LET use == Use(row.call)
    IN use.client = "hook" =>
          row.status = [pre |-> "pending", post |-> "success", failure |-> "failure"][row.phase]

(* A target is claimed only if the shell really does that to that path, and  *)
(* its risk is no lower than that of anything else the command does.         *)
TargetTrue(row) ==
    LET use == Use(row.call)
    IN (/\ use.client = "hook"
        /\ use.tool = "Bash"
        /\ WellFormed(use.command)
        /\ row.target # NoResource) =>
       /\ Misread(use.command) \/ <<row.action, row.target.resource[1]>> \in Effects(use.command)
       /\ \/ Misread(use.command) \/ Prefixed(use.command)
          \/ \A e \in Effects(use.command) : Severity(RiskOf(e[1])) <= Severity(row.risk)

(* The model and the usage are those of the turn that made this very call.   *)
UsageOwn(row) ==
    LET use == Use(row.call)
    IN (use.client = "hook" /\ row.runtime # None /\ row.runtime.capture # "") =>
          row.runtime.model = use.model /\ row.runtime.usage = HashOf(use.usage)

(* What the receipts say of a call is what became of it: a failure is a      *)
(* failure, a deletion is not taken for something harmless because its       *)
(* output is redirected, nothing is said of a file that was not touched, and *)
(* no call is given the tokens of another.                                   *)
ToldAsItWas ==
    \A i \in DOMAIN rows : OutcomeTrue(rows[i]) /\ TargetTrue(rows[i]) /\ UsageOwn(rows[i])

Keys == {s.key : s \in session.settings} \ {None, "short"}
Original(row, field) ==
    IF field = "params" THEN EventOf(row.call, row.phase).input ELSE EventOf(row.call, row.phase).output

(* A plain deletion of one file. *)
Deletes(use) ==
    /\ use.client = "hook" /\ use.tool = "Bash" /\ use.input.kind = "object"
    /\ \E f, log \in {"f", "g"} : use.command \in {<<"rm", f>>, <<"rm", f, ">", log>>}

(* Sealing survives changes of the settings: the key under which a receipt   *)
(* was written, and no other, brings back the payload whose hash the receipt *)
(* carries; the holder of another key is told so, and nobody is told that an *)
(* intact envelope is corrupt.  A plain deletion is sealed under the policy  *)
(* "high": its risk gets through from the hook to the policy.                *)
SealedForItsKey ==
    \A i \in DOMAIN rows, key \in Keys, field \in {"params", "response"} :
        LET row    == rows[i]
            answer == Disclose(rows, row.chain, row.seq, key, field)
            intact == row[field] # None /\ row[field].intact
            mine   == row[field] # None /\ under[i].key = key
        IN /\ answer.payload # None =>
                 /\ mine /\ intact
                 /\ answer.payload = Original(row, field)
                 /\ answer.payload = IF field = "params" THEN row.paramsHash ELSE row.responseHash
           /\ (intact /\ mine) => answer.payload # None
           /\ (row[field] # None /\ ~mine) => answer = Answer(3, "another key")
           /\ (row[field] # None /\ mine /\ ~intact) => answer = Answer(3, "corrupt")
           /\ (field = "params" /\ Deletes(Use(row.call)) /\ under[i].params = <<"high">>) =>
                 row.params # None

(* What of a text is no secret although it looks like the start of one. *)
Innocent(text) ==
    LET runes == Rendered(text) IN {i \in DOMAIN runes : runes[i] = Secret /\ ~Matched(runes, i)}

Clean(stored, text) == Cardinality({i \in DOMAIN stored : stored[i] = Secret}) <= Cardinality(Innocent(text))

(* No part of a secret is left in plain, not even at the cut, and no value   *)
(* of a sensitive key (runes "k"); the texts stay within their caps, with    *)
(* the mark that says they were cut, and redacting what was stored whole     *)
(* changes nothing.  (A text the hook had to cut is looked at as the hook    *)
(* left it: what it cut through matches no pattern and is no JSON any more.) *)
NothingInPlain ==
    \A i \in DOMAIN rows :
        LET row == rows[i]
            ev  == EventOf(row.call, row.phase)
            cap == Cap(under[i].maxError)
            previewCap == Cap(under[i].maxPreview)
            whole == ~Cut(Redact(ev.error), cap)
        IN /\ Clean(row.error, ev.error) /\ Clean(row.preview.runes, ev.preview)
           /\ ev.error.json => "k" \notin ToSet(row.error)
           /\ cap > 0 => Len(row.error) <= cap + 1
           /\ (cap > 0 /\ ~whole) => Last(row.error) = errorTruncatedSuffix[1]
           /\ previewCap > 0 => Len(row.preview.runes) <= previewCap
           /\ row.preview.truncated => Len(row.preview.runes) = previewCap
           /\ whole => RedactPatterns(row.error) = row.error
-----------------------------------------------------------------------------
(* The inductive invariant behind these properties. *)

(* What a report can say of a call: the hook adds the turn that made the     *)
(* call, if it finds it in the transcript.                                   *)
Reports(use, phase) ==
    IF use.client = "hook" THEN {BareEvent(use, phase), Enriched(use, phase)} ELSE {BareEvent(use, phase)}

IsFrame(f) ==
    /\ f.call \in DOMAIN session.uses
    /\ f.phase \in Phases
    /\ \E ev \in Reports(Use(f.call), f.phase) :
          f = [call |-> f.call, phase |-> f.phase, event |-> WithDefaults(ev, Use(f.call).operator)]
    /\ IF Use(f.call).client = "port" THEN Fits(f.event) ELSE Accepts(f.event)

(* A receipt as it was built, or with an envelope that was altered.          *)
Envelopes(e) == IF e = None THEN {None} ELSE {e, [e EXCEPT !.intact = FALSE]}
Altered(row, r) ==
    \E p \in Envelopes(r.params), q \in Envelopes(r.response) : row = [r EXCEPT !.params = p, !.response = q]

TypeOK ==
    /\ session \in Sessions
    /\ stage \in [Calls -> {"idle", "running", "done"}]
    /\ transcript \in Seq({transcript[i] : i \in DOMAIN transcript})
    /\ report \in [Calls \X Phases ->
                      {"none", "started", "skipped", "refused", "unreachable", "sent"}]
    /\ rows \in Seq({rows[i] : i \in DOMAIN rows})
    /\ under \in Seq({s \in session.settings : Startable(s)}) /\ Len(under) = Len(rows)
    /\ config # None => config \in session.settings /\ Startable(config)

(* Every turn in the transcript is that of the call it names. *)
OwnTurns ==
    \A i \in DOMAIN transcript : transcript[i].type = "assistant" =>
        \E c \in DOMAIN session.uses :
            Use(c).client = "hook" /\ transcript[i] = Line(c, "assistant", Use(c).line)

(* What a hook's report can be refused for. *)
RefusedFor(use, phase) ==
    StdinCut(use, phase) \/ BadTurn(use, phase) \/ ~Accepts(BareEvent(use, phase))

(* The reports a call has made at each stage. *)
InStage ==
    /\ \A c \in Calls : stage[c] # "idle" => c \in DOMAIN session.uses
    /\ \A c \in Calls : stage[c] = "idle" => report[<<c, "pre">>] = "none"
    /\ \A c \in Calls : stage[c] # "done" => report[<<c, "post">>] = "none" /\ report[<<c, "failure">>] = "none"
    /\ \A c \in Calls, phase \in Phases : report[<<c, phase>>] # "none" => c \in DOMAIN session.uses
    /\ \A c \in Calls, phase \in Phases :
          c \in DOMAIN session.uses /\ report[<<c, phase>>] = "refused" /\ Use(c).client = "hook" =>
              RefusedFor(Use(c), phase)

(* A frame is in one place: on the wire, refused, cut off or in the store.   *)
Held == wire \union rejected \union cut
SameReport(a, b) == a.call = b.call /\ a.phase = b.phase

OneFate ==
    /\ \A f \in Held : IsFrame(f) /\ report[<<f.call, f.phase>>] = "sent"
    /\ \A f, g \in Held : SameReport(f, g) => f = g
    /\ wire \cap (rejected \union cut) = {} /\ rejected \cap cut = {}
    /\ \A f \in rejected : ~Recordable(f.event)
    /\ \A i \in DOMAIN rows :
          /\ report[<<rows[i].call, rows[i].phase>>] = "sent"
          /\ \A f \in Held : ~SameReport(f, rows[i])
          /\ \A j \in DOMAIN rows : SameReport(rows[i], rows[j]) => i = j
    /\ \A c \in Calls, phase \in Phases : report[<<c, phase>>] = "sent" =>
          RowsOf(c, phase) # {} \/ \E f \in Held : f.call = c /\ f.phase = phase

(* Every row is the receipt of a frame, built under the settings of its time *)
(* in the next place of its chain.                                           *)
Written(i) ==
    /\ \E f : /\ IsFrame(f) /\ Recordable(f.event)
              /\ Altered(rows[i], ReceiptOf(f, under[i], rows[i].seq))
    /\ rows[i].seq = Cardinality({j \in 1..i : rows[j].chain = rows[i].chain})

(* A follower has seen what its filter finds up to its watermark.            *)
UpToMark ==
    follower # None =>
        /\ session.follow \in AnyQuery
        /\ follower.from \in Nat /\ follower.mark \in follower.from..Len(rows)
        /\ follower.shown \in Seq(Nat)
        /\ FollowedOnce

RecordingInv ==
    /\ TypeOK /\ OwnTurns /\ InStage /\ OneFate /\ UpToMark
    /\ \A i \in DOMAIN rows : Written(i)
=============================================================================
