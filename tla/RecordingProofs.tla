--------------------------- MODULE RecordingProofs ---------------------------
(***************************************************************************)
(* Proofs about Recording and the algorithms it is built from: what the    *)
(* daemon redacts, what the hook makes of a command, what a query shows,   *)
(* what a forensic key opens.                                              *)
(***************************************************************************)
EXTENDS Recording, FiniteSetTheorems, SequenceTheorems, WellFoundedInduction, TLAPS

(* Of the numbers of a set, one is the least.                               *)
LEMMA LeastOf ==
    ASSUME NEW S, S \subseteq Nat, S # {}
    PROVE  \E n \in S : \A m \in S : n <= m
<1>1. PICK n \in S : \A m \in S : <<m, n>> \notin OpToRel(<, Nat)
  BY NatLessThanWellFounded, WFMin, Zenon
<1>2. n \in Nat /\ \A m \in S : m \in Nat
  BY <1>1
<1>3. \A m \in S : ~(m < n)
  BY <1>1, <1>2 DEF OpToRel
<1>. QED BY <1>2, <1>3

(* If what fails at a number fails at the one before, and not at 0, it      *)
(* fails nowhere.                                                           *)
LEMMA NoFirst ==
    ASSUME NEW N \in Nat, NEW Bad, Bad \subseteq 0..N, 0 \notin Bad,
           \A n \in 1..N : n \in Bad => n - 1 \in Bad
    PROVE  Bad = {}
<1>1. Bad \subseteq Nat
  OBVIOUS
<1>2. SUFFICES ASSUME Bad # {} PROVE FALSE
  OBVIOUS
<1>3. PICK n \in Bad : \A m \in Bad : n <= m
  BY <1>1, <1>2, LeastOf
<1>. QED BY <1>3

-----------------------------------------------------------------------------
(* Flattening, by its first n parts.                                        *)
FlatStep(ss, f, i) == IF i = 1 THEN ss[i] ELSE f[i - 1] \o ss[i]
FlatOf(ss) == CHOOSE f : f = [i \in 1..Len(ss) |-> FlatStep(ss, f, i)]
Flat(ss, n) == IF n = 0 THEN <<>> ELSE FlatOf(ss)[n]

(* FlattenSeq defines a sequence for each number of parts: of the numbers   *)
(* for which it does not, none is the least.                                *)
LEMMA FlatOfIs ==
    ASSUME NEW ss, Len(ss) \in Nat
    PROVE  FlatOf(ss) = [i \in 1..Len(ss) |-> FlatStep(ss, FlatOf(ss), i)]
<1>. DEFINE Flattened(n) == \E f : f = [i \in 1..n |-> FlatStep(ss, f, i)]
            Bad == {n \in Nat : ~Flattened(n)}
<1>1. ASSUME Bad # {} PROVE FALSE
  <2>1. PICK n \in Bad : \A m \in Bad : n <= m
    BY <1>1, LeastOf
  <2>2. n # 0
    <3>. DEFINE f == [i \in 1..0 |-> ss]
    <3>1. f = [i \in 1..0 |-> FlatStep(ss, f, i)]
      OBVIOUS
    <3>2. Flattened(0)
      BY <3>1
    <3>. QED BY <2>1, <3>2
  <2>3. n - 1 \in Nat /\ Flattened(n - 1)
    BY <2>1, <2>2
  <2>4. PICK f : f = [i \in 1..n - 1 |-> FlatStep(ss, f, i)]
    BY <2>3
  <2>. DEFINE g == [i \in 1..n |-> FlatStep(ss, f, i)]
  <2>5. \A i \in 1..n - 1 : g[i] = f[i]
    BY <2>1, <2>4
  <2>. HIDE DEF g
  <2>6. \A i \in 1..n : FlatStep(ss, g, i) = FlatStep(ss, f, i)
    <3>1. SUFFICES ASSUME NEW i \in 1..n, i # 1 PROVE g[i - 1] = f[i - 1]
      BY DEF FlatStep
    <3>. QED BY <2>1, <2>5, <3>1
  <2>7. g = [i \in 1..n |-> FlatStep(ss, g, i)]
    BY <2>6 DEF g
  <2>8. Flattened(n)
    BY <2>7
  <2>. QED BY <2>1, <2>8
<1>2. Flattened(Len(ss))
  BY <1>1
<1>. QED BY <1>2 DEF FlatOf

(* FlattenSeq, one part after the other.                                    *)
LEMMA FlatIs ==
    ASSUME NEW T, NEW ss \in Seq(Seq(T))
    PROVE  /\ FlattenSeq(ss) = Flat(ss, Len(ss))
           /\ Flat(ss, 0) = <<>>
           /\ \A n \in 1..Len(ss) : Flat(ss, n) = Flat(ss, n - 1) \o ss[n]
           /\ \A n \in 0..Len(ss) : Flat(ss, n) \in Seq(T)
<1>. DEFINE f == FlatOf(ss)
<1>1. \A i \in 1..Len(ss) : f[i] = FlatStep(ss, f, i)
  <2>1. f = [i \in 1..Len(ss) |-> FlatStep(ss, f, i)]
    BY FlatOfIs
  <2>. HIDE DEF f
  <2>. QED BY <2>1, Zenon
<1>2. FlattenSeq(ss) = IF Len(ss) = 0 THEN ss ELSE f[Len(ss)]
  BY DEF FlattenSeq, FlatOf, FlatStep
<1>. HIDE DEF f
<1>3. FlattenSeq(ss) = Flat(ss, Len(ss))
  BY <1>2 DEF Flat, f
<1>4. ASSUME NEW n \in 1..Len(ss) PROVE Flat(ss, n) = Flat(ss, n - 1) \o ss[n]
  <2>1. CASE n = 1
    <3>1. Flat(ss, n) = ss[1] /\ Flat(ss, n - 1) = <<>> /\ ss[1] \in Seq(T)
      BY <1>1, <2>1 DEF Flat, FlatStep, f
    <3>2. <<>> \o ss[1] = ss[1]
      BY <3>1
    <3>. QED BY <2>1, <3>1, <3>2
  <2>2. CASE n # 1
    <3>1. Flat(ss, n) = f[n] /\ Flat(ss, n - 1) = f[n - 1]
      BY <2>2 DEF Flat, f
    <3>2. f[n] = f[n - 1] \o ss[n]
      BY <1>1, <2>2 DEF FlatStep
    <3>. QED BY <3>1, <3>2
  <2>. QED BY <2>1, <2>2
<1>5. \A n \in 0..Len(ss) : Flat(ss, n) \in Seq(T)
  <2>. DEFINE Bad == {n \in 0..Len(ss) : Flat(ss, n) \notin Seq(T)}
  <2>1. 0 \notin Bad
    BY DEF Flat
  <2>2. ASSUME NEW n \in 1..Len(ss), n \in Bad PROVE n - 1 \in Bad
    <3>1. ss[n] \in Seq(T) /\ n - 1 \in 0..Len(ss)
      OBVIOUS
    <3>2. ASSUME Flat(ss, n - 1) \in Seq(T) PROVE Flat(ss, n) \in Seq(T)
      <4>1. Flat(ss, n - 1) \o ss[n] \in Seq(T)
        BY <3>1, <3>2
      <4>. QED BY <1>4, <4>1
    <3>. QED BY <2>2, <3>1, <3>2
  <2>3. Bad \subseteq 0..Len(ss) /\ Len(ss) \in Nat
    OBVIOUS
  <2>4. Bad = {}
    <3>. HIDE DEF Bad
    <3>. QED BY <2>1, <2>2, <2>3, NoFirst
  <2>. QED BY <2>4
<1>. QED BY <1>3, <1>4, <1>5 DEF Flat

(* Parts of one element each flatten to the sequence of these elements.     *)
LEMMA FlattenSingles ==
    ASSUME NEW T, NEW s \in Seq(T)
    PROVE  FlattenSeq([i \in DOMAIN s |-> <<s[i]>>]) = s
<1>. DEFINE ss == [i \in 1..Len(s) |-> <<s[i]>>]
            Bad == {n \in 0..Len(s) : Flat(ss, n) # SubSeq(s, 1, n)}
<1>1. ss \in Seq(Seq(T)) /\ Len(ss) = Len(s) /\ \A n \in 1..Len(s) : ss[n] = <<s[n]>>
  OBVIOUS
<1>2. [i \in DOMAIN s |-> <<s[i]>>] = ss
  OBVIOUS
<1>. HIDE DEF ss
<1>3. 0 \notin Bad
  BY DEF Flat
<1>4. ASSUME NEW n \in 1..Len(s), n \in Bad PROVE n - 1 \in Bad
  <2>1. SUFFICES ASSUME Flat(ss, n - 1) = SubSeq(s, 1, n - 1) PROVE Flat(ss, n) = SubSeq(s, 1, n)
    BY <1>4
  <2>2. Flat(ss, n) = SubSeq(s, 1, n - 1) \o <<s[n]>>
    BY <1>1, <2>1, FlatIs
  <2>3. SubSeq(s, 1, n - 1) \o <<s[n]>> = SubSeq(s, 1, n)
    OBVIOUS
  <2>. QED BY <2>2, <2>3
<1>5. Bad \subseteq 0..Len(s) /\ Len(s) \in Nat
  OBVIOUS
<1>6. Bad = {}
  <2>. HIDE DEF Bad
  <2>. QED BY <1>3, <1>4, <1>5, NoFirst
<1>7. FlattenSeq(ss) = Flat(ss, Len(s))
  BY <1>1, FlatIs
<1>8. Flat(ss, Len(s)) = SubSeq(s, 1, Len(s))
  BY <1>6
<1>. QED BY <1>2, <1>7, <1>8

-----------------------------------------------------------------------------
(* The runtime and its hook. *)

(* A sequence of whatever it holds.                                         *)
IsSeq(s) == s \in Seq({s[i] : i \in DOMAIN s})

(* One more element.                                                        *)
LEMMA AppendIs ==
    ASSUME NEW s, IsSeq(s), NEW e
    PROVE  /\ Len(s) \in Nat /\ DOMAIN s = 1..Len(s)
           /\ IsSeq(Append(s, e))
           /\ Len(Append(s, e)) = Len(s) + 1
           /\ DOMAIN Append(s, e) = 1..Len(s) + 1
           /\ \A i \in 1..Len(s) : Append(s, e)[i] = s[i]
           /\ Append(s, e)[Len(s) + 1] = e
<1>. DEFINE T == {s[i] : i \in DOMAIN s} \union {e}
<1>1. s \in Seq({s[i] : i \in DOMAIN s})
  BY DEF IsSeq
<1>2. s \in Seq(T) /\ e \in T
  BY <1>1
<1>. HIDE DEF T
<1>3. /\ Len(s) \in Nat /\ DOMAIN s = 1..Len(s)
      /\ Append(s, e) \in Seq(T)
      /\ Len(Append(s, e)) = Len(s) + 1
      /\ DOMAIN Append(s, e) = 1..Len(s) + 1
      /\ \A i \in 1..Len(s) : Append(s, e)[i] = s[i]
      /\ Append(s, e)[Len(s) + 1] = e
  BY <1>2
<1>4. IsSeq(Append(s, e))
  <2>. DEFINE t == Append(s, e)
  <2>1. t \in Seq(T)
    BY <1>3
  <2>. HIDE DEF t
  <2>2. t \in Seq({t[i] : i \in DOMAIN t})
    BY <2>1
  <2>. QED BY <2>2 DEF IsSeq, t
<1>. QED BY <1>3, <1>4

(* The fields of an event.                                                  *)
EventFields ==
    {"channel", "tool", "server", "action", "target", "input", "output", "error", "preview", "decision",
     "operator", "correlation", "agent", "agentType", "model", "usage", "capture"}
IsEvent(ev) == DOMAIN ev = EventFields /\ ev = [field \in EventFields |-> ev[field]]

TurnFor(use, lines) ==
    IF use.id = "" THEN NoTurn ELSE lookupTranscriptUsage(resolveTranscript(use, lines), use.id)

(* Two events with the same fields are the same.                            *)
LEMMA SameEvent ==
    ASSUME NEW a, NEW b, IsEvent(a), IsEvent(b), \A field \in EventFields : a[field] = b[field]
    PROVE  a = b
BY DEF IsEvent, EventFields

(* An operator that is nobody.                                              *)
Nobody == [id |-> "", name |-> ""]

(* Nobody has neither id nor name.                                          *)
LEMMA NobodyIs == Nobody.id = "" /\ Nobody.name = ""
BY DEF Nobody

(* The event of a hook, field by field.                                     *)
Said(ev, use, phase, turn) ==
    /\ IsEvent(ev)
    /\ ev.channel = "claude-code" /\ ev.tool = use.tool /\ ev.server = ""
    /\ ev.action = TargetOf(use).action
    /\ ev.target = (IF TargetOf(use).path = "" THEN NoResource
                   ELSE [system |-> "filesystem", resource |-> <<TargetOf(use).path>>])
    /\ ev.input = use.input /\ ev.output = (IF phase = "post" THEN use.output ELSE Absent)
    /\ ev.error = (IF phase = "failure" THEN failureErrorText(use) ELSE NoText)
    /\ ev.preview = NoText
    /\ ev.decision = (IF phase = "pre" THEN "pending" ELSE "allowed")
    /\ ev.operator = Nobody
    /\ ev.correlation = use.id /\ ev.agent = use.agent /\ ev.agentType = use.agentType
    /\ ev.model = turn.model /\ ev.usage = turn.usage /\ ev.capture = turn.capture

(* readClaudeCode: what a hook says of its call, and of the turn it found.  *)
LEMMA SaidIs ==
    ASSUME NEW use, NEW phase, NEW lines
    PROVE  Said(readClaudeCode(use, phase, lines), use, phase, TurnFor(use, lines))
<1>. DEFINE z == Event
            ev == readClaudeCode(use, phase, lines)
<1>1. /\ DOMAIN z = EventFields /\ z.channel = "claude-code" /\ z.server = ""
      /\ z.preview = NoText /\ z.operator = Nobody
  BY DEF Event, EventFields, Nobody
<1>. DEFINE target == TargetOf(use)
            a == use.tool
            b == target.action
            d == use.input
            e == IF phase = "pre" THEN "pending" ELSE "allowed"
            f == IF phase = "failure" THEN failureErrorText(use) ELSE NoText
            g == IF phase = "post" THEN use.output ELSE Absent
            h == IF target.path = "" THEN NoResource
                 ELSE [system |-> "filesystem", resource |-> <<target.path>>]
            l == TurnFor(use, lines).model
            m == TurnFor(use, lines).usage
            n == TurnFor(use, lines).capture
<1>2. ev = [z EXCEPT !.tool = a, !.action = b, !.input = d, !.decision = e, !.error = f,
                     !.output = g, !.target = h, !.correlation = use.id, !.agent = use.agent,
                     !.agentType = use.agentType, !.model = l, !.usage = m, !.capture = n]
  BY Zenon DEF readClaudeCode, TurnFor
<1>. HIDE DEF z, ev, a, b, d, e, f, g, h, l, m, n
<1>3. /\ IsEvent(ev)
      /\ ev.channel = z.channel /\ ev.tool = a /\ ev.server = z.server /\ ev.action = b
      /\ ev.target = h /\ ev.input = d /\ ev.output = g /\ ev.error = f /\ ev.preview = z.preview
      /\ ev.decision = e /\ ev.operator = z.operator /\ ev.correlation = use.id /\ ev.agent = use.agent
      /\ ev.agentType = use.agentType /\ ev.model = l /\ ev.usage = m /\ ev.capture = n
  BY <1>1, <1>2 DEF EventFields, IsEvent
<1>. QED BY <1>1, <1>3, Zenon DEF Said, ev, a, b, d, e, f, g, h, l, m, n

(* In an empty transcript nobody finds a turn.                              *)
LEMMA NoTurnFound ==
    ASSUME NEW use
    PROVE  TurnFor(use, <<>>) = NoTurn
<1>1. resolveTranscript(use, <<>>) = <<>>
  BY DEF resolveTranscript
<1>2. {i \in DOMAIN <<>> : <<>>[i].id = use.id /\ <<>>[i].form = "good" /\ <<>>[i].type = "assistant"} = {}
  <2>1. DOMAIN <<>> = {}
    OBVIOUS
  <2>. QED BY <2>1, Zenon
<1>3. lookupTranscriptUsage(<<>>, use.id) = NoTurn
  BY <1>2, Zenon DEF lookupTranscriptUsage
<1>. QED BY <1>1, <1>3 DEF TurnFor

(* Who finds a turn finds the first good line of the turn that made the call. *)
IsTurn(turn, line) ==
    turn = [model |-> line.model, usage |-> line.usage, capture |-> "transcript"]

(* lookupTranscriptUsage returns nothing but a good line of the turn asked for. *)
LEMMA TurnFound ==
    ASSUME NEW lines, DOMAIN lines \subseteq Nat, NEW id, lookupTranscriptUsage(lines, id) # NoTurn
    PROVE  \E i \in DOMAIN lines : /\ lines[i].id = id /\ lines[i].type = "assistant"
                                   /\ IsTurn(lookupTranscriptUsage(lines, id), lines[i])
<1>. DEFINE hits == {i \in DOMAIN lines : /\ lines[i].id = id
                                          /\ lines[i].form = "good"
                                          /\ lines[i].type = "assistant"}
            first == CHOOSE i \in hits : \A j \in hits : i <= j
<1>1. hits # {}
  BY Zenon DEF lookupTranscriptUsage
<1>2. \E i \in hits : \A j \in hits : i <= j
  <2>1. hits \subseteq Nat
    OBVIOUS
  <2>. HIDE DEF hits
  <2>. QED BY <1>1, <2>1, LeastOf
<1>3. first \in hits
  <2>. HIDE DEF hits
  <2>. QED BY <1>2
<1>4. IsTurn(lookupTranscriptUsage(lines, id), lines[first])
  BY <1>1, Zenon DEF IsTurn, lookupTranscriptUsage
<1>5. first \in DOMAIN lines /\ lines[first].id = id /\ lines[first].type = "assistant"
  BY <1>3, Zenon
<1>. HIDE DEF first
<1>. QED BY <1>4, <1>5

(* The hook reports a call as it was, and with the turn that made it or     *)
(* with none.                                                               *)
LEMMA EventIsReport ==
    ASSUME session \in Sessions, OwnTurns, IsSeq(transcript), NEW c \in DOMAIN session.uses, NEW phase
    PROVE  EventOf(c, phase) \in Reports(Use(c), phase)
<1>1. CASE Use(c).client # "hook"
  BY <1>1 DEF EventOf, Reports, BareEvent
<1>2. CASE Use(c).client = "hook"
  <2>. DEFINE use == Use(c)
              own == [model |-> use.model, usage |-> use.usage, capture |-> "transcript"]
  <2>1. TurnFor(use, transcript) \in {NoTurn, own}
    <3>1. SUFFICES ASSUME use.id # "", resolveTranscript(use, transcript) = transcript,
                          lookupTranscriptUsage(transcript, use.id) # NoTurn
                   PROVE  lookupTranscriptUsage(transcript, use.id) = own
      <4>1. resolveTranscript(use, transcript) # transcript => TurnFor(use, transcript) = NoTurn
        <5>1. resolveTranscript(use, transcript) # transcript =>
                  resolveTranscript(use, transcript) = resolveTranscript(use, <<>>)
          BY DEF resolveTranscript
        <5>2. TurnFor(use, <<>>) = NoTurn
          BY NoTurnFound
        <5>. QED BY <5>1, <5>2, Zenon DEF TurnFor
      <4>. QED BY <4>1 DEF TurnFor
    <3>2. DOMAIN transcript \subseteq Nat
      BY AppendIs
    <3>3. PICK i \in DOMAIN transcript :
              /\ transcript[i].id = use.id /\ transcript[i].type = "assistant"
              /\ IsTurn(lookupTranscriptUsage(transcript, use.id), transcript[i])
      BY <3>1, <3>2, TurnFound, Zenon
    <3>4. PICK d \in DOMAIN session.uses :
              Use(d).client = "hook" /\ transcript[i] = Line(d, "assistant", Use(d).line)
      BY <3>3, Zenon DEF OwnTurns
    <3>5. transcript[i].id = Use(d).id /\ transcript[i].model = Use(d).model /\ transcript[i].usage = Use(d).usage
      BY <3>4 DEF Line
    <3>6. SessionOK(session)
      BY RecordingAssumption
    <3>7. d = c
      BY <1>2, <3>1, <3>3, <3>4, <3>5, <3>6 DEF SessionOK, Use
    <3>. QED BY <3>3, <3>5, <3>7, Zenon DEF IsTurn
  <2>. DEFINE turn == TurnFor(use, transcript)
              said == readClaudeCode(use, phase, transcript)
              bare == readClaudeCode(use, phase, <<>>)
              with == [bare EXCEPT !.model = use.model, !.usage = use.usage, !.capture = "transcript"]
  <2>2. /\ IsEvent(said) /\ IsEvent(bare)
        /\ \A field \in EventFields \ {"model", "usage", "capture"} : said[field] = bare[field]
        /\ said.model = turn.model /\ said.usage = turn.usage /\ said.capture = turn.capture
        /\ bare.model = NoTurn.model /\ bare.usage = NoTurn.usage /\ bare.capture = NoTurn.capture
    <3>1. Said(said, use, phase, turn) /\ Said(bare, use, phase, NoTurn)
      BY SaidIs, NoTurnFound
    <3>. HIDE DEF turn, said, bare, use
    <3>2. IsEvent(said) /\ IsEvent(bare)
          /\ said.model = turn.model /\ said.usage = turn.usage /\ said.capture = turn.capture
          /\ bare.model = NoTurn.model /\ bare.usage = NoTurn.usage /\ bare.capture = NoTurn.capture
      BY <3>1, Zenon DEF Said
    <3>3. /\ said.channel = bare.channel /\ said.tool = bare.tool /\ said.server = bare.server
          /\ said.action = bare.action /\ said.target = bare.target /\ said.input = bare.input
          /\ said.output = bare.output /\ said.error = bare.error /\ said.preview = bare.preview
          /\ said.decision = bare.decision /\ said.operator = bare.operator
          /\ said.correlation = bare.correlation /\ said.agent = bare.agent
          /\ said.agentType = bare.agentType
      BY <3>1, Zenon DEF Said
    <3>. QED BY <3>2, <3>3 DEF EventFields
  <2>3. Reports(use, phase) = {bare, with}
    BY <1>2, Zenon DEF Reports, BareEvent, Enriched
  <2>4. EventOf(c, phase) = said
    BY <1>2, Zenon DEF EventOf
  <2>. HIDE DEF said, bare, turn
  <2>5. CASE turn = NoTurn
    <3>1. \A field \in EventFields : said[field] = bare[field]
      BY <2>2, <2>5 DEF EventFields
    <3>2. said = bare
      BY <2>2, <3>1, SameEvent
    <3>. QED BY <2>3, <2>4, <3>2
  <2>6. CASE turn = own
    <3>1. /\ IsEvent(with)
          /\ \A field \in EventFields \ {"model", "usage", "capture"} : with[field] = bare[field]
          /\ with.model = own.model /\ with.usage = own.usage /\ with.capture = own.capture
      BY <2>2 DEF EventFields, IsEvent
    <3>. HIDE DEF with, own, use
    <3>2. \A field \in EventFields : said[field] = with[field]
      BY <2>2, <2>6, <3>1 DEF EventFields
    <3>3. said = with
      BY <2>2, <3>1, <3>2, SameEvent
    <3>. HIDE DEF with
    <3>. QED BY <2>3, <2>4, <3>3, Zenon DEF use
  <2>. QED BY <2>1, <2>5, <2>6, Zenon DEF turn
<1>. QED BY <1>1, <1>2
-----------------------------------------------------------------------------
(* What a receipt keeps of its frame, whatever was done to its envelopes.   *)
RowOf(row, f, settings, seq) ==
    /\ row.call = f.call /\ row.phase = f.phase /\ row.chain = f.event.agent /\ row.seq = seq
    /\ row.status = Status(f.event) /\ row.action = ActionType(f.event)
    /\ row.risk = RiskOf(ActionType(f.event)) /\ row.target = f.event.target
    /\ row.runtime = RuntimeOf(f.event)
    /\ row.paramsHash = HashOf(f.event.input) /\ row.responseHash = HashOf(f.event.output)
    /\ row.params \in Envelopes(Sealed(f.event.input, settings.params, f.event, settings))
    /\ row.response \in Envelopes(Sealed(f.event.output, settings.response, f.event, settings))
    /\ row.error = StoredError(f.event.error, Cap(settings.maxError))
    /\ row.preview = StoredPreview(f.event.preview, Cap(settings.maxPreview))

(* A receipt whose envelopes may be altered still has these fields.         *)
LEMMA RowIs ==
    ASSUME NEW f, NEW settings, NEW seq, NEW row, Altered(row, ReceiptOf(f, settings, seq))
    PROVE  RowOf(row, f, settings, seq)
<1>. DEFINE r == ReceiptOf(f, settings, seq)
<1>1. PICK p \in Envelopes(r.params), q \in Envelopes(r.response) :
          row = [r EXCEPT !.params = p, !.response = q]
  BY Zenon DEF Altered
<1>2. /\ r.call = f.call /\ r.phase = f.phase /\ r.chain = f.event.agent /\ r.seq = seq
      /\ r.status = Status(f.event) /\ r.action = ActionType(f.event)
      /\ r.risk = RiskOf(ActionType(f.event)) /\ r.target = f.event.target
      /\ r.runtime = RuntimeOf(f.event)
      /\ r.paramsHash = HashOf(f.event.input) /\ r.responseHash = HashOf(f.event.output)
      /\ r.params = Sealed(f.event.input, settings.params, f.event, settings)
      /\ r.response = Sealed(f.event.output, settings.response, f.event, settings)
      /\ r.error = StoredError(f.event.error, Cap(settings.maxError))
      /\ r.preview = StoredPreview(f.event.preview, Cap(settings.maxPreview))
      /\ DOMAIN r = {"call", "phase", "chain", "seq", "status", "action", "risk", "target", "correlation",
                     "operator", "runtime", "paramsHash", "responseHash", "params", "response",
                     "error", "preview"}
  BY DEF ReceiptOf
<1>. HIDE DEF r
<1>3. /\ row.call = r.call /\ row.phase = r.phase /\ row.chain = r.chain /\ row.seq = r.seq
      /\ row.status = r.status /\ row.action = r.action /\ row.risk = r.risk /\ row.target = r.target
      /\ row.runtime = r.runtime /\ row.paramsHash = r.paramsHash
      /\ row.responseHash = r.responseHash /\ row.params = p /\ row.response = q
      /\ row.error = r.error /\ row.preview = r.preview
  BY <1>1, <1>2
<1>. QED BY <1>1, <1>2, <1>3, Zenon DEF RowOf

(* Of every row there is the frame it was built of.                         *)
LEMMA FrameOfRow ==
    ASSUME RecordingInv, NEW i \in DOMAIN rows
    PROVE  /\ i \in 1..Len(rows) /\ i \in DOMAIN under
           /\ under[i] \in session.settings /\ Startable(under[i])
           /\ rows[i].call \in DOMAIN session.uses /\ rows[i].call \in Calls /\ rows[i].phase \in Phases
           /\ \E f : /\ IsFrame(f) /\ Recordable(f.event)
                     /\ RowOf(rows[i], f, under[i], rows[i].seq)
<1>1. /\ i \in 1..Len(rows) /\ DOMAIN rows = 1..Len(rows) /\ DOMAIN under = 1..Len(rows)
      /\ under[i] \in session.settings /\ Startable(under[i])
  <2>1. /\ rows \in Seq({rows[k] : k \in DOMAIN rows})
        /\ under \in Seq({s \in session.settings : Startable(s)}) /\ Len(under) = Len(rows)
    BY DEF RecordingInv, TypeOK
  <2>. QED BY <2>1
<1>2. PICK f : /\ IsFrame(f) /\ Recordable(f.event)
               /\ Altered(rows[i], ReceiptOf(f, under[i], rows[i].seq))
  BY Zenon DEF RecordingInv, Written
<1>3. RowOf(rows[i], f, under[i], rows[i].seq)
  BY <1>2, RowIs, Zenon
<1>4. SessionOK(session)
  BY RecordingAssumption DEF RecordingInv, TypeOK
<1>5. rows[i].call \in DOMAIN session.uses /\ rows[i].call \in Calls /\ rows[i].phase \in Phases
  <2>1. rows[i].call = f.call /\ rows[i].phase = f.phase
    BY <1>3 DEF RowOf
  <2>2. f.call \in DOMAIN session.uses /\ f.phase \in Phases
    BY <1>2, Zenon DEF IsFrame
  <2>. QED BY <1>4, <2>1, <2>2, Zenon DEF SessionOK
<1>. QED BY <1>1, <1>2, <1>3, <1>5, Zenon

(* What is in the store, and seen of it, is so as long as it is left alone. *)
LEMMA StoreKept ==
    ASSUME RecordingInv, UNCHANGED <<session, rows, under, follower>>
    PROVE  UpToMark' /\ \A i \in DOMAIN rows' : Written(i)'
<1>1. UpToMark'
  BY DEF RecordingInv, UpToMark, FollowedOnce
<1>2. ASSUME NEW i \in DOMAIN rows' PROVE Written(i)'
  <2>1. Written(i)
    BY <1>2 DEF RecordingInv
  <2>2. \A f : IsFrame(f)' <=> IsFrame(f)
    BY Zenon DEF IsFrame, Use
  <2>. QED BY <2>1, <2>2, Zenon DEF Written
<1>. QED BY <1>1, <1>2

(* A frame is where it was while only reports begin.                        *)
LEMMA FatesKept ==
    ASSUME RecordingInv, UNCHANGED <<session, rows, wire, rejected, cut>>,
           \A c \in Calls, phase \in Phases : report'[<<c, phase>>] = "sent" <=> report[<<c, phase>>] = "sent"
    PROVE  OneFate'
<1>1. SessionOK(session)
  BY RecordingAssumption DEF RecordingInv, TypeOK
<1>2. \A f : IsFrame(f)' <=> IsFrame(f)
  BY Zenon DEF IsFrame, Use
<1>3. \A f \in Held' : IsFrame(f)' /\ report'[<<f.call, f.phase>>] = "sent"
  <2>1. SUFFICES ASSUME NEW f \in Held' PROVE IsFrame(f)' /\ report'[<<f.call, f.phase>>] = "sent"
    OBVIOUS
  <2>2. f \in Held
    BY <2>1 DEF Held
  <2>3. IsFrame(f) /\ report[<<f.call, f.phase>>] = "sent"
    BY <2>2, Zenon DEF RecordingInv, OneFate
  <2>4. f.call \in Calls /\ f.phase \in Phases
    BY <1>1, <2>3, Zenon DEF IsFrame, SessionOK
  <2>. QED BY <1>2, <2>3, <2>4
<1>4. \A i \in DOMAIN rows' :
          /\ report'[<<rows'[i].call, rows'[i].phase>>] = "sent"
          /\ \A f \in Held' : ~SameReport(f, rows'[i])
          /\ \A j \in DOMAIN rows' : SameReport(rows'[i], rows'[j]) => i = j
  <2>1. SUFFICES ASSUME NEW i \in DOMAIN rows'
                 PROVE  /\ report'[<<rows'[i].call, rows'[i].phase>>] = "sent"
                        /\ \A f \in Held' : ~SameReport(f, rows'[i])
                        /\ \A j \in DOMAIN rows' : SameReport(rows'[i], rows'[j]) => i = j
    OBVIOUS
  <2>2. rows[i].call \in Calls /\ rows[i].phase \in Phases
    BY <2>1, FrameOfRow
  <2>3. /\ report[<<rows[i].call, rows[i].phase>>] = "sent"
        /\ \A f \in Held : ~SameReport(f, rows[i])
        /\ \A j \in DOMAIN rows : SameReport(rows[i], rows[j]) => i = j
    BY <2>1, Zenon DEF RecordingInv, OneFate
  <2>. QED BY <2>2, <2>3, Zenon DEF Held
<1>5. /\ \A f, g \in Held' : SameReport(f, g) => f = g
      /\ (wire \cap (rejected \union cut))' = {} /\ (rejected \cap cut)' = {}
      /\ \A f \in rejected' : ~Recordable(f.event)
  BY Zenon DEF RecordingInv, OneFate, Held
<1>6. \A c \in Calls, phase \in Phases : report'[<<c, phase>>] = "sent" =>
          RowsOf(c, phase)' # {} \/ \E f \in Held' : f.call = c /\ f.phase = phase
  <2>1. Held' = Held /\ \A c, phase : RowsOf(c, phase)' = RowsOf(c, phase)
    BY DEF Held, RowsOf
  <2>2. \A c \in Calls, phase \in Phases : report[<<c, phase>>] = "sent" =>
            RowsOf(c, phase) # {} \/ \E f \in Held : f.call = c /\ f.phase = phase
    BY Zenon DEF RecordingInv, OneFate
  <2>. QED BY <2>1, <2>2
<1>. QED BY <1>3, <1>4, <1>5, <1>6, Zenon DEF OneFate
-----------------------------------------------------------------------------
(* The steps of the clients. *)

(* What is known of a call that a hook reports.                             *)
LEMMA HookIs ==
    ASSUME session \in Sessions, NEW c \in DOMAIN session.uses, Use(c).client = "hook"
    PROVE  /\ c \in Calls /\ KeysMarked(Use(c).error)
           /\ Use(c).input \in AnyPayload /\ Use(c).output \in AnyPayload
           /\ Use(c).operator = Nobody
           /\ Use(c).usage.kind # "empty"
           /\ Use(c).command \in Seq(STRING) /\ Use(c).error \in AnyText
<1>1. SessionOK(session)
  BY RecordingAssumption
<1>2. Use(c) \in HookUse /\ KeysMarked(Use(c).error) /\ c \in Calls
  BY <1>1 DEF SessionOK, UseOK, Use
<1>. DEFINE use == Use(c)
<1>3. use \in HookUse
  BY <1>2
<1>. HIDE DEF use
<1>4. /\ use.input \in AnyPayload /\ use.output \in AnyPayload
      /\ use.operator \in {[id |-> "", name |-> ""]}
      /\ use.usage \in {p \in AnyPayload : p.kind # "empty"}
      /\ use.command \in Seq(STRING) /\ use.error \in AnyText
  BY <1>3, Zenon DEF HookUse
<1>. QED BY <1>2, <1>4, Zenon DEF use, Nobody

(* The defaults of the emitter change the operator only, and a hook has     *)
(* none.                                                                    *)
Defaulted(full, ev, operator) ==
    /\ IsEvent(full)
    /\ \A field \in EventFields \ {"operator"} : full[field] = ev[field]
    /\ (operator.id = "" /\ ev.operator.id = "") => full.operator.id = ""
    /\ (operator.name = "" /\ ev.operator.name = "") => full.operator.name = ""

(* WithDefaults leaves an event an event, and its other fields alone.       *)
LEMMA DefaultsAre ==
    ASSUME NEW ev, NEW operator, IsEvent(ev)
    PROVE  Defaulted(WithDefaults(ev, operator), ev, operator)
<1>. DEFINE a == IF ev.operator.id = "" THEN operator.id ELSE ev.operator.id
            b == IF ev.operator.name = "" THEN operator.name ELSE ev.operator.name
            o == [id |-> a, name |-> b]
<1>1. WithDefaults(ev, operator) = [ev EXCEPT !.operator = o]
  BY Zenon DEF WithDefaults
<1>2. /\ (operator.id = "" /\ ev.operator.id = "") => a = ""
      /\ (operator.name = "" /\ ev.operator.name = "") => b = ""
  BY Zenon
<1>. HIDE DEF a, b
<1>3. o.id = a /\ o.name = b
  OBVIOUS
<1>. HIDE DEF o
<1>4. DOMAIN ev = EventFields /\ ev = [field \in EventFields |-> ev[field]]
  BY DEF IsEvent
<1>5. [ev EXCEPT !.operator = o].operator = o
  BY <1>4 DEF EventFields
<1>6. \A field \in EventFields \ {"operator"} : [ev EXCEPT !.operator = o][field] = ev[field]
  BY <1>4
<1>7. IsEvent([ev EXCEPT !.operator = o])
  BY <1>4 DEF IsEvent
<1>. QED BY <1>1, <1>2, <1>3, <1>5, <1>6, <1>7, Zenon DEF Defaulted

(* Whatever a hook reports is an event, the one without the turn but for    *)
(* the turn.                                                                *)
LEMMA ReportIs ==
    ASSUME NEW use, NEW phase, use.client = "hook", NEW ev \in Reports(use, phase)
    PROVE  /\ Said(BareEvent(use, phase), use, phase, NoTurn)
           /\ Said(ev, use, phase, NoTurn)
              \/ Said(ev, use, phase, [model |-> use.model, usage |-> use.usage, capture |-> "transcript"])
<1>. DEFINE bare == BareEvent(use, phase)
            own  == [model |-> use.model, usage |-> use.usage, capture |-> "transcript"]
            with == [bare EXCEPT !.model = use.model, !.usage = use.usage, !.capture = "transcript"]
<1>1. Said(bare, use, phase, NoTurn)
  <2>1. bare = readClaudeCode(use, phase, <<>>)
    BY Zenon DEF BareEvent
  <2>. QED BY <2>1, SaidIs, NoTurnFound
<1>2. ev = bare \/ ev = with
  BY Zenon DEF Reports, Enriched
<1>. HIDE DEF bare
<1>3. ASSUME ev = with PROVE Said(ev, use, phase, own)
  <2>1. IsEvent(bare)
    BY <1>1 DEF Said
  <2>2. /\ IsEvent(with)
        /\ with.channel = bare.channel /\ with.tool = bare.tool /\ with.server = bare.server
        /\ with.action = bare.action /\ with.target = bare.target /\ with.input = bare.input
        /\ with.output = bare.output /\ with.error = bare.error /\ with.preview = bare.preview
        /\ with.decision = bare.decision /\ with.operator = bare.operator
        /\ with.correlation = bare.correlation /\ with.agent = bare.agent
        /\ with.agentType = bare.agentType
        /\ with.model = use.model /\ with.usage = use.usage /\ with.capture = "transcript"
    BY <2>1 DEF IsEvent, EventFields
  <2>3. own.model = use.model /\ own.usage = use.usage /\ own.capture = "transcript"
    OBVIOUS
  <2>. HIDE DEF with, own
  <2>. QED BY <1>1, <1>3, <2>2, <2>3, Zenon DEF Said
<1>. QED BY <1>1, <1>2, <1>3 DEF bare

(* The operator takes no room.                                              *)
LEMMA SameSize ==
    ASSUME NEW a, NEW b, \A field \in EventFields \ {"operator"} : a[field] = b[field]
    PROVE  Fits(a) <=> Fits(b)
<1>1. /\ a.input = b.input /\ a.output = b.output /\ a.usage = b.usage
      /\ a.error = b.error /\ a.preview = b.preview
      /\ \A f \in {"server", "action", "correlation", "agent", "agentType", "model", "capture"} :
            a[f] = b[f]
  BY DEF EventFields
<1>2. FrameSize(a) = FrameSize(b)
  BY <1>1 DEF FrameSize
<1>. QED BY <1>2 DEF Fits

(* The turn does not make the emitter refuse what it takes without it,      *)
(* unless the turn is a bad one.                                            *)
LEMMA EnrichedAccepted ==
    ASSUME session \in Sessions, NEW c \in DOMAIN session.uses, Use(c).client = "hook",
           NEW phase, NEW ev \in Reports(Use(c), phase),
           ~BadTurn(Use(c), phase), Accepts(BareEvent(Use(c), phase))
    PROVE  Accepts(WithDefaults(ev, Use(c).operator))
<1>. DEFINE bare == BareEvent(Use(c), phase)
            own  == [model |-> Use(c).model, usage |-> Use(c).usage, capture |-> "transcript"]
            full == WithDefaults(ev, Use(c).operator)
            use  == Use(c)
<1>1. Said(bare, use, phase, NoTurn) /\ (Said(ev, use, phase, NoTurn) \/ Said(ev, use, phase, own))
  BY ReportIs
<1>2. IsEvent(ev) /\ use.operator = Nobody /\ use.usage.kind # "empty"
  BY <1>1, HookIs DEF Said
<1>3. Defaulted(full, ev, use.operator)
  BY <1>2, DefaultsAre, Zenon
<1>4. full.operator.id = "" /\ full.operator.name = ""
  <2>1. ev.operator = Nobody /\ use.operator = Nobody
    BY <1>1, <1>2, Zenon DEF Said
  <2>. QED BY <1>3, <2>1, NobodyIs, Zenon DEF Defaulted
<1>5. /\ full.channel = ev.channel /\ full.tool = ev.tool /\ full.decision = ev.decision
      /\ full.input = ev.input /\ full.output = ev.output /\ full.usage = ev.usage
      /\ full.target = ev.target /\ full.correlation = ev.correlation /\ full.agent = ev.agent
      /\ full.model = ev.model /\ full.capture = ev.capture /\ full.action = ev.action
  BY <1>3, Zenon DEF EventFields, Defaulted
<1>6. /\ ev.channel = bare.channel /\ ev.tool = bare.tool /\ ev.decision = bare.decision
      /\ ev.input = bare.input /\ ev.output = bare.output /\ ev.target = bare.target
      /\ ev.correlation = bare.correlation /\ ev.agent = bare.agent /\ ev.action = bare.action
  BY <1>1, Zenon DEF Said
<1>7. /\ ev.usage.kind \notin {"empty", "huge"}
      /\ ~TooLong(ev.model) /\ ~TooLong(ev.capture)
  <2>1. ~TooLong(use.model) /\ use.usage.kind # "huge"
    BY DEF BadTurn, Hashable
  <2>2. ~TooLong("") /\ ~TooLong("transcript") /\ Absent.kind = "none"
    BY DEF TooLong, Long, LongPath, Absent, Payload
  <2>3. CASE Said(ev, use, phase, NoTurn)
    BY <2>2, <2>3 DEF Said, NoTurn
  <2>4. CASE Said(ev, use, phase, own)
    BY <1>2, <2>1, <2>2, <2>4 DEF Said
  <2>. QED BY <1>1, <2>3, <2>4
<1>8. Accepts(bare) /\ Fits(full)
  <2>1. ev = bare \/ ev = Enriched(use, phase)
    BY Zenon DEF Reports
  <2>2. Fits(bare) /\ Fits(Enriched(use, phase))
    BY Zenon DEF Accepts, BadTurn
  <2>3. Fits(full) <=> Fits(ev)
    BY <1>3, SameSize, Zenon DEF Defaulted
  <2>. QED BY <2>1, <2>2, <2>3, Zenon
<1>9. bare.operator.id = "" /\ ~TooLong("")
  <2>1. bare.operator = Nobody
    BY <1>1, Zenon DEF Said
  <2>2. ~TooLong("")
    BY DEF TooLong, Long, LongPath
  <2>. QED BY <2>1, <2>2, NobodyIs, Zenon
<1>. HIDE DEF bare, full, use, own
<1>10. Accepts(full)
  <2>1. \A p \in {full.input, full.output, full.usage} : p.kind \notin {"empty", "huge"}
    BY <1>5, <1>6, <1>7, <1>8 DEF Accepts
  <2>2. \A s \in {full.operator.id, full.operator.name, full.correlation, full.agent,
                   full.model, full.capture, full.action} : ~TooLong(s)
    BY <1>4, <1>5, <1>6, <1>7, <1>8, <1>9, Zenon DEF Accepts
  <2>. QED BY <1>4, <1>5, <1>6, <1>8, <2>1, <2>2, Zenon DEF Accepts
<1>. QED BY <1>10 DEF full

(* The events of a call are its own.                                        *)
LEMMA CallsAre ==
    ASSUME RecordingInv
    PROVE  /\ session \in Sessions /\ DOMAIN session.uses \subseteq Calls
           /\ IsSeq(transcript) /\ IsSeq(rows) /\ OwnTurns
<1>1. TypeOK /\ OwnTurns
  BY DEF RecordingInv
<1>. QED BY <1>1, RecordingAssumption DEF TypeOK, SessionOK, IsSeq

(* A step that changes only the stages, the transcript and the reports.     *)
LEMMA ClientStep ==
    ASSUME RecordingInv, UNCHANGED <<session, wire, daemonVars, follower>>,
           stage' \in [Calls -> {"idle", "running", "done"}], IsSeq(transcript)',
           report' \in [Calls \X Phases ->
                            {"none", "started", "skipped", "refused", "unreachable", "sent"}],
           \A c \in Calls, phase \in Phases : report'[<<c, phase>>] = "sent" <=> report[<<c, phase>>] = "sent",
           OwnTurns', InStage'
    PROVE  RecordingInv'
<1>1. UNCHANGED <<session, wire, config, starts, rows, under, rejected, cut, follower>>
  BY DEF daemonVars
<1>2. TypeOK'
  <2>1. /\ session \in Sessions /\ rows \in Seq({rows[i] : i \in DOMAIN rows})
        /\ under \in Seq({s \in session.settings : Startable(s)}) /\ Len(under) = Len(rows)
        /\ config # None => config \in session.settings /\ Startable(config)
    BY Zenon DEF RecordingInv, TypeOK
  <2>. QED BY <1>1, <2>1, Zenon DEF TypeOK, IsSeq
<1>3. OneFate'
  BY <1>1, FatesKept
<1>4. UpToMark' /\ \A i \in DOMAIN rows' : Written(i)'
  BY <1>1, StoreKept
<1>. QED BY <1>2, <1>3, <1>4, Zenon DEF RecordingInv

(* What a refused report says stays so.                                     *)
LEMMA RefusalKept ==
    ASSUME InStage, session' = session, NEW c \in Calls, NEW phase \in Phases,
           report'[<<c, phase>>] = "refused" => report[<<c, phase>>] = "refused",
           c \in DOMAIN session'.uses /\ report'[<<c, phase>>] = "refused" /\ Use(c)'.client = "hook"
    PROVE  RefusedFor(Use(c), phase)'
<1>1. c \in DOMAIN session.uses /\ report[<<c, phase>>] = "refused" /\ Use(c).client = "hook"
  BY Zenon DEF Use
<1>2. RefusedFor(Use(c), phase)
  BY <1>1, Zenon DEF InStage
<1>. QED BY <1>2, Zenon DEF Use

(* A call goes on, and reports begin in the stages they belong to.          *)
LEMMA StageStep ==
    ASSUME RecordingInv, session' = session, NEW c \in Calls, c \in DOMAIN session.uses,
           \A d \in Calls : d # c => stage'[d] = stage[d],
           stage'[c] # "idle", stage[c] = "done" => stage'[c] = "done",
           \A d \in Calls, phase \in Phases :
              \/ report'[<<d, phase>>] = report[<<d, phase>>]
              \/ d = c /\ report'[<<d, phase>>] = "started" /\ (phase = "pre" \/ stage'[c] = "done")
    PROVE  InStage'
<1>1. InStage /\ "pre" \in Phases /\ "post" \in Phases /\ "failure" \in Phases
  BY DEF RecordingInv, Phases
<1>2. \A d \in Calls : stage'[d] # "idle" => d \in DOMAIN session'.uses
  BY <1>1, Zenon DEF InStage
<1>3. \A d \in Calls : stage'[d] = "idle" => report'[<<d, "pre">>] = "none"
  BY <1>1 DEF InStage
<1>4. \A d \in Calls : stage'[d] # "done" =>
          report'[<<d, "post">>] = "none" /\ report'[<<d, "failure">>] = "none"
  <2>1. SUFFICES ASSUME NEW d \in Calls, stage'[d] # "done"
                 PROVE  report'[<<d, "post">>] = "none" /\ report'[<<d, "failure">>] = "none"
    OBVIOUS
  <2>2. stage[d] # "done"
    BY <2>1
  <2>3. report[<<d, "post">>] = "none" /\ report[<<d, "failure">>] = "none"
    BY <1>1, <2>2, Zenon DEF InStage
  <2>. QED BY <1>1, <2>1, <2>3
<1>5. \A d \in Calls, phase \in Phases : report'[<<d, phase>>] # "none" => d \in DOMAIN session'.uses
  BY <1>1 DEF InStage
<1>6. \A d \in Calls, phase \in Phases :
          d \in DOMAIN session'.uses /\ report'[<<d, phase>>] = "refused" /\ Use(d)'.client = "hook" =>
              RefusedFor(Use(d), phase)'
  <2>1. \A d \in Calls, phase \in Phases :
            report'[<<d, phase>>] = "refused" => report[<<d, phase>>] = "refused"
    OBVIOUS
  <2>. QED BY <1>1, <2>1, RefusalKept, Zenon
<1>. QED BY <1>2, <1>3, <1>4, <1>5, <1>6, Zenon DEF InStage

(* The runtime starts a call.                                               *)
LEMMA BeginStep ==
    ASSUME RecordingInv, NEW c \in Calls, Begin(c)
    PROVE  RecordingInv'
<1>1. /\ c \in DOMAIN session.uses /\ stage[c] = "idle"
      /\ stage' = [stage EXCEPT ![c] = "running"]
      /\ report' = (IF Use(c).client = "hook" THEN [report EXCEPT ![<<c, "pre">>] = "started"] ELSE report)
      /\ UNCHANGED <<session, transcript, wire, daemonVars, follower>>
  BY Zenon DEF Begin
<1>2. TypeOK /\ InStage /\ OwnTurns /\ IsSeq(transcript)
  BY CallsAre, Zenon DEF RecordingInv
<1>3. /\ stage \in [Calls -> {"idle", "running", "done"}]
      /\ report \in [Calls \X Phases ->
                        {"none", "started", "skipped", "refused", "unreachable", "sent"}]
  BY <1>2, Zenon DEF TypeOK
<1>4. stage' \in [Calls -> {"idle", "running", "done"}] /\ \A d \in Calls : d # c => stage'[d] = stage[d]
  BY <1>1, <1>3
<1>5. /\ report' \in [Calls \X Phases ->
                         {"none", "started", "skipped", "refused", "unreachable", "sent"}]
      /\ \A d \in Calls, phase \in Phases :
            \/ report'[<<d, phase>>] = report[<<d, phase>>]
            \/ d = c /\ phase = "pre" /\ report'[<<d, phase>>] = "started"
      /\ report[<<c, "pre">>] = "none"
  <2>1. <<c, "pre">> \in Calls \X Phases
    BY DEF Phases
  <2>2. report[<<c, "pre">>] = "none"
    BY <1>1, <1>2, Zenon DEF InStage
  <2>3. report' = report \/ report' = [report EXCEPT ![<<c, "pre">>] = "started"]
    BY <1>1, Zenon
  <2>. QED BY <1>3, <2>1, <2>2, <2>3
<1>6. stage'[c] = "running"
  BY <1>1, <1>3
<1>7. OwnTurns'
  BY <1>1, <1>2 DEF OwnTurns, Use, Line
<1>8. InStage'
  BY <1>1, <1>4, <1>5, <1>6, StageStep
<1>. QED BY <1>1, <1>2, <1>4, <1>5, <1>7, <1>8, ClientStep

(* The runtime writes the turn of a call into its transcript.               *)
LEMMA TurnStep ==
    ASSUME RecordingInv, NEW c \in Calls, Turn(c)
    PROVE  RecordingInv'
<1>1. /\ stage[c] # "idle" /\ Use(c).client = "hook"
      /\ transcript' = Append(transcript, Line(c, "assistant", Use(c).line))
      /\ UNCHANGED <<session, stage, report, wire, daemonVars, follower>>
  BY Zenon DEF Turn
<1>2. TypeOK /\ InStage /\ OwnTurns /\ IsSeq(transcript)
  BY CallsAre, Zenon DEF RecordingInv
<1>3. /\ stage' \in [Calls -> {"idle", "running", "done"}]
      /\ report' \in [Calls \X Phases ->
                         {"none", "started", "skipped", "refused", "unreachable", "sent"}]
  BY <1>1, <1>2 DEF TypeOK
<1>4. c \in DOMAIN session.uses
  BY <1>1, <1>2, Zenon DEF InStage
<1>5. /\ IsSeq(transcript') /\ DOMAIN transcript' = 1..Len(transcript) + 1
      /\ DOMAIN transcript = 1..Len(transcript)
      /\ \A i \in 1..Len(transcript) : transcript'[i] = transcript[i]
      /\ transcript'[Len(transcript) + 1] = Line(c, "assistant", Use(c).line)
      /\ Len(transcript) \in Nat
  BY <1>1, <1>2, AppendIs
<1>6. OwnTurns'
  <2>1. SUFFICES ASSUME NEW i \in DOMAIN transcript', transcript'[i].type = "assistant"
                 PROVE  \E d \in DOMAIN session.uses :
                            Use(d).client = "hook" /\ transcript'[i] = Line(d, "assistant", Use(d).line)
    BY <1>1, Zenon DEF OwnTurns, Use, Line
  <2>2. CASE i \in 1..Len(transcript)
    BY <1>2, <1>5, <2>1, <2>2, Zenon DEF OwnTurns
  <2>3. CASE i = Len(transcript) + 1
    BY <1>1, <1>4, <1>5, <2>3, Zenon
  <2>. QED BY <1>5, <2>1, <2>2, <2>3
<1>7. InStage'
  BY <1>1, <1>4, StageStep
<1>. QED BY <1>1, <1>3, <1>5, <1>6, <1>7, ClientStep

(* A call ends.                                                             *)
LEMMA EndStep ==
    ASSUME RecordingInv, NEW c \in Calls, End(c)
    PROVE  RecordingInv'
<1>. DEFINE at == <<c, IF Use(c).failed THEN "failure" ELSE "post">>
            line == Line(c, "user", "good")
<1>1. /\ stage[c] = "running" /\ stage' = [stage EXCEPT ![c] = "done"]
      /\ report' = [report EXCEPT ![at] = "started"]
      /\ transcript' = Append(transcript, line) \/ transcript' = transcript
      /\ UNCHANGED <<session, wire, daemonVars, follower>>
  BY Zenon DEF End
<1>2. TypeOK /\ InStage /\ OwnTurns /\ IsSeq(transcript)
  BY CallsAre, Zenon DEF RecordingInv
<1>3. /\ stage \in [Calls -> {"idle", "running", "done"}]
      /\ report \in [Calls \X Phases ->
                        {"none", "started", "skipped", "refused", "unreachable", "sent"}]
  BY <1>2, Zenon DEF TypeOK
<1>4. /\ stage' \in [Calls -> {"idle", "running", "done"}] /\ stage'[c] = "done"
      /\ \A d \in Calls : d # c => stage'[d] = stage[d]
  BY <1>1, <1>3
<1>5. at \in Calls \X Phases /\ report[at] = "none"
  <2>1. report[<<c, "post">>] = "none" /\ report[<<c, "failure">>] = "none"
    BY <1>1, <1>2 DEF InStage
  <2>. QED BY <2>1 DEF Phases
<1>6. /\ report' \in [Calls \X Phases ->
                         {"none", "started", "skipped", "refused", "unreachable", "sent"}]
      /\ \A d \in Calls, phase \in Phases :
            \/ report'[<<d, phase>>] = report[<<d, phase>>]
            \/ <<d, phase>> = at /\ report'[<<d, phase>>] = "started" /\ report[<<d, phase>>] = "none"
  <2>. HIDE DEF at
  <2>. QED BY <1>1, <1>3, <1>5
<1>7. \A d \in Calls, phase \in Phases : <<d, phase>> = at => d = c
  OBVIOUS
<1>8. c \in DOMAIN session.uses
  BY <1>1, <1>2 DEF InStage
<1>9. IsSeq(transcript') /\ OwnTurns'
  <2>1. CASE transcript' = transcript
    BY <1>1, <1>2, <2>1, Zenon DEF OwnTurns, Use, Line
  <2>2. CASE transcript' = Append(transcript, line)
    <3>1. line.type = "user"
      BY DEF Line
    <3>. HIDE DEF line
    <3>2. /\ IsSeq(transcript') /\ DOMAIN transcript' = 1..Len(transcript) + 1
          /\ DOMAIN transcript = 1..Len(transcript) /\ Len(transcript) \in Nat
          /\ \A i \in 1..Len(transcript) : transcript'[i] = transcript[i]
          /\ transcript'[Len(transcript) + 1] = line
      BY <1>2, <2>2, AppendIs
    <3>3. SUFFICES ASSUME NEW i \in DOMAIN transcript', transcript'[i].type = "assistant"
                   PROVE  \E d \in DOMAIN session.uses :
                              Use(d).client = "hook" /\ transcript'[i] = Line(d, "assistant", Use(d).line)
      BY <1>1, <3>2, Zenon DEF OwnTurns, Use, Line
    <3>4. i \in 1..Len(transcript)
      BY <3>1, <3>2, <3>3
    <3>. QED BY <1>2, <3>2, <3>3, <3>4, Zenon DEF OwnTurns
  <2>. QED BY <1>1, <2>1, <2>2
<1>. HIDE DEF at
<1>10. InStage'
  BY <1>1, <1>4, <1>6, <1>7, <1>8, StageStep
<1>. QED BY <1>1, <1>4, <1>6, <1>9, <1>10, ClientStep

(* A report ends, and what is said of a refused one is true.                *)
LEMMA ReportStage ==
    ASSUME RecordingInv, UNCHANGED <<session, stage>>, NEW c \in Calls, NEW phase \in Phases,
           report[<<c, phase>>] = "started",
           NEW how \in {"skipped", "refused", "unreachable", "sent"},
           report' = [report EXCEPT ![<<c, phase>>] = how],
           how = "refused" /\ Use(c).client = "hook" =>
               RefusedFor(Use(c), phase)
    PROVE  /\ InStage' /\ c \in DOMAIN session.uses
           /\ report' \in [Calls \X Phases ->
                              {"none", "started", "skipped", "refused", "unreachable", "sent"}]
           /\ report'[<<c, phase>>] = how
           /\ \A d \in Calls, p \in Phases :
                 <<d, p>> # <<c, phase>> => report'[<<d, p>>] = report[<<d, p>>]
<1>1. /\ InStage /\ "pre" \in Phases /\ "post" \in Phases /\ "failure" \in Phases
      /\ report \in [Calls \X Phases ->
                        {"none", "started", "skipped", "refused", "unreachable", "sent"}]
  BY DEF RecordingInv, TypeOK, Phases
<1>. DEFINE at == <<c, phase>>
<1>2. at \in Calls \X Phases /\ report[at] = "started" /\ report' = [report EXCEPT ![at] = how]
  OBVIOUS
<1>. HIDE DEF at
<1>3. /\ report' \in [Calls \X Phases ->
                         {"none", "started", "skipped", "refused", "unreachable", "sent"}]
      /\ report'[at] = how
      /\ \A d \in Calls, p \in Phases : <<d, p>> # at => report'[<<d, p>>] = report[<<d, p>>]
  BY <1>1, <1>2
<1>4. c \in DOMAIN session.uses
  BY <1>1, Zenon DEF InStage
<1>5. \A d \in Calls, p \in Phases : report'[<<d, p>>] # "none" => report[<<d, p>>] # "none"
  BY <1>2, <1>3
<1>6. \A d \in Calls : stage'[d] # "idle" => d \in DOMAIN session'.uses
  BY <1>1, Zenon DEF InStage
<1>7. \A d \in Calls : stage'[d] = "idle" => report'[<<d, "pre">>] = "none"
  BY <1>1, <1>5 DEF InStage
<1>8. \A d \in Calls : stage'[d] # "done" =>
          report'[<<d, "post">>] = "none" /\ report'[<<d, "failure">>] = "none"
  BY <1>1, <1>5 DEF InStage
<1>9. \A d \in Calls, p \in Phases : report'[<<d, p>>] # "none" => d \in DOMAIN session'.uses
  BY <1>1, <1>5 DEF InStage
<1>10. \A d \in Calls, p \in Phases :
          d \in DOMAIN session'.uses /\ report'[<<d, p>>] = "refused" /\ Use(d)'.client = "hook" =>
              RefusedFor(Use(d), p)'
  <2>1. SUFFICES ASSUME NEW d \in Calls, NEW p \in Phases, d \in DOMAIN session'.uses,
                        report'[<<d, p>>] = "refused", Use(d)'.client = "hook"
                 PROVE  RefusedFor(Use(d), p)'
    OBVIOUS
  <2>2. CASE <<d, p>> = at
    <3>1. d = c /\ p = phase
      BY <2>2 DEF at
    <3>2. how = "refused"
      BY <1>3, <2>1, <2>2
    <3>3. Use(c).client = "hook"
      BY <2>1, <3>1, Zenon DEF Use
    <3>4. RefusedFor(Use(c), phase)
      BY <3>2, <3>3
    <3>. QED BY <3>1, <3>4, Zenon DEF Use
  <2>3. CASE <<d, p>> # at
    <3>1. report[<<d, p>>] = "refused"
      BY <1>3, <2>1, <2>3
    <3>. QED BY <1>1, <2>1, <3>1, RefusalKept, Zenon
  <2>. QED BY <2>2, <2>3
<1>11. InStage'
  BY <1>6, <1>7, <1>8, <1>9, <1>10, Zenon DEF InStage
<1>. QED BY <1>3, <1>4, <1>11 DEF at

(* The frame of a report says what the call was.                            *)
LEMMA FrameIs ==
    ASSUME RecordingInv, NEW c \in DOMAIN session.uses, NEW phase \in Phases,
           IF Use(c).client = "port" THEN Fits(FrameOf(c, phase).event) ELSE Accepts(FrameOf(c, phase).event)
    PROVE  /\ IsFrame(FrameOf(c, phase))
           /\ FrameOf(c, phase).call = c /\ FrameOf(c, phase).phase = phase
<1>. DEFINE frame == FrameOf(c, phase)
<1>1. /\ frame.call = c /\ frame.phase = phase
      /\ frame.event = WithDefaults(EventOf(c, phase), Use(c).operator)
      /\ frame = [call |-> c, phase |-> phase,
                   event |-> WithDefaults(EventOf(c, phase), Use(c).operator)]
  BY DEF FrameOf
<1>2. EventOf(c, phase) \in Reports(Use(c), phase)
  BY CallsAre, EventIsReport
<1>3. IF Use(c).client = "port" THEN Fits(frame.event) ELSE Accepts(frame.event)
  OBVIOUS
<1>. HIDE DEF frame
<1>4. IsFrame(frame)
  BY <1>1, <1>2, <1>3, Zenon DEF IsFrame
<1>. QED BY <1>1, <1>4 DEF frame

(* What was refused of a hook would have been refused without the turn, or  *)
(* the turn is a bad one.                                                   *)
LEMMA RefusedForTheCall ==
    ASSUME RecordingInv, NEW c \in DOMAIN session.uses, NEW phase \in Phases,
           Use(c).client = "hook",
           StdinCut(Use(c), phase) \/ ~Accepts(FrameOf(c, phase).event)
    PROVE  RefusedFor(Use(c), phase)
<1>1. FrameOf(c, phase).event = WithDefaults(EventOf(c, phase), Use(c).operator)
  BY DEF FrameOf
<1>2. session \in Sessions /\ EventOf(c, phase) \in Reports(Use(c), phase)
  BY CallsAre, EventIsReport
<1>3. ASSUME ~BadTurn(Use(c), phase), Accepts(BareEvent(Use(c), phase))
      PROVE  Accepts(FrameOf(c, phase).event)
  BY <1>1, <1>2, <1>3, EnrichedAccepted, Zenon
<1>. QED BY <1>3, Zenon DEF RefusedFor

(* A client reports a phase of a call, or is refused.                       *)
LEMMA ReportStep ==
    ASSUME RecordingInv, NEW c \in Calls, NEW phase \in Phases, Report(c, phase)
    PROVE  RecordingInv'
<1>. DEFINE frame == FrameOf(c, phase)
<1>1. /\ report[<<c, phase>>] = "started"
      /\ UNCHANGED <<session, stage, transcript, daemonVars, follower>>
      /\ \/ /\ UNCHANGED wire
            /\ \/ report' = [report EXCEPT ![<<c, phase>>] = "skipped"]
               \/ /\ report' = [report EXCEPT ![<<c, phase>>] = "refused"]
                  /\ Use(c).client = "hook" =>
                        StdinCut(Use(c), phase) \/ ~Accepts(frame.event)
               \/ report' = [report EXCEPT ![<<c, phase>>] = "unreachable"]
         \/ /\ wire' = wire \union {frame}
            /\ IF Use(c).client = "port" THEN Fits(frame.event) ELSE Accepts(frame.event)
            /\ report' = [report EXCEPT ![<<c, phase>>] = "sent"]
  <2>. DEFINE use   == Use(c)
              whole == use.client = "hook" => ~StdinCut(use, phase)
              valid == whole /\ IF use.client = "port" THEN Fits(frame.event) ELSE Accepts(frame.event)
              Ends(how) == report' = [report EXCEPT ![<<c, phase>>] = how]
  <2>1. /\ report[<<c, phase>>] = "started"
        /\ UNCHANGED <<session, stage, transcript, daemonVars, follower>>
        /\ \/ Ends("skipped") /\ UNCHANGED wire
           \/ ~valid /\ Ends("refused") /\ UNCHANGED wire
           \/ Ends("unreachable") /\ UNCHANGED wire
           \/ valid /\ Ends("sent") /\ wire' = wire \union {frame}
    BY Zenon DEF Report
  <2>2. ~valid /\ use.client = "hook" => StdinCut(use, phase) \/ ~Accepts(frame.event)
    OBVIOUS
  <2>. HIDE DEF frame
  <2>. QED BY <2>1, <2>2, Zenon
<1>2. c \in DOMAIN session.uses /\ TypeOK /\ OwnTurns /\ IsSeq(transcript) /\ session \in Sessions
  BY <1>1, CallsAre, Zenon DEF RecordingInv, InStage
<1>3. UNCHANGED <<session, stage, transcript, config, starts, rows, under, rejected, cut, follower>>
  BY <1>1 DEF daemonVars
<1>4. /\ stage' \in [Calls -> {"idle", "running", "done"}] /\ IsSeq(transcript') /\ OwnTurns'
  BY <1>2, <1>3 DEF TypeOK, OwnTurns, Use, Line
<1>5. CASE wire' = wire /\ \E how \in {"skipped", "refused", "unreachable"} :
                /\ report' = [report EXCEPT ![<<c, phase>>] = how]
                /\ how = "refused" /\ Use(c).client = "hook" =>
                       StdinCut(Use(c), phase) \/ ~Accepts(frame.event)
  <2>1. PICK how \in {"skipped", "refused", "unreachable"} :
            /\ report' = [report EXCEPT ![<<c, phase>>] = how]
            /\ how = "refused" /\ Use(c).client = "hook" =>
                   StdinCut(Use(c), phase) \/ ~Accepts(frame.event)
    BY <1>5
  <2>2. how = "refused" /\ Use(c).client = "hook" =>
            RefusedFor(Use(c), phase)
    BY <1>2, <2>1, RefusedForTheCall, Zenon
  <2>3. /\ InStage' /\ report'[<<c, phase>>] = how
        /\ report' \in [Calls \X Phases ->
                           {"none", "started", "skipped", "refused", "unreachable", "sent"}]
        /\ \A d \in Calls, p \in Phases :
              <<d, p>> # <<c, phase>> => report'[<<d, p>>] = report[<<d, p>>]
    BY <1>1, <1>3, <2>1, <2>2, ReportStage
  <2>4. \A d \in Calls, p \in Phases : report'[<<d, p>>] = "sent" <=> report[<<d, p>>] = "sent"
    BY <1>1, <2>1, <2>3
  <2>. QED BY <1>1, <1>4, <1>5, <2>3, <2>4, ClientStep
<1>6. CASE /\ wire' = wire \union {frame} /\ report' = [report EXCEPT ![<<c, phase>>] = "sent"]
           /\ IF Use(c).client = "port" THEN Fits(frame.event) ELSE Accepts(frame.event)
  <2>1. /\ InStage' /\ report'[<<c, phase>>] = "sent"
        /\ report' \in [Calls \X Phases ->
                           {"none", "started", "skipped", "refused", "unreachable", "sent"}]
        /\ \A d \in Calls, p \in Phases :
              <<d, p>> # <<c, phase>> => report'[<<d, p>>] = report[<<d, p>>]
    BY <1>1, <1>3, <1>6, ReportStage
  <2>2. IsFrame(frame) /\ frame.call = c /\ frame.phase = phase
    BY <1>2, <1>6, FrameIs
  <2>. HIDE DEF frame
  <2>3. TypeOK'
    BY <1>2, <1>3, <1>4, <2>1 DEF TypeOK, IsSeq
  <2>4. UpToMark' /\ \A i \in DOMAIN rows' : Written(i)'
    BY <1>3, StoreKept
  <2>5. OneFate'
    <3>1. Held' = Held \union {frame}
      BY <1>3, <1>6 DEF Held
    <3>2. \A f : IsFrame(f)' <=> IsFrame(f)
      BY <1>3, Zenon DEF IsFrame, Use
    <3>3. \A f \in Held : /\ IsFrame(f) /\ f.call \in Calls /\ f.phase \in Phases
                          /\ report[<<f.call, f.phase>>] = "sent"
                          /\ report'[<<f.call, f.phase>>] = "sent"
                          /\ ~SameReport(f, frame)
      <4>1. SUFFICES ASSUME NEW f \in Held
                     PROVE  /\ IsFrame(f) /\ f.call \in Calls /\ f.phase \in Phases
                            /\ report[<<f.call, f.phase>>] = "sent"
                            /\ report'[<<f.call, f.phase>>] = "sent"
                            /\ ~SameReport(f, frame)
        OBVIOUS
      <4>2. IsFrame(f) /\ report[<<f.call, f.phase>>] = "sent"
        BY <4>1, Zenon DEF RecordingInv, OneFate
      <4>3. f.call \in Calls /\ f.phase \in Phases
        BY <4>2, CallsAre DEF IsFrame
      <4>4. <<f.call, f.phase>> # <<c, phase>>
        BY <1>1, <4>2
      <4>. QED BY <2>1, <2>2, <4>2, <4>3, <4>4 DEF SameReport
    <3>4. \A i \in DOMAIN rows : /\ rows[i].call \in Calls /\ rows[i].phase \in Phases
                                 /\ report[<<rows[i].call, rows[i].phase>>] = "sent"
                                 /\ report'[<<rows[i].call, rows[i].phase>>] = "sent"
                                 /\ ~SameReport(frame, rows[i])
      <4>1. SUFFICES ASSUME NEW i \in DOMAIN rows
                     PROVE  /\ rows[i].call \in Calls /\ rows[i].phase \in Phases
                            /\ report[<<rows[i].call, rows[i].phase>>] = "sent"
                            /\ report'[<<rows[i].call, rows[i].phase>>] = "sent"
                            /\ ~SameReport(frame, rows[i])
        OBVIOUS
      <4>2. rows[i].call \in Calls /\ rows[i].phase \in Phases
        BY <4>1, FrameOfRow
      <4>3. report[<<rows[i].call, rows[i].phase>>] = "sent"
        BY <4>1, Zenon DEF RecordingInv, OneFate
      <4>4. <<rows[i].call, rows[i].phase>> # <<c, phase>>
        BY <1>1, <4>3
      <4>. QED BY <2>1, <2>2, <4>2, <4>3, <4>4 DEF SameReport
    <3>5. \A f \in Held' : IsFrame(f)' /\ report'[<<f.call, f.phase>>] = "sent"
      BY <2>1, <2>2, <3>1, <3>2, <3>3
    <3>6. \A f, g \in Held' : SameReport(f, g) => f = g
      <4>1. \A f, g \in Held : SameReport(f, g) => f = g
        BY Zenon DEF RecordingInv, OneFate
      <4>. QED BY <3>1, <3>3, <4>1 DEF SameReport
    <3>7. /\ (wire \cap (rejected \union cut))' = {} /\ (rejected \cap cut)' = {}
          /\ \A f \in rejected' : ~Recordable(f.event)
      <4>1. frame \notin Held
        BY <3>3 DEF SameReport
      <4>2. /\ wire \cap (rejected \union cut) = {} /\ rejected \cap cut = {}
            /\ \A f \in rejected : ~Recordable(f.event)
        BY Zenon DEF RecordingInv, OneFate
      <4>. QED BY <1>3, <1>6, <4>1, <4>2 DEF Held
    <3>8. \A i \in DOMAIN rows' :
              /\ report'[<<rows'[i].call, rows'[i].phase>>] = "sent"
              /\ \A f \in Held' : ~SameReport(f, rows'[i])
              /\ \A j \in DOMAIN rows' : SameReport(rows'[i], rows'[j]) => i = j
      <4>1. \A i \in DOMAIN rows :
                /\ \A f \in Held : ~SameReport(f, rows[i])
                /\ \A j \in DOMAIN rows : SameReport(rows[i], rows[j]) => i = j
        BY Zenon DEF RecordingInv, OneFate
      <4>. QED BY <1>3, <3>1, <3>4, <4>1
    <3>9. \A d \in Calls, p \in Phases : report'[<<d, p>>] = "sent" =>
              RowsOf(d, p)' # {} \/ \E f \in Held' : f.call = d /\ f.phase = p
      <4>1. SUFFICES ASSUME NEW d \in Calls, NEW p \in Phases, report'[<<d, p>>] = "sent"
                     PROVE  RowsOf(d, p)' # {} \/ \E f \in Held' : f.call = d /\ f.phase = p
        OBVIOUS
      <4>2. CASE <<d, p>> = <<c, phase>>
        BY <2>2, <3>1, <4>2
      <4>3. CASE <<d, p>> # <<c, phase>>
        <5>1. report[<<d, p>>] = "sent"
          BY <2>1, <4>1, <4>3
        <5>2. RowsOf(d, p) # {} \/ \E f \in Held : f.call = d /\ f.phase = p
          BY <5>1, Zenon DEF RecordingInv, OneFate
        <5>3. RowsOf(d, p)' = RowsOf(d, p)
          BY <1>3 DEF RowsOf
        <5>. QED BY <3>1, <5>2, <5>3
      <4>. QED BY <4>2, <4>3
    <3>. QED BY <3>5, <3>6, <3>7, <3>8, <3>9, Zenon DEF OneFate
  <2>. QED BY <1>4, <2>1, <2>3, <2>4, <2>5, Zenon DEF RecordingInv
<1>. QED BY <1>1, <1>5, <1>6
-----------------------------------------------------------------------------
(* The steps of the daemon. *)

(* What is true of the clients is so while they do nothing.                 *)
LEMMA ClientsKept ==
    ASSUME RecordingInv, UNCHANGED <<session, stage, transcript, report>>
    PROVE  /\ OwnTurns' /\ InStage' /\ session' \in Sessions
           /\ stage' \in [Calls -> {"idle", "running", "done"}]
           /\ transcript' \in Seq({transcript'[i] : i \in DOMAIN transcript'})
           /\ report' \in [Calls \X Phases ->
                              {"none", "started", "skipped", "refused", "unreachable", "sent"}]
<1>1. InStage /\ OwnTurns /\ TypeOK
  BY DEF RecordingInv
<1>2. OwnTurns'
  BY <1>1, Zenon DEF OwnTurns, Use, Line
<1>3. InStage'
  <2>1. \A c \in Calls, phase \in Phases :
          c \in DOMAIN session'.uses /\ report'[<<c, phase>>] = "refused" /\ Use(c)'.client = "hook" =>
              RefusedFor(Use(c), phase)'
    <3>1. \A c \in Calls, phase \in Phases :
              report'[<<c, phase>>] = "refused" => report[<<c, phase>>] = "refused"
      OBVIOUS
    <3>. QED BY <1>1, <3>1, RefusalKept, Zenon
  <2>2. /\ \A c \in Calls : stage'[c] # "idle" => c \in DOMAIN session'.uses
        /\ \A c \in Calls : stage'[c] = "idle" => report'[<<c, "pre">>] = "none"
        /\ \A c \in Calls : stage'[c] # "done" =>
              report'[<<c, "post">>] = "none" /\ report'[<<c, "failure">>] = "none"
        /\ \A c \in Calls, phase \in Phases :
              report'[<<c, phase>>] # "none" => c \in DOMAIN session'.uses
    BY <1>1, Zenon DEF InStage
  <2>. QED BY <2>1, <2>2, Zenon DEF InStage
<1>. QED BY <1>1, <1>2, <1>3, Zenon DEF TypeOK

(* The daemon starts with some settings.                                    *)
LEMMA StartStep ==
    ASSUME RecordingInv, NEW settings \in session.settings, Start(settings)
    PROVE  RecordingInv'
<1>1. /\ Startable(settings) /\ config' = settings
      /\ UNCHANGED <<session, stage, transcript, report, wire, rows, under, rejected, cut, follower>>
  BY DEF Start, clientVars
<1>2. /\ OwnTurns' /\ InStage' /\ session' \in Sessions
      /\ stage' \in [Calls -> {"idle", "running", "done"}]
      /\ transcript' \in Seq({transcript'[i] : i \in DOMAIN transcript'})
      /\ report' \in [Calls \X Phases ->
                         {"none", "started", "skipped", "refused", "unreachable", "sent"}]
  BY <1>1, ClientsKept
<1>3. TypeOK'
  <2>1. /\ rows \in Seq({rows[i] : i \in DOMAIN rows})
        /\ under \in Seq({s \in session.settings : Startable(s)}) /\ Len(under) = Len(rows)
    BY Zenon DEF RecordingInv, TypeOK
  <2>. QED BY <1>1, <1>2, <2>1, Zenon DEF TypeOK
<1>4. OneFate'
  BY <1>1, FatesKept
<1>5. UpToMark' /\ \A i \in DOMAIN rows' : Written(i)'
  BY <1>1, StoreKept
<1>. QED BY <1>2, <1>3, <1>4, <1>5, Zenon DEF RecordingInv

(* The frames of a daemon that stops are cut off.                           *)
LEMMA StopStep ==
    ASSUME RecordingInv, Stop
    PROVE  RecordingInv'
<1>1. /\ config' = None /\ cut' = cut \union wire /\ wire' = {}
      /\ UNCHANGED <<session, stage, transcript, report, rows, under, rejected, follower>>
  BY DEF Stop, clientVars
<1>2. /\ OwnTurns' /\ InStage' /\ session' \in Sessions
      /\ stage' \in [Calls -> {"idle", "running", "done"}]
      /\ transcript' \in Seq({transcript'[i] : i \in DOMAIN transcript'})
      /\ report' \in [Calls \X Phases ->
                         {"none", "started", "skipped", "refused", "unreachable", "sent"}]
  BY <1>1, ClientsKept
<1>3. TypeOK'
  <2>1. /\ rows \in Seq({rows[i] : i \in DOMAIN rows})
        /\ under \in Seq({s \in session.settings : Startable(s)}) /\ Len(under) = Len(rows)
    BY Zenon DEF RecordingInv, TypeOK
  <2>. QED BY <1>1, <1>2, <2>1, Zenon DEF TypeOK
<1>4. OneFate'
  <2>1. Held' = Held
    BY <1>1 DEF Held
  <2>2. \A f : IsFrame(f)' <=> IsFrame(f)
    BY <1>1, Zenon DEF IsFrame, Use
  <2>3. \A c, phase : RowsOf(c, phase)' = RowsOf(c, phase)
    BY <1>1 DEF RowsOf
  <2>4. OneFate
    BY DEF RecordingInv
  <2>5. /\ (wire \cap (rejected \union cut))' = {} /\ (rejected \cap cut)' = {}
        /\ \A f \in rejected' : ~Recordable(f.event)
    BY <1>1, <2>4 DEF OneFate
  <2>6. /\ \A f \in Held' : IsFrame(f)' /\ report'[<<f.call, f.phase>>] = "sent"
        /\ \A f, g \in Held' : SameReport(f, g) => f = g
    BY <1>1, <2>1, <2>2, <2>4, Zenon DEF OneFate
  <2>7. \A i \in DOMAIN rows' :
            /\ report'[<<rows'[i].call, rows'[i].phase>>] = "sent"
            /\ \A f \in Held' : ~SameReport(f, rows'[i])
            /\ \A j \in DOMAIN rows' : SameReport(rows'[i], rows'[j]) => i = j
    BY <1>1, <2>1, <2>4, Zenon DEF OneFate
  <2>8. \A c \in Calls, phase \in Phases : report'[<<c, phase>>] = "sent" =>
            RowsOf(c, phase)' # {} \/ \E f \in Held' : f.call = c /\ f.phase = phase
    BY <1>1, <2>1, <2>3, <2>4 DEF OneFate
  <2>. QED BY <2>5, <2>6, <2>7, <2>8, Zenon DEF OneFate
<1>5. UpToMark' /\ \A i \in DOMAIN rows' : Written(i)'
  BY <1>1, StoreKept
<1>. QED BY <1>2, <1>3, <1>4, <1>5, Zenon DEF RecordingInv

(* An altered receipt stays one when an envelope is altered again.          *)
Damaged(row, field) == [row EXCEPT ![field].intact = FALSE]
StillAltered(now, row, r) ==
    /\ Altered(now, r)
    /\ \A other \in DOMAIN r \ {"params", "response"} : now[other] = row[other]

(* A second alteration of a receipt is one alteration more, and no other change. *)
LEMMA AlteredAgain ==
    ASSUME NEW r, "params" \in DOMAIN r, "response" \in DOMAIN r, NEW row, Altered(row, r),
           NEW field \in {"params", "response"}, row[field] # None
    PROVE  StillAltered(Damaged(row, field), row, r)
<1>. DEFINE now == Damaged(row, field)
<1>1. PICK p \in Envelopes(r.params), q \in Envelopes(r.response) :
          row = [r EXCEPT !.params = p, !.response = q]
  BY Zenon DEF Altered
<1>2. row.params = p /\ row.response = q /\ DOMAIN row = DOMAIN r
  BY <1>1
<1>3. ASSUME NEW e, NEW x \in Envelopes(e), x # None
      PROVE  [x EXCEPT !.intact = FALSE] \in Envelopes(e)
  <2>1. e # None /\ (x = e \/ x = [e EXCEPT !.intact = FALSE])
    BY <1>3, Zenon DEF Envelopes
  <2>2. [[e EXCEPT !.intact = FALSE] EXCEPT !.intact = FALSE] = [e EXCEPT !.intact = FALSE]
    OBVIOUS
  <2>. QED BY <2>1, <2>2, Zenon DEF Envelopes
<1>4. CASE field = "params"
  <2>. DEFINE x == [p EXCEPT !.intact = FALSE]
  <2>1. x \in Envelopes(r.params)
    BY <1>2, <1>3, <1>4
  <2>2. now = [row EXCEPT !.params = x]
    BY <1>2, <1>4 DEF Damaged
  <2>. HIDE DEF x, now
  <2>3. now = [r EXCEPT !.params = x, !.response = q]
    BY <1>1, <2>2
  <2>4. Altered(now, r)
    BY <2>1, <2>3, Zenon DEF Altered
  <2>5. \A other \in DOMAIN r \ {"params", "response"} : now[other] = row[other]
    BY <1>2, <2>2
  <2>. QED BY <2>4, <2>5, Zenon DEF StillAltered, now
<1>5. CASE field = "response"
  <2>. DEFINE x == [q EXCEPT !.intact = FALSE]
  <2>1. x \in Envelopes(r.response)
    BY <1>2, <1>3, <1>5
  <2>2. now = [row EXCEPT !.response = x]
    BY <1>2, <1>5 DEF Damaged
  <2>. HIDE DEF x, now
  <2>3. now = [r EXCEPT !.params = p, !.response = x]
    BY <1>1, <2>2
  <2>4. Altered(now, r)
    BY <2>1, <2>3, Zenon DEF Altered
  <2>5. \A other \in DOMAIN r \ {"params", "response"} : now[other] = row[other]
    BY <1>2, <2>2
  <2>. QED BY <2>4, <2>5, Zenon DEF StillAltered, now
<1>. QED BY <1>4, <1>5

(* What a filter finds among the rows there were, it finds when more are    *)
(* written and when envelopes are altered.                                  *)
LEMMA FoundKept ==
    ASSUME NEW r, NEW s, NEW q, NEW n \in Nat, Len(r) \in Nat, Len(s) \in Nat,
           n <= Len(r), n <= Len(s),
           \A i \in 1..n : \A field \in {"chain", "action", "risk", "status"} : r[i][field] = s[i][field]
    PROVE  /\ \A i \in 1..n : i \in Found(r, q, 0) <=> i \in Found(s, q, 0)
           /\ Found(r, q, 0) \subseteq 1..Len(r) /\ Found(s, q, 0) \subseteq 1..Len(s)
<1>1. \A i \in 1..n : Matches(r[i], q) <=> Matches(s[i], q)
  BY DEF Matches
<1>. QED BY <1>1 DEF Found, MaxRowID

(* What a follower has seen stays what it has seen when receipts are added or altered. *)
LEMMA MarkKept ==
    ASSUME RecordingInv, UNCHANGED <<session, follower>>, Len(rows') \in Nat, Len(rows) <= Len(rows'),
           \A i \in 1..Len(rows) :
              \A field \in {"chain", "action", "risk", "status"} : rows'[i][field] = rows[i][field]
    PROVE  UpToMark'
<1>1. SUFFICES ASSUME follower # None PROVE UpToMark'
  BY DEF UpToMark
<1>. DEFINE q == session.follow
            old == Found(rows, q, 0)
            new == Found(rows', q, 0)
<1>2. /\ q \in AnyQuery /\ follower.from \in Nat /\ follower.mark \in follower.from..Len(rows)
      /\ follower.shown \in Seq(Nat)
      /\ \A i, j \in DOMAIN follower.shown : i < j => follower.shown[i] < follower.shown[j]
      /\ ToSet(follower.shown) = {i \in old : follower.from < i /\ i <= follower.mark}
      /\ q.limit = None => follower.first = {i \in old : i <= follower.from}
  BY <1>1, Zenon DEF RecordingInv, UpToMark, FollowedOnce
<1>3. Len(rows) \in Nat
  BY CallsAre, AppendIs
<1>4. /\ \A i \in 1..Len(rows) : i \in new <=> i \in old
      /\ new \subseteq 1..Len(rows') /\ old \subseteq 1..Len(rows)
  BY <1>3, FoundKept
<1>. HIDE DEF q, old, new
<1>5. /\ {i \in new : follower.from < i /\ i <= follower.mark} =
            {i \in old : follower.from < i /\ i <= follower.mark}
      /\ {i \in new : i <= follower.from} = {i \in old : i <= follower.from}
      /\ follower.mark \in follower.from..Len(rows')
  <2>1. \A k \in 1..Len(rows') : k <= follower.mark => (k \in new <=> k \in old)
    BY <1>2, <1>3, <1>4
  <2>2. \A k : k \in new \union old => k \in 1..Len(rows')
    BY <1>3, <1>4
  <2>3. \A k \in 1..Len(rows') : k <= follower.from => k <= follower.mark
    BY <1>2
  <2>4. follower.mark \in follower.from..Len(rows')
    BY <1>2, <1>3
  <2>. QED BY <2>1, <2>2, <2>3, <2>4
<1>6. /\ session'.follow = q /\ Found(rows, session.follow, 0)' = new
      /\ follower' = follower
  BY DEF q, new
<1>7. FollowedOnce'
  BY <1>2, <1>5, <1>6 DEF FollowedOnce
<1>. QED BY <1>2, <1>5, <1>6, <1>7, Zenon DEF UpToMark

(* Somebody alters an envelope.                                             *)
LEMMA DamageStep ==
    ASSUME RecordingInv, NEW i \in DOMAIN rows, NEW field \in {"params", "response"}, Damage(i, field)
    PROVE  RecordingInv'
<1>1. /\ rows[i][field] # None
      /\ rows' = [rows EXCEPT ![i][field].intact = FALSE]
      /\ UNCHANGED <<session, stage, transcript, report, wire, config, under, rejected, cut, follower>>
  BY DEF Damage, clientVars
<1>2. /\ OwnTurns' /\ InStage' /\ session' \in Sessions
      /\ stage' \in [Calls -> {"idle", "running", "done"}]
      /\ transcript' \in Seq({transcript'[j] : j \in DOMAIN transcript'})
      /\ report' \in [Calls \X Phases ->
                         {"none", "started", "skipped", "refused", "unreachable", "sent"}]
  BY <1>1, ClientsKept
<1>3. /\ IsSeq(rows) /\ Len(rows) \in Nat /\ DOMAIN rows = 1..Len(rows)
  BY CallsAre, AppendIs
<1>. DEFINE row == [rows[i] EXCEPT ![field].intact = FALSE]
<1>4. rows' = [rows EXCEPT ![i] = row]
  BY <1>1
<1>5. PICK f : /\ IsFrame(f) /\ Recordable(f.event)
               /\ Altered(rows[i], ReceiptOf(f, under[i], rows[i].seq))
  BY Zenon DEF RecordingInv, Written
<1>. DEFINE r == ReceiptOf(f, under[i], rows[i].seq)
<1>6. /\ DOMAIN r = {"call", "phase", "chain", "seq", "status", "action", "risk", "target", "correlation",
                     "operator", "runtime", "paramsHash", "responseHash", "params", "response",
                     "error", "preview"}
  BY DEF ReceiptOf
<1>7. Altered(row, r) /\ \A other \in DOMAIN r \ {"params", "response"} : row[other] = rows[i][other]
  <2>1. row = Damaged(rows[i], field) /\ Altered(rows[i], r)
    BY <1>5 DEF Damaged
  <2>2. "params" \in DOMAIN r /\ "response" \in DOMAIN r
    BY <1>6
  <2>. HIDE DEF row, r
  <2>3. StillAltered(row, rows[i], r)
    BY <1>1, <2>1, <2>2, AlteredAgain, Zenon
  <2>. QED BY <2>3, Zenon DEF StillAltered
<1>. HIDE DEF row
<1>8. /\ row.call = rows[i].call /\ row.phase = rows[i].phase /\ row.chain = rows[i].chain
      /\ row.seq = rows[i].seq /\ row.action = rows[i].action /\ row.risk = rows[i].risk
      /\ row.status = rows[i].status
  <2>. HIDE DEF r
  <2>. QED BY <1>6, <1>7
<1>9. /\ DOMAIN rows' = 1..Len(rows) /\ rows'[i] = row /\ \A j \in 1..Len(rows) : j # i => rows'[j] = rows[j]
      /\ rows' \in Seq({rows'[j] : j \in DOMAIN rows'}) /\ Len(rows') = Len(rows)
  <2>1. DOMAIN rows' = 1..Len(rows) /\ rows'[i] = row /\ \A j \in 1..Len(rows) : j # i => rows'[j] = rows[j]
    BY <1>3, <1>4
  <2>2. rows' = [j \in 1..Len(rows) |-> rows'[j]]
    BY <1>3, <1>4
  <2>3. rows' \in [1..Len(rows) -> {rows'[j] : j \in DOMAIN rows'}]
    BY <2>1, <2>2
  <2>. QED BY <1>3, <2>1, <2>3
<1>10. \A j \in 1..Len(rows) :
          /\ rows'[j].call = rows[j].call /\ rows'[j].phase = rows[j].phase
          /\ rows'[j].chain = rows[j].chain /\ rows'[j].seq = rows[j].seq
          /\ rows'[j].action = rows[j].action /\ rows'[j].risk = rows[j].risk
          /\ rows'[j].status = rows[j].status
  BY <1>8, <1>9
<1>11. TypeOK'
  <2>1. /\ under \in Seq({s \in session.settings : Startable(s)}) /\ Len(under) = Len(rows)
        /\ config # None => config \in session.settings /\ Startable(config)
    BY Zenon DEF RecordingInv, TypeOK
  <2>. QED BY <1>1, <1>2, <1>9, <2>1, Zenon DEF TypeOK
<1>12. OneFate'
  <2>1. Held' = Held
    BY <1>1 DEF Held
  <2>2. \A g : IsFrame(g)' <=> IsFrame(g)
    BY <1>1, Zenon DEF IsFrame, Use
  <2>3. \A c, phase : RowsOf(c, phase)' = RowsOf(c, phase)
    BY <1>3, <1>9, <1>10 DEF RowsOf
  <2>4. OneFate
    BY DEF RecordingInv
  <2>5. /\ (wire \cap (rejected \union cut))' = {} /\ (rejected \cap cut)' = {}
        /\ \A g \in rejected' : ~Recordable(g.event)
    BY <1>1, <2>4 DEF OneFate
  <2>6. /\ \A g \in Held' : IsFrame(g)' /\ report'[<<g.call, g.phase>>] = "sent"
        /\ \A g, h \in Held' : SameReport(g, h) => g = h
    BY <1>1, <2>1, <2>2, <2>4, Zenon DEF OneFate
  <2>7. \A j \in DOMAIN rows' :
            /\ report'[<<rows'[j].call, rows'[j].phase>>] = "sent"
            /\ \A g \in Held' : ~SameReport(g, rows'[j])
            /\ \A k \in DOMAIN rows' : SameReport(rows'[j], rows'[k]) => j = k
    <3>1. \A j \in 1..Len(rows) :
              /\ report[<<rows[j].call, rows[j].phase>>] = "sent"
              /\ \A g \in Held : ~SameReport(g, rows[j])
              /\ \A k \in 1..Len(rows) : SameReport(rows[j], rows[k]) => j = k
      BY <1>3, <2>4, Zenon DEF OneFate
    <3>2. /\ \A g : \A j \in 1..Len(rows) : SameReport(g, rows'[j]) <=> SameReport(g, rows[j])
          /\ \A j, k \in 1..Len(rows) : SameReport(rows'[j], rows'[k]) <=> SameReport(rows[j], rows[k])
      BY <1>10, Zenon DEF SameReport
    <3>3. \A j \in 1..Len(rows) : report'[<<rows'[j].call, rows'[j].phase>>] = "sent"
      BY <1>1, <1>10, <3>1
    <3>. QED BY <1>9, <2>1, <3>1, <3>2, <3>3, Zenon
  <2>8. \A c \in Calls, phase \in Phases : report'[<<c, phase>>] = "sent" =>
            RowsOf(c, phase)' # {} \/ \E g \in Held' : g.call = c /\ g.phase = phase
    BY <1>1, <2>1, <2>3, <2>4 DEF OneFate
  <2>. QED BY <2>5, <2>6, <2>7, <2>8, Zenon DEF OneFate
<1>13. UpToMark'
  BY <1>1, <1>3, <1>9, <1>10, MarkKept
<1>14. ASSUME NEW j \in DOMAIN rows' PROVE Written(j)'
  <2>1. \A g : IsFrame(g)' <=> IsFrame(g)
    BY <1>1, Zenon DEF IsFrame, Use
  <2>2. j \in DOMAIN rows /\ Written(j)
    BY <1>3, <1>9, <1>14, Zenon DEF RecordingInv
  <2>3. rows[j].seq = Cardinality({k \in 1..j : rows[k].chain = rows[j].chain})
    BY <2>2, Zenon DEF Written
  <2>4. {k \in 1..j : rows'[k].chain = rows'[j].chain} = {k \in 1..j : rows[k].chain = rows[j].chain}
    BY <1>3, <1>10, <2>2
  <2>5. rows'[j].seq = Cardinality({k \in 1..j : rows'[k].chain = rows'[j].chain})
    BY <1>3, <1>10, <2>2, <2>3, <2>4
  <2>6. \E g : IsFrame(g) /\ Recordable(g.event) /\ Altered(rows'[j], ReceiptOf(g, under[j], rows'[j].seq))
    <3>1. CASE j = i
      <4>1. rows'[j] = row /\ rows'[j].seq = rows[i].seq
        BY <1>8, <1>9, <3>1
      <4>. QED BY <1>5, <1>7, <3>1, <4>1, Zenon
    <3>2. CASE j # i
      <4>1. rows'[j] = rows[j]
        BY <1>3, <1>9, <2>2, <3>2
      <4>. QED BY <2>2, <4>1, Zenon DEF Written
    <3>. QED BY <3>1, <3>2
  <2>. QED BY <1>1, <2>1, <2>5, <2>6, Zenon DEF Written
<1>. QED BY <1>2, <1>11, <1>12, <1>13, <1>14, Zenon DEF RecordingInv

(* A frame the daemon refuses is out of the way.                            *)
LEMMA RefuseStep ==
    ASSUME RecordingInv, NEW frame \in wire, ~Recordable(frame.event),
           wire' = wire \ {frame}, rejected' = rejected \union {frame},
           UNCHANGED <<session, stage, transcript, report, config, rows, under, cut, follower>>
    PROVE  RecordingInv'
<1>1. /\ OwnTurns' /\ InStage' /\ session' \in Sessions
      /\ stage' \in [Calls -> {"idle", "running", "done"}]
      /\ transcript' \in Seq({transcript'[i] : i \in DOMAIN transcript'})
      /\ report' \in [Calls \X Phases ->
                         {"none", "started", "skipped", "refused", "unreachable", "sent"}]
  BY ClientsKept
<1>2. TypeOK'
  <2>1. /\ rows \in Seq({rows[i] : i \in DOMAIN rows})
        /\ under \in Seq({s \in session.settings : Startable(s)}) /\ Len(under) = Len(rows)
        /\ config # None => config \in session.settings /\ Startable(config)
    BY Zenon DEF RecordingInv, TypeOK
  <2>. QED BY <1>1, <2>1, Zenon DEF TypeOK
<1>3. OneFate'
  <2>1. Held' = Held
    BY DEF Held
  <2>2. \A f : IsFrame(f)' <=> IsFrame(f)
    BY Zenon DEF IsFrame, Use
  <2>3. \A c, phase : RowsOf(c, phase)' = RowsOf(c, phase)
    BY DEF RowsOf
  <2>4. OneFate
    BY DEF RecordingInv
  <2>5. /\ (wire \cap (rejected \union cut))' = {} /\ (rejected \cap cut)' = {}
        /\ \A f \in rejected' : ~Recordable(f.event)
    BY <2>4 DEF OneFate
  <2>6. /\ \A f \in Held' : IsFrame(f)' /\ report'[<<f.call, f.phase>>] = "sent"
        /\ \A f, g \in Held' : SameReport(f, g) => f = g
    BY <2>1, <2>2, <2>4, Zenon DEF OneFate
  <2>7. \A i \in DOMAIN rows' :
            /\ report'[<<rows'[i].call, rows'[i].phase>>] = "sent"
            /\ \A f \in Held' : ~SameReport(f, rows'[i])
            /\ \A j \in DOMAIN rows' : SameReport(rows'[i], rows'[j]) => i = j
    BY <2>1, <2>4, Zenon DEF OneFate
  <2>8. \A c \in Calls, phase \in Phases : report'[<<c, phase>>] = "sent" =>
            RowsOf(c, phase)' # {} \/ \E f \in Held' : f.call = c /\ f.phase = phase
    BY <2>1, <2>3, <2>4 DEF OneFate
  <2>. QED BY <2>5, <2>6, <2>7, <2>8, Zenon DEF OneFate
<1>4. UpToMark' /\ \A i \in DOMAIN rows' : Written(i)'
  BY StoreKept
<1>. QED BY <1>1, <1>2, <1>3, <1>4, Zenon DEF RecordingInv

(* A frame the daemon takes becomes the next receipt of its chain.          *)
LEMMA RecordStep ==
    ASSUME RecordingInv, config # None, NEW frame \in wire, Recordable(frame.event),
           wire' = wire \ {frame},
           rows' = Append(rows, ReceiptOf(frame, config, NextSeq(frame.event.agent))),
           under' = Append(under, config),
           UNCHANGED <<session, stage, transcript, report, config, rejected, cut, follower>>
    PROVE  RecordingInv'
<1>. DEFINE seq == NextSeq(frame.event.agent)
            r   == ReceiptOf(frame, config, seq)
            n   == Len(rows)
<1>1. /\ OwnTurns' /\ InStage' /\ session' \in Sessions
      /\ stage' \in [Calls -> {"idle", "running", "done"}]
      /\ transcript' \in Seq({transcript'[i] : i \in DOMAIN transcript'})
      /\ report' \in [Calls \X Phases ->
                         {"none", "started", "skipped", "refused", "unreachable", "sent"}]
  BY ClientsKept
<1>2. /\ IsFrame(frame) /\ frame \in Held /\ report[<<frame.call, frame.phase>>] = "sent"
      /\ \A g \in Held : SameReport(g, frame) => g = frame
      /\ \A i \in DOMAIN rows : ~SameReport(frame, rows[i])
  <2>1. frame \in Held /\ OneFate
    BY DEF Held, RecordingInv
  <2>. QED BY <2>1, Zenon DEF OneFate
<1>3. r = [r EXCEPT !.params = r.params, !.response = r.response]
  <2>1. DOMAIN r = DOMAIN r /\ r = [x \in DOMAIN r |-> r[x]]
    BY DEF ReceiptOf
  <2>. HIDE DEF r
  <2>. QED BY <2>1
<1>4. Altered(r, r)
  <2>1. r.params \in Envelopes(r.params) /\ r.response \in Envelopes(r.response)
    BY Zenon DEF Envelopes
  <2>. HIDE DEF r
  <2>. QED BY <1>3, <2>1, Zenon DEF Altered
<1>5. r.call = frame.call /\ r.phase = frame.phase /\ r.chain = frame.event.agent /\ r.seq = seq
  BY DEF ReceiptOf
<1>6. rows' = Append(rows, r)
  OBVIOUS
<1>. HIDE DEF r
<1>7. /\ n \in Nat /\ DOMAIN rows = 1..n /\ IsSeq(rows') /\ Len(rows') = n + 1
      /\ DOMAIN rows' = 1..n + 1 /\ rows'[n + 1] = r
      /\ \A i \in 1..n : rows'[i] = rows[i]
  BY <1>6, CallsAre, AppendIs
<1>8. /\ under' \in Seq({s \in session.settings : Startable(s)}) /\ Len(under') = n + 1
      /\ under'[n + 1] = config /\ \A i \in 1..n : under'[i] = under[i]
  <2>1. /\ under \in Seq({s \in session.settings : Startable(s)}) /\ Len(under) = n
        /\ config \in {s \in session.settings : Startable(s)}
    BY DEF RecordingInv, TypeOK
  <2>. QED BY <1>7, <2>1
<1>. HIDE DEF n, seq
<1>9. TypeOK'
  <2>1. config # None => config \in session.settings /\ Startable(config)
    BY Zenon DEF RecordingInv, TypeOK
  <2>2. Len(under') = Len(rows')
    BY <1>7, <1>8
  <2>. QED BY <1>1, <1>7, <1>8, <2>1, <2>2, Zenon DEF TypeOK, IsSeq
<1>10. \A g : IsFrame(g)' <=> IsFrame(g)
  BY Zenon DEF IsFrame, Use
<1>11. OneFate'
  <2>1. OneFate
    BY DEF RecordingInv
  <2>2. wire \cap (rejected \union cut) = {} /\ rejected \cap cut = {}
    BY <2>1, Zenon DEF OneFate
  <2>3. Held' = Held \ {frame}
    BY <2>2 DEF Held
  <2>4. /\ (wire \cap (rejected \union cut))' = {} /\ (rejected \cap cut)' = {}
        /\ \A f \in rejected' : ~Recordable(f.event)
    BY <2>1 DEF OneFate
  <2>5. /\ \A f \in Held' : IsFrame(f)' /\ report'[<<f.call, f.phase>>] = "sent"
        /\ \A f, g \in Held' : SameReport(f, g) => f = g
    <3>1. \A f \in Held' : f \in Held
      BY <2>3
    <3>. QED BY <1>10, <2>1, <3>1, Zenon DEF OneFate
  <2>6. \A i \in 1..n : /\ report[<<rows[i].call, rows[i].phase>>] = "sent"
                        /\ \A f \in Held : ~SameReport(f, rows[i])
                        /\ \A j \in 1..n : SameReport(rows[i], rows[j]) => i = j
    BY <1>7, <2>1, Zenon DEF OneFate
  <2>7. \A g : SameReport(g, r) <=> SameReport(g, frame)
    BY <1>5, Zenon DEF SameReport
  <2>8. \A i \in DOMAIN rows' :
            /\ report'[<<rows'[i].call, rows'[i].phase>>] = "sent"
            /\ \A f \in Held' : ~SameReport(f, rows'[i])
            /\ \A j \in DOMAIN rows' : SameReport(rows'[i], rows'[j]) => i = j
    <3>1. SUFFICES ASSUME NEW i \in 1..n + 1
                   PROVE  /\ report[<<rows'[i].call, rows'[i].phase>>] = "sent"
                          /\ \A f \in Held' : ~SameReport(f, rows'[i])
                          /\ \A j \in 1..n + 1 : SameReport(rows'[i], rows'[j]) => i = j
      BY <1>7
    <3>2. \A j \in 1..n : ~SameReport(rows[j], r) /\ ~SameReport(r, rows[j])
      BY <1>2, <1>7, <2>7 DEF SameReport
    <3>3. CASE i = n + 1
      <4>1. rows'[i] = r /\ report[<<r.call, r.phase>>] = "sent"
        BY <1>2, <1>5, <1>7, <3>3
      <4>2. \A f \in Held' : ~SameReport(f, r)
        BY <1>2, <2>3, <2>7
      <4>3. \A j \in 1..n + 1 : j # i => ~SameReport(r, rows'[j])
        BY <1>7, <3>2, <3>3
      <4>. QED BY <4>1, <4>2, <4>3
    <3>4. CASE i \in 1..n
      <4>1. rows'[i] = rows[i] /\ report[<<rows[i].call, rows[i].phase>>] = "sent"
        BY <1>7, <2>6, <3>4
      <4>2. \A f \in Held' : ~SameReport(f, rows[i])
        BY <2>3, <2>6, <3>4
      <4>3. \A j \in 1..n + 1 : SameReport(rows[i], rows'[j]) => i = j
        <5>1. \A j \in 1..n + 1 : j \in 1..n \/ rows'[j] = r
          BY <1>7
        <5>. QED BY <1>7, <2>6, <3>2, <3>4, <5>1
      <4>. QED BY <4>1, <4>2, <4>3
    <3>5. i = n + 1 \/ i \in 1..n
      BY <1>7
    <3>. QED BY <3>3, <3>4, <3>5, Zenon
  <2>9. \A c \in Calls, phase \in Phases : report'[<<c, phase>>] = "sent" =>
            RowsOf(c, phase)' # {} \/ \E f \in Held' : f.call = c /\ f.phase = phase
    <3>1. SUFFICES ASSUME NEW c \in Calls, NEW phase \in Phases, report[<<c, phase>>] = "sent"
                   PROVE  RowsOf(c, phase)' # {} \/ \E f \in Held' : f.call = c /\ f.phase = phase
      OBVIOUS
    <3>2. RowsOf(c, phase) # {} \/ \E f \in Held : f.call = c /\ f.phase = phase
      BY <2>1, <3>1, Zenon DEF OneFate
    <3>3. \A i \in RowsOf(c, phase) : i \in RowsOf(c, phase)'
      BY <1>7 DEF RowsOf
    <3>4. frame.call = c /\ frame.phase = phase => n + 1 \in RowsOf(c, phase)'
      BY <1>5, <1>7 DEF RowsOf
    <3>. QED BY <2>3, <3>2, <3>3, <3>4
  <2>. QED BY <2>4, <2>5, <2>8, <2>9, Zenon DEF OneFate
<1>12. UpToMark'
  <2>1. \A i \in 1..Len(rows) :
            \A field \in {"chain", "action", "risk", "status"} : rows'[i][field] = rows[i][field]
    BY <1>7 DEF n
  <2>2. Len(rows') \in Nat /\ Len(rows) <= Len(rows')
    BY <1>7 DEF n
  <2>. QED BY <2>1, <2>2, MarkKept
<1>13. ASSUME NEW j \in DOMAIN rows' PROVE Written(j)'
  <2>1. CASE j \in 1..n
    <3>1. rows'[j] = rows[j] /\ under'[j] = under[j]
      BY <1>7, <1>8, <2>1
    <3>2. Written(j)
      BY <1>7, <2>1, Zenon DEF RecordingInv
    <3>3. {k \in 1..j : rows'[k].chain = rows'[j].chain} = {k \in 1..j : rows[k].chain = rows[j].chain}
      BY <1>7, <2>1, <3>1
    <3>4. rows'[j].seq = Cardinality({k \in 1..j : rows'[k].chain = rows'[j].chain})
      BY <3>1, <3>2, <3>3 DEF Written
    <3>. QED BY <1>10, <3>1, <3>2, <3>4, Zenon DEF Written
  <2>2. CASE j = n + 1
    <3>1. rows'[j] = r /\ under'[j] = config
      BY <1>7, <1>8, <2>2
    <3>2. rows'[j].seq = Cardinality({k \in 1..j : rows'[k].chain = rows'[j].chain})
      <4>. DEFINE before == {k \in DOMAIN rows : rows[k].chain = frame.event.agent}
                  all == {k \in 1..j : rows'[k].chain = rows'[j].chain}
      <4>1. all = before \union {j} /\ j \notin before
        BY <1>5, <1>7, <2>2, <3>1
      <4>2. IsFiniteSet(before)
        <5>1. before \subseteq 1..n /\ IsFiniteSet(1..n)
          BY <1>7, FS_Interval
        <5>. QED BY <5>1, FS_Subset
      <4>. HIDE DEF before, all
      <4>3. Cardinality(all) = Cardinality(before) + 1 /\ Cardinality(before) \in Nat
        BY <4>1, <4>2, FS_AddElement, FS_CardinalityType
      <4>4. seq = 1 + Cardinality(before)
        BY DEF seq, NextSeq, before
      <4>5. rows'[j].seq = seq
        BY <1>5, <3>1
      <4>6. rows'[j].seq = Cardinality(all)
        BY <4>3, <4>4, <4>5
      <4>. QED BY <4>6 DEF all
    <3>3. Altered(rows'[j], ReceiptOf(frame, under'[j], rows'[j].seq))
      BY <1>4, <1>5, <3>1, Zenon DEF r
    <3>. QED BY <1>2, <1>10, <3>2, <3>3, Zenon DEF Written
  <2>. QED BY <1>7, <2>1, <2>2
<1>. QED BY <1>1, <1>9, <1>11, <1>12, <1>13, Zenon DEF RecordingInv

(* The daemon takes a frame and records or rejects it.                      *)
LEMMA HandleStep ==
    ASSUME RecordingInv, NEW frame \in wire, Handle(frame)
    PROVE  RecordingInv'
<1>1. /\ config # None /\ wire' = wire \ {frame}
      /\ IF Recordable(frame.event)
         THEN /\ rows' = Append(rows, ReceiptOf(frame, config, NextSeq(frame.event.agent)))
              /\ under' = Append(under, config)
              /\ UNCHANGED rejected
         ELSE rejected' = rejected \union {frame} /\ UNCHANGED <<rows, under>>
      /\ UNCHANGED <<session, stage, transcript, report, config, cut, follower>>
  BY Zenon DEF Handle, Recordable, clientVars
<1>2. CASE Recordable(frame.event)
  BY <1>1, <1>2, RecordStep
<1>3. CASE ~Recordable(frame.event)
  BY <1>1, <1>3, RefuseStep
<1>. QED BY <1>2, <1>3
-----------------------------------------------------------------------------
(* Those who follow the store. *)

(* Of the numbers up to a bound, one is the greatest.                       *)
LEMMA GreatestOf ==
    ASSUME NEW n \in Nat, NEW S, S \subseteq 0..n, S # {}
    PROVE  Max(S) \in S /\ \A s \in S : s <= Max(S)
<1>. DEFINE D == {k \in 0..n : n - k \in S}
<1>1. D \subseteq Nat /\ D # {}
  <2>1. PICK s \in S : TRUE
    OBVIOUS
  <2>2. n - s \in D
    BY <2>1
  <2>. QED BY <2>2
<1>2. PICK d \in D : \A k \in D : d <= k
  <2>. HIDE DEF D
  <2>. QED BY <1>1, LeastOf
<1>3. n - d \in S /\ \A s \in S : n - d >= s
  <2>1. \A s \in S : n - s \in D /\ s \in 0..n
    OBVIOUS
  <2>2. n - d \in S /\ d \in 0..n
    BY <1>2
  <2>3. \A s \in S : d <= n - s
    BY <1>2, <2>1
  <2>. QED BY <2>1, <2>2, <2>3
<1>4. Max(S) \in S /\ \A s \in S : Max(S) >= s
  BY <1>3, Zenon DEF Max
<1>. QED BY <1>4

(* The ranks of the members of a set grow with them.                        *)
LEMMA RankIs ==
    ASSUME NEW n \in Nat, NEW S, S \subseteq 1..n
    PROVE  /\ IsFiniteSet(S) /\ Cardinality(S) \in Nat
           /\ \A i \in S : Rank(S, i) \in 1..Cardinality(S)
           /\ \A i, j \in S : i < j => Rank(S, i) < Rank(S, j)
           /\ \A i, j \in S : Rank(S, i) < Rank(S, j) => i < j
           /\ \A i, j \in S : Rank(S, i) = Rank(S, j) => i = j
           /\ \A i \in S : i \in Nat
<1>. \A i \in S : i \in Nat
  OBVIOUS
<1>1. \A T : T \subseteq S => IsFiniteSet(T) /\ Cardinality(T) \in Nat
  <2>1. IsFiniteSet(1..n)
    BY FS_Interval
  <2>. QED BY <2>1, FS_Subset, FS_CardinalityType
<1>2. ASSUME NEW i \in S PROVE Rank(S, i) \in 1..Cardinality(S)
  <2>. DEFINE T == {j \in S : j <= i}
  <2>1. T \subseteq S /\ T # {}
    OBVIOUS
  <2>. HIDE DEF T
  <2>2. Cardinality(T) <= Cardinality(S) /\ Cardinality(T) # 0
    BY <1>1, <2>1, FS_Subset, FS_EmptySet
  <2>3. Rank(S, i) = Cardinality(T)
    BY DEF Rank, T
  <2>4. Cardinality(T) \in Nat /\ Cardinality(S) \in Nat
    BY <1>1, <2>1
  <2>. QED BY <2>2, <2>3, <2>4
<1>3. ASSUME NEW i \in S, NEW j \in S, i < j PROVE Rank(S, i) < Rank(S, j)
  <2>. DEFINE T == {k \in S : k <= i}
              U == {k \in S : k <= j}
  <2>1. T \subseteq U /\ U \subseteq S /\ j \in U /\ j \notin T
    <3>1. \A k \in S : k <= i => k <= j
      BY <1>3
    <3>2. j <= j /\ ~(j <= i)
      BY <1>3
    <3>. QED BY <3>1, <3>2
  <2>2. Rank(S, i) = Cardinality(T) /\ Rank(S, j) = Cardinality(U)
    BY DEF Rank
  <2>. HIDE DEF T, U
  <2>3. Cardinality(T) <= Cardinality(U) /\ Cardinality(T) # Cardinality(U)
    BY <1>1, <2>1, FS_Subset
  <2>4. Cardinality(T) \in Nat /\ Cardinality(U) \in Nat
    BY <1>1, <2>1
  <2>. QED BY <2>2, <2>3, <2>4
<1>4. \A i \in S : Rank(S, i) \in Nat
  BY <1>1, <1>2
<1>5. \A i, j \in S : Rank(S, i) <= Rank(S, j) => ~(j < i)
  BY <1>3, <1>4
<1>6. \A i, j \in S : Rank(S, i) < Rank(S, j) => i < j
  BY <1>4, <1>5
<1>7. \A i, j \in S : Rank(S, i) = Rank(S, j) => i = j
  BY <1>4, <1>5
<1>. QED BY <1>1, <1>2, <1>3, <1>6, <1>7

(* InOrder shows every member once, in their order.                         *)
LEMMA InOrderIs ==
    ASSUME NEW n \in Nat, NEW S, S \subseteq 1..n
    PROVE  /\ InOrder(S) \in Seq(S) /\ ToSet(InOrder(S)) = S
           /\ DOMAIN InOrder(S) = 1..Cardinality(S) /\ Cardinality(S) \in Nat
           /\ \A k, l \in 1..Cardinality(S) : k < l => InOrder(S)[k] < InOrder(S)[l]
           /\ InOrder(S) = <<>> => S = {}
<1>. DEFINE m == Cardinality(S)
            f == [i \in S |-> Rank(S, i)]
            s == InOrder(S)
<1>1. /\ IsFiniteSet(S) /\ m \in Nat
      /\ \A i \in S : Rank(S, i) \in 1..m
      /\ \A i \in S : i \in Nat
      /\ \A i, j \in S : Rank(S, i) < Rank(S, j) => i < j
      /\ \A i, j \in S : Rank(S, i) = Rank(S, j) => i = j
  BY RankIs, Zenon
<1>. HIDE DEF m
<1>2. f \in Injection(S, 1..m)
  <2>1. f \in [S -> 1..m]
    BY <1>1
  <2>2. \A i, j \in S : Rank(S, i) = Rank(S, j) => i = j
    BY <1>1
  <2>3. \A i, j \in S : f[i] = f[j] => i = j
    BY <2>2
  <2>. QED BY <2>1, <2>3 DEF Injection, IsInjective
<1>3. \A k \in 1..m : \E i \in S : Rank(S, i) = k
  <2>1. IsFiniteSet(1..m) /\ Cardinality(1..m) = m
    <3>1. Cardinality(1..m) = IF 1 > m THEN 0 ELSE m - 1 + 1
      BY <1>1, FS_Interval
    <3>. QED BY <1>1, <3>1, FS_Interval
  <2>. HIDE DEF f
  <2>2. Cardinality(S) = Cardinality(1..m) <=> f \in Surjection(S, 1..m)
    BY <1>2, <2>1, FS_Injection
  <2>3. f \in Surjection(S, 1..m)
    BY <2>1, <2>2 DEF m
  <2>4. \A k \in 1..m : \E i \in S : f[i] = k
    BY <2>3 DEF Surjection
  <2>. QED BY <2>4 DEF f
<1>4. s = [k \in 1..m |-> CHOOSE i \in S : Rank(S, i) = k]
  BY DEF InOrder, m
<1>. HIDE DEF s
<1>5. \A k \in 1..m : s[k] \in S /\ Rank(S, s[k]) = k
  BY <1>3, <1>4
<1>6. s \in Seq(S) /\ DOMAIN s = 1..m /\ Len(s) = m
  <2>1. s \in [1..m -> S]
    BY <1>4, <1>5
  <2>. QED BY <1>1, <2>1
<1>7. \A i \in S : s[Rank(S, i)] = i
  <2>1. SUFFICES ASSUME NEW i \in S PROVE s[Rank(S, i)] = i
    OBVIOUS
  <2>2. Rank(S, i) \in 1..m /\ s[Rank(S, i)] \in S /\ Rank(S, s[Rank(S, i)]) = Rank(S, i)
    BY <1>1, <1>5
  <2>. QED BY <1>1, <2>1, <2>2, Zenon
<1>8. ToSet(s) = S
  <2>1. \A i \in S : \E k \in 1..m : s[k] = i
    BY <1>1, <1>7, Zenon
  <2>2. \A k \in 1..m : s[k] \in S
    BY <1>5
  <2>. QED BY <1>6, <2>1, <2>2 DEF ToSet
<1>9. \A k, l \in 1..m : k < l => s[k] < s[l]
  <2>1. SUFFICES ASSUME NEW k \in 1..m, NEW l \in 1..m, k < l PROVE s[k] < s[l]
    OBVIOUS
  <2>2. s[k] \in S /\ s[l] \in S /\ Rank(S, s[k]) < Rank(S, s[l])
    BY <1>5, <2>1
  <2>. QED BY <1>1, <2>2
<1>10. s = <<>> => S = {}
  <2>1. s = <<>> => DOMAIN s = {}
    OBVIOUS
  <2>. QED BY <1>1, <1>6, <2>1
<1>. QED BY <1>1, <1>6, <1>8, <1>9, <1>10 DEF s, m

(* A limit is a number.                                                     *)
LEMMA LimitIs ==
    ASSUME NEW q \in AnyQuery, NEW n \in Nat
    PROVE  UpToLimit(n, q) \in Nat
<1>1. q.limit \in Nat \union {None}
  BY Zenon DEF AnyQuery
<1>2. ASSUME NEW k \in Nat PROVE Min({n, k}) \in {n, k}
  <2>1. \E x \in {n, k} : \A y \in {n, k} : x <= y
    OBVIOUS
  <2>. QED BY <2>1, Zenon DEF Min
<1>. QED BY <1>1, <1>2 DEF UpToLimit

(* An answer shows what the filter finds up to the new watermark.           *)
LEMMA AnswerIs ==
    ASSUME NEW r, Len(r) \in Nat, NEW q \in AnyQuery, NEW after \in 0..Len(r),
           QueryAfterRowID(r, q, after).shown # <<>>
    PROVE  /\ QueryAfterRowID(r, q, after).mark \in after..Len(r)
           /\ QueryAfterRowID(r, q, after).shown \in Seq(Nat)
           /\ ToSet(QueryAfterRowID(r, q, after).shown) =
                 {i \in Found(r, q, 0) : after < i /\ i <= QueryAfterRowID(r, q, after).mark}
           /\ \A k, l \in DOMAIN QueryAfterRowID(r, q, after).shown :
                 k < l => QueryAfterRowID(r, q, after).shown[k] < QueryAfterRowID(r, q, after).shown[l]
<1>. DEFINE found == Found(r, q, after)
            limit == UpToLimit(Cardinality(found), q)
            first == {i \in found : Rank(found, i) <= limit}
            answer == QueryAfterRowID(r, q, after)
<1>1. answer.shown = InOrder(first) /\ answer.mark = (IF first = {} THEN after ELSE Max(first))
  BY DEF QueryAfterRowID
<1>2. found = {i \in Found(r, q, 0) : after < i} /\ found \subseteq 1..Len(r)
  BY DEF Found, MaxRowID
<1>. HIDE DEF found, limit, answer
<1>3. first \subseteq 1..Len(r) /\ first \subseteq 0..Len(r)
  BY <1>2
<1>4. /\ \A i \in found : Rank(found, i) \in 1..Cardinality(found)
      /\ \A i, j \in found : i < j => Rank(found, i) < Rank(found, j)
  BY <1>2, RankIs
<1>5. limit \in Int
  <2>1. Cardinality(found) \in Nat
    BY <1>2, RankIs
  <2>. QED BY <2>1, LimitIs DEF limit
<1>6. first # {}
  <2>1. InOrder({}) = <<>>
    <3>1. Cardinality({}) = 0
      BY FS_EmptySet
    <3>. QED BY <3>1 DEF InOrder
  <2>. QED BY <1>1, <2>1 DEF answer
<1>7. answer.mark \in first /\ \A i \in first : i <= answer.mark
  <2>. HIDE DEF first
  <2>. QED BY <1>1, <1>3, <1>6, GreatestOf
<1>8. first = {i \in found : i <= answer.mark}
  <2>1. ASSUME NEW i \in found, i <= answer.mark PROVE i \in first
    <3>1. CASE i = answer.mark
      BY <1>7, <3>1
    <3>2. CASE i # answer.mark
      <4>1. i < answer.mark /\ answer.mark \in found /\ Rank(found, answer.mark) <= limit
        BY <1>2, <1>3, <1>7, <2>1, <3>2
      <4>2. Rank(found, i) < Rank(found, answer.mark)
        BY <1>4, <4>1
      <4>3. Rank(found, i) <= limit
        <5>1. Rank(found, i) \in Int /\ Rank(found, answer.mark) \in Int /\ limit \in Int
          BY <1>4, <1>5, <2>1, <4>1
        <5>. QED BY <4>1, <4>2, <5>1
      <4>. QED BY <2>1, <4>3
    <3>. QED BY <3>1, <3>2
  <2>. QED BY <1>7, <2>1
<1>9. /\ InOrder(first) \in Seq(Nat) /\ ToSet(InOrder(first)) = first
      /\ \A k, l \in DOMAIN InOrder(first) : k < l => InOrder(first)[k] < InOrder(first)[l]
  <2>. HIDE DEF first
  <2>1. /\ InOrder(first) \in Seq(first) /\ ToSet(InOrder(first)) = first
        /\ DOMAIN InOrder(first) = 1..Cardinality(first)
        /\ \A k, l \in 1..Cardinality(first) : k < l => InOrder(first)[k] < InOrder(first)[l]
    BY <1>3, InOrderIs, Zenon
  <2>2. first \subseteq Nat
    BY <1>3
  <2>3. InOrder(first) \in Seq(Nat)
    <3>. DEFINE w == InOrder(first)
    <3>1. w \in Seq(first)
      BY <2>1
    <3>. HIDE DEF w
    <3>2. Len(w) \in Nat /\ w \in [1..Len(w) -> first]
      BY <3>1
    <3>3. w \in [1..Len(w) -> Nat]
      BY <2>2, <3>2
    <3>4. w \in Seq(Nat)
      BY <3>2, <3>3
    <3>. QED BY <3>4 DEF w
  <2>. QED BY <2>1, <2>3, Zenon
<1>. HIDE DEF first
<1>10. first = {i \in Found(r, q, 0) : after < i /\ i <= answer.mark}
  BY <1>2, <1>8
<1>11. answer.mark \in after..Len(r)
  BY <1>2, <1>3, <1>7, <1>10
<1>. QED BY <1>1, <1>9, <1>10, <1>11 DEF answer

(* A step of the follower leaves everything else alone.                     *)
LEMMA FollowerStep ==
    ASSUME RecordingInv, UNCHANGED <<clientVars, daemonVars, wire>>, UpToMark'
    PROVE  RecordingInv'
<1>1. UNCHANGED <<session, stage, transcript, report, wire, config, starts, rows, under, rejected, cut>>
  BY DEF clientVars, daemonVars
<1>2. /\ OwnTurns' /\ InStage' /\ session' \in Sessions
      /\ stage' \in [Calls -> {"idle", "running", "done"}]
      /\ transcript' \in Seq({transcript'[i] : i \in DOMAIN transcript'})
      /\ report' \in [Calls \X Phases ->
                         {"none", "started", "skipped", "refused", "unreachable", "sent"}]
  BY <1>1, ClientsKept
<1>3. TypeOK'
  <2>1. /\ rows \in Seq({rows[i] : i \in DOMAIN rows})
        /\ under \in Seq({s \in session.settings : Startable(s)}) /\ Len(under) = Len(rows)
        /\ config # None => config \in session.settings /\ Startable(config)
    BY Zenon DEF RecordingInv, TypeOK
  <2>. QED BY <1>1, <1>2, <2>1, Zenon DEF TypeOK
<1>4. OneFate'
  BY <1>1, FatesKept
<1>5. \A i \in DOMAIN rows' : Written(i)'
  <2>1. \A f : IsFrame(f)' <=> IsFrame(f)
    BY <1>1, Zenon DEF IsFrame, Use
  <2>2. \A i \in DOMAIN rows : Written(i)
    BY DEF RecordingInv
  <2>. QED BY <1>1, <2>1, <2>2, Zenon DEF Written
<1>. QED BY <1>2, <1>3, <1>4, <1>5, Zenon DEF RecordingInv

(* The first query of a follower.                                           *)
LEMMA FollowStep ==
    ASSUME RecordingInv, Follow
    PROVE  RecordingInv'
<1>. DEFINE q == session.follow
            found == Found(rows, q, 0)
            n == Len(rows)
<1>1. PICK first \in QueryReceipts(rows, q) :
          follower' = [first |-> first, from |-> n, mark |-> n, shown |-> <<>>]
  BY Zenon DEF Follow, MaxRowID
<1>2. q # None /\ UNCHANGED <<clientVars, daemonVars, wire>> /\ rows' = rows /\ session' = session
  BY DEF Follow, clientVars, daemonVars
<1>3. q \in AnyQuery
  BY <1>2, CallsAre, RecordingAssumption DEF SessionOK
<1>4. n \in Nat
  BY CallsAre, AppendIs
<1>5. found \subseteq 1..n
  BY DEF Found, MaxRowID
<1>6. q.limit = None => first = found
  <2>1. IsFiniteSet(found)
    BY <1>4, <1>5, RankIs, Zenon
  <2>. HIDE DEF found, q
  <2>2. SUFFICES ASSUME q.limit = None PROVE first = found
    OBVIOUS
  <2>3. first \in SUBSET found /\ Cardinality(first) = Cardinality(found)
    BY <1>1, <2>2, Zenon DEF QueryReceipts, UpToLimit, kSubset, found
  <2>. QED BY <2>1, <2>3, FS_Subset
<1>7. /\ follower'.first = first /\ follower'.from = n /\ follower'.mark = n /\ follower'.shown = <<>>
  BY <1>1
<1>8. session'.follow = q /\ Found(rows, session.follow, 0)' = found
  BY <1>2
<1>. HIDE DEF q, found, n
<1>9. FollowedOnce'
  <2>1. {i \in found : n < i /\ i <= n} = {} /\ {i \in found : i <= n} = found
    <3>1. \A i \in found : i <= n /\ ~(n < i)
      BY <1>4, <1>5
    <3>. QED BY <3>1, Zenon
  <2>2. ToSet(<<>>) = {} /\ \A i, j \in DOMAIN <<>> : i < j => <<>>[i] < <<>>[j]
    BY DEF ToSet
  <2>. QED BY <1>6, <1>7, <1>8, <2>1, <2>2, Zenon DEF FollowedOnce
<1>10. n \in n..n /\ <<>> \in Seq(Nat) /\ Len(rows)' = n
  BY <1>2, <1>4 DEF n
<1>11. UpToMark'
  BY <1>3, <1>4, <1>7, <1>8, <1>9, <1>10, Zenon DEF UpToMark
<1>. QED BY <1>2, <1>11, FollowerStep

(* What a poll shows begins behind what was shown before.                   *)
LEMMA PollStep ==
    ASSUME RecordingInv, Poll
    PROVE  RecordingInv'
<1>. DEFINE q == session.follow
            found == Found(rows, q, 0)
            n == Len(rows)
            answer == QueryAfterRowID(rows, q, follower.mark)
            s == follower.shown
            t == answer.shown
<1>1. /\ follower # None /\ t # <<>>
      /\ follower' = [follower EXCEPT !.mark = answer.mark, !.shown = s \o t]
      /\ UNCHANGED <<clientVars, daemonVars, wire>> /\ rows' = rows /\ session' = session
  BY DEF Poll, clientVars, daemonVars
<1>2. /\ q \in AnyQuery /\ follower.from \in Nat /\ follower.mark \in follower.from..n
      /\ s \in Seq(Nat)
      /\ \A i, j \in DOMAIN s : i < j => s[i] < s[j]
      /\ ToSet(s) = {i \in found : follower.from < i /\ i <= follower.mark}
      /\ q.limit = None => follower.first = {i \in found : i <= follower.from}
  BY <1>1, Zenon DEF RecordingInv, UpToMark, FollowedOnce
<1>3. n \in Nat
  BY CallsAre, AppendIs
<1>4. follower.mark \in 0..n
  BY <1>2, <1>3
<1>5. /\ answer.mark \in follower.mark..n /\ t \in Seq(Nat)
      /\ ToSet(t) = {i \in found : follower.mark < i /\ i <= answer.mark}
      /\ \A k, l \in DOMAIN t : k < l => t[k] < t[l]
  BY <1>1, <1>2, <1>3, <1>4, AnswerIs
<1>6. found \subseteq 1..n
  BY DEF Found, MaxRowID
<1>. HIDE DEF q, found, n, answer, s, t
<1>7. /\ \A i \in DOMAIN s : s[i] \in Nat /\ s[i] <= follower.mark
      /\ \A i \in DOMAIN t : t[i] \in Nat /\ follower.mark < t[i]
  <2>1. \A i \in DOMAIN s : s[i] \in ToSet(s)
    BY DEF ToSet
  <2>2. \A i \in DOMAIN t : t[i] \in ToSet(t)
    BY DEF ToSet
  <2>. QED BY <1>2, <1>5, <1>6, <2>1, <2>2
<1>8. /\ s \o t \in Seq(Nat) /\ DOMAIN (s \o t) = 1..Len(s) + Len(t)
      /\ Len(s) \in Nat /\ Len(t) \in Nat /\ DOMAIN s = 1..Len(s) /\ DOMAIN t = 1..Len(t)
      /\ \A i \in 1..Len(s) : (s \o t)[i] = s[i]
      /\ \A i \in 1..Len(t) : (s \o t)[Len(s) + i] = t[i]
  BY <1>2, <1>5
<1>9. \A i, j \in DOMAIN (s \o t) : i < j => (s \o t)[i] < (s \o t)[j]
  <2>. DEFINE w == s \o t
  <2>. HIDE DEF w
  <2>1. SUFFICES ASSUME NEW i \in 1..Len(s) + Len(t), NEW j \in 1..Len(s) + Len(t), i < j
                 PROVE  w[i] < w[j]
    BY <1>8 DEF w
  <2>2. CASE j <= Len(s)
    <3>1. i \in DOMAIN s /\ j \in DOMAIN s /\ w[i] = s[i] /\ w[j] = s[j]
      BY <1>8, <2>1, <2>2 DEF w
    <3>. QED BY <1>2, <2>1, <3>1
  <2>3. CASE i <= Len(s) /\ Len(s) < j
    <3>1. i \in DOMAIN s /\ w[i] = s[i]
      BY <1>8, <2>1, <2>3 DEF w
    <3>2. j - Len(s) \in DOMAIN t /\ j = Len(s) + (j - Len(s))
      BY <1>8, <2>1, <2>3
    <3>3. w[j] = t[j - Len(s)]
      BY <1>8, <3>2 DEF w
    <3>. QED BY <1>4, <1>7, <3>1, <3>2, <3>3
  <2>4. CASE Len(s) < i
    <3>1. /\ i - Len(s) \in DOMAIN t /\ i = Len(s) + (i - Len(s))
          /\ j - Len(s) \in DOMAIN t /\ j = Len(s) + (j - Len(s)) /\ i - Len(s) < j - Len(s)
      BY <1>8, <2>1, <2>4
    <3>2. w[i] = t[i - Len(s)] /\ w[j] = t[j - Len(s)]
      BY <1>8, <3>1 DEF w
    <3>. QED BY <1>5, <3>1, <3>2
  <2>. QED BY <1>8, <2>1, <2>2, <2>3, <2>4
<1>10. ToSet(s \o t) = {i \in found : follower.from < i /\ i <= answer.mark}
  <2>1. ToSet(s \o t) = ToSet(s) \union ToSet(t)
    <3>. DEFINE w == s \o t
    <3>1. \A i \in DOMAIN s : i \in DOMAIN w /\ w[i] = s[i]
      BY <1>8
    <3>2. \A i \in DOMAIN t : Len(s) + i \in DOMAIN w /\ w[Len(s) + i] = t[i]
      BY <1>8
    <3>3. \A i \in DOMAIN w : i \in DOMAIN s \/ i - Len(s) \in DOMAIN t
      BY <1>8
    <3>4. \A i \in DOMAIN w : i - Len(s) \in DOMAIN t => w[i] = t[i - Len(s)]
      <4>1. \A i \in DOMAIN w : i = Len(s) + (i - Len(s))
        BY <1>8
      <4>. QED BY <3>2, <4>1
    <3>. HIDE DEF w
    <3>5. \A x \in ToSet(w) : x \in ToSet(s) \union ToSet(t)
      BY <3>1, <3>3, <3>4 DEF ToSet
    <3>6. \A x \in ToSet(s) \union ToSet(t) : x \in ToSet(w)
      BY <3>1, <3>2 DEF ToSet
    <3>. QED BY <3>5, <3>6 DEF w
  <2>2. \A i \in found : i \in Int
    BY <1>6
  <2>. QED BY <1>2, <1>3, <1>5, <2>1, <2>2
<1>11. /\ follower'.mark = answer.mark /\ follower'.shown = s \o t
       /\ follower'.from = follower.from /\ follower'.first = follower.first
  BY <1>1
<1>12. /\ session'.follow = q /\ Found(rows, session.follow, 0)' = found /\ Len(rows)' = n
  BY <1>1 DEF q, found, n
<1>13. answer.mark \in follower.from..n
  BY <1>2, <1>3, <1>5
<1>14. FollowedOnce'
  BY <1>2, <1>9, <1>10, <1>11, <1>12, Zenon DEF FollowedOnce
<1>15. UpToMark'
  BY <1>2, <1>8, <1>11, <1>12, <1>13, <1>14, Zenon DEF UpToMark
<1>. QED BY <1>1, <1>15, FollowerStep

-----------------------------------------------------------------------------
(* The inductive invariant, and what it says. *)

LEMMA InitIsInv == Init => RecordingInv
<1>1. SUFFICES ASSUME Init PROVE RecordingInv
  OBVIOUS
<1>2. /\ session \in Sessions /\ stage = [c \in Calls |-> "idle"] /\ transcript = <<>>
      /\ report = [r \in Calls \X Phases |-> "none"] /\ wire = {} /\ config = None
      /\ rows = <<>> /\ under = <<>> /\ rejected = {} /\ cut = {} /\ follower = None
  BY <1>1 DEF Init
<1>3. DOMAIN rows = {} /\ DOMAIN transcript = {} /\ \A T : <<>> \in Seq(T)
  BY <1>2
<1>4. \A c \in Calls, phase \in Phases : report[<<c, phase>>] = "none"
  BY <1>2
<1>5. TypeOK
  BY <1>2, <1>3 DEF TypeOK
<1>6. OwnTurns /\ UpToMark /\ \A i \in DOMAIN rows : Written(i)
  BY <1>2, <1>3 DEF OwnTurns, UpToMark
<1>7. InStage
  BY <1>2, <1>4 DEF InStage, Phases
<1>8. OneFate
  BY <1>2, <1>3, <1>4 DEF OneFate, Held
<1>. QED BY <1>5, <1>6, <1>7, <1>8, Zenon DEF RecordingInv

(* A step that changes nothing.                                             *)
LEMMA StutterIsInv ==
    ASSUME RecordingInv, UNCHANGED vars
    PROVE  RecordingInv'
<1>1. /\ UNCHANGED <<session, stage, transcript, report, rows, under, follower>>
      /\ UNCHANGED <<clientVars, daemonVars, wire>>
  BY DEF vars, clientVars, daemonVars
<1>2. UpToMark'
  BY <1>1, StoreKept
<1>. QED BY <1>1, <1>2, FollowerStep

(* Every step preserves the invariant.                                      *)
LEMMA NextIsInv == RecordingInv /\ [Next]_vars => RecordingInv'
<1>1. SUFFICES ASSUME RecordingInv, [Next]_vars PROVE RecordingInv'
  OBVIOUS
<1>2. CASE UNCHANGED vars
  BY <1>1, <1>2, StutterIsInv
<1>3. ASSUME NEW c \in Calls, Begin(c) PROVE RecordingInv'
  BY <1>1, <1>3, BeginStep
<1>4. ASSUME NEW c \in Calls, Turn(c) PROVE RecordingInv'
  BY <1>1, <1>4, TurnStep
<1>5. ASSUME NEW c \in Calls, End(c) PROVE RecordingInv'
  BY <1>1, <1>5, EndStep
<1>6. ASSUME NEW c \in Calls, NEW phase \in Phases, Report(c, phase) PROVE RecordingInv'
  BY <1>1, <1>6, ReportStep
<1>7. ASSUME NEW frame \in wire, Handle(frame) PROVE RecordingInv'
  BY <1>1, <1>7, HandleStep
<1>8. ASSUME NEW settings \in session.settings, Start(settings) PROVE RecordingInv'
  BY <1>1, <1>8, StartStep
<1>9. ASSUME Stop PROVE RecordingInv'
  BY <1>1, <1>9, StopStep
<1>10. ASSUME Follow PROVE RecordingInv'
  BY <1>1, <1>10, FollowStep
<1>11. ASSUME Poll PROVE RecordingInv'
  BY <1>1, <1>11, PollStep
<1>12. ASSUME NEW i \in DOMAIN rows, NEW field \in {"params", "response"}, Damage(i, field)
       PROVE  RecordingInv'
  BY <1>1, <1>12, DamageStep
<1>. QED BY <1>1, <1>2, <1>3, <1>4, <1>5, <1>6, <1>7, <1>8, <1>9, <1>10, <1>11, <1>12, Zenon DEF Next

(* What a receipt store holds and what is known of it, in every session.    *)
THEOREM RecordingInductive == Spec => []RecordingInv
BY InitIsInv, NextIsInv, PTL DEF Spec

(* A follower of the store sees each row its filter finds once and in       *)
(* order, whatever is written between its polls and wherever the limit      *)
(* cuts (QueryReceiptsWithWatermark, QueryAfterRowID of store.go).          *)
THEOREM FollowersSeeOnce == Spec => []FollowedOnce
<1>1. RecordingInv => FollowedOnce
  BY DEF RecordingInv, UpToMark, FollowedOnce
<1>. QED BY <1>1, RecordingInductive, PTL
-----------------------------------------------------------------------------
(* What became of a report. *)

(* What the emitter takes the daemon records, but for the two checks.       *)
LEMMA MirroredIsRecordable ==
    ASSUME NEW ev, Accepts(ev), ~Unmirrored(ev)
    PROVE  Recordable(ev)
<1>1. Hashable(ev.input) /\ Hashable(ev.output)
  BY DEF Accepts, Hashable
<1>2. \A s \in {ev.operator.id, ev.operator.name, ev.correlation, ev.agent, ev.agentType,
                ev.model, ev.capture} : ~TooLong(s)
  BY DEF Accepts, Unmirrored
<1>3. Valid(ev)
  BY <1>2, Zenon DEF Accepts, Valid, Unmirrored
<1>. QED BY <1>1, <1>3, Zenon DEF Accepts, Recordable

(* A frame that was sent is in one place, and no other one is anywhere.     *)
LEMMA FatesAre ==
    ASSUME RecordingInv, NEW c \in DOMAIN session.uses, NEW phase \in Phases
    PROVE  Cardinality(RowsOf(c, phase)) + Cardinality({f \in Held : f.call = c /\ f.phase = phase})
             = IF report[<<c, phase>>] = "sent" THEN 1 ELSE 0
<1>. DEFINE R == RowsOf(c, phase)
            H == {f \in Held : f.call = c /\ f.phase = phase}
<1>1. OneFate /\ c \in Calls
  BY CallsAre DEF RecordingInv
<1>2. \A i \in R : /\ report[<<c, phase>>] = "sent" /\ H = {}
                   /\ \A j \in R : i = j
  <2>1. SUFFICES ASSUME NEW i \in R
                 PROVE  report[<<c, phase>>] = "sent" /\ H = {} /\ \A j \in R : i = j
    OBVIOUS
  <2>2. i \in DOMAIN rows /\ rows[i].call = c /\ rows[i].phase = phase
    BY <2>1 DEF RowsOf
  <2>3. /\ report[<<rows[i].call, rows[i].phase>>] = "sent"
        /\ \A f \in Held : ~SameReport(f, rows[i])
        /\ \A j \in DOMAIN rows : SameReport(rows[i], rows[j]) => i = j
    BY <1>1, <2>2, Zenon DEF OneFate
  <2>4. \A f \in Held : ~(f.call = c /\ f.phase = phase)
    BY <2>2, <2>3, Zenon DEF SameReport
  <2>5. \A j \in R : i = j
    BY <2>2, <2>3, Zenon DEF SameReport, RowsOf
  <2>. QED BY <2>2, <2>3, <2>4, <2>5
<1>3. \A f \in H : report[<<c, phase>>] = "sent" /\ \A g \in H : f = g
  <2>1. SUFFICES ASSUME NEW f \in H PROVE report[<<c, phase>>] = "sent" /\ \A g \in H : f = g
    OBVIOUS
  <2>2. f \in Held /\ f.call = c /\ f.phase = phase
    OBVIOUS
  <2>3. report[<<f.call, f.phase>>] = "sent"
    BY <1>1, <2>2, Zenon DEF OneFate
  <2>4. \A g \in H : f = g
    BY <1>1, <2>2, Zenon DEF OneFate, SameReport
  <2>. QED BY <2>2, <2>3, <2>4
<1>4. report[<<c, phase>>] = "sent" => R # {} \/ H # {}
  BY <1>1, Zenon DEF OneFate
<1>. HIDE DEF R, H
<1>5. Cardinality({}) = 0
  BY FS_EmptySet
<1>6. CASE R # {}
  <2>1. PICK i \in R : TRUE
    BY <1>6
  <2>2. R = {i} /\ H = {} /\ report[<<c, phase>>] = "sent"
    BY <1>2, <2>1
  <2>3. Cardinality(R) = 1
    BY <2>2, FS_Singleton
  <2>. QED BY <1>5, <2>2, <2>3 DEF R, H
<1>7. CASE R = {} /\ H # {}
  <2>1. PICK f \in H : TRUE
    BY <1>7
  <2>2. H = {f} /\ report[<<c, phase>>] = "sent"
    BY <1>3, <2>1
  <2>3. Cardinality(H) = 1
    BY <2>2, FS_Singleton
  <2>. QED BY <1>5, <1>7, <2>2, <2>3 DEF R, H
<1>8. CASE R = {} /\ H = {}
  <2>1. report[<<c, phase>>] # "sent" /\ Cardinality(R) = 0 /\ Cardinality(H) = 0
    BY <1>4, <1>5, <1>8
  <2>2. Cardinality(R) + Cardinality(H) = 0
    BY <2>1
  <2>. QED BY <2>1, <2>2 DEF R, H
<1>. QED BY <1>6, <1>7, <1>8

(* Without its turn an event of the hook is the one of an empty transcript. *)
LEMMA UnenrichedIs ==
    ASSUME RecordingInv, NEW c \in DOMAIN session.uses, NEW phase \in Phases, Use(c).client = "hook"
    PROVE  Unenriched(EventOf(c, phase)) = BareEvent(Use(c), phase)
<1>. DEFINE ev == EventOf(c, phase)
            bare == BareEvent(Use(c), phase)
            own  == [model |-> Use(c).model, usage |-> Use(c).usage, capture |-> "transcript"]
            less == [ev EXCEPT !.model = "", !.usage = Absent, !.capture = ""]
<1>1. ev \in Reports(Use(c), phase)
  BY CallsAre, EventIsReport
<1>2. Said(bare, Use(c), phase, NoTurn) /\ (Said(ev, Use(c), phase, NoTurn) \/ Said(ev, Use(c), phase, own))
  BY <1>1, ReportIs
<1>. HIDE DEF ev, bare, own
<1>3. IsEvent(ev) /\ IsEvent(bare)
  BY <1>2, Zenon DEF Said
<1>4. NoTurn.model = "" /\ NoTurn.usage = Absent /\ NoTurn.capture = ""
  BY DEF NoTurn
<1>5. /\ ev.channel = bare.channel /\ ev.tool = bare.tool /\ ev.server = bare.server
      /\ ev.action = bare.action /\ ev.target = bare.target /\ ev.input = bare.input
      /\ ev.output = bare.output /\ ev.error = bare.error /\ ev.preview = bare.preview
      /\ ev.decision = bare.decision /\ ev.operator = bare.operator
      /\ ev.correlation = bare.correlation /\ ev.agent = bare.agent
      /\ ev.agentType = bare.agentType
      /\ bare.model = "" /\ bare.usage = Absent /\ bare.capture = ""
  BY <1>2, <1>4, Zenon DEF Said
<1>6. /\ IsEvent(less)
      /\ \A field \in EventFields \ {"model", "usage", "capture"} : less[field] = ev[field]
      /\ less.model = "" /\ less.usage = Absent /\ less.capture = ""
  BY <1>3 DEF EventFields, IsEvent
<1>. HIDE DEF less
<1>7. \A field \in EventFields : less[field] = bare[field]
  <2>1. \A field \in EventFields \ {"model", "usage", "capture"} : ev[field] = bare[field]
    BY <1>5, Zenon DEF EventFields
  <2>2. \A field \in {"model", "usage", "capture"} : less[field] = bare[field]
    BY <1>5, <1>6, Zenon
  <2>. QED BY <1>6, <2>1, <2>2, Zenon
<1>8. less = bare
  BY <1>3, <1>6, <1>7, SameEvent
<1>. QED BY <1>8 DEF less, Unenriched, ev, bare

(* A report that was accepted becomes one receipt unless a stop of the      *)
(* daemon cuts it off, one that was not leaves none; the daemon refuses     *)
(* what the emitter takes for the unmirrored checks only, and a hook fails  *)
(* for its call, for a frame it could not read whole or for a bad turn:     *)
(* one whose model, numbers or size the emitter refuses (emitter.go,        *)
(* claude_code.go).                                                         *)
THEOREM ReportsBecomeReceipts == Spec => []AcceptedIsRecorded
<1>1. ASSUME RecordingInv PROVE AcceptedIsRecorded
  <2>1. SUFFICES ASSUME NEW c \in DOMAIN session.uses, NEW phase \in Phases
                 PROVE  /\ Cardinality(RowsOf(c, phase))
                             + Cardinality({f \in wire \cup rejected \cup cut : f.call = c /\ f.phase = phase})
                           = IF report[<<c, phase>>] = "sent" THEN 1 ELSE 0
                        /\ Use(c).client # "port" =>
                             \A f \in {g \in rejected : g.call = c /\ g.phase = phase} : Unmirrored(f.event)
                        /\ (Use(c).client = "hook" /\ report[<<c, phase>>] = "refused") =>
                             \/ StdinCut(Use(c), phase) \/ BadTurn(Use(c), phase)
                             \/ ~Accepts(Unenriched(EventOf(c, phase)))
    BY DEF AcceptedIsRecorded
  <2>2. Cardinality(RowsOf(c, phase))
          + Cardinality({f \in wire \cup rejected \cup cut : f.call = c /\ f.phase = phase})
        = IF report[<<c, phase>>] = "sent" THEN 1 ELSE 0
    BY <1>1, FatesAre DEF Held
  <2>3. ASSUME Use(c).client # "port", NEW f \in rejected, f.call = c, f.phase = phase
        PROVE  Unmirrored(f.event)
    <3>1. f \in Held /\ OneFate
      BY <1>1, <2>3 DEF Held, RecordingInv
    <3>2. IsFrame(f) /\ ~Recordable(f.event)
      BY <2>3, <3>1, Zenon DEF OneFate
    <3>3. Accepts(f.event)
      BY <2>3, <3>2, Zenon DEF IsFrame
    <3>. QED BY <3>2, <3>3, MirroredIsRecordable
  <2>4. ASSUME Use(c).client = "hook", report[<<c, phase>>] = "refused"
        PROVE  \/ StdinCut(Use(c), phase) \/ BadTurn(Use(c), phase)
               \/ ~Accepts(Unenriched(EventOf(c, phase)))
    <3>1. InStage /\ c \in Calls
      BY <1>1, CallsAre DEF RecordingInv
    <3>2. RefusedFor(Use(c), phase)
      BY <2>4, <3>1, Zenon DEF InStage
    <3>3. Unenriched(EventOf(c, phase)) = BareEvent(Use(c), phase)
      BY <1>1, <2>4, UnenrichedIs
    <3>. QED BY <3>2, <3>3, Zenon DEF RefusedFor
  <2>. QED BY <2>2, <2>3, <2>4
<1>. QED BY <1>1, RecordingInductive, PTL
-----------------------------------------------------------------------------
(* What a frame says, and what was sealed of it. *)

(* An event of a program is one.                                            *)
LEMMA AnyEventIs ==
    ASSUME NEW ev \in AnyEvent
    PROVE  /\ IsEvent(ev) /\ ev.agent \in STRING
           /\ ev.input \in AnyPayload /\ ev.output \in AnyPayload
           /\ ev.error \in AnyText /\ ev.preview \in AnyText
<1>1. DOMAIN ev = EventFields
  BY DEF AnyEvent, EventFields
<1>2. ev = [field \in DOMAIN ev |-> ev[field]]
  BY DEF AnyEvent
<1>3. /\ ev.agent \in STRING
      /\ ev.input \in AnyPayload /\ ev.output \in AnyPayload
      /\ ev.error \in AnyText /\ ev.preview \in AnyText
  BY Zenon DEF AnyEvent
<1>. QED BY <1>1, <1>2, <1>3 DEF IsEvent

(* What the reports of a call say of its texts and its payloads.            *)
SaysOf(a, b) ==
    a.agent = b.agent /\ a.input = b.input /\ a.output = b.output /\ a.error = b.error /\ a.preview = b.preview
WellSaid(ev) ==
    /\ IsEvent(ev) /\ ev.agent \in STRING
    /\ ev.input \in AnyPayload /\ ev.output \in AnyPayload \union {Absent}

(* All reports of one phase of a call say the same of it.                   *)
LEMMA ReportSays ==
    ASSUME RecordingInv, NEW c \in DOMAIN session.uses, NEW phase \in Phases, NEW ev \in Reports(Use(c), phase)
    PROVE  WellSaid(ev) /\ SaysOf(ev, EventOf(c, phase))
<1>1. session \in Sessions /\ SessionOK(session) /\ EventOf(c, phase) \in Reports(Use(c), phase)
  BY CallsAre, EventIsReport, RecordingAssumption
<1>2. UseOK(Use(c))
  BY <1>1 DEF SessionOK, Use
<1>3. CASE Use(c).client = "hook"
  <2>. DEFINE use == Use(c)
              own == [model |-> use.model, usage |-> use.usage, capture |-> "transcript"]
              said == EventOf(c, phase)
  <2>1. /\ Said(ev, use, phase, NoTurn) \/ Said(ev, use, phase, own)
        /\ Said(said, use, phase, NoTurn) \/ Said(said, use, phase, own)
    BY <1>1, <1>3, ReportIs
  <2>2. use.input \in AnyPayload /\ use.output \in AnyPayload /\ use.agent \in STRING
    <3>1. use \in HookUse
      BY <1>2, <1>3 DEF UseOK
    <3>. HIDE DEF use
    <3>2. use.input \in AnyPayload /\ use.output \in AnyPayload /\ use.agent \in STRING
      BY <3>1, Zenon DEF HookUse
    <3>. QED BY <3>2
  <2>. HIDE DEF use, own, said
  <2>3. /\ IsEvent(ev) /\ ev.agent = use.agent /\ ev.input = use.input
        /\ ev.output = (IF phase = "post" THEN use.output ELSE Absent)
        /\ SaysOf(ev, said)
    BY <2>1, Zenon DEF Said, SaysOf
  <2>. QED BY <2>2, <2>3 DEF said, WellSaid
<1>4. CASE Use(c).client = "proxy"
  <2>. DEFINE e == Use(c).event
              a == resolveActionType(e.tool, Use(c).mappings)
              t == ExtractTarget(e.server, Use(c).args)
              p == [e EXCEPT !.channel = "mcp", !.action = a, !.target = t]
  <2>1. e \in AnyEvent
    BY <1>2, <1>4 DEF UseOK, HookUse
  <2>2. ProxyEvent(Use(c)) = p
    BY Zenon DEF ProxyEvent
  <2>3. ev = p /\ EventOf(c, phase) = p
    BY <1>4, <2>2, Zenon DEF Reports, BareEvent, EventOf
  <2>. HIDE DEF e, a, t
  <2>4. /\ IsEvent(e) /\ e.agent \in STRING /\ e.input \in AnyPayload /\ e.output \in AnyPayload
    BY <2>1, AnyEventIs
  <2>5. IsEvent(p) /\ p.agent = e.agent /\ p.input = e.input /\ p.output = e.output
    BY <2>4 DEF IsEvent, EventFields
  <2>. HIDE DEF p
  <2>. QED BY <2>3, <2>4, <2>5 DEF WellSaid, SaysOf
<1>5. CASE Use(c).client \notin {"hook", "proxy"}
  <2>1. Use(c).event \in AnyEvent
    <3>1. \A use \in HookUse : use.client \in {"hook"}
      BY Zenon DEF HookUse
    <3>2. Use(c) \notin HookUse
      BY <1>5, <3>1
    <3>. QED BY <1>2, <3>2, Zenon DEF UseOK
  <2>2. ev = Use(c).event /\ EventOf(c, phase) = Use(c).event
    BY <1>5, Zenon DEF Reports, BareEvent, EventOf
  <2>. QED BY <2>1, <2>2, AnyEventIs DEF WellSaid, SaysOf
<1>. QED BY <1>3, <1>4, <1>5

(* What a frame says is what the call was.                                  *)
LEMMA FrameSays ==
    ASSUME RecordingInv, NEW f, IsFrame(f)
    PROVE  WellSaid(f.event) /\ SaysOf(f.event, EventOf(f.call, f.phase))
<1>1. PICK ev \in Reports(Use(f.call), f.phase) :
          f = [call |-> f.call, phase |-> f.phase, event |-> WithDefaults(ev, Use(f.call).operator)]
  BY Zenon DEF IsFrame
<1>2. f.call \in DOMAIN session.uses /\ f.phase \in Phases
  BY Zenon DEF IsFrame
<1>3. WellSaid(ev) /\ SaysOf(ev, EventOf(f.call, f.phase))
  BY <1>1, <1>2, ReportSays, Zenon
<1>4. f.event = WithDefaults(ev, Use(f.call).operator)
  BY <1>1
<1>5. Defaulted(f.event, ev, Use(f.call).operator)
  BY <1>3, <1>4, DefaultsAre, Zenon DEF WellSaid
<1>6. /\ IsEvent(f.event) /\ f.event.agent = ev.agent /\ f.event.input = ev.input
      /\ f.event.output = ev.output /\ f.event.error = ev.error /\ f.event.preview = ev.preview
  BY <1>5, Zenon DEF Defaulted, EventFields
<1>. QED BY <1>3, <1>6, Zenon DEF WellSaid, SaysOf

(* No two receipts of a chain have the same place in it.                    *)
LEMMA PlaceIsOne ==
    ASSUME RecordingInv, NEW i \in DOMAIN rows
    PROVE  GetByChainSequence(rows, rows[i].chain, rows[i].seq) = {i}
<1>. DEFINE Place(k) == {j \in 1..k : rows[j].chain = rows[k].chain}
<1>1. /\ DOMAIN rows \subseteq Nat
      /\ \A k \in DOMAIN rows : rows[k].seq = Cardinality(Place(k))
  <2>1. IsSeq(rows)
    BY CallsAre
  <2>2. DOMAIN rows = 1..Len(rows) /\ Len(rows) \in Nat
    BY <2>1, AppendIs
  <2>3. \A k \in DOMAIN rows : rows[k].seq = Cardinality(Place(k))
    BY DEF RecordingInv, Written
  <2>. QED BY <2>2, <2>3
<1>2. ASSUME NEW j \in DOMAIN rows, NEW k \in DOMAIN rows, j < k, rows[j].chain = rows[k].chain
      PROVE  rows[j].seq # rows[k].seq
  <2>1. j \in Nat /\ k \in Nat
    BY <1>1
  <2>2. Place(j) \subseteq Place(k) /\ k \in Place(k) /\ k \notin Place(j)
    <3>1. \A n \in Place(j) : n \in Place(k)
      BY <1>2, <2>1
    <3>. QED BY <1>1, <1>2, <2>1, <3>1
  <2>3. IsFiniteSet(Place(k))
    <3>1. IsFiniteSet(1..k) /\ Place(k) \subseteq 1..k
      BY <2>1, FS_Interval
    <3>. HIDE DEF Place
    <3>. QED BY <3>1, FS_Subset
  <2>. HIDE DEF Place
  <2>4. Cardinality(Place(j)) # Cardinality(Place(k))
    BY <2>2, <2>3, FS_Subset
  <2>. QED BY <1>1, <2>4
<1>3. \A k \in DOMAIN rows : rows[k].chain = rows[i].chain /\ rows[k].seq = rows[i].seq => k = i
  <2>1. SUFFICES ASSUME NEW k \in DOMAIN rows, rows[k].chain = rows[i].chain, k # i
                 PROVE  rows[k].seq # rows[i].seq
    OBVIOUS
  <2>2. k < i \/ i < k
    BY <1>1, <2>1
  <2>. QED BY <1>2, <2>1, <2>2
<1>. QED BY <1>3 DEF GetByChainSequence

(* An envelope of a payload for a key, altered or not.                      *)
EnvelopeOf(e, payload, key) ==
    e # None => /\ payload \in AnyPayload /\ payload.kind = "object"
                /\ e.kid = key /\ e.ct.to = key /\ e.ct.plain = payload

(* What sealing makes of a payload, altered or not, is such an envelope.    *)
LEMMA EnvelopeIs ==
    ASSUME NEW payload \in AnyPayload \union {Absent}, NEW policy, NEW ev, NEW settings,
           NEW e \in Envelopes(Sealed(payload, policy, ev, settings))
    PROVE  EnvelopeOf(e, payload, settings.key)
<1>. DEFINE s == Sealed(payload, policy, ev, settings)
            ct == [to |-> settings.key, plain |-> payload]
            whole == [kid |-> settings.key, ct |-> ct, intact |-> TRUE]
<1>1. s # None => payload.kind = "object" /\ s = whole
  BY Zenon DEF Sealed, EncryptDisclosure
<1>. HIDE DEF s
<1>2. SUFFICES ASSUME e # None PROVE EnvelopeOf(e, payload, settings.key)
  BY DEF EnvelopeOf
<1>3. s # None /\ (e = s \/ e = [s EXCEPT !.intact = FALSE])
  BY <1>2, Zenon DEF Envelopes, s
<1>4. payload \in AnyPayload
  <2>1. Absent.kind = "none"
    BY DEF Absent, Payload
  <2>. QED BY <1>1, <1>3, <2>1
<1>5. ct.to = settings.key /\ ct.plain = payload
  OBVIOUS
<1>. HIDE DEF ct
<1>6. e.kid = settings.key /\ e.ct = ct
  BY <1>1, <1>3
<1>. QED BY <1>1, <1>3, <1>4, <1>5, <1>6, Zenon DEF EnvelopeOf

(* What the holder of a key makes of an envelope.                           *)
Told(answer, e, payload, own, key) ==
    /\ answer.payload # None => /\ e # None /\ own = key /\ e.intact
                                /\ answer.payload = payload /\ HashOf(payload) = payload
    /\ (e # None /\ own = key /\ e.intact) => answer.payload # None
    /\ (e # None /\ own # key) => answer = Answer(3, "another key")
    /\ (e # None /\ own = key /\ ~e.intact) => answer = Answer(3, "corrupt")

(* Who holds a key is told of an envelope just what it may be told.         *)
LEMMA ReadingIs ==
    ASSUME NEW e, NEW payload, NEW own, NEW key, EnvelopeOf(e, payload, own)
    PROVE  Told(Reading(e, key), e, payload, own, key)
<1>1. None \notin AnyPayload
  BY RecordingAssumption
<1>2. \A n, text : Answer(n, text).payload = None
  BY DEF Answer
<1>3. CASE e = None
  <2>1. Reading(e, key) = Answer(0, "no disclosure")
    BY <1>3, Zenon DEF Reading
  <2>. QED BY <1>2, <1>3, <2>1, Zenon DEF Told
<1>4. CASE e # None /\ Opens(e, key)
  <2>1. Reading(e, key) = Plain(e.ct.plain)
    BY <1>4, Zenon DEF Reading
  <2>2. Plain(e.ct.plain).payload = e.ct.plain
    BY DEF Plain
  <2>3. /\ e.intact /\ own = key /\ e.ct.plain = payload /\ payload \in AnyPayload
        /\ payload.kind = "object"
    BY <1>4, Zenon DEF Opens, EnvelopeOf
  <2>4. HashOf(payload) = payload
    BY <2>3 DEF HashOf, hasJSONPayload
  <2>5. payload # None
    BY <1>1, <2>3
  <2>. QED BY <1>4, <2>1, <2>2, <2>3, <2>4, <2>5, Zenon DEF Told
<1>5. CASE e # None /\ ~Opens(e, key)
  <2>1. Reading(e, key) = Answer(3, IF e.kid = key THEN "corrupt" ELSE "another key")
    BY <1>5, Zenon DEF Reading
  <2>2. e.kid = own /\ (e.intact => own # key)
    BY <1>5, Zenon DEF Opens, EnvelopeOf
  <2>. QED BY <1>2, <1>5, <2>1, <2>2, Zenon DEF Told
<1>. QED BY <1>3, <1>4, <1>5

(* The command finds the receipt it was asked for.                          *)
LEMMA DiscloseIs ==
    ASSUME RecordingInv, NEW i \in DOMAIN rows, rows[i].chain \in STRING, NEW key, NEW field
    PROVE  Disclose(rows, rows[i].chain, rows[i].seq, key, field) = Reading(rows[i][field], key)
<1>. DEFINE chain == rows[i].chain
            chains == ChainsIn(rows, chain)
            found == UNION {GetByChainSequence(rows, c, rows[i].seq) : c \in chains}
<1>1. chains = {chain}
  <2>1. None \notin STRING
    BY RecordingAssumption
  <2>. QED BY <2>1 DEF ChainsIn
<1>2. found = {i}
  <2>1. GetByChainSequence(rows, chain, rows[i].seq) = {i}
    BY PlaceIsOne
  <2>. QED BY <1>1, <2>1
<1>3. Cardinality(chains) = 1
  BY <1>1, FS_Singleton
<1>4. (CHOOSE k \in found : TRUE) = i
  BY <1>2
<1>5. chains # {} /\ ~(Cardinality(chains) > 1) /\ ~(Cardinality(chains) = 1 /\ found = {})
  BY <1>1, <1>2, <1>3
<1>. DEFINE pick == CHOOSE k \in found : TRUE
<1>6. Disclose(rows, chain, rows[i].seq, key, field) = Reading(rows[pick][field], key)
  BY <1>5, Zenon DEF Disclose
<1>. QED BY <1>4, <1>6, Zenon
-----------------------------------------------------------------------------
(* The hook's reading of a command, and the shell's. *)

(* What stands at the places of a set, in their order.                      *)
Listed(a, s, S) ==
    /\ Cardinality(S) \in Nat
    /\ a = [k \in 1..Cardinality(S) |-> a[k]]
    /\ \A i \in S : a[Rank(S, i)] = s[i]

(* At lists the places in their order.                                      *)
LEMMA AtIs ==
    ASSUME NEW n \in Nat, NEW S, S \subseteq 1..n, NEW s
    PROVE  Listed(At(s, S), s, S)
<1>1. /\ Cardinality(S) \in Nat
      /\ \A i \in S : Rank(S, i) \in 1..Cardinality(S)
      /\ \A i, j \in S : Rank(S, i) = Rank(S, j) => i = j
  BY RankIs, Zenon
<1>2. At(s, S) = [k \in 1..Cardinality(S) |-> s[CHOOSE i \in S : Rank(S, i) = k]]
  BY DEF At, Rank
<1>3. ASSUME NEW i \in S PROVE At(s, S)[Rank(S, i)] = s[i]
  <2>1. (CHOOSE j \in S : Rank(S, j) = Rank(S, i)) = i
    BY <1>1
  <2>2. At(s, S)[Rank(S, i)] = s[CHOOSE j \in S : Rank(S, j) = Rank(S, i)]
    BY <1>1, <1>2
  <2>. QED BY <2>1, <2>2
<1>4. At(s, S) = [k \in 1..Cardinality(S) |-> At(s, S)[k]]
  BY <1>2
<1>. QED BY <1>1, <1>3, <1>4, Zenon DEF Listed

(* The numbers of an interval.                                              *)
LEMMA CountIs ==
    ASSUME NEW k \in Nat
    PROVE  IsFiniteSet(1..k) /\ Cardinality(1..k) = k
<1>1. Cardinality(1..k) = IF 1 > k THEN 0 ELSE k - 1 + 1
  BY FS_Interval
<1>. QED BY <1>1, FS_Interval

(* At all places of a sequence is the sequence.                             *)
LEMMA AtAll ==
    ASSUME NEW T, NEW s \in Seq(T)
    PROVE  At(s, 1..Len(s)) = s
<1>. DEFINE S == 1..Len(s)
            a == At(s, S)
<1>1. Cardinality(S) = Len(s)
  BY CountIs
<1>2. \A i \in S : Rank(S, i) = i
  <2>1. SUFFICES ASSUME NEW i \in S PROVE Rank(S, i) = i
    OBVIOUS
  <2>2. {j \in S : j <= i} = 1..i /\ i \in Nat
    OBVIOUS
  <2>3. Cardinality(1..i) = i
    BY <2>2, CountIs
  <2>. QED BY <2>2, <2>3, Zenon DEF Rank
<1>3. S \subseteq 1..Len(s) /\ Len(s) \in Nat
  OBVIOUS
<1>4. /\ a = [k \in 1..Cardinality(S) |-> a[k]]
      /\ \A i \in S : a[Rank(S, i)] = s[i]
  <2>. HIDE DEF S
  <2>1. Listed(a, s, S)
    BY <1>3, AtIs
  <2>. QED BY <2>1, Zenon DEF Listed
<1>. HIDE DEF a
<1>5. a = [k \in 1..Len(s) |-> a[k]] /\ \A k \in 1..Len(s) : a[k] = s[k]
  BY <1>1, <1>2, <1>4
<1>6. a = s
  BY <1>5
<1>. QED BY <1>6 DEF a

(* An interval without two neighbours.                                      *)
LEMMA GapIs ==
    ASSUME NEW m \in Nat, NEW r \in 1..m - 1
    PROVE  Cardinality({j \in 1..m : j # r /\ j # r + 1}) = m - 2
<1>1. IsFiniteSet(1..m) /\ Cardinality(1..m) = m
  BY CountIs
<1>. DEFINE A == (1..m) \ {r}
            B == A \ {r + 1}
<1>2. r \in 1..m /\ r + 1 \in A
  OBVIOUS
<1>3. IsFiniteSet(A) /\ Cardinality(A) = m - 1
  BY <1>1, <1>2, FS_RemoveElement
<1>4. Cardinality(B) = m - 2
  <2>. HIDE DEF A
  <2>1. Cardinality(B) = Cardinality(A) - 1
    BY <1>2, <1>3, FS_RemoveElement
  <2>. QED BY <1>3, <2>1
<1>5. {j \in 1..m : j # r /\ j # r + 1} = B
  OBVIOUS
<1>. QED BY <1>4, <1>5

(* Two sequences, one behind the other.                                     *)
LEMMA ConcatIs ==
    ASSUME NEW T, NEW u \in Seq(T), NEW v \in Seq(T)
    PROVE  /\ u \o v \in Seq(T) /\ Len(u \o v) = Len(u) + Len(v)
           /\ \A k \in 1..Len(u) : (u \o v)[k] = u[k]
           /\ \A k \in 1..Len(v) : (u \o v)[Len(u) + k] = v[k]
OBVIOUS

(* A command without its redirect is the words before and behind it.        *)
LEMMA AtGap ==
    ASSUME NEW T, NEW s \in Seq(T), NEW r \in 1..Len(s) - 1
    PROVE  At(s, {i \in 1..Len(s) : i # r /\ i # r + 1})
             = SubSeq(s, 1, r - 1) \o SubSeq(s, r + 2, Len(s))
<1>. DEFINE n == Len(s)
            S == {i \in 1..n : i # r /\ i # r + 1}
            a == At(s, S)
            w == SubSeq(s, 1, r - 1) \o SubSeq(s, r + 2, n)
<1>1. Cardinality(S) = n - 2
  BY GapIs
<1>2. ASSUME NEW k \in 1..r - 1 PROVE k \in S /\ Rank(S, k) = k
  <2>1. {j \in S : j <= k} = 1..k
    <3>1. \A j \in 1..k : j \in S /\ j <= k
      OBVIOUS
    <3>2. \A j \in S : j <= k => j \in 1..k
      OBVIOUS
    <3>. QED BY <3>1, <3>2
  <2>2. Cardinality(1..k) = k /\ k \in S
    BY CountIs
  <2>. HIDE DEF S
  <2>. QED BY <2>1, <2>2, Zenon DEF Rank
<1>3. ASSUME NEW k \in r..n - 2 PROVE k + 2 \in S /\ Rank(S, k + 2) = k
  <2>1. {j \in S : j <= k + 2} = {j \in 1..k + 2 : j # r /\ j # r + 1}
    OBVIOUS
  <2>2. k + 2 \in Nat /\ r \in 1..(k + 2) - 1
    OBVIOUS
  <2>3. Cardinality({j \in 1..k + 2 : j # r /\ j # r + 1}) = k + 2 - 2
    BY <2>2, GapIs
  <2>4. k + 2 - 2 = k /\ k + 2 \in S
    OBVIOUS
  <2>. HIDE DEF S
  <2>. QED BY <2>1, <2>3, <2>4, Zenon DEF Rank
<1>4. S \subseteq 1..n /\ n \in Nat
  OBVIOUS
<1>5. /\ a = [k \in 1..Cardinality(S) |-> a[k]]
      /\ \A i \in S : a[Rank(S, i)] = s[i]
  <2>. HIDE DEF S, n
  <2>1. Listed(a, s, S)
    BY <1>4, AtIs
  <2>. QED BY <2>1, Zenon DEF Listed
<1>. HIDE DEF a
<1>6. ASSUME NEW k \in 1..n - 2 PROVE a[k] = IF k < r THEN s[k] ELSE s[k + 2]
  <2>1. CASE k < r
    <3>1. k \in S /\ Rank(S, k) = k
      BY <1>2, <2>1
    <3>. HIDE DEF S
    <3>. QED BY <1>5, <2>1, <3>1
  <2>2. CASE ~(k < r)
    <3>1. k + 2 \in S /\ Rank(S, k + 2) = k
      BY <1>3, <2>2
    <3>2. a[Rank(S, k + 2)] = s[k + 2]
      BY <1>5, <3>1
    <3>. HIDE DEF S
    <3>. QED BY <2>2, <3>1, <3>2
  <2>. QED BY <2>1, <2>2
<1>7. /\ w \in Seq(T) /\ Len(w) = n - 2
      /\ \A k \in 1..n - 2 : w[k] = IF k < r THEN s[k] ELSE s[k + 2]
  <2>. DEFINE u == SubSeq(s, 1, r - 1)
              v == SubSeq(s, r + 2, n)
  <2>1. u \in Seq(T) /\ Len(u) = r - 1 /\ \A k \in 1..r - 1 : u[k] = s[k]
    OBVIOUS
  <2>2. v \in Seq(T) /\ Len(v) = n - r - 1 /\ \A k \in 1..n - r - 1 : v[k] = s[k + r + 1]
    OBVIOUS
  <2>3. /\ w \in Seq(T) /\ Len(w) = Len(u) + Len(v)
        /\ \A k \in 1..Len(u) : w[k] = u[k]
        /\ \A k \in 1..Len(v) : w[Len(u) + k] = v[k]
    <3>1. w = u \o v
      OBVIOUS
    <3>. HIDE DEF u, v, w
    <3>2. u \in Seq(T) /\ v \in Seq(T)
      BY <2>1, <2>2
    <3>. QED BY <3>1, <3>2, ConcatIs
  <2>. HIDE DEF u, v, w
  <2>4. w \in Seq(T) /\ Len(w) = n - 2
    BY <2>1, <2>2, <2>3
  <2>5. ASSUME NEW k \in 1..n - 2 PROVE w[k] = IF k < r THEN s[k] ELSE s[k + 2]
    <3>1. CASE k < r
      BY <2>1, <2>2, <2>3, <3>1
    <3>2. CASE ~(k < r)
      <4>1. k - (r - 1) \in 1..n - r - 1 /\ k = r - 1 + (k - (r - 1))
        BY <3>2
      <4>3. w[k] = v[k - (r - 1)]
        BY <2>1, <2>2, <2>3, <4>1
      <4>2. v[k - (r - 1)] = s[k - (r - 1) + r + 1]
        BY <2>2, <4>1
      <4>4. k - (r - 1) + r + 1 = k + 2
        OBVIOUS
      <4>. QED BY <3>2, <4>2, <4>3, <4>4
    <3>. QED BY <3>1, <3>2
  <2>. QED BY <2>4, <2>5
<1>8. a = [k \in 1..n - 2 |-> a[k]]
  BY <1>1, <1>5
<1>9. a = w
  <2>. HIDE DEF w, S
  <2>. QED BY <1>6, <1>7, <1>8
<1>. QED BY <1>9 DEF a

(* The operands of a command are a sequence of some length.                 *)
LEMMA OperandsAre ==
    ASSUME NEW T, NEW args \in Seq(T)
    PROVE  \E m \in Nat : Len(operandsOnly(args)) = m /\ DOMAIN operandsOnly(args) = 1..m
<1>1. PICK S : S \subseteq 1..Len(args) /\ operandsOnly(args) = At(args, S)
  <2>1. \A last : {i \in DOMAIN args : i > last \/ (i < last /\ args[i] \notin Flags)} \subseteq 1..Len(args)
    OBVIOUS
  <2>. QED BY <2>1, Zenon DEF operandsOnly
<1>2. Listed(At(args, S), args, S)
  <2>1. Len(args) \in Nat
    OBVIOUS
  <2>. QED BY <1>1, <2>1, AtIs
<1>. DEFINE a == operandsOnly(args)
            m == Cardinality(S)
<1>3. m \in Nat /\ a = [k \in 1..m |-> a[k]]
  BY <1>1, <1>2, Zenon DEF Listed
<1>. HIDE DEF a, m
<1>4. Len(a) = m /\ DOMAIN a = 1..m
  BY <1>3
<1>. QED BY <1>3, <1>4 DEF a

(* Where a verb claims a path, the shell does just that to that path.       *)
Claims(t) == t.path # ""
ClaimsAll(t, action, paths) == t.action = action /\ paths = {t.path}

(* A deletion the hook claims is of the one operand the shell deletes.      *)
LEMMA OperandClaimed ==
    ASSUME NEW T, NEW args \in Seq(T), Claims(singleOperand(args, Delete))
    PROVE  ClaimsAll(singleOperand(args, Delete), Delete, ToSet(operandsOnly(args)))
<1>. DEFINE a == operandsOnly(args)
            t == singleOperand(args, Delete)
<1>1. PICK m \in Nat : Len(a) = m /\ DOMAIN a = 1..m
  BY OperandsAre, Zenon
<1>2. t = (IF Len(a) = 1 THEN Claim(Delete, a[1]) ELSE NoTarget)
  BY Zenon DEF singleOperand
<1>. HIDE DEF a, t
<1>3. ~Claims(NoTarget)
  BY DEF NoTarget, Claims
<1>4. Len(a) = 1 /\ t = [action |-> Delete, path |-> a[1]]
  BY <1>2, <1>3, Zenon DEF Claim, t
<1>5. DOMAIN a = {1}
  BY <1>1, <1>4
<1>6. ToSet(a) = {a[1]}
  BY <1>5 DEF ToSet
<1>7. t.action = Delete /\ t.path = a[1]
  BY <1>4
<1>. QED BY <1>6, <1>7, Zenon DEF a, t, ClaimsAll

(* Items the hook and the shell read alike.                                 *)
ReadAlike(T) == T \cap {EscapedSpace, Comment, "-t", IntoDir} = {}

(* The same of a verb that claims its last operand.                         *)
LEMMA LastClaimed ==
    ASSUME NEW T, NEW args \in Seq(T), ReadAlike(T), NEW action, Claims(lastOperand(args, action))
    PROVE  ClaimsAll(lastOperand(args, action), action, Destination(args))
<1>. DEFINE a == operandsOnly(args)
            t == lastOperand(args, action)
<1>1. PICK m \in Nat : Len(a) = m /\ DOMAIN a = 1..m
  BY OperandsAre, Zenon
<1>2. t = (IF Len(a) >= 2 THEN Claim(action, Last(a)) ELSE NoTarget)
  BY Zenon DEF lastOperand
<1>3. \A i \in DOMAIN args : args[i] # "-t" /\ args[i] # IntoDir
  BY DEF ReadAlike
<1>. DEFINE ends == {i \in DOMAIN args : args[i] = "--"}
            Option(name) == {i \in DOMAIN args : args[i] = name /\ \A j \in ends : i < j}
            given == {i \in Option("-t") : i < Len(args)}
<1>4. given = {} /\ Option(IntoDir) = {}
  BY <1>3
<1>5. Destination(args) = IF Len(a) >= 2 THEN {Last(a)} ELSE {}
  <2>. DEFINE found == IF Len(a) >= 2 THEN {Last(a)} ELSE {}
  <2>1. Destination(args) = CASE given # {} -> {args[(CHOOSE i \in given : TRUE) + 1]}
                              [] given = {} /\ Option(IntoDir) # {} -> {"g"}
                              [] OTHER -> found
    BY DEF Destination
  <2>. HIDE DEF given, Option, found
  <2>2. Destination(args) = found
    BY <1>4, <2>1, Zenon
  <2>. QED BY <2>2 DEF found
<1>. HIDE DEF a, t
<1>6. ~Claims(NoTarget)
  BY DEF NoTarget, Claims
<1>7. Len(a) >= 2 /\ t = [action |-> action, path |-> Last(a)]
  BY <1>2, <1>6, Zenon DEF Claim, t
<1>8. t.action = action /\ t.path = Last(a)
  BY <1>7
<1>. QED BY <1>5, <1>7, <1>8, Zenon DEF t, ClaimsAll

(* A command of words with at most one redirect.                            *)
VerbOf(words) == IF words = <<>> THEN "" ELSE Head(words)
ReadAs(words, other) ==
    CASE VerbOf(words) = "rm" -> singleOperand(Tail(words), Delete)
      [] VerbOf(words) = "mv" -> lastOperand(Tail(words), Move)
      [] VerbOf(words) = "cp" -> lastOperand(Tail(words), Create)
      [] OTHER -> other
RunAs(words) ==
    CASE VerbOf(words) = "rm" -> {<<Delete, p>> : p \in ToSet(operandsOnly(Tail(words)))}
      [] VerbOf(words) = "mv" -> {<<Move, p>> : p \in Destination(Tail(words))}
      [] VerbOf(words) = "cp" -> {<<Create, p>> : p \in Destination(Tail(words))}
      [] OTHER -> {}
Simple(words) == IF words # <<>> /\ Head(words) = "sudo" THEN Tail(words) ELSE words

(* The words of a command are read as they are run.                         *)
ReadAsRun(t, ran, other, prefixed) ==
    \/ t.action \in {Delete, Move, Create} /\ ran = {<<t.action, t.path>>}
    \/ t = other /\ (prefixed \/ ran = {})

(* What the hook claims of a verb is what the shell does, with or without a prefix. *)
LEMMA VerbRead ==
    ASSUME NEW T, NEW words \in Seq(T), ReadAlike(T), NEW other, Claims(ReadAs(words, other))
    PROVE  ReadAsRun(ReadAs(words, other), RunAs(Simple(words)), other, "sudo" \in T)
<1>. DEFINE verb == VerbOf(words)
            t == ReadAs(words, other)
            rest == Tail(words)
<1>1. words # <<>> => Tail(words) \in Seq(T) /\ Head(words) \in T
  OBVIOUS
<1>. HIDE DEF t
<1>2. verb = "rm" \/ verb = "mv" \/ verb = "cp" => rest \in Seq(T) /\ Simple(words) = words
  BY <1>1 DEF VerbOf, Simple
<1>. HIDE DEF rest
<1>3. CASE verb = "rm"
  <2>1. t = singleOperand(rest, Delete)
    BY <1>3, Zenon DEF ReadAs, t, rest
  <2>2. RunAs(words) = {<<Delete, p>> : p \in ToSet(operandsOnly(rest))}
    BY <1>3, Zenon DEF RunAs, rest
  <2>3. ClaimsAll(t, Delete, ToSet(operandsOnly(rest)))
    BY <1>2, <1>3, <2>1, OperandClaimed, Zenon DEF t
  <2>4. \A x : {<<Delete, p>> : p \in {x}} = {<<Delete, x>>}
    OBVIOUS
  <2>. QED BY <1>2, <1>3, <2>2, <2>3, <2>4, Zenon DEF ClaimsAll, ReadAsRun, t
<1>4. CASE verb = "mv"
  <2>1. t = lastOperand(rest, Move)
    BY <1>4 DEF ReadAs, t, rest
  <2>2. RunAs(words) = {<<Move, p>> : p \in Destination(rest)}
    BY <1>4 DEF RunAs, rest
  <2>3. ClaimsAll(t, Move, Destination(rest))
    BY <1>2, <1>4, <2>1, LastClaimed, Zenon DEF t
  <2>4. \A x : {<<Move, p>> : p \in {x}} = {<<Move, x>>}
    OBVIOUS
  <2>. QED BY <1>2, <1>4, <2>2, <2>3, <2>4, Zenon DEF ClaimsAll, ReadAsRun, t
<1>5. CASE verb = "cp"
  <2>1. t = lastOperand(rest, Create)
    BY <1>5 DEF ReadAs, t, rest
  <2>2. RunAs(words) = {<<Create, p>> : p \in Destination(rest)}
    BY <1>5 DEF RunAs, rest
  <2>3. ClaimsAll(t, Create, Destination(rest))
    BY <1>2, <1>5, <2>1, LastClaimed, Zenon DEF t
  <2>4. \A x : {<<Create, p>> : p \in {x}} = {<<Create, x>>}
    OBVIOUS
  <2>. QED BY <1>2, <1>5, <2>2, <2>3, <2>4, Zenon DEF ClaimsAll, ReadAsRun, t
<1>6. CASE verb \notin {"rm", "mv", "cp"}
  <2>1. t = other
    BY <1>6 DEF ReadAs, t
  <2>2. ASSUME "sudo" \notin T PROVE RunAs(Simple(words)) = {}
    <3>1. Simple(words) = words
      BY <1>1, <2>2, Zenon DEF Simple
    <3>. QED BY <1>6, <3>1 DEF RunAs
  <2>. QED BY <2>1, <2>2, Zenon DEF ReadAsRun, t
<1>. QED BY <1>3, <1>4, <1>5, <1>6

(* The words the shell takes for the command itself.                        *)
Kept(cmd) == {i \in DOMAIN cmd : i \notin Redirects(cmd) /\ i - 1 \notin Redirects(cmd)}
Words(cmd) == At(cmd, Kept(cmd))

(* Without an escaped space and with its redirects complete, a command is read word by word. *)
LEMMA LexIs ==
    ASSUME NEW T, NEW cmd \in Seq(T), EscapedSpace \notin T, WellFormed(cmd)
    PROVE  lex(cmd) = cmd
<1>. DEFINE Tokens(item) == IF item = EscapedSpace THEN <<"a\\", "b">> ELSE <<item>>
            tokens == [i \in DOMAIN cmd |-> Tokens(cmd[i])]
<1>1. ~\E i \in DOMAIN cmd : cmd[i] \in forbiddenOps \cup OtherRedirects
  BY Zenon DEF WellFormed
<1>2. lex(cmd) = FlattenSeq(tokens)
  BY <1>1, Zenon DEF lex
<1>3. \A i \in DOMAIN cmd : cmd[i] # EscapedSpace
  OBVIOUS
<1>4. \A i \in DOMAIN cmd : Tokens(cmd[i]) = <<cmd[i]>>
  BY <1>3, Zenon
<1>. HIDE DEF Tokens
<1>5. tokens = [i \in DOMAIN cmd |-> <<cmd[i]>>]
  BY <1>4
<1>6. FlattenSeq([i \in DOMAIN cmd |-> <<cmd[i]>>]) = cmd
  BY FlattenSingles
<1>. HIDE DEF tokens
<1>. QED BY <1>2, <1>5, <1>6, Zenon

(* The hook leaves out of a command what the shell leaves out.              *)
ReadWithout(cmd, t) ==
    \/ Redirects(cmd) = {} /\ t = ReadAs(Words(cmd), NoTarget)
    \/ \E r \in 1..Len(cmd) - 1 : Redirects(cmd) = {r} /\ t = ReadAs(Words(cmd), Claim(Create, cmd[r + 1]))
    \/ t = NoTarget

(* The hook reads a command without its redirects, as the shell does.       *)
LEMMA WordsAre ==
    ASSUME NEW T, NEW cmd \in Seq(T), EscapedSpace \notin T, WellFormed(cmd)
    PROVE  (ReadWithout(cmd, extractBashTarget(cmd)) /\ Words(cmd) \in Seq(T)) \/ extractBashTarget(cmd) = NoTarget
<1>. DEFINE at == Redirects(cmd)
            t  == extractBashTarget(cmd)
            r  == CHOOSE i \in at : TRUE
            cutOut == SubSeq(cmd, 1, r - 1) \o SubSeq(cmd, r + 2, Len(cmd))
<1>1. lex(cmd) = cmd
  BY LexIs
<1>2. /\ at \subseteq 1..Len(cmd) /\ IsFiniteSet(at)
      /\ Len(cmd) \in Nat /\ DOMAIN cmd = 1..Len(cmd)
  <2>1. IsFiniteSet(1..Len(cmd)) /\ at \subseteq 1..Len(cmd)
    BY FS_Interval DEF Redirects
  <2>2. Len(cmd) \in Nat /\ DOMAIN cmd = 1..Len(cmd)
    OBVIOUS
  <2>. HIDE DEF at
  <2>3. IsFiniteSet(at)
    BY <2>1, FS_Subset
  <2>. QED BY <2>1, <2>2, <2>3, Zenon
<1>3. CASE at = {}
  <2>1. ~(Cardinality(at) > 1) /\ Len(cmd) \notin at
    <3>1. Cardinality(at) = 0
      BY <1>3, FS_EmptySet
    <3>. HIDE DEF at
    <3>. QED BY <1>3, <3>1
  <2>2. t = ReadAs(cmd, NoTarget)
    BY <1>1, <1>3, <2>1, Zenon DEF extractBashTarget, ReadAs, VerbOf
  <2>3. Kept(cmd) = 1..Len(cmd)
    BY <1>2, <1>3 DEF Kept
  <2>4. Words(cmd) = cmd
    BY <2>3, AtAll DEF Words
  <2>. HIDE DEF t
  <2>. QED BY <1>3, <2>2, <2>4, Zenon DEF ReadWithout, t
<1>4. CASE at # {}
  <2>1. r \in at /\ r \in 1..Len(cmd)
    <3>1. r \in at
      BY <1>4
    <3>. HIDE DEF r, at
    <3>. QED BY <1>2, <3>1
  <2>2. SUFFICES ASSUME t # NoTarget PROVE ReadWithout(cmd, t) /\ Words(cmd) \in Seq(T)
    BY Zenon
  <2>3. ~(Cardinality(at) > 1) /\ Len(cmd) \notin at
    BY <1>1, <2>2, Zenon DEF extractBashTarget
  <2>4. at = {r}
    <3>. HIDE DEF at, r
    <3>1. {r} \subseteq at /\ Cardinality({r}) = 1
      BY <2>1, FS_Singleton
    <3>2. Cardinality({r}) <= Cardinality(at) /\ (Cardinality({r}) = Cardinality(at) => at = {r})
      BY <1>2, <3>1, FS_Subset
    <3>3. Cardinality(at) \in Nat
      BY <1>2, FS_CardinalityType
    <3>. QED BY <2>3, <3>1, <3>2, <3>3
  <2>5. t = ReadAs(cutOut, Claim(Create, cmd[r + 1]))
    BY <1>1, <1>4, <2>3, Zenon DEF extractBashTarget, ReadAs, VerbOf
  <2>6. r \in 1..Len(cmd) - 1
    <3>1. r # Len(cmd)
      BY <2>1, <2>3
    <3>2. r \in 1..Len(cmd) /\ Len(cmd) \in Nat
      BY <1>2, <2>1, Zenon
    <3>. HIDE DEF r
    <3>. QED BY <3>1, <3>2
  <2>7. Kept(cmd) = {i \in 1..Len(cmd) : i # r /\ i # r + 1}
    <3>1. Redirects(cmd) = {r}
      BY <2>4
    <3>. HIDE DEF r
    <3>. QED BY <1>2, <2>1, <3>1 DEF Kept
  <2>. HIDE DEF r, at, t
  <2>8. At(cmd, {i \in 1..Len(cmd) : i # r /\ i # r + 1}) = cutOut
    BY <2>6, AtGap
  <2>9. Words(cmd) = cutOut
    BY <2>7, <2>8, Zenon DEF Words
  <2>10. cutOut \in Seq(T)
    BY <2>6
  <2>. HIDE DEF cutOut
  <2>. QED BY <2>4, <2>5, <2>6, <2>9, <2>10, Zenon DEF ReadWithout, at, t
<1>. QED BY <1>3, <1>4

(* What the hook claims of a command the shell does, and nothing else but   *)
(* for the redirect.                                                        *)
LEMMA ClaimIsEffect ==
    ASSUME NEW T, NEW cmd \in Seq(T), ReadAlike(T), WellFormed(cmd),
           NEW t, t = extractBashTarget(cmd), Claims(t)
    PROVE  /\ t.action \in {Delete, Move, Create}
           /\ <<t.action, t.path>> \in Effects(cmd)
           /\ "sudo" \in T \/ \A e \in Effects(cmd) : e[1] \in {t.action, Create}
<1>. DEFINE at == Redirects(cmd)
            w == Words(cmd)
            ran == RunAs(Simple(w))
            made == {<<Create, cmd[i + 1]>> : i \in at}
<1>1. Effects(cmd) = ran \cup made
  <2>. DEFINE read == {i \in DOMAIN cmd : \A j \in 1..i : cmd[j] # Comment}
  <2>1. DOMAIN cmd = 1..Len(cmd) /\ Len(cmd) \in Nat /\ \A i \in DOMAIN cmd : cmd[i] # Comment
    BY DEF ReadAlike
  <2>2. \A i \in DOMAIN cmd : 1..i \subseteq DOMAIN cmd
    BY <2>1
  <2>3. read = DOMAIN cmd
    BY <2>1, <2>2, Zenon
  <2>4. Redirects(cmd) \cap read = at
    BY <2>3 DEF Redirects
  <2>. HIDE DEF read, at
  <2>5. {i \in read : i \notin at /\ i - 1 \notin at} = Kept(cmd)
    BY <2>3, Zenon DEF Kept, at
  <2>6. Effects(cmd) = RunAs(Simple(At(cmd, Kept(cmd)))) \cup {<<Create, cmd[i + 1]>> : i \in at}
    BY <2>4, <2>5, Zenon DEF Effects, RunAs, Simple, VerbOf, read
  <2>. QED BY <2>6, Zenon DEF Words
<1>2. ~Claims(NoTarget)
  BY DEF NoTarget, Claims
<1>3. ReadWithout(cmd, t) /\ w \in Seq(T)
  <2>1. EscapedSpace \notin T
    BY DEF ReadAlike
  <2>. QED BY <1>2, <2>1, WordsAre, Zenon
<1>. HIDE DEF w, ran
<1>4. CASE at = {} /\ t = ReadAs(w, NoTarget)
  <2>1. ReadAsRun(t, ran, NoTarget, "sudo" \in T)
    BY <1>3, <1>4, VerbRead, Zenon DEF ran
  <2>2. t.action \in {Delete, Move, Create} /\ ran = {<<t.action, t.path>>}
    BY <1>2, <2>1, Zenon DEF ReadAsRun
  <2>3. made = {}
    BY <1>4
  <2>. HIDE DEF made
  <2>. QED BY <1>1, <2>2, <2>3
<1>5. ASSUME NEW r \in 1..Len(cmd) - 1, at = {r}, t = ReadAs(w, Claim(Create, cmd[r + 1]))
      PROVE  /\ t.action \in {Delete, Move, Create}
             /\ <<t.action, t.path>> \in Effects(cmd)
             /\ "sudo" \in T \/ \A e \in Effects(cmd) : e[1] \in {t.action, Create}
  <2>. DEFINE other == Claim(Create, cmd[r + 1])
  <2>1. ReadAsRun(t, ran, other, "sudo" \in T)
    BY <1>3, <1>5, VerbRead, Zenon DEF ran
  <2>2. made = {<<Create, cmd[r + 1]>>}
    BY <1>5
  <2>3. t = other => t.action = Create /\ t.path = cmd[r + 1]
    <3>1. SUFFICES ASSUME t = other PROVE t.action = Create /\ t.path = cmd[r + 1]
      OBVIOUS
    <3>2. t = [action |-> Create, path |-> cmd[r + 1]]
      BY <1>2, <3>1, Zenon DEF Claim
    <3>. QED BY <3>2
  <2>. HIDE DEF made, other
  <2>4. CASE t.action \in {Delete, Move, Create} /\ ran = {<<t.action, t.path>>}
    BY <1>1, <2>2, <2>4
  <2>5. CASE t = other /\ ("sudo" \in T \/ ran = {})
    BY <1>1, <2>2, <2>3, <2>5
  <2>. QED BY <2>1, <2>4, <2>5, Zenon DEF ReadAsRun
<1>6. Claims(t)
  OBVIOUS
<1>7. t # NoTarget
  BY <1>2, <1>6
<1>. QED BY <1>3, <1>4, <1>5, <1>7, Zenon DEF ReadWithout, w
-----------------------------------------------------------------------------
(* What a receipt says of a call that a hook reported. *)

Telling(e, use, phase) ==
    /\ e.channel = "claude-code"
    /\ e.action = TargetOf(use).action
    /\ e.target = (IF TargetOf(use).path = "" THEN NoResource
                   ELSE [system |-> "filesystem", resource |-> <<TargetOf(use).path>>])
    /\ e.error = (IF phase = "failure" THEN failureErrorText(use) ELSE NoText)
    /\ e.decision = (IF phase = "pre" THEN "pending" ELSE "allowed")
    /\ e.capture # "" => e.model = use.model /\ e.usage = use.usage

(* The frame of a hook tells what became of the call.                       *)
LEMMA HookFrame ==
    ASSUME RecordingInv, NEW f, IsFrame(f), Use(f.call).client = "hook"
    PROVE  Accepts(f.event) /\ Telling(f.event, Use(f.call), f.phase)
<1>. DEFINE use == Use(f.call)
            own == [model |-> use.model, usage |-> use.usage, capture |-> "transcript"]
<1>1. PICK ev \in Reports(use, f.phase) :
          f = [call |-> f.call, phase |-> f.phase, event |-> WithDefaults(ev, use.operator)]
  BY Zenon DEF IsFrame
<1>2. Accepts(f.event)
  BY Zenon DEF IsFrame
<1>3. Said(ev, use, f.phase, NoTurn) \/ Said(ev, use, f.phase, own)
  BY <1>1, ReportIs
<1>4. f.event = WithDefaults(ev, use.operator)
  BY <1>1
<1>5. own.model = use.model /\ own.usage = use.usage /\ NoTurn.capture = ""
  BY DEF NoTurn
<1>. HIDE DEF use, own
<1>6. IsEvent(ev)
  BY <1>3, Zenon DEF Said
<1>7. Defaulted(f.event, ev, use.operator)
  BY <1>4, <1>6, DefaultsAre, Zenon
<1>8. /\ f.event.channel = ev.channel /\ f.event.action = ev.action /\ f.event.target = ev.target
      /\ f.event.error = ev.error /\ f.event.decision = ev.decision /\ f.event.capture = ev.capture
      /\ f.event.model = ev.model /\ f.event.usage = ev.usage
  BY <1>7, Zenon DEF Defaulted, EventFields
<1>9. Telling(ev, use, f.phase)
  <2>1. ev.capture # "" => ev.model = use.model /\ ev.usage = use.usage
    <3>1. CASE Said(ev, use, f.phase, NoTurn)
      BY <1>5, <3>1, Zenon DEF Said
    <3>2. CASE Said(ev, use, f.phase, own)
      BY <1>5, <3>2, Zenon DEF Said
    <3>. QED BY <1>3, <3>1, <3>2, Zenon
  <2>2. ASSUME NEW turn, Said(ev, use, f.phase, turn) PROVE Telling(ev, use, f.phase)
    BY <2>1, <2>2, Zenon DEF Said, Telling
  <2>. QED BY <1>3, <2>2
<1>10. Telling(f.event, use, f.phase)
  BY <1>8, <1>9, Zenon DEF Telling
<1>. QED BY <1>2, <1>10 DEF use

(* The runes a text can consist of.                                         *)
Runes == STRING \union {",", "[", "R", "]", "i", "f", "...", "~"}

(* Every string is a rune, and texts of runes can be put together.          *)
LEMMA RunesAre ==
    /\ \A runes \in Seq(STRING) : runes \in Seq(Runes)
    /\ \A x \in {",", "[", "R", "]", "i", "f", "...", "~"} : x \in Runes /\ <<x>> \in Seq(Runes)
    /\ \A u, v \in Seq(Runes) : u \o v \in Seq(Runes)
<1>1. \A S, R : S \subseteq R => \A runes \in Seq(S) : runes \in Seq(R)
  OBVIOUS
<1>2. \A x, R : x \in R => <<x>> \in Seq(R)
  OBVIOUS
<1>3. \A R : \A u, v \in Seq(R) : u \o v \in Seq(R)
  OBVIOUS
<1>4. STRING \subseteq Runes /\ \A x \in {",", "[", "R", "]", "i", "f", "...", "~"} : x \in Runes
  BY Zenon DEF Runes
<1>. QED BY <1>1, <1>2, <1>3, <1>4, Zenon

(* A text is rendered part by part.                                         *)
PartOf(text, i) == IF i = 1 THEN text.leaves[i].runes ELSE <<",">> \o text.leaves[i].runes
PartsOf(text) == [i \in DOMAIN text.leaves |-> PartOf(text, i)]
IsText(text) ==
    /\ "leaves" \in DOMAIN text
    /\ text.leaves \in Seq({text.leaves[i] : i \in DOMAIN text.leaves})
    /\ \A i \in DOMAIN text.leaves : text.leaves[i].runes \in Seq(Runes)

(* A text is rendered as the runes of its leaves, one after the other.      *)
LEMMA RenderedIs ==
    ASSUME NEW text, IsText(text)
    PROVE  /\ Len(text.leaves) \in Nat /\ DOMAIN text.leaves = 1..Len(text.leaves)
           /\ PartsOf(text) \in Seq(Seq(Runes)) /\ Len(PartsOf(text)) = Len(text.leaves)
           /\ \A i \in 1..Len(text.leaves) : PartsOf(text)[i] = PartOf(text, i)
           /\ Rendered(text) = Flat(PartsOf(text), Len(text.leaves))
           /\ Rendered(text) \in Seq(Runes)
<1>. DEFINE leaves == text.leaves
            ss == PartsOf(text)
<1>1. Len(leaves) \in Nat /\ DOMAIN leaves = 1..Len(leaves)
  BY DEF IsText
<1>2. ASSUME NEW i \in DOMAIN leaves PROVE PartOf(text, i) \in Seq(Runes)
  <2>1. leaves[i].runes \in Seq(Runes)
    BY Zenon DEF IsText
  <2>2. <<",">> \o leaves[i].runes \in Seq(Runes)
    BY <2>1, RunesAre, Zenon
  <2>. QED BY <2>1, <2>2, Zenon DEF PartOf
<1>3. ss = [i \in 1..Len(leaves) |-> PartOf(text, i)]
  BY <1>1, Zenon DEF PartsOf
<1>. HIDE DEF ss
<1>4. ss \in Seq(Seq(Runes)) /\ Len(ss) = Len(leaves) /\ \A i \in 1..Len(leaves) : ss[i] = PartOf(text, i)
  <2>1. \A i \in 1..Len(leaves) : PartOf(text, i) \in Seq(Runes)
    BY <1>1, <1>2
  <2>. DEFINE n == Len(leaves)
  <2>. HIDE DEF n
  <2>2. ss \in Seq(Seq(Runes)) /\ Len(ss) = n /\ \A i \in 1..n : ss[i] = PartOf(text, i)
    BY <1>1, <1>3, <2>1 DEF n
  <2>. QED BY <2>2 DEF n
<1>5. Rendered(text) = FlattenSeq(ss)
  BY Zenon DEF Rendered, PartsOf, PartOf, ss
<1>6. FlattenSeq(ss) = Flat(ss, Len(ss)) /\ Flat(ss, Len(ss)) \in Seq(Runes)
  <2>1. Len(ss) \in 0..Len(ss)
    BY <1>1, <1>4
  <2>. QED BY <1>4, <2>1, FlatIs
<1>. QED BY <1>1, <1>4, <1>5, <1>6, Zenon DEF ss

(* A text that is no JSON is what it is.                                    *)
LEMMA PlainIs ==
    ASSUME NEW runes \in Seq(Runes)
    PROVE  IsText(PlainText(runes)) /\ Rendered(PlainText(runes)) = runes
<1>. DEFINE text == PlainText(runes)
            ss == PartsOf(text)
<1>1. /\ text.leaves = <<Leaf(runes)>> /\ Leaf(runes).runes = runes
      /\ "leaves" \in DOMAIN text
  BY DEF PlainText, Leaf
<1>2. /\ DOMAIN text.leaves = {1} /\ text.leaves[1] = Leaf(runes)
      /\ \A T : Leaf(runes) \in T => text.leaves \in Seq(T)
  BY <1>1
<1>3. IsText(text)
  <2>1. Leaf(runes) \in {text.leaves[i] : i \in DOMAIN text.leaves}
    BY <1>2
  <2>. HIDE DEF text
  <2>. QED BY <1>1, <1>2, <2>1, Zenon DEF IsText
<1>4. Len(text.leaves) = 1
  BY <1>1
<1>. HIDE DEF text
<1>5. /\ ss \in Seq(Seq(Runes)) /\ Len(ss) = 1 /\ ss[1] = PartOf(text, 1)
      /\ Rendered(text) = Flat(ss, 1)
  <2>1. 1 \in 1..1
    OBVIOUS
  <2>. QED BY <1>3, <1>4, <2>1, RenderedIs
<1>6. ss[1] = runes
  BY <1>1, <1>2, <1>5, Zenon DEF PartOf
<1>. HIDE DEF ss
<1>7. Flat(ss, 1) = Flat(ss, 0) \o ss[1] /\ Flat(ss, 0) = <<>>
  <2>1. 1 \in 1..Len(ss) /\ 1 - 1 = 0
    BY <1>5
  <2>2. Flat(ss, 1) = Flat(ss, 1 - 1) \o ss[1] /\ Flat(ss, 0) = <<>>
    BY <1>5, <2>1, FlatIs
  <2>. QED BY <2>1, <2>2
<1>8. <<>> \o runes = runes
  OBVIOUS
<1>. QED BY <1>3, <1>5, <1>6, <1>7, <1>8, Zenon DEF text

(* A text that is nothing.                                                  *)
LEMMA NoTextIs == IsText(NoText) /\ Rendered(NoText) = <<>>
<1>1. /\ NoText.leaves = <<>> /\ \A T : <<>> \in Seq(T) /\ DOMAIN <<>> = {} /\ Len(<<>>) = 0
      /\ "leaves" \in DOMAIN NoText
  BY DEF NoText
<1>2. IsText(NoText)
  BY <1>1, Zenon DEF IsText
<1>3. Rendered(NoText) = Flat(PartsOf(NoText), 0)
  BY <1>1, <1>2, RenderedIs
<1>. QED BY <1>2, <1>3 DEF Flat

(* The texts an event can carry are texts.                                  *)
LEMMA AnyTextIs ==
    ASSUME NEW text \in AnyText
    PROVE  IsText(text)
<1>. DEFINE L == [sensitive : BOOLEAN, runes : Seq(STRING)]
            leaves == text.leaves
<1>0. "leaves" \in DOMAIN text
  BY Zenon DEF AnyText
<1>1. leaves \in Seq(L)
  BY Zenon DEF AnyText
<1>. HIDE DEF leaves
<1>2. leaves \in Seq({leaves[i] : i \in DOMAIN leaves}) /\ \A i \in DOMAIN leaves : leaves[i] \in L
  <2>. HIDE DEF L
  <2>. QED BY <1>1
<1>3. \A leaf \in L : leaf.runes \in Seq(STRING)
  BY Zenon
<1>. QED BY <1>0, <1>2, <1>3, RunesAre, Zenon DEF IsText, leaves

(* What a hook says of a failure is something.                              *)
LEMMA FailureIsTold ==
    ASSUME NEW use, use.error \in AnyText
    PROVE  IsText(failureErrorText(use)) /\ Rendered(failureErrorText(use)) # <<>>
<1>. DEFINE runes == Rendered(use.error)
            short == SubSeq(runes, 1, HookCap) \o <<"...">>
<1>1. IsText(use.error) /\ runes \in Seq(Runes)
  BY AnyTextIs, RenderedIs
<1>. HIDE DEF runes, short
<1>2. CASE runes = <<>>
  <2>0. ~(Len(runes) > HookCap)
    BY <1>2, RecordingAssumption
  <2>1. PICK x \in {"i", "f"} : failureErrorText(use) = PlainText(<<x>>)
    <3>1. CASE use.interrupt
      <4>1. failureErrorText(use) = PlainText(<<"i">>)
        BY <1>2, <2>0, <3>1, Zenon DEF failureErrorText, runes
      <4>. QED BY <4>1, Zenon
    <3>2. CASE ~use.interrupt
      <4>1. failureErrorText(use) = PlainText(<<"f">>)
        BY <1>2, <2>0, <3>2, Zenon DEF failureErrorText, runes
      <4>. QED BY <4>1, Zenon
    <3>. QED BY <3>1, <3>2
  <2>2. <<x>> \in Seq(Runes) /\ <<x>> # <<>>
    <3>1. <<x>> \in Seq(Runes)
      BY <2>1, RunesAre
    <3>. QED BY <3>1
  <2>. QED BY <2>1, <2>2, PlainIs
<1>3. CASE runes # <<>> /\ Len(runes) > HookCap
  <2>1. failureErrorText(use) = PlainText(short)
    BY <1>3, Zenon DEF failureErrorText, runes, short
  <2>2. <<"...">> \in Seq(Runes)
    BY RunesAre
  <2>3. SubSeq(runes, 1, HookCap) \in Seq(Runes)
    BY <1>1, <1>3, RecordingAssumption
  <2>4. short \in Seq(Runes) /\ short # <<>>
    <3>1. \A x, R : \A u \in Seq(R) : <<x>> \in Seq(R) => u \o <<x>> \in Seq(R) /\ u \o <<x>> # <<>>
      OBVIOUS
    <3>. QED BY <2>2, <2>3, <3>1, Zenon DEF short
  <2>. QED BY <2>1, <2>4, PlainIs
<1>4. CASE runes # <<>> /\ ~(Len(runes) > HookCap)
  <2>1. failureErrorText(use) = use.error
    BY <1>4, Zenon DEF failureErrorText, runes
  <2>. QED BY <1>1, <1>4, <2>1 DEF runes
<1>. QED BY <1>2, <1>3, <1>4

(* A hook's receipt of a call tells how it ended.                           *)
LEMMA StatusTold ==
    ASSUME NEW use, use.error \in AnyText, NEW phase \in Phases, NEW e, Telling(e, use, phase)
    PROVE  Status(e) = [pre |-> "pending", post |-> "success", failure |-> "failure"][phase]
<1>1. e.channel # "mcp"
  BY DEF Telling
<1>2. ~mcpOutputIsError(e)
  BY <1>1, Zenon DEF mcpOutputIsError
<1>3. CASE phase = "pre"
  <2>1. e.decision = "pending"
    BY <1>3, Zenon DEF Telling
  <2>2. Status(e) = "pending"
    BY <2>1, Zenon DEF Status
  <2>. QED BY <1>3, <2>2
<1>4. CASE phase = "post"
  <2>1. e.decision = "allowed" /\ e.error = NoText
    BY <1>4 DEF Telling
  <2>2. Rendered(e.error) = <<>>
    BY <2>1, NoTextIs
  <2>3. "allowed" # "pending" /\ "allowed" # "denied"
    OBVIOUS
  <2>4. Status(e) = "success"
    BY <1>2, <2>1, <2>2, <2>3, Zenon DEF Status
  <2>. QED BY <1>4, <2>4
<1>5. CASE phase = "failure"
  <2>1. e.decision = "allowed" /\ e.error = failureErrorText(use)
    BY <1>5 DEF Telling
  <2>2. Rendered(e.error) # <<>>
    BY <2>1, FailureIsTold
  <2>3. "allowed" # "pending" /\ "allowed" # "denied"
    OBVIOUS
  <2>4. Status(e) = "failure"
    BY <2>1, <2>2, <2>3, Zenon DEF Status
  <2>. QED BY <1>5, <2>4
<1>. QED BY <1>3, <1>4, <1>5 DEF Phases

(* The risks of what the hook claims.                                       *)
LEMMA RisksAre ==
    /\ RiskOf(Create) = "low" /\ RiskOf(Move) = "medium" /\ RiskOf(Delete) = "high"
    /\ "" \notin {Create, Move, Delete}
<1>1. "" \notin {Create, Move, Delete}
  BY DEF Create, Move, Delete
<1>2. RiskOf(Create) = "low"
  <2>1. Create \in {Create, Read, "doctor.agent-receipts-doctor.roundtrip"} /\ Create # Delete
    BY DEF Create, Delete
  <2>. QED BY <2>1, Zenon DEF RiskOf
<1>3. RiskOf(Move) = "medium"
  <2>1. Move \notin {Create, Read, "doctor.agent-receipts-doctor.roundtrip"} /\ Move # Delete
    BY DEF Create, Delete, Move, Read
  <2>. QED BY <2>1, Zenon DEF RiskOf
<1>4. RiskOf(Delete) = "high"
  <2>1. Delete \notin {Create, Read, "doctor.agent-receipts-doctor.roundtrip"}
    BY DEF Create, Delete, Read
  <2>. QED BY <2>1, Zenon DEF RiskOf
<1>. QED BY <1>1, <1>2, <1>3, <1>4

(* What a hook's receipt claims of a command the command does.              *)
LEMMA TargetTold ==
    ASSUME RecordingInv, NEW i \in DOMAIN rows, NEW e, NEW use, use = Use(rows[i].call),
           Telling(e, use, rows[i].phase), use.command \in Seq(STRING),
           rows[i].target = e.target, rows[i].action = ActionType(e), rows[i].risk = RiskOf(ActionType(e))
    PROVE  TargetTrue(rows[i])
<1>. DEFINE row == rows[i]
            cmd == use.command
            t   == extractBashTarget(cmd)
            T   == ToSet(cmd)
<1>1. SUFFICES ASSUME use.tool = "Bash", WellFormed(cmd), e.target # NoResource, ~Misread(cmd)
               PROVE  /\ <<row.action, row.target.resource[1]>> \in Effects(cmd)
                      /\ \/ Prefixed(cmd)
                         \/ \A x \in Effects(cmd) : Severity(RiskOf(x[1])) <= Severity(row.risk)
  BY Zenon DEF TargetTrue
<1>2. TargetOf(use) = t /\ t.path # ""
  <2>1. TargetOf(use).path # ""
    BY <1>1, Zenon DEF Telling
  <2>2. NoTarget.path = ""
    BY DEF NoTarget
  <2>3. extractFileTarget(use) = ""
    BY <1>1 DEF extractFileTarget, skipTools
  <2>4. use.input.kind = "object"
    BY <1>1, <2>1, <2>2, <2>3, Zenon DEF TargetOf
  <2>5. TargetOf(use) = t
    BY <1>1, <2>3, <2>4, Zenon DEF TargetOf
  <2>. QED BY <2>1, <2>5
<1>3. cmd \in Seq(T) /\ ReadAlike(T)
  <2>1. ReadAlike(T)
    BY <1>1, Zenon DEF Misread, ReadAlike
  <2>2. cmd \in Seq(T)
    BY DEF ToSet
  <2>. QED BY <2>1, <2>2
<1>4. e.target = [system |-> "filesystem", resource |-> <<t.path>>] /\ e.action = t.action
  BY <1>2, Zenon DEF Telling
<1>. HIDE DEF t, T, cmd
<1>5. /\ t.action \in {Delete, Move, Create}
      /\ <<t.action, t.path>> \in Effects(cmd)
      /\ "sudo" \in T \/ \A x \in Effects(cmd) : x[1] \in {t.action, Create}
  <2>1. Claims(t)
    BY <1>2 DEF Claims
  <2>. QED BY <1>1, <1>3, <2>1, ClaimIsEffect DEF t
<1>6. e.target.resource = <<t.path>>
  BY <1>4
<1>7. row.target.resource[1] = t.path
  BY <1>6
<1>8. ActionType(e) = t.action
  BY <1>4, <1>5, RisksAre, Zenon DEF ActionType
<1>9. ASSUME NEW x \in {Delete, Move, Create}, NEW y \in {x, Create}
      PROVE  Severity(RiskOf(y)) <= Severity(RiskOf(x))
  <2>1. Severity("low") = 1 /\ Severity("medium") = 2 /\ Severity("high") = 3
    BY DEF Severity
  <2>. DEFINE Of(z) == Severity(RiskOf(z))
  <2>2. Of(Create) = 1 /\ Of(Move) = 2 /\ Of(Delete) = 3
    BY <2>1, RisksAre, Zenon
  <2>. HIDE DEF Of
  <2>3. Of(y) <= Of(x)
    BY <1>9, <2>2
  <2>. QED BY <2>3 DEF Of
<1>10. "sudo" \in T => Prefixed(cmd)
  BY DEF Prefixed, T
<1>11. \/ Prefixed(cmd)
       \/ \A x \in Effects(cmd) : Severity(RiskOf(x[1])) <= Severity(row.risk)
  BY <1>5, <1>8, <1>9, <1>10, Zenon
<1>. QED BY <1>5, <1>7, <1>8, <1>11

(* The receipts say of a call what became of it: how it ended, what it      *)
(* touched and whose turn it was (claude_code.go, shell_target.go,          *)
(* claude_transcript.go, build.go).                                         *)
THEOREM CallsToldAsTheyWere == Spec => []ToldAsItWas
<1>1. ASSUME RecordingInv, NEW i \in DOMAIN rows
      PROVE  OutcomeTrue(rows[i]) /\ TargetTrue(rows[i]) /\ UsageOwn(rows[i])
  <2>. DEFINE row == rows[i]
              use == Use(row.call)
  <2>1. CASE use.client # "hook"
    BY <2>1, Zenon DEF OutcomeTrue, TargetTrue, UsageOwn
  <2>2. CASE use.client = "hook"
    <3>1. PICK f : IsFrame(f) /\ Recordable(f.event) /\ RowOf(row, f, under[i], row.seq)
      BY <1>1, FrameOfRow, Zenon
    <3>. DEFINE e == f.event
    <3>2. /\ row.call = f.call /\ row.phase = f.phase
          /\ row.status = Status(e) /\ row.action = ActionType(e) /\ row.risk = RiskOf(ActionType(e))
          /\ row.target = e.target /\ row.runtime = RuntimeOf(e)
      BY <3>1, Zenon DEF RowOf
    <3>3. Accepts(e) /\ Telling(e, use, row.phase)
      <4>1. Use(f.call).client = "hook"
        BY <2>2, <3>2, Zenon
      <4>2. Accepts(e) /\ Telling(e, Use(f.call), f.phase)
        BY <1>1, <3>1, <4>1, HookFrame, Zenon
      <4>. QED BY <3>2, <4>2, Zenon
    <3>4. use.error \in AnyText /\ use.command \in Seq(STRING) /\ row.phase \in Phases
      <4>1. session \in Sessions /\ row.call \in DOMAIN session.uses /\ row.phase \in Phases
        BY <1>1, CallsAre, FrameOfRow
      <4>. QED BY <2>2, <4>1, HookIs
    <3>5. OutcomeTrue(row)
      <4>1. Status(e) = [pre |-> "pending", post |-> "success", failure |-> "failure"][row.phase]
        BY <3>3, <3>4, StatusTold, Zenon
      <4>. QED BY <3>2, <4>1, Zenon DEF OutcomeTrue
    <3>6. TargetTrue(row)
      BY <1>1, <3>2, <3>3, <3>4, TargetTold, Zenon
    <3>7. UsageOwn(row)
      <4>1. SUFFICES ASSUME row.runtime # None, row.runtime.capture # ""
                     PROVE  row.runtime.model = use.model /\ row.runtime.usage = HashOf(use.usage)
        BY Zenon DEF UsageOwn
      <4>2. row.runtime = [agent |-> e.agent, agentType |-> e.agentType, model |-> e.model,
                           capture |-> e.capture, usage |-> validatedUsage(e.usage)]
        BY <3>2, <4>1, Zenon DEF RuntimeOf
      <4>3. /\ row.runtime.capture = e.capture /\ row.runtime.model = e.model
            /\ row.runtime.usage = validatedUsage(e.usage)
        BY <4>2
      <4>4. e.model = use.model /\ e.usage = use.usage
        BY <3>3, <4>1, <4>3, Zenon DEF Telling
      <4>5. Hashable(e.usage)
        BY <3>3 DEF Accepts, Hashable
      <4>. QED BY <4>3, <4>4, <4>5, Zenon DEF validatedUsage
    <3>. QED BY <3>5, <3>6, <3>7
  <2>. QED BY <2>1, <2>2
<1>2. RecordingInv => ToldAsItWas
  BY <1>1, Zenon DEF ToldAsItWas
<1>. QED BY <1>2, RecordingInductive, PTL
-----------------------------------------------------------------------------
(* What is sealed, and who can read it. *)

(* A deletion of one file, with or without a redirect, is claimed as one.   *)
LEMMA OneOperand ==
    ASSUME NEW f \in {"f", "g"}
    PROVE  operandsOnly(<<f>>) = <<f>>
<1>. DEFINE args == <<f>>
            last == IF {i \in DOMAIN args : args[i] = "--"} = {} THEN Len(args) + 1
                    ELSE CHOOSE i \in {j \in DOMAIN args : args[j] = "--"} :
                            \A j \in {k \in DOMAIN args : args[k] = "--"} : i <= j
            S == {i \in DOMAIN args : i > last \/ (i < last /\ args[i] \notin Flags)}
<1>1. f # "--" /\ f \notin Flags
  BY DEF Flags, IntoDir
<1>2. args \in Seq({f}) /\ Len(args) = 1 /\ DOMAIN args = {1} /\ args[1] = f
  OBVIOUS
<1>3. last = 2
  <2>1. {i \in DOMAIN args : args[i] = "--"} = {}
    BY <1>1, <1>2
  <2>2. Len(args) + 1 = 2
    BY <1>2
  <2>. QED BY <2>1, <2>2, Zenon
<1>4. S = 1..Len(args)
  <2>. HIDE DEF last
  <2>. QED BY <1>1, <1>2, <1>3
<1>5. operandsOnly(args) = At(args, S)
  BY Zenon DEF operandsOnly
<1>6. At(args, 1..Len(args)) = args
  BY <1>2, AtAll
<1>. HIDE DEF S, args
<1>7. operandsOnly(args) = args
  BY <1>4, <1>5, <1>6
<1>. QED BY <1>7 DEF args

(* The hook claims the deletion of a file without flags.                    *)
LEMMA DeletionClaimed ==
    ASSUME NEW f \in {"f", "g"}, NEW log \in {"f", "g"}, NEW cmd,
           cmd = <<"rm", f>> \/ cmd = <<"rm", f, ">", log>>
    PROVE  extractBashTarget(cmd).action = Delete
<1>. DEFINE T == {"rm", "f", "g", ">"}
            at == Redirects(cmd)
            r == CHOOSE i \in at : TRUE
            words == <<"rm", f>>
            cutOut == SubSeq(cmd, 1, r - 1) \o SubSeq(cmd, r + 2, Len(cmd))
<1>1. cmd \in Seq(T) /\ EscapedSpace \notin T
  <2>1. EscapedSpace \notin T
    BY DEF EscapedSpace
  <2>2. cmd \in Seq(T)
    <3>1. \A R : \A x, y, z, w \in R : <<x, y>> \in Seq(R) /\ <<x, y, z, w>> \in Seq(R)
      OBVIOUS
    <3>2. "rm" \in T /\ f \in T /\ ">" \in T /\ log \in T
      OBVIOUS
    <3>. HIDE DEF T
    <3>. QED BY <3>1, <3>2, Zenon
  <2>. QED BY <2>1, <2>2
<1>2. T \cap (forbiddenOps \cup OtherRedirects) = {}
  BY DEF forbiddenOps, OtherRedirects
<1>3. WellFormed(cmd)
  <2>1. cmd # <<>>
    OBVIOUS
  <2>2. \A i \in DOMAIN cmd : cmd[i] \in T
    BY <1>1
  <2>3. \A i \in DOMAIN cmd : cmd[i] = ">" => i < Len(cmd) /\ cmd[i + 1] # ">"
    <3>1. CASE cmd = <<"rm", f>>
      <4>1. DOMAIN cmd = {1, 2} /\ cmd[1] = "rm" /\ cmd[2] = f
        BY <3>1
      <4>. QED BY <4>1
    <3>2. CASE cmd = <<"rm", f, ">", log>>
      <4>1. /\ DOMAIN cmd = {1, 2, 3, 4} /\ Len(cmd) = 4
            /\ cmd[1] = "rm" /\ cmd[2] = f /\ cmd[4] = log
        BY <3>2
      <4>2. log # ">" /\ f # ">"
        OBVIOUS
      <4>. QED BY <4>1, <4>2
    <3>. QED BY <3>1, <3>2
  <2>. HIDE DEF T
  <2>. QED BY <1>2, <2>1, <2>2, <2>3 DEF WellFormed
<1>4. lex(cmd) = cmd
  BY <1>1, <1>3, LexIs
<1>5. ReadAs(words, NoTarget).action = Delete /\ \A other : ReadAs(words, other) = ReadAs(words, NoTarget)
  <2>1. VerbOf(words) = "rm" /\ Tail(words) = <<f>>
    BY DEF VerbOf
  <2>2. \A other : ReadAs(words, other) = singleOperand(<<f>>, Delete)
    BY <2>1, Zenon DEF ReadAs
  <2>3. Len(<<f>>) = 1 /\ <<f>>[1] = f /\ f \notin pathExpansionChars
    BY DEF pathExpansionChars
  <2>4. singleOperand(<<f>>, Delete) = Claim(Delete, f)
    BY <2>3, OneOperand, Zenon DEF singleOperand
  <2>5. Claim(Delete, f) = [action |-> Delete, path |-> f]
    BY <2>3, Zenon DEF Claim
  <2>6. [action |-> Delete, path |-> f].action = Delete
    OBVIOUS
  <2>. QED BY <2>2, <2>4, <2>5, <2>6, Zenon
<1>6. CASE cmd = words
  <2>1. at = {} /\ Len(cmd) \notin at
    BY <1>6 DEF Redirects
  <2>2. ~(Cardinality(at) > 1)
    BY <2>1, FS_EmptySet
  <2>3. extractBashTarget(cmd) = ReadAs(cmd, NoTarget)
    BY <1>4, <2>1, <2>2, Zenon DEF extractBashTarget, ReadAs, VerbOf
  <2>. QED BY <1>5, <1>6, <2>3, Zenon
<1>7. CASE cmd = <<"rm", f, ">", log>>
  <2>1. at = {3} /\ Len(cmd) = 4
    BY <1>7 DEF Redirects
  <2>2. ~(Cardinality(at) > 1) /\ Len(cmd) \notin at /\ at # {} /\ r = 3
    <3>1. Cardinality({3}) = 1
      BY FS_Singleton
    <3>2. Len(cmd) \notin {3} /\ {3} # {} /\ \A x \in {3} : x = 3
      BY <2>1
    <3>3. ~(Cardinality(at) > 1)
      BY <2>1, <3>1
    <3>. QED BY <2>1, <3>2, <3>3
  <2>3. extractBashTarget(cmd) = ReadAs(cutOut, Claim(Create, cmd[r + 1]))
    BY <1>4, <2>2, Zenon DEF extractBashTarget, ReadAs, VerbOf
  <2>4. cutOut = words
    <3>1. cutOut = SubSeq(cmd, 1, 2) \o SubSeq(cmd, 5, 4)
      <4>1. r - 1 = 2 /\ r + 2 = 5 /\ Len(cmd) = 4
        BY <2>1, <2>2
      <4>. QED BY <4>1, Zenon
    <3>2. SubSeq(cmd, 1, 2) = words
      <4>1. cmd[1] = "rm" /\ cmd[2] = f /\ Len(cmd) = 4 /\ cmd \in Seq(T)
        BY <1>1, <1>7
      <4>2. words \in Seq(T) /\ Len(words) = 2 /\ words[1] = "rm" /\ words[2] = f
        OBVIOUS
      <4>. HIDE DEF T, words
      <4>. QED BY <4>1, <4>2
    <3>4. SubSeq(cmd, 5, 4) = <<>>
      BY <1>1
    <3>3. words \o <<>> = words
      OBVIOUS
    <3>. QED BY <3>1, <3>2, <3>3, <3>4
  <2>. QED BY <1>5, <2>3, <2>4, Zenon
<1>. QED BY <1>6, <1>7

(* A plain deletion is sealed under the policy "high".                      *)
LEMMA DeletionSealed ==
    ASSUME RecordingInv, NEW i \in DOMAIN rows, Deletes(Use(rows[i].call)), under[i].params = <<"high">>
    PROVE  rows[i].params # None
<1>. DEFINE use == Use(rows[i].call)
            settings == under[i]
<1>1. PICK f : IsFrame(f) /\ RowOf(rows[i], f, settings, rows[i].seq)
  BY FrameOfRow, Zenon
<1>. DEFINE e == f.event
<1>2. use = Use(f.call) /\ rows[i].params \in Envelopes(Sealed(e.input, settings.params, e, settings))
  BY <1>1, Zenon DEF RowOf
<1>3. /\ use.client = "hook" /\ use.tool = "Bash" /\ use.input.kind = "object"
      /\ \E a, log \in {"f", "g"} : use.command = <<"rm", a>> \/ use.command = <<"rm", a, ">", log>>
  BY DEF Deletes
<1>4. extractBashTarget(use.command).action = Delete
  <2>. DEFINE cmd == use.command
  <2>1. \E a, log \in {"f", "g"} : cmd = <<"rm", a>> \/ cmd = <<"rm", a, ">", log>>
    BY <1>3
  <2>. HIDE DEF cmd
  <2>2. extractBashTarget(cmd).action = Delete
    BY <2>1, DeletionClaimed, Zenon
  <2>. QED BY <2>2 DEF cmd
<1>5. Telling(e, use, f.phase) /\ e.input = EventOf(f.call, f.phase).input /\ e.input \in AnyPayload \union {Absent}
  <2>1. Telling(e, use, f.phase)
    BY <1>1, <1>2, <1>3, HookFrame, Zenon
  <2>2. WellSaid(e) /\ SaysOf(e, EventOf(f.call, f.phase))
    BY <1>1, FrameSays, Zenon
  <2>. QED BY <2>1, <2>2, Zenon DEF WellSaid, SaysOf
<1>6. e.input = use.input
  <2>1. f.call \in DOMAIN session.uses /\ f.phase \in Phases /\ session \in Sessions
    BY <1>1, CallsAre, Zenon DEF IsFrame
  <2>2. EventOf(f.call, f.phase) = readClaudeCode(Use(f.call), f.phase, transcript)
    BY <1>2, <1>3, Zenon DEF EventOf
  <2>4. Said(EventOf(f.call, f.phase), Use(f.call), f.phase, TurnFor(Use(f.call), transcript))
    BY <2>2, SaidIs, Zenon
  <2>3. EventOf(f.call, f.phase).input = Use(f.call).input
    BY <2>4, Zenon DEF Said
  <2>. QED BY <1>2, <1>5, <2>3, Zenon
<1>7. ActionType(e) = Delete
  <2>1. e.action = extractBashTarget(use.command).action
    <3>1. extractFileTarget(use) = ""
      BY <1>3 DEF extractFileTarget, skipTools
    <3>2. TargetOf(use) = extractBashTarget(use.command)
      BY <1>3, <3>1, Zenon DEF TargetOf
    <3>. QED BY <1>5, <3>2, Zenon DEF Telling
  <2>. QED BY <1>4, <2>1, RisksAre, Zenon DEF ActionType
<1>8. ShouldDisclose(ParseDisclosurePolicy(settings.params), Delete, RiskOf(Delete)) /\ settings.key # None
  <2>1. <<"high">> \notin {<<"">>, <<"false">>, <<"off">>, <<"0">>} /\ <<"high">> \notin {<<"true">>, <<"all">>, <<"1">>}
    OBVIOUS
  <2>2. ParseDisclosurePolicy(settings.params) = [mode |-> "high", allowlist |-> {}]
    BY <2>1, Zenon DEF ParseDisclosurePolicy
  <2>3. ParseDisclosurePolicy(settings.params).mode = "high"
    BY <2>2
  <2>4. ShouldDisclose(ParseDisclosurePolicy(settings.params), Delete, RiskOf(Delete))
    BY <2>3, RisksAre DEF ShouldDisclose
  <2>5. Startable(settings)
    BY FrameOfRow
  <2>6. settings.key # None
    BY <2>3, <2>5 DEF Startable, requireForensicKey, Enabled
  <2>. QED BY <2>4, <2>6
<1>9. hasJSONPayload(e.input)
  BY <1>3, <1>6 DEF hasJSONPayload
<1>10. Sealed(e.input, settings.params, e, settings)
         = [kid |-> settings.key, ct |-> [to |-> settings.key, plain |-> e.input], intact |-> TRUE]
  BY <1>3, <1>6, <1>7, <1>8, <1>9, Zenon DEF Sealed, EncryptDisclosure
<1>11. settings.key \in STRING
  <2>1. SessionOK(session) /\ settings \in session.settings
    BY FrameOfRow, CallsAre, RecordingAssumption
  <2>2. settings \in AnySettings
    BY <2>1, Zenon DEF SessionOK
  <2>3. settings.key \in STRING \union {None}
    BY <2>2, Zenon DEF AnySettings
  <2>. QED BY <1>8, <2>3
<1>12. e.input \in AnyPayload
  <2>1. Absent.kind = "none"
    BY DEF Absent, Payload
  <2>. QED BY <1>3, <1>5, <1>6, <2>1
<1>. DEFINE s == Sealed(e.input, settings.params, e, settings)
            k == settings.key
            p == e.input
            Envelope == [kid : STRING, ct : [to : STRING, plain : AnyPayload], intact : BOOLEAN]
<1>13. s = [kid |-> k, ct |-> [to |-> k, plain |-> p], intact |-> TRUE] /\ k \in STRING /\ p \in AnyPayload
  BY <1>10, <1>11, <1>12
<1>. HIDE DEF s, k, p
<1>14. s \in Envelope /\ [s EXCEPT !.intact = FALSE] \in Envelope
  BY <1>13
<1>15. None \notin Envelope
  BY RecordingAssumption
<1>. HIDE DEF Envelope
<1>16. rows[i].params \in Envelopes(s)
  BY <1>2 DEF s
<1>. QED BY <1>14, <1>15, <1>16, Zenon DEF Envelopes

(* One reading of one field of one receipt is as it should be.              *)
ReadsWell(row, field, payload, hash, settings, key, answer) ==
    /\ answer.payload # None =>
         /\ row[field] # None /\ settings.key = key /\ row[field].intact
         /\ answer.payload = payload /\ answer.payload = hash
    /\ (row[field] # None /\ row[field].intact /\ settings.key = key) => answer.payload # None
    /\ (row[field] # None /\ settings.key # key) => answer = Answer(3, "another key")
    /\ (row[field] # None /\ settings.key = key /\ ~row[field].intact) => answer = Answer(3, "corrupt")

(* receipt disclose reads a field of a stored receipt as its key allows.    *)
LEMMA FieldReads ==
    ASSUME RecordingInv, NEW i \in DOMAIN rows, NEW key, NEW field \in {"params", "response"}
    PROVE  ReadsWell(rows[i], field, Original(rows[i], field),
                     IF field = "params" THEN rows[i].paramsHash ELSE rows[i].responseHash,
                     under[i], key, Disclose(rows, rows[i].chain, rows[i].seq, key, field))
<1>. DEFINE row == rows[i]
            settings == under[i]
            payload == Original(row, field)
            answer == Disclose(rows, row.chain, row.seq, key, field)
            hash == IF field = "params" THEN row.paramsHash ELSE row.responseHash
<1>1. PICK f : IsFrame(f) /\ RowOf(row, f, settings, row.seq)
  BY FrameOfRow, Zenon
<1>. DEFINE e == f.event
<1>2. /\ row.chain = e.agent /\ row.paramsHash = HashOf(e.input) /\ row.responseHash = HashOf(e.output)
      /\ row.params \in Envelopes(Sealed(e.input, settings.params, e, settings))
      /\ row.response \in Envelopes(Sealed(e.output, settings.response, e, settings))
      /\ row.call = f.call /\ row.phase = f.phase
  BY <1>1, Zenon DEF RowOf
<1>3. WellSaid(e) /\ SaysOf(e, EventOf(row.call, row.phase))
  BY <1>1, <1>2, FrameSays, Zenon
<1>4. /\ row.chain \in STRING
      /\ e.input \in AnyPayload \union {Absent} /\ e.output \in AnyPayload \union {Absent}
      /\ e.input = EventOf(row.call, row.phase).input /\ e.output = EventOf(row.call, row.phase).output
  BY <1>2, <1>3, Zenon DEF WellSaid, SaysOf
<1>5. EnvelopeOf(row[field], payload, settings.key) /\ hash = HashOf(payload)
  <2>1. CASE field = "params"
    <3>1. payload = e.input /\ hash = HashOf(e.input)
      BY <1>2, <1>4, <2>1, Zenon DEF Original
    <3>2. EnvelopeOf(row.params, e.input, settings.key)
      BY <1>2, <1>4, EnvelopeIs, Zenon
    <3>. QED BY <2>1, <3>1, <3>2, Zenon
  <2>2. CASE field = "response"
    <3>1. payload = e.output /\ hash = HashOf(e.output)
      <4>1. "response" # "params"
        OBVIOUS
      <4>. QED BY <1>2, <1>4, <2>2, <4>1, Zenon DEF Original
    <3>2. EnvelopeOf(row.response, e.output, settings.key)
      BY <1>2, <1>4, EnvelopeIs, Zenon
    <3>. QED BY <2>2, <3>1, <3>2, Zenon
  <2>. QED BY <2>1, <2>2
<1>6. answer = Reading(row[field], key)
  BY <1>4, DiscloseIs
<1>7. Told(answer, row[field], payload, settings.key, key)
  BY <1>5, <1>6, ReadingIs, Zenon
<1>. HIDE DEF answer, hash, payload
<1>8. ReadsWell(row, field, payload, hash, settings, key, answer)
  BY <1>5, <1>7, Zenon DEF Told, ReadsWell
<1>. QED BY <1>8 DEF answer, hash, payload

(* Whoever holds the key under which a receipt was written gets back what   *)
(* was sealed and what its hash says, any other key is told so, damage is   *)
(* told for what it is, and a plain deletion is sealed under "high"         *)
(* (disclosure.go, disclosure_policy.go, disclosecli).                      *)
THEOREM SealedForOneKey == Spec => []SealedForItsKey
<1>1. ASSUME RecordingInv PROVE SealedForItsKey
  <2>1. SUFFICES ASSUME NEW i \in DOMAIN rows, NEW key \in Keys, NEW field \in {"params", "response"}
                 PROVE  LET row    == rows[i]
                            answer == Disclose(rows, row.chain, row.seq, key, field)
                            intact == row[field] # None /\ row[field].intact
                            mine   == row[field] # None /\ under[i].key = key
                        IN /\ answer.payload # None =>
                                 /\ mine /\ intact
                                 /\ answer.payload = Original(row, field)
                                 /\ answer.payload = IF field = "params" THEN row.paramsHash ELSE row.responseHash
                           /\ (intact /\ mine) => answer.payload # None
                           /\ (row[field] # None /\ ~mine) => answer = Answer(3, "another key")
                           /\ (row[field] # None /\ mine /\ ~intact) => answer = Answer(3, "corrupt")
                           /\ (field = "params" /\ Deletes(Use(row.call)) /\ under[i].params = <<"high">>) =>
                                 row.params # None
    BY Zenon DEF SealedForItsKey
  <2>2. ReadsWell(rows[i], field, Original(rows[i], field),
                  IF field = "params" THEN rows[i].paramsHash ELSE rows[i].responseHash,
                  under[i], key, Disclose(rows, rows[i].chain, rows[i].seq, key, field))
    BY <1>1, FieldReads
  <2>3. Deletes(Use(rows[i].call)) /\ under[i].params = <<"high">> => rows[i].params # None
    BY <1>1, DeletionSealed
  <2>. QED BY <2>2, <2>3, Zenon DEF ReadsWell
<1>. QED BY <1>1, RecordingInductive, PTL
-----------------------------------------------------------------------------
(* The secret runes of a text. *)

(* A text of n runes and one of m, one after the other.                     *)
Joins(a, n, b, m, c) ==
    /\ DOMAIN a = 1..n /\ DOMAIN b = 1..m /\ DOMAIN c = 1..n + m
    /\ \A i \in 1..n : c[i] = a[i]
    /\ \A j \in 1..m : c[n + j] = b[j]

(* That is what \o makes of two texts.                                      *)
LEMMA JoinsIs ==
    ASSUME NEW T, NEW a \in Seq(T), NEW b \in Seq(T)
    PROVE  Joins(a, Len(a), b, Len(b), a \o b) /\ Len(a) \in Nat /\ Len(b) \in Nat
BY DEF Joins

(* Their places, and those that hold a secret rune or one that no pattern   *)
(* matches.                                                                 *)
Secrets(runes) == {i \in DOMAIN runes : runes[i] = Secret}
Lone(runes)    == {i \in DOMAIN runes : runes[i] = Secret /\ ~Matched(runes, i)}
Without(runes, x) == \A i \in DOMAIN runes : runes[i] # x

(* No secret lies across the seam.                                          *)
Seam(a, n, b, m) == n = 0 \/ m = 0 \/ a[n] # Secret \/ b[1] # Secret

(* Some places in two texts, one after the other, and their number.         *)
Splits(C, A, n, B) ==
    /\ \A i \in A : i \in C
    /\ \A j \in B : n + j \in C
    /\ \A i \in C : i \in A \/ \E j \in B : i = n + j
Counts(C, A, B) ==
    /\ Cardinality(A) \in Nat /\ Cardinality(B) \in Nat
    /\ Cardinality(C) = Cardinality(A) + Cardinality(B)

(* The places in both are those in the one and those in the other.          *)
LEMMA CardOfBoth ==
    ASSUME NEW n \in Nat, NEW m \in Nat, NEW A, A \subseteq 1..n, NEW B, B \subseteq 1..m,
           NEW C, Splits(C, A, n, B)
    PROVE  Counts(C, A, B)
<1>. DEFINE D == {n + j : j \in B}
            f == [j \in B |-> n + j]
<1>1. IsFiniteSet(A) /\ IsFiniteSet(B)
  <2>1. IsFiniteSet(1..n) /\ IsFiniteSet(1..m)
    BY FS_Interval
  <2>. QED BY <2>1, FS_Subset
<1>2. f \in Bijection(B, D)
  <2>1. \A j \in B : j \in Nat
    OBVIOUS
  <2>2. f \in [B -> D]
    OBVIOUS
  <2>3. \A i, j \in B : f[i] = f[j] => i = j
    BY <2>1
  <2>4. \A d \in D : \E j \in B : f[j] = d
    OBVIOUS
  <2>. QED BY <2>2, <2>3, <2>4 DEF Bijection, Injection, Surjection, IsInjective
<1>3. IsFiniteSet(D) /\ Cardinality(D) = Cardinality(B)
  BY <1>1, <1>2, FS_Bijection DEF ExistsBijection
<1>4. A \cap D = {}
  OBVIOUS
<1>5. Cardinality(A) \in Nat /\ Cardinality(B) \in Nat
  BY <1>1, FS_CardinalityType
<1>8. C = A \union D
  BY DEF Splits
<1>. HIDE DEF D, f
<1>6. Cardinality(A \union D) = Cardinality(A) + Cardinality(B) - Cardinality({})
  BY <1>1, <1>3, <1>4, FS_Union
<1>7. Cardinality(A \union D) = Cardinality(A) + Cardinality(B)
  BY <1>5, <1>6, FS_EmptySet
<1>. QED BY <1>5, <1>7, <1>8 DEF Counts

(* Of two texts, one after the other, the runes of each are what they were. *)
LEMMA WithoutBoth ==
    ASSUME NEW n \in Nat, NEW m \in Nat, NEW a, NEW b, NEW c, Joins(a, n, b, m, c), NEW x,
           Without(a, x), Without(b, x)
    PROVE  Without(c, x)
<1>1. SUFFICES ASSUME NEW i \in 1..n + m PROVE c[i] # x
  BY DEF Joins, Without
<1>2. CASE i \in 1..n
  BY <1>2 DEF Joins, Without
<1>3. CASE i \notin 1..n
  <2>1. i - n \in 1..m /\ n + (i - n) = i
    BY <1>3
  <2>2. c[n + (i - n)] = b[i - n] /\ b[i - n] # x
    BY <2>1 DEF Joins, Without
  <2>. QED BY <2>1, <2>2
<1>. QED BY <1>2, <1>3

(* Secret runes in two texts, one after the other.                          *)
LEMMA SecretsOfBoth ==
    ASSUME NEW n \in Nat, NEW m \in Nat, NEW a, NEW b, NEW c, Joins(a, n, b, m, c)
    PROVE  Counts(Secrets(c), Secrets(a), Secrets(b))
<1>1. \A i \in Secrets(a) : i \in Secrets(c)
  BY DEF Secrets, Joins
<1>2. \A j \in Secrets(b) : n + j \in Secrets(c)
  BY DEF Secrets, Joins
<1>3. ASSUME NEW i \in Secrets(c), i \notin 1..n PROVE \E j \in Secrets(b) : i = n + j
  <2>1. i \in 1..n + m /\ c[i] = Secret
    BY <1>3 DEF Secrets, Joins
  <2>2. i - n \in 1..m /\ i = n + (i - n)
    BY <1>3, <2>1
  <2>3. b[i - n] = c[n + (i - n)] /\ DOMAIN b = 1..m
    BY <2>2 DEF Joins
  <2>4. i - n \in Secrets(b)
    BY <2>1, <2>2, <2>3 DEF Secrets
  <2>. QED BY <2>2, <2>4
<1>4. \A i \in Secrets(c) : i \in Secrets(a) \/ \E j \in Secrets(b) : i = n + j
  <2>1. \A i \in Secrets(c) : i \in 1..n => i \in Secrets(a)
    BY DEF Secrets, Joins
  <2>. QED BY <1>3, <2>1
<1>5. Secrets(a) \subseteq 1..n /\ Secrets(b) \subseteq 1..m
  BY DEF Secrets, Joins
<1>6. Splits(Secrets(c), Secrets(a), n, Secrets(b))
  BY <1>1, <1>2, <1>4, Zenon DEF Splits
<1>. QED BY <1>5, <1>6, CardOfBoth, Zenon

(* A rune beside k is a secret one.                                         *)
Beside(s, n, k) == k \in 1..n /\ s[k] = Secret

(* What a pattern matches, in a text of n runes.                            *)
LEMMA MatchedIs ==
    ASSUME NEW n \in Nat, NEW s, DOMAIN s = 1..n, NEW i \in 1..n
    PROVE  Matched(s, i) <=> s[i] = Secret /\ (Beside(s, n, i - 1) \/ Beside(s, n, i + 1))
<1>1. ASSUME Matched(s, i) PROVE s[i] = Secret /\ (Beside(s, n, i - 1) \/ Beside(s, n, i + 1))
  <2>1. PICK j \in {i - 1, i + 1} \cap DOMAIN s : s[j] = Secret
    BY <1>1 DEF Matched
  <2>. QED BY <1>1, <2>1 DEF Matched, Beside
<1>2. ASSUME s[i] = Secret, NEW k \in {i - 1, i + 1}, Beside(s, n, k) PROVE Matched(s, i)
  <2>1. k \in {i - 1, i + 1} \cap DOMAIN s /\ s[k] = Secret
    BY <1>2 DEF Beside
  <2>. QED BY <1>2, <2>1 DEF Matched
<1>. QED BY <1>1, <1>2

(* A pattern matches in two texts, one after the other, what it matches in  *)
(* each.                                                                    *)
LEMMA MatchedOfBoth ==
    ASSUME NEW n \in Nat, NEW m \in Nat, NEW a, NEW b, NEW c, Joins(a, n, b, m, c), Seam(a, n, b, m)
    PROVE  /\ \A i \in 1..n : Matched(c, i) <=> Matched(a, i)
           /\ \A j \in 1..m : Matched(c, n + j) <=> Matched(b, j)
<1>1. /\ DOMAIN a = 1..n /\ DOMAIN b = 1..m /\ DOMAIN c = 1..n + m
      /\ \A i \in 1..n : c[i] = a[i]
      /\ \A j \in 1..m : c[n + j] = b[j]
  BY DEF Joins
<1>2. ASSUME n > 0, m > 0 PROVE ~(c[n] = Secret /\ c[n + 1] = Secret)
  <2>1. c[n] = a[n] /\ c[n + 1] = b[1]
    BY <1>1, <1>2
  <2>2. a[n] # Secret \/ b[1] # Secret
    BY <1>2 DEF Seam
  <2>. QED BY <2>1, <2>2
<1>3. ASSUME NEW i \in 1..n PROVE Matched(c, i) <=> Matched(a, i)
  <2>1. c[i] = a[i] /\ i \in 1..n + m
    BY <1>1
  <2>2. ASSUME c[i] = Secret, NEW k \in Int, k = i - 1 \/ k = i + 1
        PROVE  Beside(c, n + m, k) <=> Beside(a, n, k)
    <3>1. CASE k \in 1..n
      <4>1. c[k] = a[k] /\ k \in 1..n + m
        BY <1>1, <3>1
      <4>. QED BY <3>1, <4>1 DEF Beside
    <3>2. CASE k = 0
      BY <3>2 DEF Beside
    <3>3. CASE k = n + 1
      <4>1. i = n /\ n > 0 /\ k \notin 1..n
        BY <2>2, <3>3
      <4>2. k \in 1..n + m => m > 0
        BY <3>3
      <4>. QED BY <1>2, <2>2, <3>3, <4>1, <4>2 DEF Beside
    <3>. QED BY <2>2, <3>1, <3>2, <3>3
  <2>3. ASSUME c[i] = Secret
        PROVE  (Beside(c, n + m, i - 1) <=> Beside(a, n, i - 1)) /\ (Beside(c, n + m, i + 1) <=> Beside(a, n, i + 1))
    BY <2>2, <2>3
  <2>4. /\ Matched(c, i) <=> c[i] = Secret /\ (Beside(c, n + m, i - 1) \/ Beside(c, n + m, i + 1))
        /\ Matched(a, i) <=> a[i] = Secret /\ (Beside(a, n, i - 1) \/ Beside(a, n, i + 1))
    BY <1>1, <2>1, MatchedIs
  <2>. QED BY <2>1, <2>3, <2>4, Zenon
<1>4. ASSUME NEW j \in 1..m PROVE Matched(c, n + j) <=> Matched(b, j)
  <2>1. c[n + j] = b[j] /\ n + j \in 1..n + m
    BY <1>1
  <2>2. ASSUME c[n + j] = Secret, NEW k \in Int, k = j - 1 \/ k = j + 1
        PROVE  Beside(c, n + m, n + k) <=> Beside(b, m, k)
    <3>1. CASE k \in 1..m
      <4>1. c[n + k] = b[k] /\ n + k \in 1..n + m
        BY <1>1, <3>1
      <4>. QED BY <3>1, <4>1 DEF Beside
    <3>2. CASE k = 0
      <4>1. j = 1 /\ n + k = n /\ n + j = n + 1 /\ m > 0 /\ k \notin 1..m
        BY <2>2, <3>2
      <4>2. n \in 1..n + m => n > 0
        OBVIOUS
      <4>. QED BY <1>2, <2>2, <4>1, <4>2 DEF Beside
    <3>3. CASE k = m + 1
      <4>1. n + k \notin 1..n + m /\ k \notin 1..m
        BY <3>3
      <4>. QED BY <4>1 DEF Beside
    <3>. QED BY <2>2, <3>1, <3>2, <3>3
  <2>3. ASSUME c[n + j] = Secret
        PROVE  /\ Beside(c, n + m, n + (j - 1)) <=> Beside(b, m, j - 1)
               /\ Beside(c, n + m, n + (j + 1)) <=> Beside(b, m, j + 1)
    BY <2>2, <2>3
  <2>4. n + j - 1 = n + (j - 1) /\ n + j + 1 = n + (j + 1) /\ n + m \in Nat
    OBVIOUS
  <2>5. Matched(c, n + j) <=>
            c[n + j] = Secret /\ (Beside(c, n + m, n + j - 1) \/ Beside(c, n + m, n + j + 1))
    BY <1>1, <2>1, <2>4, MatchedIs
  <2>6. Matched(b, j) <=> b[j] = Secret /\ (Beside(b, m, j - 1) \/ Beside(b, m, j + 1))
    BY <1>1, MatchedIs
  <2>. QED BY <2>1, <2>3, <2>4, <2>5, <2>6, Zenon
<1>. QED BY <1>3, <1>4

(* Runes that no pattern matches in two texts, one after the other.         *)
LEMMA LoneOfBoth ==
    ASSUME NEW n \in Nat, NEW m \in Nat, NEW a, NEW b, NEW c, Joins(a, n, b, m, c), Seam(a, n, b, m)
    PROVE  Counts(Lone(c), Lone(a), Lone(b))
<1>1. /\ \A i \in 1..n : Matched(c, i) <=> Matched(a, i)
      /\ \A j \in 1..m : Matched(c, n + j) <=> Matched(b, j)
  BY MatchedOfBoth
<1>2. \A i \in Lone(a) : i \in Lone(c)
  BY <1>1 DEF Lone, Joins
<1>3. \A j \in Lone(b) : n + j \in Lone(c)
  BY <1>1 DEF Lone, Joins
<1>4. ASSUME NEW i \in Lone(c), i \notin 1..n PROVE \E j \in Lone(b) : i = n + j
  <2>1. i \in 1..n + m /\ c[i] = Secret /\ ~Matched(c, i)
    BY <1>4 DEF Lone, Joins
  <2>2. i - n \in 1..m /\ i = n + (i - n)
    BY <1>4, <2>1
  <2>3. b[i - n] = c[n + (i - n)] /\ DOMAIN b = 1..m /\ (Matched(c, n + (i - n)) <=> Matched(b, i - n))
    BY <1>1, <2>2 DEF Joins
  <2>4. i - n \in Lone(b)
    BY <2>1, <2>2, <2>3 DEF Lone
  <2>. QED BY <2>2, <2>4
<1>5. \A i \in Lone(c) : i \in Lone(a) \/ \E j \in Lone(b) : i = n + j
  <2>1. \A i \in Lone(c) : i \in 1..n => i \in Lone(a)
    BY <1>1 DEF Lone, Joins
  <2>. QED BY <1>4, <2>1
<1>6. Lone(a) \subseteq 1..n /\ Lone(b) \subseteq 1..m
  BY DEF Lone, Joins
<1>7. Splits(Lone(c), Lone(a), n, Lone(b))
  BY <1>2, <1>3, <1>5, Zenon DEF Splits
<1>. QED BY <1>6, <1>7, CardOfBoth, Zenon

(* Flattening puts the next part behind those before it.                    *)
LEMMA FlatJoins ==
    ASSUME NEW T, NEW ss \in Seq(Seq(T)), NEW n \in 1..Len(ss)
    PROVE  /\ Joins(Flat(ss, n - 1), Len(Flat(ss, n - 1)), ss[n], Len(ss[n]), Flat(ss, n))
           /\ Len(Flat(ss, n - 1)) \in Nat /\ Len(ss[n]) \in Nat
           /\ DOMAIN Flat(ss, n - 1) = 1..Len(Flat(ss, n - 1)) /\ DOMAIN ss[n] = 1..Len(ss[n])
<1>1. Flat(ss, n) = Flat(ss, n - 1) \o ss[n] /\ Flat(ss, n - 1) \in Seq(T)
  <2>1. n - 1 \in 0..Len(ss)
    OBVIOUS
  <2>. QED BY <2>1, FlatIs
<1>2. ss[n] \in Seq(T)
  OBVIOUS
<1>. QED BY <1>1, <1>2, JoinsIs DEF Joins

(* What is in no part is not in the whole.                                  *)
LEMMA FlatWithout ==
    ASSUME NEW T, NEW ss \in Seq(Seq(T)), NEW x, \A n \in 1..Len(ss) : Without(ss[n], x)
    PROVE  Without(Flat(ss, Len(ss)), x)
<1>. DEFINE Bad == {n \in 0..Len(ss) : ~Without(Flat(ss, n), x)}
<1>1. 0 \notin Bad
  BY DEF Flat, Without
<1>2. ASSUME NEW n \in 1..Len(ss), n \in Bad PROVE n - 1 \in Bad
  <2>1. Without(Flat(ss, n - 1), x) => Without(Flat(ss, n), x)
    <3>. DEFINE a == Flat(ss, n - 1)
                b == ss[n]
    <3>1. Joins(a, Len(a), b, Len(b), Flat(ss, n)) /\ Len(a) \in Nat /\ Len(b) \in Nat /\ Without(b, x)
      BY FlatJoins
    <3>. HIDE DEF a, b
    <3>2. Without(a, x) => Without(Flat(ss, n), x)
      BY <3>1, WithoutBoth
    <3>. QED BY <3>2 DEF a
  <2>2. n - 1 \in 0..Len(ss)
    OBVIOUS
  <2>. QED BY <1>2, <2>1, <2>2
<1>3. Bad \subseteq 0..Len(ss) /\ Len(ss) \in Nat
  OBVIOUS
<1>4. Bad = {}
  <2>. HIDE DEF Bad
  <2>. QED BY <1>1, <1>2, <1>3, NoFirst
<1>. QED BY <1>3, <1>4

(* A text without a secret rune.                                            *)
LEMMA NoneIsNone ==
    ASSUME NEW s, Without(s, Secret)
    PROVE  Secrets(s) = {} /\ Lone(s) = {} /\ Cardinality(Secrets(s)) = 0 /\ Cardinality(Lone(s)) = 0
<1>1. Secrets(s) = {} /\ Lone(s) = {}
  BY DEF Secrets, Lone, Without
<1>. QED BY <1>1, FS_EmptySet

(* The texts of which the one has no more runes that only look like a       *)
(* secret than the other; and those that do not begin with one.             *)
Fewer(a, b) == Cardinality(Lone(a)) <= Cardinality(Lone(b))
Begins(s) == DOMAIN s # {} => s[1] # Secret

(* They can be counted.                                                     *)
LEMMA LoneIsFinite ==
    ASSUME NEW T, NEW s \in Seq(T)
    PROVE  Cardinality(Lone(s)) \in Nat /\ Cardinality(Secrets(s)) \in Nat
<1>1. Lone(s) \subseteq 1..Len(s) /\ Secrets(s) \subseteq 1..Len(s) /\ Len(s) \in Nat
  BY DEF Lone, Secrets
<1>2. ASSUME NEW S, S \subseteq 1..Len(s) PROVE Cardinality(S) \in Nat
  <2>1. IsFiniteSet(1..Len(s))
    BY <1>1, FS_Interval
  <2>2. IsFiniteSet(S)
    BY <1>2, <2>1, FS_Subset
  <2>. QED BY <2>2, FS_CardinalityType
<1>. QED BY <1>1, <1>2

(* Part by part, and no secret across a seam.                               *)
LEMMA FlatFewer ==
    ASSUME NEW T, NEW ss \in Seq(Seq(T)), NEW tt \in Seq(Seq(T)), Len(ss) = Len(tt),
           \A n \in 1..Len(ss) : Fewer(ss[n], tt[n]),
           \A n \in 1..Len(ss) : n = 1 \/ (Begins(ss[n]) /\ Begins(tt[n]))
    PROVE  Fewer(Flat(ss, Len(ss)), Flat(tt, Len(tt)))
<1>. DEFINE Bad == {n \in 0..Len(ss) : ~Fewer(Flat(ss, n), Flat(tt, n))}
<1>1. 0 \notin Bad
  <2>1. Flat(ss, 0) = <<>> /\ Flat(tt, 0) = <<>> /\ Without(<<>>, Secret)
    BY DEF Flat, Without
  <2>. QED BY <2>1, NoneIsNone DEF Fewer
<1>2. ASSUME NEW n \in 1..Len(ss), Fewer(Flat(ss, n - 1), Flat(tt, n - 1)) PROVE Fewer(Flat(ss, n), Flat(tt, n))
  <2>1. ASSUME NEW uu \in Seq(Seq(T)), n <= Len(uu), n = 1 \/ Begins(uu[n])
        PROVE  Counts(Lone(Flat(uu, n)), Lone(Flat(uu, n - 1)), Lone(uu[n]))
    <3>. DEFINE a == Flat(uu, n - 1)
                b == uu[n]
    <3>0. n \in 1..Len(uu)
      BY <2>1
    <3>1. /\ Joins(a, Len(a), b, Len(b), Flat(uu, n)) /\ Len(a) \in Nat /\ Len(b) \in Nat
          /\ DOMAIN b = 1..Len(b)
      BY <3>0, FlatJoins
    <3>2. n = 1 => Len(a) = 0
      BY DEF Flat
    <3>. HIDE DEF a, b
    <3>3. Begins(b) => Len(b) = 0 \/ b[1] # Secret
      <4>. DEFINE m == Len(b)
      <4>1. m \in Nat /\ DOMAIN b = 1..m
        BY <3>1
      <4>. HIDE DEF m
      <4>2. m = 0 \/ 1 \in DOMAIN b
        BY <4>1
      <4>. QED BY <4>2 DEF Begins, m
    <3>4. Seam(a, Len(a), b, Len(b))
      BY <2>1, <3>2, <3>3 DEF Seam, b
    <3>5. Counts(Lone(Flat(uu, n)), Lone(a), Lone(b))
      BY <3>1, <3>4, LoneOfBoth
    <3>. QED BY <3>5 DEF a, b
  <2>2. /\ Counts(Lone(Flat(ss, n)), Lone(Flat(ss, n - 1)), Lone(ss[n]))
        /\ Counts(Lone(Flat(tt, n)), Lone(Flat(tt, n - 1)), Lone(tt[n]))
    <3>1. n <= Len(ss) /\ n <= Len(tt) /\ (n = 1 \/ (Begins(ss[n]) /\ Begins(tt[n])))
      OBVIOUS
    <3>. QED BY <2>1, <3>1, Zenon
  <2>3. Fewer(ss[n], tt[n])
    OBVIOUS
  <2>. QED BY <1>2, <2>2, <2>3 DEF Counts, Fewer
<1>3. \A n \in 1..Len(ss) : n \in Bad => n - 1 \in Bad
  BY <1>2
<1>4. Bad \subseteq 0..Len(ss) /\ Len(ss) \in Nat
  OBVIOUS
<1>5. Bad = {}
  <2>. HIDE DEF Bad
  <2>. QED BY <1>1, <1>3, <1>4, NoFirst
<1>. QED BY <1>4, <1>5
-----------------------------------------------------------------------------
(* Redaction by keys. *)

(* What is put in place of a secret has none, nor the mark of a cut.        *)
LEMMA PlaceholderIs ==
    /\ Placeholder \in Seq(Runes) /\ DOMAIN Placeholder = 1..3 /\ Len(Placeholder) = 3
    /\ Placeholder[1] # Secret /\ Placeholder[3] # Secret
    /\ Without(Placeholder, Secret) /\ Without(Placeholder, "k")
<1>1. /\ DOMAIN Placeholder = 1..3 /\ Len(Placeholder) = 3
      /\ Placeholder[1] = "[" /\ Placeholder[2] = "R" /\ Placeholder[3] = "]"
  BY DEF Placeholder
<1>2. Placeholder \in Seq(Runes)
  <2>1. \A x, y, z, R : x \in R /\ y \in R /\ z \in R => <<x, y, z>> \in Seq(R)
    OBVIOUS
  <2>. QED BY <2>1, RunesAre, Zenon DEF Placeholder
<1>3. \A i \in 1..3 : Placeholder[i] # Secret /\ Placeholder[i] # "k"
  BY <1>1 DEF Secret
<1>. QED BY <1>1, <1>2, <1>3 DEF Without

(* The mark of a cut is one rune, and no secret one.                        *)
LEMMA CutMarkIs ==
    /\ errorTruncatedSuffix \in Seq(Runes) /\ Len(errorTruncatedSuffix) = 1
    /\ DOMAIN errorTruncatedSuffix = 1..1
    /\ Without(errorTruncatedSuffix, Secret) /\ Without(errorTruncatedSuffix, "k")
<1>1. DOMAIN errorTruncatedSuffix = 1..1 /\ Len(errorTruncatedSuffix) = 1 /\ errorTruncatedSuffix[1] = "~"
  BY DEF errorTruncatedSuffix
<1>2. errorTruncatedSuffix \in Seq(Runes)
  BY RunesAre, Zenon DEF errorTruncatedSuffix
<1>. QED BY <1>1, <1>2 DEF Secret, Without

(* What stands between two leaves.                                          *)
Comma == ","
(* A comma is a rune, and neither a secret nor a key of one.                *)
LEMMA CommaIs ==
    /\ <<Comma>> \in Seq(Runes) /\ DOMAIN <<Comma>> = 1..1 /\ Len(<<Comma>>) = 1
    /\ Comma # Secret /\ Without(<<Comma>>, Secret) /\ Without(<<Comma>>, "k")
<1>1. Comma # Secret /\ Comma # "k"
  BY DEF Comma, Secret
<1>2. <<Comma>> \in Seq(Runes)
  BY RunesAre, Zenon DEF Comma
<1>3. DOMAIN <<Comma>> = 1..1 /\ Len(<<Comma>>) = 1 /\ \A i \in 1..1 : <<Comma>>[i] = Comma
  OBVIOUS
<1>. QED BY <1>1, <1>2, <1>3, Zenon DEF Without

(* A part is the runes of its leaf, but for the comma before it.            *)
LEMMA PartIs ==
    ASSUME NEW text, NEW i, text.leaves[i].runes \in Seq(Runes)
    PROVE  /\ \A x \in {Secret, "k"} : Without(text.leaves[i].runes, x) => Without(PartOf(text, i), x)
           /\ i # 1 => Begins(PartOf(text, i))
<1>. DEFINE r == text.leaves[i].runes
            c == <<Comma>> \o r
<1>1. CASE i = 1
  BY <1>1, Zenon DEF PartOf
<1>2. CASE i # 1
  <2>1. PartOf(text, i) = c
    BY <1>2, Zenon DEF PartOf, Comma
  <2>2. r \in Seq(Runes)
    OBVIOUS
  <2>. HIDE DEF r
  <2>3. Joins(<<Comma>>, 1, r, Len(r), c) /\ Len(r) \in Nat
    BY <2>2, CommaIs, JoinsIs
  <2>4. \A x \in {Secret, "k"} : Without(r, x) => Without(c, x)
    BY <2>3, CommaIs, WithoutBoth
  <2>5. Begins(c)
    BY <2>3, CommaIs DEF Joins, Begins
  <2>. QED BY <2>1, <2>4, <2>5 DEF r
<1>. QED BY <1>1, <1>2

(* redactJSONBytes: of the leaves, those under a sensitive key are replaced. *)
LEMMA KeysAre ==
    ASSUME NEW text, IsText(text)
    PROVE  /\ IsText(RedactKeys(text)) /\ Len(RedactKeys(text).leaves) = Len(text.leaves)
           /\ \A i \in 1..Len(text.leaves) :
                 RedactKeys(text).leaves[i].runes = IF text.json /\ text.leaves[i].sensitive
                                                    THEN Placeholder ELSE text.leaves[i].runes
<1>. DEFINE leaves == text.leaves
            Value(leaf) == IF text.json /\ leaf.sensitive THEN Leaf(Placeholder) ELSE leaf
            new == [i \in DOMAIN leaves |-> Value(leaves[i])]
            red == RedactKeys(text)
            Elems == {new[i] : i \in DOMAIN new}
<1>1. red = [text EXCEPT !.leaves = new]
  BY Zenon DEF RedactKeys
<1>2. red.leaves = new /\ DOMAIN red = DOMAIN text
  BY <1>1 DEF IsText
<1>3. Len(leaves) \in Nat /\ DOMAIN leaves = 1..Len(leaves)
  BY RenderedIs
<1>4. \A i \in DOMAIN leaves : new[i].runes = IF text.json /\ leaves[i].sensitive THEN Placeholder ELSE leaves[i].runes
  <2>1. \A leaf : Value(leaf).runes = IF text.json /\ leaf.sensitive THEN Placeholder ELSE leaf.runes
    BY DEF Leaf
  <2>. HIDE DEF Value
  <2>. QED BY <2>1
<1>5. \A i \in DOMAIN leaves : new[i].runes \in Seq(Runes)
  BY <1>4, PlaceholderIs, Zenon DEF IsText
<1>6. new \in Seq(Elems) /\ Len(new) = Len(leaves) /\ DOMAIN new = DOMAIN leaves
  <2>. DEFINE n == Len(leaves)
              V(i) == Value(leaves[i])
  <2>1. n \in Nat /\ DOMAIN leaves = 1..n
    BY <1>3
  <2>2. new = [i \in 1..n |-> V(i)]
    BY <2>1
  <2>. HIDE DEF n, V, new, leaves, Value
  <2>3. DOMAIN new = 1..n /\ Elems = {V(i) : i \in 1..n}
    BY <2>2
  <2>. HIDE DEF Elems
  <2>4. new \in Seq(Elems) /\ Len(new) = n
    BY <2>1, <2>2, <2>3
  <2>. QED BY <2>1, <2>3, <2>4 DEF n
<1>7. IsText(red)
  <2>1. "leaves" \in DOMAIN red
    BY <1>2, Zenon DEF IsText
  <2>2. red.leaves \in Seq({red.leaves[i] : i \in DOMAIN red.leaves})
    BY <1>2, <1>6, Zenon
  <2>3. \A i \in DOMAIN red.leaves : red.leaves[i].runes \in Seq(Runes)
    BY <1>2, <1>5, <1>6, Zenon
  <2>. QED BY <2>1, <2>2, <2>3 DEF IsText
<1>. HIDE DEF new, red
<1>. QED BY <1>2, <1>3, <1>4, <1>6, <1>7, Zenon DEF red

(* It leaves no more that looks like a secret than there was.               *)
LEMMA KeysFewer ==
    ASSUME NEW text, IsText(text)
    PROVE  Fewer(Rendered(RedactKeys(text)), Rendered(text))
<1>. DEFINE red == RedactKeys(text)
            n   == Len(text.leaves)
            ss  == PartsOf(red)
            tt  == PartsOf(text)
<1>1. /\ IsText(red) /\ Len(red.leaves) = n
      /\ \A i \in 1..n : red.leaves[i].runes = IF text.json /\ text.leaves[i].sensitive
                                               THEN Placeholder ELSE text.leaves[i].runes
  BY KeysAre
<1>2. /\ n \in Nat /\ DOMAIN text.leaves = 1..n /\ tt \in Seq(Seq(Runes)) /\ Len(tt) = n
      /\ \A i \in 1..n : tt[i] = PartOf(text, i)
      /\ Rendered(text) = Flat(tt, n)
  BY RenderedIs
<1>3. /\ DOMAIN red.leaves = 1..n /\ ss \in Seq(Seq(Runes)) /\ Len(ss) = n
      /\ \A i \in 1..n : ss[i] = PartOf(red, i)
      /\ Rendered(red) = Flat(ss, n)
  <2>. HIDE DEF red, n
  <2>. QED BY <1>1, RenderedIs
<1>. HIDE DEF red, n, ss, tt
<1>4. \A i \in 1..n : red.leaves[i].runes \in Seq(Runes) /\ text.leaves[i].runes \in Seq(Runes)
  BY <1>1, <1>2, <1>3, Zenon DEF IsText
<1>5. ASSUME NEW i \in 1..n PROVE Fewer(ss[i], tt[i])
  <2>1. CASE red.leaves[i].runes = text.leaves[i].runes
    <3>1. PartOf(red, i) = PartOf(text, i)
      BY <2>1, Zenon DEF PartOf
    <3>2. ss[i] = tt[i] /\ Cardinality(Lone(tt[i])) \in Nat
      BY <1>2, <1>3, <3>1, LoneIsFinite
    <3>. QED BY <3>2 DEF Fewer
  <2>2. CASE red.leaves[i].runes = Placeholder
    <3>1. Without(PartOf(red, i), Secret)
      BY <1>4, <2>2, PartIs, PlaceholderIs, Zenon
    <3>2. Cardinality(Lone(ss[i])) = 0
      BY <1>3, <3>1, NoneIsNone
    <3>3. Cardinality(Lone(tt[i])) \in Nat
      BY <1>2, LoneIsFinite
    <3>. QED BY <3>2, <3>3 DEF Fewer
  <2>. QED BY <1>1, <2>1, <2>2, Zenon
<1>6. \A i \in 1..n : i = 1 \/ (Begins(ss[i]) /\ Begins(tt[i]))
  BY <1>2, <1>3, <1>4, PartIs, Zenon
<1>7. Fewer(Flat(ss, Len(ss)), Flat(tt, Len(tt)))
  BY <1>2, <1>3, <1>5, <1>6, FlatFewer, Zenon
<1>. QED BY <1>2, <1>3, <1>7, Zenon DEF red

(* Nothing is left of the values under sensitive keys.                      *)
LEMMA KeysGone ==
    ASSUME NEW text, IsText(text), KeysMarked(text), text.json
    PROVE  Without(Rendered(RedactKeys(text)), "k")
<1>. DEFINE red == RedactKeys(text)
            n   == Len(text.leaves)
            ss  == PartsOf(red)
<1>1. /\ IsText(red) /\ Len(red.leaves) = n
      /\ \A i \in 1..n : red.leaves[i].runes = IF text.json /\ text.leaves[i].sensitive
                                               THEN Placeholder ELSE text.leaves[i].runes
  BY KeysAre
<1>2. n \in Nat /\ DOMAIN text.leaves = 1..n
  BY RenderedIs
<1>. HIDE DEF red, n
<1>3. /\ DOMAIN red.leaves = 1..n /\ ss \in Seq(Seq(Runes)) /\ Len(ss) = n
      /\ \A i \in 1..n : ss[i] = PartOf(red, i)
      /\ Rendered(red) = Flat(ss, n)
  BY <1>1, RenderedIs
<1>. HIDE DEF ss
<1>4. ASSUME NEW i \in 1..n PROVE Without(ss[i], "k")
  <2>1. red.leaves[i].runes \in Seq(Runes)
    BY <1>1, <1>3, Zenon DEF IsText
  <2>2. Without(red.leaves[i].runes, "k")
    <3>1. CASE text.leaves[i].sensitive
      <4>1. red.leaves[i].runes = Placeholder
        BY <1>1, <3>1, Zenon
      <4>. QED BY <4>1, PlaceholderIs, Zenon
    <3>2. CASE ~text.leaves[i].sensitive
      <4>1. red.leaves[i].runes = text.leaves[i].runes
        BY <1>1, <3>2, Zenon
      <4>2. "k" \notin ToSet(text.leaves[i].runes)
        BY <1>2, <3>2, Zenon DEF KeysMarked
      <4>3. \A s, x : x \notin ToSet(s) => Without(s, x)
        BY DEF ToSet, Without
      <4>. QED BY <4>1, <4>2, <4>3, Zenon
    <3>. QED BY <3>1, <3>2
  <2>. QED BY <1>3, <2>1, <2>2, PartIs, Zenon
<1>5. Without(Flat(ss, Len(ss)), "k")
  <2>. DEFINE x == "k"
  <2>1. \A i \in 1..Len(ss) : Without(ss[i], x)
    BY <1>3, <1>4, Zenon
  <2>. HIDE DEF x
  <2>2. Without(Flat(ss, Len(ss)), x)
    BY <1>3, <2>1, FlatWithout
  <2>. QED BY <2>2 DEF x
<1>. QED BY <1>3, <1>5, Zenon DEF red
-----------------------------------------------------------------------------
(* Redaction by patterns. *)

(* What a rune becomes.                                                     *)
PutAt(runes, i) ==
    CASE ~Matched(runes, i) -> <<runes[i]>>
      [] i > 1 /\ Matched(runes, i) /\ runes[i - 1] = Secret -> <<>>
      [] OTHER -> Placeholder
Puts(runes) == [i \in DOMAIN runes |-> PutAt(runes, i)]

(* It stays, or nothing of it does.                                         *)
LEMMA PutIs ==
    ASSUME NEW runes, NEW i
    PROVE  IF Matched(runes, i) THEN PutAt(runes, i) \in {<<>>, Placeholder} ELSE PutAt(runes, i) = <<runes[i]>>
<1>. DEFINE first == i > 1 /\ Matched(runes, i) /\ runes[i - 1] = Secret
            m == Matched(runes, i)
            x == <<runes[i]>>
<1>1. PutAt(runes, i) = CASE ~m -> x [] first -> <<>> [] OTHER -> Placeholder
  BY Zenon DEF PutAt
<1>2. first => m
  OBVIOUS
<1>. HIDE DEF first, m, x
<1>3. IF m THEN PutAt(runes, i) \in {<<>>, Placeholder} ELSE PutAt(runes, i) = x
  BY <1>1, <1>2
<1>. QED BY <1>3, Zenon DEF m, x

(* Redactor.Redact: rune by rune.                                           *)
LEMMA PatternsAre ==
    ASSUME NEW r \in Seq(Runes)
    PROVE  /\ Puts(r) \in Seq(Seq(Runes)) /\ Len(Puts(r)) = Len(r)
           /\ \A i \in 1..Len(r) : Puts(r)[i] = PutAt(r, i)
           /\ RedactPatterns(r) = Flat(Puts(r), Len(r)) /\ RedactPatterns(r) \in Seq(Runes)
<1>. DEFINE n == Len(r)
            pp == Puts(r)
<1>1. n \in Nat /\ DOMAIN r = 1..n /\ \A i \in 1..n : r[i] \in Runes
  OBVIOUS
<1>2. \A i \in 1..n : PutAt(r, i) \in Seq(Runes)
  <2>1. SUFFICES ASSUME NEW i \in 1..n PROVE PutAt(r, i) \in Seq(Runes)
    OBVIOUS
  <2>2. \A x, R : x \in R => <<x>> \in Seq(R) /\ <<>> \in Seq(R)
    OBVIOUS
  <2>. QED BY <1>1, <2>2, PutIs, PlaceholderIs, Zenon
<1>3. pp = [i \in 1..n |-> PutAt(r, i)]
  BY <1>1, Zenon DEF Puts
<1>4. RedactPatterns(r) = FlattenSeq(pp)
  BY Zenon DEF RedactPatterns, Puts, PutAt
<1>. HIDE DEF n, pp
<1>5. pp \in Seq(Seq(Runes)) /\ Len(pp) = n /\ \A i \in 1..n : pp[i] = PutAt(r, i)
  BY <1>1, <1>2, <1>3
<1>6. FlattenSeq(pp) = Flat(pp, n) /\ Flat(pp, n) \in Seq(Runes)
  <2>1. n \in 0..n
    BY <1>1
  <2>. QED BY <1>5, <2>1, FlatIs
<1>. QED BY <1>4, <1>5, <1>6, Zenon DEF n, pp

(* Nothing new comes in but what stands for a secret.                       *)
LEMMA PatternsWithout ==
    ASSUME NEW r \in Seq(Runes), Without(r, "k")
    PROVE  Without(RedactPatterns(r), "k")
<1>. DEFINE k == "k"
            pp == Puts(r)
<1>1. Without(r, k) /\ Without(Placeholder, k)
  BY PlaceholderIs, Zenon
<1>. HIDE DEF k
<1>2. /\ pp \in Seq(Seq(Runes)) /\ Len(pp) = Len(r) /\ \A i \in 1..Len(r) : pp[i] = PutAt(r, i)
      /\ RedactPatterns(r) = Flat(pp, Len(pp))
  BY PatternsAre
<1>. HIDE DEF pp
<1>3. ASSUME NEW i \in 1..Len(r) PROVE Without(pp[i], k)
  <2>1. r[i] # k
    BY <1>1 DEF Without
  <2>2. \A x, y : x # y => Without(<<x>>, y)
    BY DEF Without
  <2>3. \A y : Without(<<>>, y)
    BY DEF Without
  <2>4. IF Matched(r, i) THEN PutAt(r, i) \in {<<>>, Placeholder} ELSE PutAt(r, i) = <<r[i]>>
    BY PutIs
  <2>5. Without(<<r[i]>>, k)
    BY <2>1, <2>2, Zenon
  <2>6. Without(PutAt(r, i), k)
    BY <1>1, <2>3, <2>4, <2>5, Zenon
  <2>. QED BY <1>2, <2>6, Zenon
<1>4. Without(Flat(pp, Len(pp)), k)
  BY <1>2, <1>3, FlatWithout
<1>. QED BY <1>2, <1>4, Zenon DEF k

(* The redacted text of the first n runes has as many secret runes as these *)
(* have that no pattern matches, none beside another, and it ends in one    *)
(* only if the last of these is one.                                        *)
Apart(s) == \A i \in DOMAIN s : ~Matched(s, i)
EndsIn(s) == \E m \in Nat : m # 0 /\ DOMAIN s = 1..m /\ s[m] = Secret
LoneUpTo(r, n) == {i \in Lone(r) : i <= n}
Redacted(s, r, n) ==
    /\ Cardinality(Secrets(s)) = Cardinality(LoneUpTo(r, n))
    /\ Apart(s)
    /\ EndsIn(s) => n # 0 /\ r[n] = Secret /\ ~Matched(r, n)

(* One rune more.                                                           *)
LEMMA RedactedOneMore ==
    ASSUME NEW N \in Nat, NEW r, DOMAIN r = 1..N, NEW n \in 1..N, NEW a, NEW la \in Nat, NEW b, NEW lb \in Nat, NEW c,
           Joins(a, la, b, lb, c), Redacted(a, r, n - 1), b = PutAt(r, n)
    PROVE  Redacted(c, r, n)
<1>1. DOMAIN a = 1..la /\ DOMAIN b = 1..lb /\ DOMAIN c = 1..la + lb
  BY DEF Joins
<1>2. IF Matched(r, n) THEN b \in {<<>>, Placeholder} ELSE b = <<r[n]>>
  BY PutIs
<1>3. Secrets(b) \subseteq 1..1 /\ (1 \in Secrets(b) <=> n \in Lone(r))
  <2>1. CASE Matched(r, n)
    <3>1. Without(b, Secret)
      <4>1. Without(<<>>, Secret)
        BY DEF Without
      <4>. QED BY <1>2, <2>1, <4>1, PlaceholderIs
    <3>. QED BY <2>1, <3>1, NoneIsNone DEF Lone
  <2>2. CASE ~Matched(r, n)
    <3>1. DOMAIN b = {1} /\ b[1] = r[n]
      BY <1>2, <2>2
    <3>. QED BY <2>2, <3>1 DEF Lone, Secrets
  <2>. QED BY <2>1, <2>2
<1>4. Cardinality(Secrets(c)) = Cardinality(LoneUpTo(r, n))
  <2>1. Counts(Secrets(c), Secrets(a), Secrets(b))
    BY SecretsOfBoth
  <2>2. Counts(LoneUpTo(r, n), LoneUpTo(r, n - 1), Secrets(b))
    <3>1. Splits(LoneUpTo(r, n), LoneUpTo(r, n - 1), n - 1, Secrets(b))
      <4>1. \A i \in LoneUpTo(r, n - 1) : i \in LoneUpTo(r, n)
        BY DEF LoneUpTo, Lone
      <4>2. \A j \in Secrets(b) : n - 1 + j \in LoneUpTo(r, n)
        BY <1>3 DEF LoneUpTo
      <4>3. \A i \in LoneUpTo(r, n) : i \in LoneUpTo(r, n - 1) \/ \E j \in Secrets(b) : i = n - 1 + j
        <5>1. SUFFICES ASSUME NEW i \in LoneUpTo(r, n), i \notin LoneUpTo(r, n - 1) PROVE \E j \in Secrets(b) : i = n - 1 + j
          OBVIOUS
        <5>2. i = n /\ n \in Lone(r)
          BY <5>1 DEF LoneUpTo, Lone
        <5>3. 1 \in Secrets(b) /\ i = n - 1 + 1
          BY <1>3, <5>2
        <5>. QED BY <5>3
      <4>. QED BY <4>1, <4>2, <4>3 DEF Splits
    <3>2. LoneUpTo(r, n - 1) \subseteq 1..n - 1
      BY DEF LoneUpTo, Lone
    <3>3. n - 1 \in Nat /\ 1 \in Nat
      OBVIOUS
    <3>. QED BY <1>3, <3>1, <3>2, <3>3, CardOfBoth
  <2>. QED BY <2>1, <2>2 DEF Counts, Redacted
<1>5. Seam(a, la, b, lb)
  <2>1. SUFFICES ASSUME la # 0, a[la] = Secret, lb # 0 PROVE b[1] # Secret
    BY DEF Seam
  <2>2. EndsIn(a)
    BY <1>1, <2>1 DEF EndsIn
  <2>3. n - 1 # 0 /\ r[n - 1] = Secret /\ ~Matched(r, n - 1)
    BY <2>2 DEF Redacted
  <2>4. r[n] # Secret
    <3>1. n \in {n - 1 - 1, n - 1 + 1} \cap DOMAIN r
      OBVIOUS
    <3>. QED BY <2>3, <3>1 DEF Matched
  <2>5. ~Matched(r, n)
    BY <2>4 DEF Matched
  <2>6. b[1] = r[n]
    BY <1>2, <2>5
  <2>. QED BY <2>4, <2>6
<1>6. Apart(c)
  <2>1. Apart(a)
    BY DEF Redacted
  <2>2. Apart(b)
    <3>1. \A i \in DOMAIN b : b[i] = Secret => DOMAIN b = {1}
      <4>1. CASE Matched(r, n)
        <5>1. Without(<<>>, Secret)
          BY DEF Without
        <5>. QED BY <1>2, <4>1, <5>1, PlaceholderIs DEF Without
      <4>2. CASE ~Matched(r, n)
        <5>1. DOMAIN b = {1}
          BY <1>2, <4>2
        <5>. QED BY <5>1
      <4>. QED BY <4>1, <4>2
    <3>2. SUFFICES ASSUME NEW i \in DOMAIN b, Matched(b, i) PROVE FALSE
      BY DEF Apart
    <3>3. DOMAIN b = {1} /\ i = 1
      BY <3>1, <3>2 DEF Matched
    <3>4. {i - 1, i + 1} \cap DOMAIN b = {}
      BY <3>3
    <3>. QED BY <3>2, <3>4 DEF Matched
  <2>3. /\ \A i \in 1..la : Matched(c, i) <=> Matched(a, i)
        /\ \A j \in 1..lb : Matched(c, la + j) <=> Matched(b, j)
    BY <1>5, MatchedOfBoth
  <2>4. ASSUME NEW i \in 1..la + lb, i \notin 1..la PROVE ~Matched(c, i)
    <3>1. i - la \in 1..lb /\ la + (i - la) = i
      BY <2>4
    <3>2. ~Matched(c, la + (i - la))
      BY <1>1, <2>2, <2>3, <3>1 DEF Apart
    <3>. QED BY <3>1, <3>2
  <2>5. \A i \in 1..la : ~Matched(c, i)
    BY <1>1, <2>1, <2>3 DEF Apart
  <2>. QED BY <1>1, <2>4, <2>5 DEF Apart
<1>7. ASSUME EndsIn(c) PROVE n # 0 /\ r[n] = Secret /\ ~Matched(r, n)
  <2>1. la + lb # 0 /\ c[la + lb] = Secret
    <3>1. PICK m \in Nat : m # 0 /\ DOMAIN c = 1..m /\ c[m] = Secret
      BY <1>7 DEF EndsIn
    <3>2. m = la + lb
      BY <1>1, <3>1
    <3>. QED BY <3>1, <3>2
  <2>2. CASE Matched(r, n) /\ b = <<>>
    <3>1. lb = 0
      BY <1>1, <2>2
    <3>2. la # 0 /\ a[la] = Secret
      BY <2>1, <3>1 DEF Joins
    <3>3. EndsIn(a)
      BY <1>1, <3>2 DEF EndsIn
    <3>4. n - 1 # 0 /\ r[n - 1] = Secret /\ ~Matched(r, n - 1)
      BY <3>3 DEF Redacted
    <3>5. r[n] = Secret /\ n \in {n - 1 - 1, n - 1 + 1} \cap DOMAIN r
      BY <2>2 DEF Matched
    <3>. QED BY <3>4, <3>5 DEF Matched
  <2>3. CASE Matched(r, n) /\ b = Placeholder
    <3>1. lb = 3
      <4>1. 3 \in 1..3 /\ 4 \notin 1..3
        OBVIOUS
      <4>2. 3 \in 1..lb /\ 4 \notin 1..lb
        BY <1>1, <2>3, <4>1, PlaceholderIs, Zenon
      <4>. QED BY <4>2
    <3>2. c[la + lb] = b[3]
      BY <3>1 DEF Joins
    <3>. QED BY <2>1, <2>3, <3>2, PlaceholderIs
  <2>4. CASE ~Matched(r, n)
    <3>1. DOMAIN b = {1} /\ b[1] = r[n]
      BY <1>2, <2>4
    <3>2. lb = 1
      <4>0. 1 \in {1} /\ 2 \notin {1}
        OBVIOUS
      <4>1. 1 \in 1..lb /\ 2 \notin 1..lb
        BY <1>1, <3>1, <4>0, Zenon
      <4>. QED BY <4>1
    <3>3. c[la + lb] = b[1]
      BY <3>2 DEF Joins
    <3>. QED BY <2>1, <2>4, <3>1, <3>3
  <2>. QED BY <1>2, <2>2, <2>3, <2>4
<1>. QED BY <1>4, <1>6, <1>7 DEF Redacted

(* The text as a whole.                                                     *)
LEMMA PatternsLeave ==
    ASSUME NEW r \in Seq(Runes)
    PROVE  Redacted(RedactPatterns(r), r, Len(r))
<1>. DEFINE pp == Puts(r)
            N  == Len(r)
            Bad == {n \in 0..N : ~Redacted(Flat(pp, n), r, n)}
<1>1. /\ pp \in Seq(Seq(Runes)) /\ Len(pp) = N /\ \A i \in 1..N : pp[i] = PutAt(r, i)
      /\ RedactPatterns(r) = Flat(pp, N) /\ N \in Nat /\ DOMAIN r = 1..N
  BY PatternsAre
<1>. HIDE DEF pp, N
<1>2. 0 \notin Bad
  <2>1. Flat(pp, 0) = <<>>
    BY DEF Flat
  <2>2. LoneUpTo(r, 0) = {}
    BY <1>1 DEF LoneUpTo, Lone
  <2>3. Apart(<<>>) /\ ~EndsIn(<<>>) /\ Without(<<>>, Secret)
    BY DEF Apart, EndsIn, Without
  <2>. QED BY <2>1, <2>2, <2>3, NoneIsNone, FS_EmptySet DEF Redacted
<1>3. ASSUME NEW n \in 1..N, n \in Bad PROVE n - 1 \in Bad
  <2>. DEFINE a == Flat(pp, n - 1)
              b == pp[n]
              c == Flat(pp, n)
  <2>1. Joins(a, Len(a), b, Len(b), c) /\ Len(a) \in Nat /\ Len(b) \in Nat /\ b = PutAt(r, n)
    BY <1>1, FlatJoins
  <2>. HIDE DEF a, b, c
  <2>2. Redacted(a, r, n - 1) => Redacted(c, r, n)
    BY <1>1, <2>1, RedactedOneMore
  <2>3. n - 1 \in 0..N
    BY <1>1
  <2>. QED BY <1>3, <2>2, <2>3 DEF a, c
<1>4. Bad = {}
  <2>1. Bad \subseteq 0..N
    OBVIOUS
  <2>. HIDE DEF Bad
  <2>. QED BY <1>1, <1>2, <1>3, <2>1, NoFirst
<1>5. N \in 0..N
  BY <1>1
<1>6. Redacted(Flat(pp, N), r, N)
  BY <1>4, <1>5
<1>. QED BY <1>1, <1>6 DEF N

(* What is redacted looks like no secret to the patterns any more.          *)
LEMMA PatternsOnce ==
    ASSUME NEW s \in Seq(Runes), Apart(s)
    PROVE  RedactPatterns(s) = s
<1>1. \A i \in DOMAIN s : PutAt(s, i) = <<s[i]>>
  BY PutIs DEF Apart
<1>2. Puts(s) = [i \in DOMAIN s |-> <<s[i]>>]
  BY <1>1, Zenon DEF Puts
<1>3. RedactPatterns(s) = FlattenSeq(Puts(s))
  BY Zenon DEF RedactPatterns, Puts, PutAt
<1>4. FlattenSeq([i \in DOMAIN s |-> <<s[i]>>]) = s
  BY FlattenSingles
<1>. QED BY <1>2, <1>3, <1>4, Zenon

(* Redact: the secret runes left are those of the text that no pattern      *)
(* matches, at most.                                                        *)
LEMMA RedactIs ==
    ASSUME NEW text, IsText(text)
    PROVE  /\ Redact(text) \in Seq(Runes) /\ Apart(Redact(text))
           /\ Cardinality(Secrets(Redact(text))) <= Cardinality(Lone(Rendered(text)))
           /\ KeysMarked(text) /\ text.json => Without(Redact(text), "k")
<1>. DEFINE r == Rendered(RedactKeys(text))
<1>1. r \in Seq(Runes) /\ Fewer(r, Rendered(text)) /\ Redact(text) = RedactPatterns(r)
  <2>1. IsText(RedactKeys(text))
    BY KeysAre
  <2>. QED BY <2>1, RenderedIs, KeysFewer, Zenon DEF Redact
<1>2. KeysMarked(text) /\ text.json => Without(r, "k")
  BY KeysGone, Zenon
<1>. HIDE DEF r
<1>3. RedactPatterns(r) \in Seq(Runes) /\ Redacted(RedactPatterns(r), r, Len(r))
  BY <1>1, PatternsAre, PatternsLeave
<1>4. LoneUpTo(r, Len(r)) = Lone(r)
  BY <1>1 DEF LoneUpTo, Lone
<1>5. Apart(Redact(text)) /\ Cardinality(Secrets(Redact(text))) <= Cardinality(Lone(Rendered(text)))
  BY <1>1, <1>3, <1>4, Zenon DEF Redacted, Fewer
<1>6. Without(r, "k") => Without(Redact(text), "k")
  BY <1>1, PatternsWithout, Zenon
<1>. QED BY <1>1, <1>2, <1>3, <1>5, <1>6, Zenon

(* A cut leaves a beginning.                                                *)
LEMMA ShortenedIs ==
    ASSUME NEW T, NEW s \in Seq(T), NEW cap \in Int
    PROVE  /\ Shortened(s, cap) \in Seq(T)
           /\ Len(Shortened(s, cap)) = IF Cut(s, cap) THEN cap ELSE Len(s)
           /\ DOMAIN Shortened(s, cap) = 1..Len(Shortened(s, cap))
           /\ \A i \in DOMAIN Shortened(s, cap) : i \in DOMAIN s /\ Shortened(s, cap)[i] = s[i]
           /\ ~Cut(s, cap) => Shortened(s, cap) = s
           /\ cap > 0 => Len(Shortened(s, cap)) <= cap
<1>1. CASE Cut(s, cap)
  <2>1. Shortened(s, cap) = SubSeq(s, 1, cap) /\ cap \in 1..Len(s)
    BY <1>1 DEF Shortened, Cut
  <2>2. /\ SubSeq(s, 1, cap) \in Seq(T) /\ Len(SubSeq(s, 1, cap)) = cap
        /\ \A i \in 1..cap : i \in 1..Len(s) /\ SubSeq(s, 1, cap)[i] = s[i]
    BY <2>1
  <2>. HIDE DEF Shortened
  <2>. QED BY <1>1, <2>1, <2>2
<1>2. CASE ~Cut(s, cap)
  <2>1. Shortened(s, cap) = s /\ (cap > 0 => Len(s) <= cap)
    BY <1>2 DEF Shortened, Cut
  <2>. QED BY <1>2, <2>1
<1>. QED BY <1>1, <1>2

(* It has no more secret runes.                                             *)
LEMMA ShortenedFewer ==
    ASSUME NEW s \in Seq(Runes), NEW cap \in Int
    PROVE  Cardinality(Secrets(Shortened(s, cap))) <= Cardinality(Secrets(s))
<1>. DEFINE t == Shortened(s, cap)
<1>1. Secrets(t) \subseteq Secrets(s)
  <2>1. \A i \in DOMAIN t : i \in DOMAIN s /\ t[i] = s[i]
    BY ShortenedIs
  <2>. HIDE DEF t
  <2>. QED BY <2>1 DEF Secrets
<1>2. IsFiniteSet(Secrets(s))
  <2>1. Secrets(s) \subseteq 1..Len(s) /\ Len(s) \in Nat
    BY DEF Secrets
  <2>2. IsFiniteSet(1..Len(s))
    BY <2>1, FS_Interval
  <2>. QED BY <2>1, <2>2, FS_Subset
<1>. QED BY <1>1, <1>2, FS_Subset

(* StoredError, as it is meant.                                             *)
ErrorKept(stored, text, cap) ==
    /\ Clean(stored, text)
    /\ KeysMarked(text) => (text.json => "k" \notin ToSet(stored))
    /\ cap > 0 => Len(stored) <= cap + 1
    /\ cap > 0 /\ Cut(Redact(text), cap) => Last(stored) = errorTruncatedSuffix[1]
    /\ ~Cut(Redact(text), cap) => RedactPatterns(stored) = stored

(* handle: an error is stored as it is meant to be.                         *)
LEMMA ErrorIsKept ==
    ASSUME NEW text, IsText(text), NEW cap \in Int
    PROVE  ErrorKept(StoredError(text, cap), text, cap)
<1>. DEFINE s == Redact(text)
            t == Shortened(s, cap)
            e == IF Cut(s, cap) THEN errorTruncatedSuffix ELSE <<>>
            stored == StoredError(text, cap)
<1>1. stored = t \o e
  BY Zenon DEF StoredError
<1>2. /\ s \in Seq(Runes) /\ Apart(s)
      /\ Cardinality(Secrets(s)) <= Cardinality(Lone(Rendered(text)))
      /\ KeysMarked(text) /\ text.json => Without(s, "k")
  BY RedactIs
<1>3. Cardinality(Secrets(s)) \in Nat /\ Cardinality(Lone(Rendered(text))) \in Nat
  <2>1. Rendered(text) \in Seq(Runes)
    BY RenderedIs
  <2>. QED BY <1>2, <2>1, LoneIsFinite
<1>. HIDE DEF s
<1>4. /\ t \in Seq(Runes) /\ Len(t) = IF Cut(s, cap) THEN cap ELSE Len(s)
      /\ \A i \in DOMAIN t : i \in DOMAIN s /\ t[i] = s[i]
      /\ ~Cut(s, cap) => t = s
      /\ cap > 0 => Len(t) <= cap
  BY <1>2, ShortenedIs
<1>5. Cardinality(Secrets(t)) <= Cardinality(Secrets(s)) /\ Cardinality(Secrets(t)) \in Nat
  <2>1. Cardinality(Secrets(t)) <= Cardinality(Secrets(s))
    BY <1>2, ShortenedFewer
  <2>. HIDE DEF t
  <2>. QED BY <1>4, <2>1, LoneIsFinite
<1>6. e \in Seq(Runes) /\ Len(e) <= 1 /\ Len(e) \in Nat /\ Without(e, Secret) /\ Without(e, "k")
  <2>1. CASE Cut(s, cap)
    <3>1. e = errorTruncatedSuffix
      BY <2>1
    <3>. HIDE DEF e
    <3>2. Len(e) = 1
      BY <3>1, CutMarkIs, Zenon
    <3>3. e \in Seq(Runes) /\ Without(e, Secret) /\ Without(e, "k")
      BY <3>1, CutMarkIs, Zenon
    <3>. QED BY <3>2, <3>3
  <2>2. CASE ~Cut(s, cap)
    <3>1. e = <<>> /\ \A x : Without(<<>>, x)
      BY <2>2 DEF Without
    <3>2. <<>> \in Seq(Runes) /\ Len(<<>>) = 0
      OBVIOUS
    <3>. HIDE DEF e
    <3>3. Len(e) = 0
      BY <3>1, <3>2, Zenon
    <3>4. e \in Seq(Runes) /\ Without(e, Secret) /\ Without(e, "k")
      BY <3>1, <3>2, Zenon
    <3>. QED BY <3>3, <3>4
  <2>. QED BY <2>1, <2>2
<1>7. Cut(s, cap) => e = errorTruncatedSuffix
  OBVIOUS
<1>8. ~Cut(s, cap) => e = <<>>
  OBVIOUS
<1>. HIDE DEF t, e, stored
<1>9. /\ Joins(t, Len(t), e, Len(e), stored) /\ Len(t) \in Nat
      /\ stored \in Seq(Runes) /\ Len(stored) = Len(t) + Len(e)
  BY <1>1, <1>4, <1>6, JoinsIs, ConcatIs
<1>10. Clean(stored, text)
  <2>1. Counts(Secrets(stored), Secrets(t), Secrets(e))
    BY <1>6, <1>9, SecretsOfBoth
  <2>2. Cardinality(Secrets(e)) = 0
    BY <1>6, NoneIsNone
  <2>3. Cardinality(Secrets(stored)) <= Cardinality(Lone(Rendered(text)))
    BY <1>2, <1>3, <1>5, <2>1, <2>2 DEF Counts
  <2>4. Secrets(stored) = {i \in DOMAIN stored : stored[i] = Secret} /\ Lone(Rendered(text)) = Innocent(text)
    BY Zenon DEF Secrets, Lone, Innocent
  <2>. QED BY <2>3, <2>4, Zenon DEF Clean
<1>11. ASSUME KeysMarked(text), text.json PROVE "k" \notin ToSet(stored)
  <2>. DEFINE k == "k"
  <2>1. Without(s, k) /\ Without(e, k)
    BY <1>2, <1>6, <1>11, Zenon
  <2>. HIDE DEF k
  <2>2. Without(t, k)
    BY <1>4, <2>1, Zenon DEF Without
  <2>3. Without(stored, k)
    BY <1>6, <1>9, <2>1, <2>2, WithoutBoth
  <2>4. k \notin ToSet(stored)
    BY <2>3 DEF ToSet, Without
  <2>. QED BY <2>4 DEF k
<1>12. cap > 0 => Len(stored) <= cap + 1
  BY <1>4, <1>6, <1>9
<1>13. ASSUME Cut(s, cap) PROVE Last(stored) = errorTruncatedSuffix[1]
  <2>1. e = errorTruncatedSuffix /\ Len(e) = 1
    BY <1>7, <1>13, CutMarkIs
  <2>2. Last(stored) = stored[Len(stored)]
    BY Zenon DEF Last
  <2>3. Len(stored) = Len(t) + 1 /\ stored[Len(t) + 1] = e[1]
    BY <1>9, <2>1 DEF Joins
  <2>. QED BY <2>1, <2>2, <2>3
<1>14. ASSUME ~Cut(s, cap) PROVE RedactPatterns(stored) = stored
  <2>1. t \o <<>> = t
    BY <1>4
  <2>2. stored = s
    BY <1>1, <1>4, <1>8, <1>14, <2>1
  <2>. QED BY <1>2, <2>2, PatternsOnce
<1>. QED BY <1>10, <1>11, <1>12, <1>13, <1>14, Zenon DEF ErrorKept, s, stored

(* StoredPreview, as it is meant.                                           *)
PreviewKept(stored, text, cap) ==
    /\ Clean(stored.runes, text)
    /\ cap > 0 => Len(stored.runes) <= cap
    /\ stored.truncated => Len(stored.runes) = cap

(* handle: a preview is stored as it is meant to be.                        *)
LEMMA PreviewIsKept ==
    ASSUME NEW text, IsText(text), NEW cap \in Int
    PROVE  PreviewKept(StoredPreview(text, cap), text, cap)
<1>. DEFINE s == Redact(text)
            t == Shortened(s, cap)
            stored == StoredPreview(text, cap)
<1>1. stored.runes = t /\ stored.truncated = Cut(s, cap)
  BY DEF StoredPreview
<1>2. s \in Seq(Runes) /\ Cardinality(Secrets(s)) <= Cardinality(Lone(Rendered(text)))
  BY RedactIs
<1>3. Cardinality(Secrets(s)) \in Nat /\ Cardinality(Lone(Rendered(text))) \in Nat
  <2>1. Rendered(text) \in Seq(Runes)
    BY RenderedIs
  <2>. QED BY <1>2, <2>1, LoneIsFinite
<1>. HIDE DEF s, stored
<1>4. t \in Seq(Runes) /\ (Len(t) = IF Cut(s, cap) THEN cap ELSE Len(s)) /\ (cap > 0 => Len(t) <= cap)
  BY <1>2, ShortenedIs
<1>5. Cardinality(Secrets(t)) <= Cardinality(Secrets(s)) /\ Cardinality(Secrets(t)) \in Nat
  <2>1. Cardinality(Secrets(t)) <= Cardinality(Secrets(s))
    BY <1>2, ShortenedFewer
  <2>. HIDE DEF t
  <2>. QED BY <1>4, <2>1, LoneIsFinite
<1>. HIDE DEF t
<1>6. Clean(t, text)
  <2>1. Cardinality(Secrets(t)) <= Cardinality(Lone(Rendered(text)))
    BY <1>2, <1>3, <1>5
  <2>2. Secrets(t) = {i \in DOMAIN t : t[i] = Secret} /\ Lone(Rendered(text)) = Innocent(text)
    BY Zenon DEF Secrets, Lone, Innocent
  <2>. QED BY <2>1, <2>2, Zenon DEF Clean
<1>7. Cut(s, cap) => Len(t) = cap
  BY <1>4
<1>. QED BY <1>1, <1>4, <1>6, <1>7, Zenon DEF PreviewKept, stored
-----------------------------------------------------------------------------
(* The texts of a call. *)

(* The hook's cut leaves no JSON, and so nothing under a sensitive key.     *)
LEMMA FailureMarked ==
    ASSUME NEW use, KeysMarked(use.error)
    PROVE  KeysMarked(failureErrorText(use))
<1>. DEFINE runes == Rendered(use.error)
            cutOff == Len(runes) > HookCap
            told  == PlainText(SubSeq(runes, 1, HookCap) \o <<"...">>)
            brief == PlainText(<<"i">>)
            fail  == PlainText(<<"f">>)
<1>1. \A x : KeysMarked(PlainText(x))
  BY DEF KeysMarked, PlainText
<1>2. KeysMarked(told) /\ KeysMarked(brief) /\ KeysMarked(fail)
  BY <1>1, Zenon
<1>3. failureErrorText(use) = CASE runes = <<>> /\ use.interrupt -> brief
                                [] runes = <<>> /\ ~use.interrupt -> fail
                                [] cutOff -> told
                                [] OTHER -> use.error
  BY Zenon DEF failureErrorText
<1>4. runes = <<>> => ~cutOff
  <2>1. Len(<<>>) = 0 /\ ~(0 > HookCap)
    BY RecordingAssumption
  <2>. QED BY <2>1, Zenon
<1>. HIDE DEF runes, cutOff, told, brief, fail
<1>. QED BY <1>2, <1>3, <1>4

(* The error and the preview of a report are texts.                         *)
TextsAre(ev) == IsText(ev.error) /\ IsText(ev.preview) /\ KeysMarked(ev.error)

(* What a client reports has texts of runes, its secrets marked by their keys. *)
LEMMA ReportTexts ==
    ASSUME RecordingInv, NEW c \in DOMAIN session.uses, NEW phase \in Phases
    PROVE  TextsAre(EventOf(c, phase))
<1>1. session \in Sessions /\ SessionOK(session) /\ EventOf(c, phase) \in Reports(Use(c), phase)
  BY CallsAre, EventIsReport, RecordingAssumption
<1>2. UseOK(Use(c))
  BY <1>1 DEF SessionOK, Use
<1>3. CASE Use(c).client = "hook"
  <2>. DEFINE use == Use(c)
              own == [model |-> use.model, usage |-> use.usage, capture |-> "transcript"]
              said == EventOf(c, phase)
  <2>1. Said(said, use, phase, NoTurn) \/ Said(said, use, phase, own)
    BY <1>1, <1>3, ReportIs
  <2>2. use.error \in AnyText /\ KeysMarked(use.error)
    BY <1>1, <1>3, HookIs
  <2>. HIDE DEF use, own, said
  <2>3. said.error = (IF phase = "failure" THEN failureErrorText(use) ELSE NoText) /\ said.preview = NoText
    BY <2>1, Zenon DEF Said
  <2>4. IsText(failureErrorText(use)) /\ KeysMarked(failureErrorText(use))
    BY <2>2, FailureIsTold, FailureMarked
  <2>5. IsText(NoText) /\ KeysMarked(NoText)
    <3>1. KeysMarked(NoText)
      BY DEF KeysMarked, NoText
    <3>. QED BY <3>1, NoTextIs
  <2>. QED BY <2>3, <2>4, <2>5, Zenon DEF TextsAre, said
<1>4. ASSUME Use(c).client # "hook" PROVE Use(c).event \in AnyEvent /\ KeysMarked(Use(c).event.error)
  <2>1. \A use \in HookUse : use.client \in {"hook"}
    BY Zenon DEF HookUse
  <2>2. Use(c) \notin HookUse
    BY <1>4, <2>1
  <2>. QED BY <1>2, <2>2, Zenon DEF UseOK
<1>5. CASE Use(c).client = "proxy"
  <2>. DEFINE e == Use(c).event
              a == resolveActionType(e.tool, Use(c).mappings)
              t == ExtractTarget(e.server, Use(c).args)
              p == [e EXCEPT !.channel = "mcp", !.action = a, !.target = t]
  <2>1. e \in AnyEvent /\ KeysMarked(e.error)
    BY <1>4, <1>5
  <2>2. ProxyEvent(Use(c)) = p
    BY Zenon DEF ProxyEvent
  <2>3. EventOf(c, phase) = p
    BY <1>5, <2>2, Zenon DEF EventOf
  <2>. HIDE DEF e, a, t
  <2>4. /\ IsEvent(e) /\ e.error \in AnyText /\ e.preview \in AnyText
    BY <2>1, AnyEventIs
  <2>5. p.error = e.error /\ p.preview = e.preview
    BY <2>4 DEF IsEvent, EventFields
  <2>. HIDE DEF p
  <2>. QED BY <2>1, <2>3, <2>4, <2>5, AnyTextIs DEF TextsAre
<1>6. CASE Use(c).client \notin {"hook", "proxy"}
  <2>1. Use(c).event \in AnyEvent /\ KeysMarked(Use(c).event.error)
    BY <1>4, <1>6
  <2>2. EventOf(c, phase) = Use(c).event
    BY <1>6, Zenon DEF EventOf
  <2>. QED BY <2>1, <2>2, AnyEventIs, AnyTextIs DEF TextsAre
<1>. QED BY <1>3, <1>5, <1>6

(* What the receipt of a call holds of its texts.                           *)
LEMMA RowTexts ==
    ASSUME RecordingInv, NEW i \in DOMAIN rows
    PROVE  LET ev == EventOf(rows[i].call, rows[i].phase)
           IN /\ ErrorKept(rows[i].error, ev.error, Cap(under[i].maxError)) /\ KeysMarked(ev.error)
              /\ PreviewKept(rows[i].preview, ev.preview, Cap(under[i].maxPreview))
<1>. DEFINE ev == EventOf(rows[i].call, rows[i].phase)
            cap == Cap(under[i].maxError)
            previewCap == Cap(under[i].maxPreview)
<1>1. PICK f : IsFrame(f) /\ Recordable(f.event) /\ RowOf(rows[i], f, under[i], rows[i].seq)
  BY FrameOfRow, Zenon
<1>2. /\ rows[i].call = f.call /\ rows[i].phase = f.phase
      /\ rows[i].error = StoredError(f.event.error, cap)
      /\ rows[i].preview = StoredPreview(f.event.preview, previewCap)
  BY <1>1, Zenon DEF RowOf
<1>3. f.event.error = ev.error /\ f.event.preview = ev.preview
  <2>1. SaysOf(f.event, EventOf(f.call, f.phase))
    BY <1>1, FrameSays
  <2>. QED BY <1>2, <2>1, Zenon DEF SaysOf
<1>4. TextsAre(ev)
  BY FrameOfRow, ReportTexts, Zenon
<1>5. cap \in Int /\ previewCap \in Int
  <2>1. SessionOK(session) /\ under[i] \in session.settings
    BY FrameOfRow, CallsAre, RecordingAssumption
  <2>2. under[i] \in AnySettings
    BY <2>1, Zenon DEF SessionOK
  <2>3. under[i].maxError \in Int /\ under[i].maxPreview \in Int
    BY <2>2, Zenon DEF AnySettings
  <2>. QED BY <2>3, RecordingAssumption DEF Cap
<1>. HIDE DEF ev, cap, previewCap
<1>6. ErrorKept(rows[i].error, ev.error, cap) /\ PreviewKept(rows[i].preview, ev.preview, previewCap)
  BY <1>2, <1>3, <1>4, <1>5, ErrorIsKept, PreviewIsKept, Zenon DEF TextsAre
<1>. QED BY <1>4, <1>6, Zenon DEF TextsAre, ev, cap, previewCap

(* A receipt keeps no part of a secret that a pattern matches, not even at  *)
(* the cut, and no value of a sensitive key; it keeps to its caps, and says *)
(* where it was cut (redact.go, build.go).                                  *)
THEOREM TextsAreRedacted == Spec => []NothingInPlain
<1>1. ASSUME RecordingInv, NEW i \in DOMAIN rows
      PROVE  LET row == rows[i]
                 ev  == EventOf(row.call, row.phase)
                 cap == Cap(under[i].maxError)
                 previewCap == Cap(under[i].maxPreview)
                 whole == ~Cut(Redact(ev.error), cap)
             IN /\ Clean(row.error, ev.error) /\ Clean(row.preview.runes, ev.preview)
                /\ ev.error.json => "k" \notin ToSet(row.error)
                /\ cap > 0 => Len(row.error) <= cap + 1
                /\ (cap > 0 /\ ~whole) => Last(row.error) = errorTruncatedSuffix[1]
                /\ previewCap > 0 => Len(row.preview.runes) <= previewCap
                /\ row.preview.truncated => Len(row.preview.runes) = previewCap
                /\ whole => RedactPatterns(row.error) = row.error
  BY <1>1, RowTexts, Zenon DEF ErrorKept, PreviewKept
<1>2. RecordingInv => NothingInPlain
  BY <1>1, Zenon DEF NothingInPlain
<1>. QED BY <1>2, RecordingInductive, PTL
=============================================================================
