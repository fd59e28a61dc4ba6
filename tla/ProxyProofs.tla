----------------------------- MODULE ProxyProofs -----------------------------
(***************************************************************************)
(* Proofs about Proxy: no call reaches the server that the rules forbid or *)
(* that an approver has not let pass, but for those whose params do not    *)
(* decode and at most one that made the handler panic; and the daemon      *)
(* hears what the client was answered; for any rules, tools, ids and       *)
(* number of calls.                                                        *)
(***************************************************************************)
EXTENDS Proxy, SequenceTheorems, TLAPS

(* The verdict is the most restrictive of the actions of the rules that      *)
(* match: a rule that blocks decides, and one that pauses yields only to it. *)
LEMMA EvaluateIsMostRestrictive ==
    ASSUME NEW rules, NEW server, NEW tool
    PROVE  \A i \in Matching(rules, server, tool) :
              /\ rules[i].action = "block" => Evaluate(rules, server, tool) = "block"
              /\ rules[i].action = "pause" => Evaluate(rules, server, tool) \in {"pause", "block"}
<1>. DEFINE S == {"pass"} \cup {rules[i].action : i \in Matching(rules, server, tool)}
            Most(a) == \A b \in S : actionSeverity[b] <= actionSeverity[a]
<1>1. /\ actionSeverity["pass"] = 0 /\ actionSeverity["flag"] = 1
      /\ actionSeverity["pause"] = 2 /\ actionSeverity["block"] = 3
  BY DEF actionSeverity
<1>2. S \subseteq {"pass", "flag", "pause", "block"}
  BY DEF Matching, Effective, actionSeverity
<1>3. \E a \in S : Most(a)
  <2>1. CASE "block" \in S
    BY <1>1, <1>2, <2>1
  <2>2. CASE "block" \notin S /\ "pause" \in S
    BY <1>1, <1>2, <2>2
  <2>3. CASE "block" \notin S /\ "pause" \notin S /\ "flag" \in S
    BY <1>1, <1>2, <2>3
  <2>4. CASE "block" \notin S /\ "pause" \notin S /\ "flag" \notin S
    BY <1>1, <1>2, <2>4
  <2>. QED BY <2>1, <2>2, <2>3, <2>4
<1>4. Evaluate(rules, server, tool) = CHOOSE a \in S : Most(a)
  BY DEF Evaluate
<1>5. Evaluate(rules, server, tool) \in S /\ Most(Evaluate(rules, server, tool))
  BY <1>3, <1>4
<1>6. \A i \in Matching(rules, server, tool) : rules[i].action \in S
  OBVIOUS
<1>. QED BY <1>1, <1>2, <1>5, <1>6

(* What is known of a call that was read does not change. *)
LEMMA SameCall ==
    ASSUME NEW n, sent'[n] = sent[n]
    PROVE  /\ \A action : Forbids(n, action)' <=> Forbids(n, action)
           /\ KeyOf(n)' = KeyOf(n) /\ Decodes(n)' = Decodes(n)
           /\ told \subseteq told' /\ Allowed(n) => Allowed(n)'
BY DEF Forbids, KeyOf, Decodes, Allowed

(* What every step uses of the types. *)
LEMMA Typed ==
    ASSUME ProxyInv
    PROVE  /\ MaxCalls \in Nat /\ None \notin Call /\ Call = 1..MaxCalls
           /\ Len(sent) \in Nat /\ DOMAIN sent = 1..Len(sent) /\ DOMAIN sent \subseteq Call
           /\ \A n \in DOMAIN sent : KeyOf(n) \in Key /\ Decodes(n) \in BOOLEAN
           /\ pump.at \in {"read", "wait", "refuse", "forward", "stopped"}
           /\ pump = [at |-> pump.at, call |-> pump.call]
           /\ pump.at \in {"wait", "refuse", "forward"} => pump.call \in InHand
           /\ InHand \subseteq DOMAIN sent /\ upstream \subseteq InHand
<1>1. Len(sent) \in Nat /\ DOMAIN sent = 1..Len(sent) /\ \A n \in 1..Len(sent) : sent[n] \in [key : Key, tool : Tools]
  BY LenProperties, ElementOfSeq DEF ProxyInv, TypeOK
<1>2. DOMAIN sent \subseteq Call /\ MaxCalls \in Nat /\ None \notin Call
  BY <1>1, ProxyAssumption DEF ProxyInv, TypeOK, Call
<1>3. \A n \in DOMAIN sent : KeyOf(n) \in Key /\ Decodes(n) \in BOOLEAN
  BY <1>1, ProxyAssumption DEF KeyOf, Decodes
<1>. QED BY <1>1, <1>2, <1>3 DEF ProxyInv, TypeOK, OneEntry, InHand, Call

-----------------------------------------------------------------------------
(* A new call: its number is of no other call, and its id is of no call in   *)
(* hand, or the ids have crossed.                                            *)
NewCall(key, tool, n) ==
    /\ n \in Call /\ n \in DOMAIN sent' /\ n \notin DOMAIN sent /\ DOMAIN sent \subseteq DOMAIN sent'
    /\ sent' \in Seq([key : Key, tool : Tools]) /\ Len(sent') <= MaxCalls
    /\ sent'[n] = [key |-> key, tool |-> tool] /\ \A m \in DOMAIN sent : sent'[m] = sent[m]
    /\ crossed' \in BOOLEAN
    /\ InHand = upstream /\ InHand' = upstream \cup {n}
    /\ \A e \in events : e.call # n
    /\ \A m \in InHand' : \A a \in answers' : a.call # m
    /\ InHand' \cup passed' \cup {e.call : e \in events'} \cup {a.call : a \in answers'} \subseteq DOMAIN sent'
    /\ ~crossed' => ~crossed /\ \A m \in upstream : KeyOf(m) # key
    /\ Mediated' /\ Accounted'

LEMMA Received ==
    ASSUME ProxyInv, NEW key \in Key, NEW tool \in Tools, Receive(key, tool),
           NEW at \in {"wait", "refuse", "forward"}, NEW n, n = Len(sent) + 1,
           pump' = [at |-> at, call |-> n],
           UNCHANGED <<over, locked, told, upstream, passed, events, answers>>
    PROVE  NewCall(key, tool, n)
<1>. USE Typed
<1>1. /\ pump = Reading /\ n \in Call /\ sent' = Append(sent, [key |-> key, tool |-> tool])
      /\ crossed' = (crossed \/ \E m \in upstream : KeyOf(m) = key)
  BY DEF Receive
<1>2. /\ sent' \in Seq([key : Key, tool : Tools]) /\ Len(sent') = n /\ DOMAIN sent' = 1..n
      /\ sent'[n] = [key |-> key, tool |-> tool] /\ \A m \in DOMAIN sent : sent'[m] = sent[m]
      /\ DOMAIN sent \subseteq DOMAIN sent' /\ n \in DOMAIN sent' /\ n \notin DOMAIN sent
      /\ n <= MaxCalls
  BY <1>1, AppendProperties, LenProperties DEF ProxyInv, TypeOK
<1>3. InHand = upstream /\ InHand' = upstream \cup {n}
  BY <1>1 DEF InHand, Reading
<1>4. /\ \A e \in events : e.call \in DOMAIN sent
      /\ \A a \in answers : a.call \in DOMAIN sent
      /\ passed \subseteq DOMAIN sent /\ upstream \subseteq DOMAIN sent
  BY DEF ProxyInv, OneEntry
<1>5. \A m \in InHand' : \A a \in answers' : a.call # m
  BY <1>2, <1>3, <1>4 DEF ProxyInv, OneEntry, Answered
<1>6. InHand' \cup passed' \cup {e.call : e \in events'} \cup {a.call : a \in answers'} \subseteq DOMAIN sent'
  BY <1>2, <1>3, <1>4
<1>7. Mediated'
  <2>1. \A m \in passed : (Decodes(m)' = Decodes(m)) /\ (Allowed(m) => Allowed(m)')
    BY <1>2, <1>4, SameCall
  <2>. QED BY <1>1, <2>1 DEF ProxyInv, Mediated
<1>8. Accounted'
  <2>1. /\ \A m, d : Reported(m, d)' <=> Reported(m, d)
        /\ \A m, k : Got(m, k)' <=> Got(m, k)
    BY DEF Reported, Got
  <2>2. /\ \A m, d : Reported(m, d) => m \in DOMAIN sent
        /\ \A m, k : Got(m, k) => m \in DOMAIN sent
    BY <1>4 DEF Reported, Got
  <2>3. \A m \in DOMAIN sent : Decodes(m)' = Decodes(m)
    BY <1>2, SameCall
  <2>. QED BY <1>1, <2>1, <2>2, <2>3 DEF ProxyInv, Accounted
<1>9. crossed' \in BOOLEAN
  BY <1>1 DEF ProxyInv, TypeOK
<1>. QED BY <1>1, <1>2, <1>3, <1>4, <1>5, <1>6, <1>7, <1>8, <1>9 DEF NewCall

LEMMA ReadStep ==
    ASSUME ProxyInv, NEW key \in Key, NEW tool \in Tools, Read(key, tool)
    PROVE  ProxyInv'
<1>. USE Typed
<1>. DEFINE action == Evaluate(Rules, Server, tool)
<1>. SUFFICES ASSUME NEW n, n = Len(sent) + 1,
                     NEW at, at = IF action = "block" THEN "refuse"
                                  ELSE IF action # "pause" THEN "forward"
                                  ELSE IF approver THEN "wait" ELSE "refuse"
              PROVE  ProxyInv'
  OBVIOUS
<1>1. /\ Receive(key, tool) /\ tool.decodes /\ locked = None
      /\ entries' = With(entries, key, n) /\ pump' = [at |-> at, call |-> n]
      /\ waiting' = IF pump'.at = "wait" THEN [call |-> n, open |-> TRUE, channel |-> {}] ELSE waiting
      /\ UNCHANGED <<approver, over, locked, verdicts, told, upstream, passed, events, answers>>
  BY DEF Read, outVars
<1>2. /\ at \in {"wait", "refuse", "forward"}
      /\ at \in {"wait", "forward"} => action # "block"
      /\ at = "forward" => action # "pause"
  OBVIOUS
<1>. HIDE DEF action
<1>3. NewCall(key, tool, n)
  BY <1>1, <1>2, Received
<1>. USE DEF NewCall
<1>4. /\ DOMAIN entries' = DOMAIN entries \cup {key} /\ entries'[key] = n
      /\ \A k \in DOMAIN entries : k # key => entries'[k] = entries[k]
  BY <1>1 DEF With
<1>5. KeyOf(n)' = key /\ Decodes(n)' /\ \A m \in DOMAIN sent : KeyOf(m)' = KeyOf(m) /\ Decodes(m)' = Decodes(m)
  BY <1>1, <1>3 DEF KeyOf, Decodes
<1>6. /\ upstream \subseteq passed /\ passed \subseteq DOMAIN sent
      /\ \A k \in DOMAIN entries : /\ entries[k] \in DOMAIN sent /\ KeyOf(entries[k]) = k /\ Decodes(entries[k])
                                   /\ \A e \in events : e.call # entries[k]
  BY DEF ProxyInv, OneEntry
<1>7. TypeOK'
  <2>1. waiting' \in [call : Call \cup {None}, open : BOOLEAN, channel : SUBSET BOOLEAN]
    BY <1>1, <1>3 DEF ProxyInv, TypeOK
  <2>2. pump' \in [at : {"read", "wait", "refuse", "forward", "stopped"}, call : Call \cup {None}]
    BY <1>1, <1>2, <1>3
  <2>3. DOMAIN entries' \subseteq Key /\ \A k \in DOMAIN entries' : entries'[k] \in Call
    BY <1>3, <1>4 DEF ProxyInv, TypeOK
  <2>. QED BY <1>1, <1>3, <2>1, <2>2, <2>3 DEF ProxyInv, TypeOK
<1>8. OneEntry'
  <2>1. \A k \in DOMAIN entries' : /\ entries'[k] \in DOMAIN sent' /\ KeyOf(entries[k])' = k /\ Decodes(entries[k])'
                                  /\ \A e \in events' : e.call # entries'[k]
    BY <1>1, <1>3, <1>4, <1>6 DEF KeyOf, Decodes
  <2>2. pump'.call = n /\ n \notin passed'
    BY <1>1, <1>3, <1>6
  <2>3. Decodes(pump.call)' /\ entries'[KeyOf(pump.call)'] = pump'.call
    BY <1>1, <1>3, <1>4, <2>2 DEF KeyOf, Decodes
  <2>. QED BY <1>1, <1>3, <1>6, <2>1, <2>2, <2>3 DEF OneEntry, Answered
<1>9. OwnEntry'
  <2>. SUFFICES ASSUME ~crossed'
                PROVE  /\ \A m, k \in InHand' : KeyOf(m)' = KeyOf(k)' => m = k
                       /\ \A m \in InHand' : Decodes(m)' => KeyOf(m)' \in DOMAIN entries' /\ entries'[KeyOf(m)'] = m
                       /\ ~over' => \A k \in DOMAIN entries' : entries'[k] \in InHand'
    BY DEF OwnEntry
  <2>1. /\ \A m, k \in upstream : KeyOf(m) = KeyOf(k) => m = k
        /\ \A m \in upstream : Decodes(m) => KeyOf(m) \in DOMAIN entries /\ entries[KeyOf(m)] = m
        /\ ~over => \A k \in DOMAIN entries : entries[k] \in upstream
    BY <1>3 DEF ProxyInv, OwnEntry
  <2>2. \A m \in upstream : KeyOf(m)' = KeyOf(m) /\ KeyOf(m) # key /\ Decodes(m)' = Decodes(m)
    BY <1>3, <1>5, <1>6
  <2>3. \A m, k \in InHand' : KeyOf(m)' = KeyOf(k)' => m = k
    BY <1>3, <1>5, <2>1, <2>2
  <2>4. \A m \in InHand' : Decodes(m)' => KeyOf(m)' \in DOMAIN entries' /\ entries'[KeyOf(m)'] = m
    BY <1>3, <1>4, <1>5, <2>1, <2>2
  <2>5. ~over' => \A k \in DOMAIN entries' : entries'[k] \in InHand'
    BY <1>1, <1>3, <1>4, <2>1
  <2>. QED BY <2>3, <2>4, <2>5
<1>10. OneVerdict'
  BY <1>1, <1>2, <1>3 DEF ProxyInv, OneVerdict
<1>11. OnlyAllowed'
  <2>1. sent'[pump'.call].tool = tool /\ pump'.at = at
    BY <1>1, <1>3
  <2>2. \A a : Forbids(pump.call, a)' => \E i \in Matching(Rules, Server, tool) : Rules[i].action = a
    BY <2>1 DEF Forbids, Matching
  <2>3. /\ Forbids(pump.call, "block")' => action = "block"
        /\ Forbids(pump.call, "pause")' => action \in {"pause", "block"}
    BY <2>2, EvaluateIsMostRestrictive DEF action
  <2>. QED BY <1>2, <2>1, <2>3 DEF OnlyAllowed, Allowed
<1>. QED BY <1>3, <1>7, <1>8, <1>9, <1>10, <1>11 DEF ProxyInv

(* A call whose params do not decode leaves the table as it is. *)
LEMMA PassOnStep ==
    ASSUME ProxyInv, NEW key \in Key, NEW tool \in Tools, PassOn(key, tool)
    PROVE  ProxyInv'
<1>. USE Typed
<1>. SUFFICES ASSUME NEW n, n = Len(sent) + 1
              PROVE  ProxyInv'
  OBVIOUS
<1>1. /\ Receive(key, tool) /\ ~tool.decodes /\ pump' = [at |-> "forward", call |-> n]
      /\ UNCHANGED <<approver, over, entries, locked, waiting, verdicts, told, upstream, passed, events, answers>>
  BY DEF PassOn, callVars, approvalVars, outVars
<1>2. NewCall(key, tool, n)
  BY <1>1, Received
<1>. USE DEF NewCall
<1>3. KeyOf(n)' = key /\ ~Decodes(n)' /\ \A m \in DOMAIN sent : KeyOf(m)' = KeyOf(m) /\ Decodes(m)' = Decodes(m)
  BY <1>1, <1>2 DEF KeyOf, Decodes
<1>4. /\ upstream \subseteq passed /\ passed \subseteq DOMAIN sent
      /\ \A k \in DOMAIN entries : /\ entries[k] \in DOMAIN sent /\ KeyOf(entries[k]) = k /\ Decodes(entries[k])
                                   /\ \A e \in events : e.call # entries[k]
  BY DEF ProxyInv, OneEntry
<1>5. TypeOK'
  BY <1>1, <1>2 DEF ProxyInv, TypeOK
<1>6. OneEntry'
  <2>1. \A k \in DOMAIN entries' : /\ entries'[k] \in DOMAIN sent' /\ KeyOf(entries[k])' = k /\ Decodes(entries[k])'
                                  /\ \A e \in events' : e.call # entries'[k]
    BY <1>1, <1>2, <1>4 DEF KeyOf, Decodes
  <2>2. pump'.call = n /\ pump'.at = "forward" /\ n \notin passed'
    BY <1>1, <1>2, <1>4
  <2>. QED BY <1>1, <1>2, <1>4, <2>1, <2>2 DEF OneEntry, Answered
<1>7. OwnEntry'
  <2>. SUFFICES ASSUME ~crossed'
                PROVE  /\ \A m, k \in InHand' : KeyOf(m)' = KeyOf(k)' => m = k
                       /\ \A m \in InHand' : Decodes(m)' => KeyOf(m)' \in DOMAIN entries' /\ entries'[KeyOf(m)'] = m
                       /\ ~over' => \A k \in DOMAIN entries' : entries'[k] \in InHand'
    BY DEF OwnEntry
  <2>1. /\ \A m, k \in upstream : KeyOf(m) = KeyOf(k) => m = k
        /\ \A m \in upstream : Decodes(m) => KeyOf(m) \in DOMAIN entries /\ entries[KeyOf(m)] = m
        /\ ~over => \A k \in DOMAIN entries : entries[k] \in upstream
    BY <1>2 DEF ProxyInv, OwnEntry
  <2>2. \A m \in upstream : KeyOf(m)' = KeyOf(m) /\ KeyOf(m) # key /\ Decodes(m)' = Decodes(m)
    BY <1>2, <1>3, <1>4
  <2>. QED BY <1>1, <1>2, <1>3, <2>1, <2>2
<1>8. OneVerdict'
  BY <1>1 DEF ProxyInv, OneVerdict
<1>9. OnlyAllowed'
  BY <1>1, <1>3 DEF OnlyAllowed
<1>. QED BY <1>2, <1>5, <1>6, <1>7, <1>8, <1>9 DEF ProxyInv
-----------------------------------------------------------------------------
(* A step that changes no call and no entry. *)
LEMMA SameCalls ==
    ASSUME ProxyInv, UNCHANGED <<crossed, sent, pump, entries, locked, upstream, passed, events, answers>>,
           over => over', told \subseteq told'
    PROVE  OneEntry' /\ OwnEntry' /\ OnlyAllowed' /\ Mediated' /\ Accounted'
<1>1. /\ InHand' = InHand
      /\ \A n : (Answered(n)' <=> Answered(n)) /\ KeyOf(n)' = KeyOf(n) /\ Decodes(n)' = Decodes(n)
      /\ \A n, d : (Reported(n, d)' <=> Reported(n, d)) /\ (Got(n, d)' <=> Got(n, d))
  BY DEF InHand, Answered, KeyOf, Decodes, Reported, Got
<1>2. OneEntry'
  BY <1>1 DEF ProxyInv, OneEntry, KeyOf, Decodes
<1>3. OwnEntry' /\ Accounted'
  BY <1>1 DEF ProxyInv, OwnEntry, Accounted
<1>4. \A n : (Allowed(n) => Allowed(n)') /\ \A a : Forbids(n, a)' <=> Forbids(n, a)
  BY SameCall DEF Allowed
<1>5. /\ \A a : Forbids(pump.call, a)' <=> Forbids(pump.call, a)
      /\ Allowed(pump.call) => Allowed(pump.call)'
      /\ Decodes(pump.call)' = Decodes(pump.call)
  BY DEF Forbids, Allowed, Decodes
<1>6. OnlyAllowed' /\ Mediated'
  BY <1>1, <1>4, <1>5 DEF ProxyInv, OnlyAllowed, Mediated
<1>. QED BY <1>2, <1>3, <1>6

(* The approval.  A verdict reaches the channel of the call it was given on, *)
(* and has then been told.                                                   *)
VerdictMoves ==
    /\ UNCHANGED <<approver, crossed, over, sent, pump, entries, locked, upstream, passed, events, answers>>
    /\ told \subseteq told' /\ waiting'.call = waiting.call
    /\ waiting' \in [call : Call \cup {None}, open : BOOLEAN, channel : SUBSET BOOLEAN]
    /\ verdicts' \subseteq [call : Call, yes : BOOLEAN] /\ told' \subseteq [call : Call, yes : BOOLEAN]
    /\ waiting'.open => waiting.open
    /\ TRUE \in waiting'.channel => [call |-> waiting.call, yes |-> TRUE] \in told'

(* An approver decides, and the decision reaches the channel of the call it *)
(* is on.                                                                   *)
LEMMA ApprovalStep ==
    ASSUME ProxyInv, (\E yes \in BOOLEAN : Decide(yes)) \/ (\E v \in verdicts : Deliver(v))
    PROVE  ProxyInv'
<1>. USE Typed
<1>1. VerdictMoves
  <2>1. /\ waiting \in [call : Call \cup {None}, open : BOOLEAN, channel : SUBSET BOOLEAN]
        /\ verdicts \subseteq [call : Call, yes : BOOLEAN] /\ told \subseteq [call : Call, yes : BOOLEAN]
        /\ waiting.open => waiting.call # None
        /\ TRUE \in waiting.channel => [call |-> waiting.call, yes |-> TRUE] \in told
    BY DEF ProxyInv, TypeOK, OneVerdict
  <2>2. ASSUME NEW yes \in BOOLEAN, Decide(yes)
        PROVE  VerdictMoves
    <3>1. PICK w \in [call : Call \cup {None}, open : BOOLEAN, channel : SUBSET BOOLEAN] :
             w = waiting /\ waiting' = [w EXCEPT !.open = FALSE]
      BY <2>1, <2>2 DEF Decide
    <3>2. /\ waiting' \in [call : Call \cup {None}, open : BOOLEAN, channel : SUBSET BOOLEAN]
          /\ waiting'.call = w.call /\ waiting'.open = FALSE /\ waiting'.channel = w.channel
      BY <3>1
    <3>3. [call |-> waiting.call, yes |-> yes] \in [call : Call, yes : BOOLEAN]
      BY <2>1, <2>2 DEF Decide
    <3>. QED BY <2>1, <2>2, <3>1, <3>2, <3>3 DEF VerdictMoves, Decide, callVars, outVars
  <2>3. ASSUME NEW v \in verdicts, Deliver(v)
        PROVE  VerdictMoves
    <3>1. v \in [call : Call, yes : BOOLEAN] /\ v = [call |-> v.call, yes |-> v.yes] /\ v.yes \in BOOLEAN
      BY <2>1
    <3>2. PICK w \in [call : Call \cup {None}, open : BOOLEAN, channel : SUBSET BOOLEAN] :
             w = waiting /\ waiting' = IF v.call = w.call THEN [w EXCEPT !.channel = {v.yes}] ELSE w
      BY <2>1, <2>3 DEF Deliver
    <3>3. /\ waiting' \in [call : Call \cup {None}, open : BOOLEAN, channel : SUBSET BOOLEAN]
          /\ waiting'.call = w.call /\ waiting'.open = w.open
          /\ waiting'.channel = IF v.call = w.call THEN {v.yes} ELSE w.channel
      BY <3>1, <3>2
    <3>4. told' = told \cup {v} /\ verdicts' \subseteq verdicts
      BY <2>3 DEF Deliver
    <3>5. TRUE \in waiting'.channel => [call |-> w.call, yes |-> TRUE] \in told'
      BY <2>1, <3>1, <3>2, <3>3, <3>4
    <3>. QED BY <2>1, <2>3, <3>1, <3>2, <3>3, <3>4, <3>5 DEF VerdictMoves, Deliver, callVars, outVars
  <2>. QED BY <2>2, <2>3
<1>. USE DEF VerdictMoves
<1>2. TypeOK'
  BY <1>1 DEF ProxyInv, TypeOK
<1>3. OneVerdict'
  BY <1>1 DEF ProxyInv, OneVerdict
<1>4. OneEntry' /\ OwnEntry' /\ OnlyAllowed' /\ Mediated' /\ Accounted'
  BY <1>1, SameCalls
<1>. QED BY <1>2, <1>3, <1>4 DEF ProxyInv

(* What a step of the pump that answers no call keeps. *)
LEMMA PumpMoves ==
    ASSUME ProxyInv, NEW at \in {"refuse", "forward", "stopped"},
           pump' = [at |-> at, call |-> pump.call],
           UNCHANGED <<approver, crossed, over, sent, entries, verdicts, told, upstream, passed, events, answers>>,
           UNCHANGED locked \/ (locked = None /\ crossed /\ locked' = pump.call),
           waiting' \in {waiting, NoRequest},
           pump.at \in {"wait", "refuse", "forward"},
           at = "refuse" => pump.at = "wait", at = "stopped" => over,
           at = "forward" => locked' = pump.call \/ Allowed(pump.call)
    PROVE  ProxyInv'
<1>. USE Typed
<1>1. TypeOK'
  <2>1. /\ NoRequest \in [call : Call \cup {None}, open : BOOLEAN, channel : SUBSET BOOLEAN]
        /\ waiting \in [call : Call \cup {None}, open : BOOLEAN, channel : SUBSET BOOLEAN]
    BY DEF ProxyInv, TypeOK, NoRequest
  <2>2. pump' \in [at : {"read", "wait", "refuse", "forward", "stopped"}, call : Call \cup {None}]
    BY DEF ProxyInv, TypeOK
  <2>3. locked' \in Call \cup {None}
    BY DEF ProxyInv, TypeOK
  <2>. QED BY <2>1, <2>2, <2>3 DEF ProxyInv, TypeOK
<1>2. /\ InHand' \subseteq InHand /\ pump'.call = pump.call /\ pump'.at = at
      /\ at # "stopped" => InHand' = InHand
      /\ \A n : (Answered(n)' <=> Answered(n)) /\ KeyOf(n)' = KeyOf(n) /\ Decodes(n)' = Decodes(n)
      /\ \A n, d : (Reported(n, d)' <=> Reported(n, d)) /\ (Got(n, d)' <=> Got(n, d))
  BY DEF InHand, Answered, KeyOf, Decodes, Reported, Got
<1>3. OneEntry'
  <2>1. pump'.at \in {"wait", "refuse"} => pump.at = "wait"
    BY <1>2
  <2>2. pump.at = "wait" => /\ Decodes(pump.call)
                            /\ KeyOf(pump.call) \in DOMAIN entries => entries[KeyOf(pump.call)] = pump.call
    BY DEF ProxyInv, OneEntry
  <2>3. /\ Decodes(pump.call)' = Decodes(pump.call) /\ KeyOf(pump.call)' = KeyOf(pump.call)
        /\ \A k \in DOMAIN entries : KeyOf(entries[k])' = KeyOf(entries[k]) /\ Decodes(entries[k])' = Decodes(entries[k])
    BY <1>2 DEF Decodes, KeyOf
  <2>. QED BY <1>2, <2>1, <2>2, <2>3 DEF ProxyInv, OneEntry
<1>4. Accounted'
  BY <1>2 DEF ProxyInv, Accounted
<1>5. OwnEntry'
  BY <1>2 DEF ProxyInv, OwnEntry
<1>6. OneVerdict'
  <2>1. NoRequest.open = FALSE /\ NoRequest.channel = {}
    BY DEF NoRequest
  <2>2. pump'.at # "wait"
    OBVIOUS
  <2>. QED BY <2>1, <2>2 DEF ProxyInv, OneVerdict
<1>7. \A n : Allowed(n)' <=> Allowed(n)
  BY SameCall DEF Allowed
<1>8. OnlyAllowed'
  <2>1. Allowed(pump.call)' <=> Allowed(pump.call)
    BY <1>2 DEF Allowed, Forbids
  <2>. QED BY <1>2, <2>1 DEF OnlyAllowed
<1>9. Mediated'
  <2>1. \A n \in passed : n # None
    BY DEF ProxyInv, OneEntry
  <2>. QED BY <1>2, <1>7, <2>1 DEF ProxyInv, Mediated
<1>. QED BY <1>1, <1>3, <1>4, <1>5, <1>6, <1>8, <1>9 DEF ProxyInv

(* The end of the wait: a verdict that lets the call pass is in the channel  *)
(* of this call.                                                             *)
LEMMA WaitStep ==
    ASSUME ProxyInv, (\E yes \in BOOLEAN : Hears(yes)) \/ TimeOut
    PROVE  ProxyInv'
<1>. USE Typed
<1>1. /\ UNCHANGED <<approver, crossed, over, sent, entries, locked, verdicts, told, upstream, passed, events, answers>>
      /\ pump.at = "wait" /\ waiting' = NoRequest
  BY DEF Hears, TimeOut, callVars, outVars
<1>2. \/ pump' = [at |-> "refuse", call |-> pump.call]
      \/ pump' = [at |-> "forward", call |-> pump.call] /\ TRUE \in waiting.channel
  BY DEF Hears, TimeOut
<1>3. TRUE \in waiting.channel => Allowed(pump.call)
  BY <1>1 DEF ProxyInv, OneVerdict, OnlyAllowed, Allowed
<1>. QED BY <1>1, <1>2, <1>3, PumpMoves

(* With ids that do not cross a refused call is always recorded. *)
LEMMA PanicStep ==
    ASSUME ProxyInv, Panic
    PROVE  ProxyInv'
<1>. USE Typed
<1>1. /\ UNCHANGED <<approver, crossed, over, sent, entries, waiting, verdicts, told, upstream, passed, events, answers>>
      /\ pump.at = "refuse" /\ locked = None /\ locked' = pump.call
      /\ pump' = [at |-> "forward", call |-> pump.call]
      /\ KeyOf(pump.call) \notin DOMAIN entries
  BY DEF Panic, approvalVars, outVars
<1>2. crossed
  BY <1>1 DEF ProxyInv, OneEntry, OwnEntry
<1>. QED BY <1>1, <1>2, PumpMoves

(* A call that goes to the server is one that may, or one of the exceptions. *)
LEMMA ForwardStep ==
    ASSUME ProxyInv, Forward
    PROVE  ProxyInv'
<1>. USE Typed
<1>1. /\ UNCHANGED <<approver, crossed, over, sent, entries, locked, waiting, verdicts, told, events, answers>>
      /\ pump.at = "forward"
  BY DEF Forward, callVars, approvalVars
<1>2. CASE over
  <2>1. pump' = [at |-> "stopped", call |-> pump.call] /\ UNCHANGED <<upstream, passed>>
    BY <1>2 DEF Forward
  <2>. QED BY <1>1, <1>2, <2>1, PumpMoves
<1>3. CASE ~over
  <2>1. pump' = Reading /\ upstream' = upstream \cup {pump.call} /\ passed' = passed \cup {pump.call}
    BY <1>3 DEF Forward
  <2>2. /\ InHand' = InHand
        /\ \A n : (Answered(n)' <=> Answered(n)) /\ KeyOf(n)' = KeyOf(n) /\ Decodes(n)' = Decodes(n)
        /\ \A n, d : (Reported(n, d)' <=> Reported(n, d)) /\ (Got(n, d)' <=> Got(n, d))
    BY <1>1, <2>1 DEF InHand, Reading, Answered, KeyOf, Decodes, Reported, Got
  <2>3. TypeOK'
    BY <1>1, <2>1 DEF ProxyInv, TypeOK, Reading
  <2>4. OneEntry'
    <3>1. pump'.at = "read" /\ passed' \subseteq DOMAIN sent /\ upstream' \subseteq passed'
      BY <1>1, <2>1 DEF ProxyInv, OneEntry, Reading
    <3>2. \A k \in DOMAIN entries : KeyOf(entries[k])' = KeyOf(entries[k]) /\ Decodes(entries[k])' = Decodes(entries[k])
      BY <1>1 DEF KeyOf, Decodes
    <3>. QED BY <1>1, <2>2, <3>1, <3>2 DEF ProxyInv, OneEntry
  <2>5. OwnEntry'
    BY <1>1, <2>2 DEF ProxyInv, OwnEntry
  <2>6. OneVerdict' /\ OnlyAllowed'
    BY <1>1, <2>1 DEF ProxyInv, OneVerdict, OnlyAllowed, Reading
  <2>7. \A n : Allowed(n) => Allowed(n)'
    BY <1>1, SameCall
  <2>8. Mediated'
    BY <1>1, <2>1, <2>2, <2>7 DEF ProxyInv, Mediated, OnlyAllowed
  <2>9. Accounted'
    <3>1. ~Answered(pump.call)
      BY <1>1 DEF ProxyInv, OneEntry
    <3>2. ~Got(pump.call, "error")
      BY <3>1 DEF Got, Answered
    <3>. QED BY <1>1, <2>1, <2>2, <3>2 DEF ProxyInv, Accounted
  <2>. QED BY <2>3, <2>4, <2>5, <2>6, <2>8, <2>9 DEF ProxyInv
<1>. QED BY <1>2, <1>3
-----------------------------------------------------------------------------
(* A call that is answered takes the entry under its id with it, and the     *)
(* call of that entry, which without crossed ids is the same, is reported.   *)
LEMMA Leaves ==
    ASSUME ProxyInv, NEW n \in InHand, NEW decision \in {"denied", "allowed"}, NEW kind \in {"error", "response"},
           UNCHANGED <<approver, crossed, over, sent, locked, waiting, verdicts, told, passed>>,
           answers' = answers \cup {[call |-> n, kind |-> kind]},
           \/ /\ KeyOf(n) \in DOMAIN entries /\ entries' = Less(entries, KeyOf(n))
              /\ events' = events \cup {[call |-> entries[KeyOf(n)], decision |-> decision]}
           \/ KeyOf(n) \notin DOMAIN entries /\ UNCHANGED <<entries, events>>,
           InHand' = InHand \ {n}, upstream' \subseteq upstream,
           pump' = pump \/ pump' = Reading
    PROVE  TypeOK' /\ OneEntry' /\ OwnEntry' /\ OneVerdict' /\ OnlyAllowed' /\ Mediated'
<1>. USE Typed
<1>1. /\ DOMAIN entries' = DOMAIN entries \ {KeyOf(n)}
      /\ \A k \in DOMAIN entries' : entries'[k] = entries[k]
  BY DEF Less
<1>2. /\ \A k \in DOMAIN entries : /\ entries[k] \in DOMAIN sent /\ KeyOf(entries[k]) = k /\ Decodes(entries[k])
                                   /\ \A e \in events : e.call # entries[k]
      /\ \A e \in events : e.call \in DOMAIN sent
      /\ \A a \in answers : a.call \in DOMAIN sent
      /\ \A m \in InHand : ~Answered(m)
  BY DEF ProxyInv, OneEntry
<1>3. \A e \in events' : \/ e \in events
                         \/ KeyOf(n) \in DOMAIN entries /\ e = [call |-> entries[KeyOf(n)], decision |-> decision]
  OBVIOUS
<1>4. \A a \in answers' : a \in answers \/ a = [call |-> n, kind |-> kind]
  OBVIOUS
<1>5. Reading.at = "read" /\ n \in DOMAIN sent
  BY DEF Reading
<1>6. /\ \A m : KeyOf(m)' = KeyOf(m) /\ Decodes(m)' = Decodes(m)
      /\ \A m : Answered(m)' => Answered(m) \/ m = n
  BY <1>4 DEF KeyOf, Decodes, Answered
<1>7. TypeOK'
  <2>1. events' \subseteq [call : Call, decision : {"denied", "allowed"}]
    BY <1>2, <1>3 DEF ProxyInv, TypeOK
  <2>2. answers' \subseteq [call : Call, kind : {"error", "response"}]
    BY <1>4, <1>5 DEF ProxyInv, TypeOK
  <2>3. pump' \in [at : {"read", "wait", "refuse", "forward", "stopped"}, call : Call \cup {None}]
    BY DEF ProxyInv, TypeOK, Reading
  <2>. QED BY <1>1, <2>1, <2>2, <2>3 DEF ProxyInv, TypeOK
<1>8. OneEntry'
  <2>1. \A e \in events' : e.call \in DOMAIN sent
    BY <1>2, <1>3
  <2>2. \A a \in answers' : a.call \in DOMAIN sent
    BY <1>2, <1>4, <1>5
  <2>3. \A m \in InHand' : ~Answered(m)'
    BY <1>2, <1>6
  <2>4. InHand' \cup passed' \subseteq DOMAIN sent' /\ upstream' \subseteq passed'
    BY DEF ProxyInv, OneEntry
  <2>5. pump'.at \in {"wait", "refuse", "forward"} => pump' = pump /\ pump.call \notin passed
    BY <1>5 DEF ProxyInv, OneEntry
  <2>6. pump'.at \in {"wait", "refuse"} =>
           /\ Decodes(pump.call)'
           /\ KeyOf(pump.call)' \in DOMAIN entries' => entries'[KeyOf(pump.call)'] = pump'.call
    <3>1. pump.at \in {"wait", "refuse"} =>
             /\ Decodes(pump.call)
             /\ KeyOf(pump.call) \in DOMAIN entries => entries[KeyOf(pump.call)] = pump.call
      BY DEF ProxyInv, OneEntry
    <3>2. pump' = pump => Decodes(pump.call)' = Decodes(pump.call) /\ KeyOf(pump.call)' = KeyOf(pump.call)
      BY DEF Decodes, KeyOf
    <3>. QED BY <1>1, <2>5, <3>1, <3>2
  <2>7. ASSUME NEW k \in DOMAIN entries'
        PROVE  /\ entries'[k] \in DOMAIN sent' /\ KeyOf(entries[k])' = k /\ Decodes(entries[k])'
               /\ \A e \in events' : e.call # entries'[k]
    <3>1. k \in DOMAIN entries /\ k # KeyOf(n) /\ entries'[k] = entries[k]
      BY <1>1
    <3>2. KeyOf(entries[k])' = KeyOf(entries'[k]) /\ Decodes(entries[k])' = Decodes(entries'[k])
      BY DEF KeyOf, Decodes
    <3>3. KeyOf(n) \in DOMAIN entries => entries[KeyOf(n)] # entries[k]
      BY <1>2, <3>1
    <3>. QED BY <1>2, <1>3, <3>1, <3>2, <3>3
  <2>. QED BY <2>1, <2>2, <2>3, <2>4, <2>5, <2>6, <2>7 DEF OneEntry
<1>9. OwnEntry'
  <2>. SUFFICES ASSUME ~crossed'
                PROVE  /\ \A m, k \in InHand' : KeyOf(m)' = KeyOf(k)' => m = k
                       /\ \A m \in InHand' : Decodes(m)' => KeyOf(m)' \in DOMAIN entries' /\ entries'[KeyOf(m)'] = m
                       /\ ~over' => \A k \in DOMAIN entries' : entries'[k] \in InHand'
    BY DEF OwnEntry
  <2>1. /\ \A m, k \in InHand : KeyOf(m) = KeyOf(k) => m = k
        /\ \A m \in InHand : Decodes(m) => KeyOf(m) \in DOMAIN entries /\ entries[KeyOf(m)] = m
        /\ ~over => \A k \in DOMAIN entries : entries[k] \in InHand
    BY DEF ProxyInv, OwnEntry
  <2>2. \A m \in InHand' : m \in InHand /\ KeyOf(m) # KeyOf(n)
    BY <2>1
  <2>3. \A k \in DOMAIN entries' : k \in DOMAIN entries /\ entries'[k] = entries[k] /\ entries[k] # n
    BY <1>1, <1>2
  <2>. QED BY <1>1, <1>6, <2>1, <2>2, <2>3
<1>10. OneVerdict'
  BY <1>5 DEF ProxyInv, OneVerdict
<1>11. \A m : Allowed(m) => Allowed(m)'
  BY SameCall
<1>12. OnlyAllowed'
  <2>1. CASE pump' = pump
    <3>1. /\ Forbids(pump.call, "block")' <=> Forbids(pump.call, "block")
          /\ Decodes(pump.call)' = Decodes(pump.call) /\ (Allowed(pump.call) => Allowed(pump.call)')
      BY <2>1 DEF Forbids, Allowed, Decodes
    <3>. QED BY <2>1, <3>1 DEF ProxyInv, OnlyAllowed
  <2>2. CASE pump' = Reading
    BY <1>5, <2>2 DEF OnlyAllowed
  <2>. QED BY <2>1, <2>2
<1>13. Mediated'
  BY <1>6, <1>11 DEF ProxyInv, Mediated
<1>. QED BY <1>7, <1>8, <1>9, <1>10, <1>12, <1>13

(* A call that is refused never reached the server, was not reported so far, *)
(* and is reported as denied.                                                *)
LEMMA RefuseStep ==
    ASSUME ProxyInv, Refuse
    PROVE  ProxyInv'
<1>. USE Typed
<1>. DEFINE n == pump.call
<1>1. /\ pump.at = "refuse" /\ n \in InHand /\ n \notin passed /\ pump' = Reading /\ upstream' = upstream
      /\ n \notin upstream
  BY DEF Refuse, ProxyInv, OneEntry
<1>2. InHand' = InHand \ {n}
  BY <1>1 DEF InHand, Reading
<1>3. KeyOf(n) \in DOMAIN entries /\ entries[KeyOf(n)] = n /\ \A e \in events : e.call # n
  BY <1>1 DEF Refuse, ProxyInv, OneEntry
<1>4. /\ UNCHANGED <<approver, crossed, over, sent, locked, waiting, verdicts, told, passed>>
      /\ entries' = Less(entries, KeyOf(n))
      /\ events' = events \cup {[call |-> n, decision |-> "denied"]}
      /\ answers' = answers \cup {[call |-> n, kind |-> "error"]}
  BY DEF Refuse, Emit, approvalVars
<1>5. TypeOK' /\ OneEntry' /\ OwnEntry' /\ OneVerdict' /\ OnlyAllowed' /\ Mediated'
  BY <1>1, <1>2, <1>3, <1>4, Leaves
<1>6. Accounted'
  <2>1. /\ \A m : Reported(m, "denied")' <=> Reported(m, "denied") \/ m = n
        /\ \A m : Reported(m, "allowed")' <=> Reported(m, "allowed")
        /\ \A m : Got(m, "error")' <=> Got(m, "error") \/ m = n
        /\ \A m : Got(m, "response")' <=> Got(m, "response")
    BY <1>4 DEF Reported, Got
  <2>2. ~Reported(n, "allowed")
    BY <1>3 DEF Reported
  <2>3. \A m : Decodes(m)' = Decodes(m)
    BY <1>4 DEF Decodes
  <2>. QED BY <1>1, <1>4, <2>1, <2>2, <2>3 DEF ProxyInv, Accounted
<1>. QED BY <1>5, <1>6 DEF ProxyInv

(* A call that the server answers was forwarded.  If its id has not crossed  *)
(* another's, the entry under it is its own, or there is none and its params *)
(* did not decode.                                                           *)
LEMMA RespondStep ==
    ASSUME ProxyInv, NEW n \in Call, Respond(n)
    PROVE  ProxyInv'
<1>. USE Typed
<1>. DEFINE recorded == KeyOf(n) \in DOMAIN entries
            named == entries[KeyOf(n)]
<1>1. /\ n \in upstream /\ n \in InHand /\ n \in passed /\ upstream' = upstream \ {n} /\ pump' = pump /\ ~over
      /\ UNCHANGED <<approver, crossed, over, sent, locked, waiting, verdicts, told, passed>>
      /\ answers' = answers \cup {[call |-> n, kind |-> "response"]}
  BY DEF Respond, approvalVars, ProxyInv, OneEntry
<1>2. InHand' = InHand \ {n}
  BY <1>1 DEF InHand, ProxyInv, OneEntry
<1>3. \/ /\ recorded /\ entries' = Less(entries, KeyOf(n))
         /\ events' = events \cup {[call |-> named, decision |-> "allowed"]}
      \/ ~recorded /\ UNCHANGED <<entries, events>>
  BY DEF Respond, Emit
<1>4. TypeOK' /\ OneEntry' /\ OwnEntry' /\ OneVerdict' /\ OnlyAllowed' /\ Mediated'
  BY <1>1, <1>2, <1>3, Leaves
<1>5. Accounted'
  <2>1. /\ \A m : Reported(m, "denied")' <=> Reported(m, "denied")
        /\ \A m : Reported(m, "allowed")' <=> Reported(m, "allowed") \/ (recorded /\ m = named)
        /\ \A m : Got(m, "error")' <=> Got(m, "error")
        /\ \A m : Got(m, "response")' <=> Got(m, "response") \/ m = n
    BY <1>1, <1>3 DEF Reported, Got
  <2>2. \A m : Decodes(m)' = Decodes(m)
    BY <1>1 DEF Decodes
  <2>3. recorded => named \in Call /\ ~Reported(named, "denied") /\ Decodes(named) /\ KeyOf(named) = KeyOf(n)
    BY DEF ProxyInv, OneEntry, Reported
  <2>4. recorded => ~Got(named, "error")
    BY <2>3 DEF ProxyInv, Accounted
  <2>5. ~crossed => (recorded <=> Decodes(n)) /\ (recorded => named = n)
    <3>. SUFFICES ASSUME ~crossed
                  PROVE  (recorded <=> Decodes(n)) /\ (recorded => named = n)
      OBVIOUS
    <3>1. recorded => named \in InHand
      BY <1>1 DEF ProxyInv, OwnEntry
    <3>2. recorded => named = n
      BY <1>1, <2>3, <3>1 DEF ProxyInv, OwnEntry
    <3>3. Decodes(n) => recorded
      BY <1>1 DEF ProxyInv, OwnEntry
    <3>. QED BY <2>3, <3>2, <3>3
  <2>6. /\ \A m \in Call : Reported(m, "denied") <=> Got(m, "error")
        /\ \A m \in Call : Got(m, "error") => m \notin passed /\ ~Reported(m, "allowed")
        /\ ~crossed => \A m \in Call : Reported(m, "allowed") <=> Got(m, "response") /\ Decodes(m)
    BY DEF ProxyInv, Accounted
  <2>7. \A m \in Call : Reported(m, "denied")' <=> Got(m, "error")'
    BY <2>1, <2>6
  <2>8. \A m \in Call : Got(m, "error")' => m \notin passed' /\ ~Reported(m, "allowed")'
    BY <1>1, <2>1, <2>4, <2>6
  <2>9. ~crossed' => \A m \in Call : Reported(m, "allowed")' <=> Got(m, "response")' /\ Decodes(m)'
    BY <1>1, <2>1, <2>2, <2>5, <2>6
  <2>. QED BY <2>7, <2>8, <2>9 DEF Accounted
<1>. QED BY <1>4, <1>5 DEF ProxyInv

(* The end of the session changes no call in hand. *)
LEMMA EndStep ==
    ASSUME ProxyInv, (End \/ UNCHANGED vars)
    PROVE  ProxyInv'
<1>1. /\ UNCHANGED <<approver, crossed, sent, pump, entries, locked, waiting, verdicts, told, upstream, passed, events, answers>>
      /\ over' \in BOOLEAN /\ (over => over')
  BY DEF End, vars, callVars, approvalVars, outVars, ProxyInv, TypeOK
<1>2. TypeOK' /\ OneVerdict'
  BY <1>1 DEF ProxyInv, TypeOK, OneVerdict
<1>3. OneEntry' /\ OwnEntry' /\ OnlyAllowed' /\ Mediated' /\ Accounted'
  BY <1>1, SameCalls
<1>. QED BY <1>2, <1>3 DEF ProxyInv
-----------------------------------------------------------------------------
(* ProxyInv is inductive. *)
THEOREM ProxyInductive == Spec => []ProxyInv
<1>1. Init => ProxyInv
  <2>. SUFFICES ASSUME Init
                PROVE  ProxyInv
    OBVIOUS
  <2>. USE ProxyAssumption DEF Init, Reading, NoRequest
  <2>1. InHand = {} /\ DOMAIN entries = {}
    BY DEF InHand
  <2>2. TypeOK
    <3>1. Len(sent) = 0 /\ sent \in Seq([key : Key, tool : Tools])
      OBVIOUS
    <3>2. DOMAIN entries = {}
      BY <2>1
    <3>3. /\ pump \in [at : {"read", "wait", "refuse", "forward", "stopped"}, call : Call \cup {None}]
          /\ waiting \in [call : Call \cup {None}, open : BOOLEAN, channel : SUBSET BOOLEAN]
      OBVIOUS
    <3>4. Len(sent) <= MaxCalls
      BY <3>1
    <3>. QED BY <3>1, <3>2, <3>3, <3>4 DEF TypeOK
  <2>3. OneEntry /\ OwnEntry /\ OneVerdict /\ OnlyAllowed /\ Mediated /\ Accounted
    BY <2>1 DEF OneEntry, OwnEntry, OneVerdict, OnlyAllowed, Mediated, Accounted, Reported, Got
  <2>. QED BY <2>2, <2>3 DEF ProxyInv
<1>2. ProxyInv /\ [Next]_vars => ProxyInv'
  BY ReadStep, PassOnStep, ApprovalStep, WaitStep, PanicStep, ForwardStep, RefuseStep, RespondStep, EndStep
     DEF Next
<1>. QED BY <1>1, <1>2, PTL DEF Spec

(* No call whose params decode reaches the server that a rule blocks, or     *)
(* that a rule pauses and the approver was not told may pass, whatever the   *)
(* timer, the end of the session and the endpoint do at the same moment; but *)
(* for one whose refusal made the handler panic, if an id was used again     *)
(* before its answer.                                                        *)
THEOREM CallsAreMediated == Spec => []Mediated
<1>1. ProxyInv => Mediated
  BY DEF ProxyInv
<1>. QED BY <1>1, ProxyInductive, PTL

(* What the daemon hears of a call is what the client was answered: denied   *)
(* calls are those answered with an error, whatever the ids, and allowed     *)
(* ones those that got a response and whose params decode, unless an id was  *)
(* used again before its answer.                                             *)
THEOREM CallsAreAccounted == Spec => []Accounted
<1>1. ProxyInv => Accounted
  BY DEF ProxyInv
<1>. QED BY <1>1, ProxyInductive, PTL
=============================================================================
