---------------------------- MODULE DeliveryProofs ----------------------------
(***************************************************************************)
(* Proofs about Delivery: the journal and the collector implement Outbox,  *)
(* for any number of receipts, faults and attempts.                        *)
(***************************************************************************)
EXTENDS Delivery, SequenceTheorems, TLAPS

Request == [id: Receipt, by: Task \cup {Nobody}, stage: {"sent", "absent"}]
Call    == [pc: {"idle", "send", "wait", "clear"}, cur: 0..MaxReceipts, attempt: 0..MaxAttempts]

(* What every step of the invariant uses of the types. *)
LEMMA Constants ==
    /\ MaxReceipts \in Nat /\ MaxFaults \in Nat /\ MaxAttempts \in Nat \ {0}
    /\ Receipt \subseteq Nat /\ Nobody \notin Task
    /\ Idle \in Call /\ Idle.pc = "idle"
    /\ \A r \in Receipt : Trying(r) \in Call /\ Trying(r).pc = "send" /\ Trying(r).cur = r
BY DeliveryAssumption DEF Receipt, Idle, Trying, Call

(* What the steps below use of the types.                                   *)
LEMMA Typed ==
    ASSUME TypeOK
    PROVE  /\ next \in Nat /\ signed \in Seq(Nat) /\ Len(signed) \in Nat /\ returned \in Nat
           /\ DOMAIN files \subseteq Nat /\ maxIndex \in Nat
           /\ \A t \in Task : proc[t] \in Call
           /\ proc \in [Task -> Call] /\ reqs \subseteq Request
           /\ \A t \in Task : proc[t].pc \in {"idle", "send", "wait", "clear"}
BY LenProperties DEF TypeOK, Request, Call

(* The reaction to an answer is a step of the delivery of the same receipt.  *)
LEMMA ReactionType ==
    ASSUME NEW p \in Call, NEW status \in {0, 201, 400, 409, 500}
    PROVE  /\ Reaction(p, status) \in Call
           /\ Reaction(p, status).pc \in {"idle", "send", "clear"}
           /\ Reaction(p, status).pc = "clear" => status \in {201, 409}
           /\ Reaction(p, status).pc # "idle" => Reaction(p, status).cur = p.cur
<1>. USE Constants
<1>1. CASE status \in {201, 409}
  BY <1>1 DEF Reaction, Call
<1>2. CASE status \in {0, 500} /\ p.attempt < MaxAttempts
  <2>1. PICK n \in 0..MaxAttempts : n = p.attempt + 1
    BY <1>2 DEF Call
  <2>2. PICK x : x = Reaction(p, status)
    OBVIOUS
  <2>3. x = [p EXCEPT !.pc = "send", !.attempt = n]
    BY <1>2, <2>1, <2>2 DEF Reaction
  <2>4. x \in Call /\ x.pc = "send" /\ x.cur = p.cur
    BY <2>3 DEF Call
  <2>. QED BY <1>2, <2>2, <2>4
<1>3. CASE status \notin {201, 409} /\ ~(status \in {0, 500} /\ p.attempt < MaxAttempts)
  BY <1>3 DEF Reaction
<1>. QED BY <1>1, <1>2, <1>3

(* A receipt that is delivered was signed. *)
LEMMA Given ==
    ASSUME DeliveryInv, NEW t \in Task, Delivering(t)
    PROVE  proc[t].cur \in Receipt /\ signed[proc[t].cur] \in Nat
<1>1. proc[t].cur \in 1..Len(signed)
  BY DEF DeliveryInv, NothingForeign
<1>2. signed \in Seq(Nat) /\ Len(signed) <= MaxReceipts /\ Len(signed) \in Nat
  BY Typed DEF DeliveryInv, TypeOK
<1>3. signed[proc[t].cur] \in Nat
  BY <1>1, <1>2, ElementOfSeq
<1>. QED BY <1>1, <1>2, <1>3, Constants DEF Receipt

(* A status that reaches a task moves that task alone; only 201 and 409 let *)
(* it clear the journal.                                                    *)
LEMMA Heard ==
    ASSUME DeliveryInv, NEW q \in reqs, NEW status \in {0, 201, 400, 409, 500}, Hear(q.by, status)
    PROVE  /\ proc' \in [Task -> Call] /\ returned' \in Nat
           /\ \A t \in Task : t # q.by => proc'[t] = proc[t]
           /\ q.by \in Task =>
                 /\ proc'[q.by].pc \in {"idle", "send", "clear"}
                 /\ proc'[q.by].pc = "clear" => status \in {201, 409}
                 /\ proc'[q.by].pc # "idle" => proc'[q.by].cur = q.id
<1>. USE Constants, Typed DEF DeliveryInv
<1>1. CASE q.by \notin Task
  BY <1>1 DEF Hear
<1>2. CASE q.by \in Task
  <2>1. proc[q.by] \in Call /\ proc[q.by].pc = "wait" /\ proc[q.by].cur = q.id
    BY <1>2 DEF OwnAnswer
  <2>2. proc' = [proc EXCEPT ![q.by] = Reaction(@, status)]
    BY <1>2 DEF Hear
  <2>3. proc'[q.by] = Reaction(proc[q.by], status) /\ \A t \in Task : t # q.by => proc'[t] = proc[t]
    BY <1>2, <2>2
  <2>4. returned' \in Nat
    BY <1>2, <2>1, Given DEF Hear, GivenBack, Delivering
  <2>5. Reaction(proc[q.by], status) \in Call
    BY <2>1, ReactionType
  <2>6. proc' \in [Task -> Call]
    BY <2>2, <2>5
  <2>. QED BY <2>1, <2>3, <2>4, <2>6, ReactionType
<1>. QED BY <1>1, <1>2

(* The requests that are left of those on the wire, none of them waited for  *)
(* by a task of T.                                                           *)
LeftWithout(T, after) ==
    \A p \in after : /\ p \in Request
                     /\ \E o \in reqs : o.id = p.id
                     /\ p.by \in Task => p \in reqs /\ p.by \notin T

(* A request that is answered leaves the others as they are.                *)
LEMMA Answered ==
    ASSUME DeliveryInv, NEW q \in reqs
    PROVE  LeftWithout({q.by}, reqs \ {q})
BY Typed DEF DeliveryInv, LeftWithout, OwnAnswer

(* A request whose task has gone stays under way, without anyone to hear    *)
(* its answer.                                                              *)
LEMMA Orphans ==
    ASSUME DeliveryInv, NEW T
    PROVE  LeftWithout(T, Orphaned(T))
<1>. SUFFICES ASSUME NEW o \in reqs,
                     NEW p, p = [o EXCEPT !.by = IF @ \in T THEN Nobody ELSE @]
              PROVE  /\ p \in Request /\ o.id = p.id
                     /\ p.by \in Task => p \in reqs /\ p.by \notin T
  BY DEF LeftWithout, Orphaned
<1>1. o \in Request
  BY Typed DEF DeliveryInv
<1>2. CASE o.by \in T
  BY <1>1, <1>2, Constants DEF Request
<1>3. CASE o.by \notin T
  <2>1. p = o
    BY <1>1, <1>3 DEF Request
  <2>. QED BY <1>1, <1>3, <2>1
<1>. QED BY <1>2, <1>3

(* A step that ends or answers the calls of the tasks T, and touches neither *)
(* the journal nor the chain.                                                *)
LEMMA Ended ==
    ASSUME DeliveryInv, NEW T, LeftWithout(T, reqs'),
           UNCHANGED <<phase, next, closed, signed, files, byID, maxIndex, acked>>,
           returned' \in Nat, proc' \in [Task -> Call], faults' \in 0..MaxFaults,
           todo' \subseteq todo,
           stored \subseteq stored' /\ stored' \subseteq Receipt /\ stored' \subseteq Secured,
           \A t \in Task \ T : proc'[t] = proc[t],
           \A t \in Task \cap T :
              /\ proc'[t].pc # "idle" => proc'[t].cur \in Secured
              /\ proc'[t].pc = "clear" => proc'[t].cur \in stored'
    PROVE  DeliveryInv'
<1>. USE Typed DEF DeliveryInv
<1>1. TypeOK'
  BY DEF TypeOK, Journalled, LeftWithout, Request, Call
<1>2. Journalled' = Journalled /\ Secured \subseteq Secured'
  BY DEF Journalled, Secured
<1>3. OneFile'
  BY DEF OneFile
<1>4. NothingForeign'
  <2>1. Secured' \subseteq 1..Len(signed)
    BY <1>2 DEF NothingForeign, Secured
  <2>2. \A p \in reqs' : p.id \in Secured'
    BY <1>2 DEF NothingForeign, LeftWithout
  <2>3. \A t \in Task : proc'[t].pc # "idle" => proc'[t].cur \in Secured'
    BY <1>2 DEF NothingForeign, Delivering
  <2>4. todo' \subseteq Secured'
    BY <1>2 DEF NothingForeign
  <2>. QED BY <2>1, <2>2, <2>3, <2>4 DEF NothingForeign, Delivering
<1>5. OwnAnswer'
  <2>1. \A t \in Task : proc'[t].pc = "clear" => proc'[t].cur \in stored'
    BY DEF OwnAnswer
  <2>2. \A p \in reqs' : p.by \in Task => proc'[p.by].pc = "wait" /\ proc'[p.by].cur = p.id
    BY DEF OwnAnswer, LeftWithout
  <2>3. \A p, o \in reqs' : p.by = o.by /\ p.by \in Task => p = o
    BY DEF OwnAnswer, LeftWithout
  <2>. QED BY <2>1, <2>2, <2>3 DEF OwnAnswer
<1>. QED BY <1>1, <1>3, <1>4, <1>5
-----------------------------------------------------------------------------
(* The start of the client. *)
LEMMA StartStep ==
    ASSUME DeliveryInv, Start
    PROVE  DeliveryInv' /\ Journalled' = Journalled
<1>. USE Typed DEF DeliveryInv
<1>1. \A r \in Journalled : Newest(r) \in DOMAIN files /\ files[Newest(r)] = r
  <2>. TAKE r \in Journalled
  <2>1. PICK i \in DOMAIN files : files[i] = r
    BY DEF Journalled
  <2>2. \A j \in DOMAIN files : files[j] = r => j <= i
    BY <2>1 DEF OneFile
  <2>. QED BY <2>1, <2>2 DEF Newest
<1>2. \A i \in DOMAIN files : files[i] \in Journalled /\ i = Newest(files[i])
  <2>1. \A i \in DOMAIN files : files[i] \in Journalled
    BY DEF Journalled
  <2>. QED BY <1>1, <2>1 DEF OneFile
<1>3. /\ DOMAIN files' = DOMAIN files
      /\ \A i \in DOMAIN files : files'[i] = files[i]
  <2>1. {Newest(r) : r \in Journalled} = DOMAIN files
    BY <1>1, <1>2
  <2>. QED BY <2>1 DEF Start, Load
<1>4. Journalled' = Journalled
  BY <1>3 DEF Journalled
<1>5. DOMAIN byID' = Journalled /\ \A r \in Journalled : byID'[r] = Newest(r)
  BY DEF Start, Load
<1>6. maxIndex' \in Nat /\ \A i \in DOMAIN files : i <= maxIndex'
  BY DEF Start, Load
<1>7. /\ phase' = "replay" /\ todo' = Journalled
      /\ UNCHANGED <<next, closed, signed, returned, proc, reqs, stored, acked, faults>>
  BY DEF Start, serverVars
<1>8. TypeOK'
  BY <1>3, <1>4, <1>5, <1>6, <1>7 DEF TypeOK
<1>9. OneFile'
  BY <1>1, <1>3, <1>5, <1>6 DEF OneFile
<1>10. NothingForeign'
  BY <1>4, <1>7 DEF NothingForeign, Secured, Delivering
<1>11. OwnAnswer'
  BY <1>7 DEF OwnAnswer
<1>. QED BY <1>4, <1>8, <1>9, <1>10, <1>11

(* The head the caller gives is a number. *)
LEMMA NewChainStep ==
    ASSUME DeliveryInv, NewChain
    PROVE  DeliveryInv'
<1>. USE Typed DEF DeliveryInv
<1>1. next' \in Nat
  <2>1. \A r \in stored : signed[r] \in Nat
    BY ElementOfSeq DEF NothingForeign, Secured
  <2>. QED BY <2>1 DEF NewChain, Tails
<1>2. /\ phase' = "run" /\ phase = "replay" /\ closed' = FALSE
      /\ UNCHANGED <<signed, returned, files, byID, maxIndex, proc, todo, reqs, stored, acked, faults>>
  BY DEF NewChain, journalVars, serverVars
<1>3. TypeOK'
  BY <1>1, <1>2 DEF TypeOK, Journalled
<1>4. OneFile' /\ NothingForeign' /\ OwnAnswer'
  BY <1>2 DEF OneFile, NothingForeign, OwnAnswer, Secured, Journalled, Delivering
<1>. QED BY <1>3, <1>4

(* Signing, with and without a file in the journal. *)
LEMMA Signed ==
    ASSUME DeliveryInv, Sign
    PROVE  /\ signed' \in Seq(Nat) /\ Len(signed') = Len(signed) + 1 /\ Len(signed') <= MaxReceipts
           /\ next' \in Nat /\ closed' \in BOOLEAN /\ maxIndex' = maxIndex + 1
           /\ Len(signed) + 1 \in Receipt /\ Len(signed) + 1 \notin Secured
           /\ maxIndex + 1 \notin DOMAIN files /\ phase = "run" /\ ~Delivering("emit")
           /\ 1..Len(signed) \subseteq 1..Len(signed')
<1>. USE Typed, Constants DEF DeliveryInv
<1>1. signed' = Append(signed, next) /\ Len(signed) < MaxReceipts /\ phase = "run"
  BY DEF Sign
<1>2. signed' \in Seq(Nat) /\ Len(signed') = Len(signed) + 1
  BY <1>1, AppendProperties
<1>3. Len(signed) + 1 \in Receipt /\ Len(signed) + 1 \notin Secured
  BY <1>1 DEF Receipt, NothingForeign
<1>4. maxIndex + 1 \notin DOMAIN files
  BY <1>1 DEF OneFile
<1>. QED BY <1>1, <1>2, <1>3, <1>4 DEF Sign, Delivering

(* Emit: the receipt is signed and journalled under a new index before it   *)
(* is delivered.                                                            *)
LEMMA EmitStep ==
    ASSUME DeliveryInv, Emit
    PROVE  /\ DeliveryInv'
           /\ Journalled' = Journalled \cup {Len(signed) + 1}
<1>. DEFINE r == Len(signed) + 1
            n == maxIndex + 1
<1>. USE Typed, Constants DEF DeliveryInv
<1>1. /\ signed' \in Seq(Nat) /\ Len(signed') = r /\ r <= MaxReceipts
      /\ next' \in Nat /\ closed' \in BOOLEAN /\ maxIndex' = n
      /\ r \in Receipt /\ r \notin Secured /\ n \notin DOMAIN files /\ phase = "run"
      /\ ~Delivering("emit") /\ 1..Len(signed) \subseteq 1..Len(signed')
  BY Signed DEF Emit
<1>2. /\ files' = With(files, n, r) /\ byID' = With(byID, r, n)
      /\ proc' = [proc EXCEPT !["emit"] = Trying(r)]
      /\ UNCHANGED <<phase, returned, todo, reqs, stored, acked, faults>>
  BY DEF Emit, serverVars
<1>. HIDE DEF r, n
<1>3. /\ DOMAIN files' = DOMAIN files \cup {n} /\ files'[n] = r
      /\ \A i \in DOMAIN files : files'[i] = files[i]
  BY <1>1, <1>2 DEF With
<1>4. /\ DOMAIN byID' = DOMAIN byID \cup {r} /\ byID'[r] = n
      /\ \A x \in DOMAIN byID : x # r => byID'[x] = byID[x]
  BY <1>2 DEF With
<1>5. Journalled' = Journalled \cup {r}
  BY <1>3 DEF Journalled
<1>6. /\ proc'["emit"] = Trying(r) /\ \A t \in Task : t # "emit" => proc'[t] = proc[t]
      /\ proc' \in [Task -> Call]
  BY <1>1, <1>2 DEF Task
<1>7. \A q \in reqs : q.by # "emit"
  BY <1>1 DEF OwnAnswer, Delivering, Task
<1>8. TypeOK'
  <2>1. n \in Nat
    BY DEF n
  <2>2. DOMAIN files' \subseteq Nat /\ Journalled' \subseteq Receipt /\ DOMAIN byID' \subseteq Receipt
    BY <1>1, <1>3, <1>4, <1>5, <2>1 DEF TypeOK
  <2>. QED BY <1>1, <1>2, <1>6, <2>1, <2>2 DEF TypeOK, Call
<1>9. OneFile'
  <2>1. \A i \in DOMAIN files : files[i] # r /\ i <= n
    BY <1>1 DEF Secured, Journalled, OneFile, n
  <2>2. \A i, j \in DOMAIN files' : files'[i] = files'[j] => i = j
    BY <1>3, <2>1 DEF OneFile
  <2>3. \A x \in DOMAIN byID' : byID'[x] \in DOMAIN files' /\ files'[byID'[x]] = x
    BY <1>3, <1>4 DEF OneFile
  <2>4. \A i \in DOMAIN files' : i <= n
    BY <1>3, <2>1 DEF n
  <2>. QED BY <1>1, <2>2, <2>3, <2>4 DEF OneFile
<1>10. NothingForeign'
  <2>1. Secured' = Secured \cup {r}
    BY <1>2, <1>5 DEF Secured
  <2>2. Secured' \subseteq 1..Len(signed')
    <3>1. Secured \subseteq 1..Len(signed')
      BY <1>1 DEF NothingForeign
    <3>2. r \in 1..Len(signed')
      BY <1>1 DEF r
    <3>. QED BY <2>1, <3>1, <3>2
  <2>3. \A t \in Task : proc'[t].pc # "idle" => proc'[t].cur \in Secured'
    BY <1>1, <1>6, <2>1 DEF NothingForeign, Delivering
  <2>. QED BY <1>2, <2>1, <2>2, <2>3 DEF NothingForeign, Delivering
<1>11. OwnAnswer'
  BY <1>1, <1>2, <1>6, <1>7 DEF OwnAnswer
<1>. QED BY <1>5, <1>8, <1>9, <1>10, <1>11 DEF r

(* A receipt that could not be journalled is not delivered, and leaves the  *)
(* chain as it was.                                                         *)
LEMMA AppendFailsStep ==
    ASSUME DeliveryInv, AppendFails
    PROVE  DeliveryInv'
<1>. USE Typed, Constants DEF DeliveryInv
<1>1. /\ signed' \in Seq(Nat) /\ Len(signed') <= MaxReceipts /\ next' \in Nat /\ closed' \in BOOLEAN
      /\ maxIndex' = maxIndex + 1 /\ 1..Len(signed) \subseteq 1..Len(signed')
  BY Signed DEF AppendFails
<1>2. /\ returned' = next /\ faults' = faults + 1 /\ faults < MaxFaults
      /\ UNCHANGED <<phase, files, byID, proc, todo, reqs, stored, acked>>
  BY DEF AppendFails, Fault, serverVars
<1>3. TypeOK'
  BY <1>1, <1>2 DEF TypeOK, Journalled
<1>4. OneFile'
  BY <1>1, <1>2 DEF OneFile
<1>5. NothingForeign' /\ OwnAnswer'
  BY <1>1, <1>2, SMTT(30) DEF NothingForeign, OwnAnswer, Secured, Journalled, Delivering
<1>. QED BY <1>3, <1>4, <1>5
-----------------------------------------------------------------------------
(* The drain, and the requests of a delivery. *)
LEMMA DrainStep ==
    ASSUME DeliveryInv, Flush \/ DrainNext \/ Settle
    PROVE  DeliveryInv' /\ Journalled' = Journalled
<1>. USE Typed, Constants DEF DeliveryInv
<1>1. /\ UNCHANGED <<phase, next, closed, signed, returned, files, byID, maxIndex, reqs, stored, acked>>
      /\ Journalled' = Journalled /\ Secured' = Secured
  BY DEF Flush, DrainNext, Settle, chainVars, journalVars, serverVars, Journalled, Secured
<1>2. faults' \in 0..MaxFaults
  BY DEF Flush, DrainNext, Settle, TypeOK
<1>3. CASE Flush \/ Settle
  <2>1. proc' = proc /\ todo' \in {todo, DOMAIN byID}
    BY <1>3 DEF Flush, Settle
  <2>2. DOMAIN byID \subseteq Secured
    BY DEF OneFile, Secured, Journalled
  <2>3. TypeOK'
    BY <1>1, <1>2, <2>1 DEF TypeOK
  <2>4. OneFile' /\ NothingForeign' /\ OwnAnswer'
    BY <1>1, <2>1, <2>2 DEF OneFile, NothingForeign, OwnAnswer, Delivering
  <2>. QED BY <1>1, <2>3, <2>4
<1>4. CASE DrainNext
  <2>1. PICK r \in todo : /\ proc["drain"] = Idle
                          /\ proc' = [proc EXCEPT !["drain"] = Trying(r)]
                          /\ todo' = todo \ {r}
    BY <1>4 DEF DrainNext
  <2>2. r \in Receipt /\ r \in Secured
    BY DEF TypeOK, NothingForeign
  <2>3. /\ proc' \in [Task -> Call] /\ proc'["drain"] = Trying(r)
        /\ \A t \in Task : t # "drain" => proc'[t] = proc[t]
    BY <2>1, <2>2 DEF Task
  <2>4. \A q \in reqs : q.by # "drain"
    BY <2>1 DEF OwnAnswer, Task
  <2>5. TypeOK'
    BY <1>1, <1>2, <2>1, <2>3 DEF TypeOK, Call
  <2>6. OneFile' /\ NothingForeign' /\ OwnAnswer'
    BY <1>1, <2>1, <2>2, <2>3, <2>4 DEF OneFile, NothingForeign, OwnAnswer, Delivering
  <2>. QED BY <1>1, <2>5, <2>6
<1>. QED BY <1>3, <1>4

(* A request carries the receipt of its task.                               *)
LEMMA SendStep ==
    ASSUME DeliveryInv, NEW t \in Task, Send(t)
    PROVE  DeliveryInv' /\ Journalled' = Journalled
<1>. DEFINE q == [id |-> proc[t].cur, by |-> t, stage |-> "sent"]
<1>. USE Typed, Constants DEF DeliveryInv
<1>1. /\ proc[t].pc = "send" /\ proc' = [proc EXCEPT ![t].pc = "wait"] /\ reqs' = reqs \cup {q}
      /\ UNCHANGED <<phase, next, closed, signed, returned, files, byID, maxIndex, todo, stored,
                     acked, faults>>
      /\ Journalled' = Journalled /\ Secured' = Secured
  BY DEF Send, chainVars, journalVars, Journalled, Secured
<1>2. /\ proc' \in [Task -> Call] /\ proc'[t].pc = "wait" /\ proc'[t].cur = proc[t].cur
      /\ \A u \in Task : u # t => proc'[u] = proc[u]
  <2>1. proc \in [Task -> Call]
    BY DEF TypeOK, Call
  <2>2. ASSUME NEW c \in Call
        PROVE  [c EXCEPT !.pc = "wait"] \in Call
    BY DEF Call
  <2>3. [proc[t] EXCEPT !.pc = "wait"] \in Call
    BY <2>1, <2>2
  <2>4. [proc[t] EXCEPT !.pc = "wait"].pc = "wait" /\ [proc[t] EXCEPT !.pc = "wait"].cur = proc[t].cur
    BY <2>1 DEF Call
  <2>. HIDE DEF Call
  <2>. QED BY <1>1, <2>1, <2>3, <2>4
<1>3. q \in Request /\ q.id = proc[t].cur /\ q.by = t /\ proc[t].cur \in Secured
  BY <1>1, Given DEF Delivering, Request, NothingForeign
<1>. HIDE DEF q
<1>4. \A p \in reqs : p.by # t
  BY <1>1 DEF OwnAnswer
<1>5. TypeOK'
  BY <1>1, <1>2, <1>3 DEF TypeOK, Call, Request
<1>6. OneFile'
  BY <1>1 DEF OneFile
<1>7. NothingForeign'
  BY <1>1, <1>2, <1>3 DEF NothingForeign, Delivering
<1>8. OwnAnswer'
  BY <1>1, <1>2, <1>3, <1>4 DEF OwnAnswer
<1>. QED BY <1>1, <1>5, <1>6, <1>7, <1>8

(* A receipt that is cleared leaves the journal, and only that. *)
LEMMA ClearStep ==
    ASSUME DeliveryInv, NEW t \in Task, Clear(t)
    PROVE  /\ DeliveryInv' /\ proc[t].cur \in stored /\ stored' = stored
           /\ acked' \in {acked, acked \cup {proc[t].cur}}
           /\ \/ Journalled' = Journalled
              \/ proc[t].cur \in Journalled /\ Journalled' = Journalled \ {proc[t].cur}
<1>. DEFINE r == proc[t].cur
<1>. USE Typed, Constants DEF DeliveryInv
<1>1. /\ proc[t].pc = "clear" /\ proc' = [proc EXCEPT ![t] = Idle] /\ r \in stored
      /\ acked' \in {acked, acked \cup {r}}
      /\ UNCHANGED <<phase, next, closed, signed, maxIndex, todo, reqs, stored, faults>>
  BY DEF Clear, chainVars, serverVars, OwnAnswer
<1>2. /\ proc' \in [Task -> Call] /\ proc'[t] = Idle
      /\ \A u \in Task : u # t => proc'[u] = proc[u]
  BY <1>1
<1>3. r \in Receipt /\ signed[r] \in Nat /\ returned' \in Nat
  BY <1>1, Given DEF Delivering, Clear, GivenBack
<1>4. \A q \in reqs : q.by # t
  BY <1>1 DEF OwnAnswer
<1>5. /\ DOMAIN files' \subseteq DOMAIN files /\ \A i \in DOMAIN files' : files'[i] = files[i]
      /\ DOMAIN byID' \subseteq DOMAIN byID
      /\ \A x \in DOMAIN byID' : byID'[x] = byID[x] /\ byID[x] \in DOMAIN files'
      /\ \/ Journalled' = Journalled
         \/ r \in Journalled /\ Journalled' = Journalled \ {r}
  <2>1. CASE r \in DOMAIN byID
    <3>1. /\ DOMAIN files' = DOMAIN files \ {byID[r]} /\ \A i \in DOMAIN files' : files'[i] = files[i]
          /\ DOMAIN byID' = DOMAIN byID \ {r} /\ \A x \in DOMAIN byID' : byID'[x] = byID[x]
      BY <2>1 DEF Clear, Less
    <3>2. byID[r] \in DOMAIN files /\ files[byID[r]] = r
      BY <2>1 DEF OneFile
    <3>3. \A x \in DOMAIN byID' : byID[x] \in DOMAIN files'
      BY <3>1, <3>2 DEF OneFile
    <3>4. r \in Journalled /\ Journalled' = Journalled \ {r}
      BY <3>1, <3>2 DEF OneFile, Journalled
    <3>. QED BY <3>1, <3>3, <3>4
  <2>2. CASE r \notin DOMAIN byID
    <3>1. UNCHANGED <<files, byID>>
      BY <2>2 DEF Clear
    <3>. QED BY <3>1 DEF OneFile, Journalled
  <2>. QED BY <2>1, <2>2
<1>. HIDE DEF r
<1>6. Secured' = Secured
  BY <1>1, <1>5 DEF Secured
<1>7. TypeOK'
  BY <1>1, <1>2, <1>3, <1>5 DEF TypeOK, Call
<1>8. OneFile'
  BY <1>1, <1>5 DEF OneFile
<1>9. NothingForeign' /\ OwnAnswer'
  BY <1>1, <1>2, <1>4, <1>6 DEF NothingForeign, OwnAnswer, Delivering
<1>. QED BY <1>1, <1>5, <1>7, <1>8, <1>9 DEF r

(* A file that could not be removed stays journalled, and its receipt       *)
(* stored.                                                                  *)
LEMMA ClearFailsStep ==
    ASSUME DeliveryInv, NEW t \in Task, ClearFails(t)
    PROVE  DeliveryInv' /\ Journalled' = Journalled
<1>. USE Typed, Constants DEF DeliveryInv
<1>1. /\ proc[t].pc = "clear" /\ proc' = [proc EXCEPT ![t] = Idle]
      /\ byID' = Less(byID, proc[t].cur) /\ todo' \subseteq todo
      /\ faults < MaxFaults /\ faults' = faults + 1
      /\ UNCHANGED <<phase, next, closed, signed, files, maxIndex, reqs, stored, acked>>
      /\ Journalled' = Journalled /\ Secured' = Secured
  BY DEF ClearFails, Fault, chainVars, serverVars, Journalled, Secured
<1>2. /\ proc' \in [Task -> Call] /\ proc'[t] = Idle
      /\ \A u \in Task : u # t => proc'[u] = proc[u]
  BY <1>1
<1>3. returned' \in Nat
  BY <1>1, Given DEF Delivering, ClearFails, GivenBack
<1>4. \A q \in reqs : q.by # t
  BY <1>1 DEF OwnAnswer
<1>5. DOMAIN byID' \subseteq DOMAIN byID /\ \A x \in DOMAIN byID' : byID'[x] = byID[x]
  BY <1>1 DEF Less
<1>6. TypeOK'
  <2>1. DOMAIN byID' \subseteq Receipt /\ todo' \subseteq Receipt /\ faults' \in 0..MaxFaults
    BY <1>1, <1>5 DEF TypeOK
  <2>. QED BY <1>1, <1>2, <1>3, <2>1 DEF TypeOK, Call
<1>7. OneFile'
  BY <1>1, <1>5 DEF OneFile
<1>8. NothingForeign' /\ OwnAnswer'
  BY <1>1, <1>2, <1>4 DEF NothingForeign, OwnAnswer, Delivering
<1>. QED BY <1>1, <1>6, <1>7, <1>8

(* A cancelled call and a crash: the collector may still serve the request.  *)
LEMMA CancelStep ==
    ASSUME DeliveryInv, NEW t \in Task, Cancel(t)
    PROVE  DeliveryInv' /\ Journalled' = Journalled
<1>. USE Typed, Constants DEF DeliveryInv
<1>1. /\ proc[t].pc \in {"send", "wait"} /\ proc' = [proc EXCEPT ![t] = Idle]
      /\ reqs' = Orphaned({t}) /\ todo' \subseteq todo
      /\ faults < MaxFaults /\ faults' = faults + 1
      /\ UNCHANGED <<phase, next, closed, signed, files, byID, maxIndex, stored, acked>>
      /\ Journalled' = Journalled
  BY DEF Cancel, Fault, chainVars, journalVars, Journalled
<1>2. /\ proc' \in [Task -> Call] /\ proc'[t] = Idle
      /\ \A u \in Task : u # t => proc'[u] = proc[u]
  BY <1>1
<1>3. returned' \in Nat
  BY <1>1, Given DEF Delivering, Cancel, GivenBack
<1>4. stored \subseteq Receipt /\ stored \subseteq Secured /\ faults' \in 0..MaxFaults
  BY <1>1 DEF TypeOK, Secured
<1>5. LeftWithout({t}, reqs')
  BY <1>1, Orphans
<1>6. DeliveryInv'
  BY <1>1, <1>2, <1>3, <1>4, <1>5, Ended
<1>. QED BY <1>1, <1>6

(* A crash loses what is in memory: the files, the store and the requests   *)
(* under way stay.                                                          *)
LEMMA CrashStep ==
    ASSUME DeliveryInv, Crash
    PROVE  DeliveryInv' /\ Journalled' = Journalled
<1>. USE Typed, Constants DEF DeliveryInv
<1>1. /\ phase' = "down" /\ next' = 0 /\ closed' = FALSE /\ byID' = <<>> /\ maxIndex' = 0
      /\ proc' = [t \in Task |-> Idle] /\ todo' = {} /\ reqs' = Orphaned(Task)
      /\ faults < MaxFaults /\ faults' = faults + 1
      /\ UNCHANGED <<signed, returned, files, stored, acked>>
      /\ Journalled' = Journalled /\ Secured' = Secured
  BY DEF Crash, Fault, Journalled, Secured
<1>2. LeftWithout(Task, reqs')
  BY <1>1, Orphans
<1>3. DOMAIN byID' = {}
  BY <1>1, EmptySeq
<1>4. \A t \in Task : proc'[t] = Idle
  BY <1>1
<1>5. TypeOK'
  <2>1. DOMAIN byID' \subseteq Receipt /\ todo' \subseteq Receipt /\ faults' \in 0..MaxFaults
    BY <1>1, <1>3 DEF TypeOK
  <2>2. reqs' \subseteq Request /\ proc' \in [Task -> Call]
    BY <1>1, <1>2 DEF LeftWithout
  <2>. QED BY <1>1, <2>1, <2>2 DEF TypeOK, Request, Call
<1>6. OneFile'
  BY <1>1, <1>3 DEF OneFile
<1>7. NothingForeign'
  BY <1>1, <1>2, <1>4 DEF NothingForeign, Delivering, LeftWithout
<1>8. OwnAnswer'
  BY <1>1, <1>2, <1>4 DEF OwnAnswer, LeftWithout
<1>. QED BY <1>1, <1>5, <1>6, <1>7, <1>8
-----------------------------------------------------------------------------
(* The collector and the network: the call that waits hears of it. *)
LEMMA HeardStep ==
    ASSUME DeliveryInv, NEW q \in reqs, NEW status \in {0, 201, 400, 409, 500}, Hear(q.by, status),
           LeftWithout({q.by}, reqs'),
           UNCHANGED <<phase, next, closed, signed, files, byID, maxIndex, todo, acked>>,
           faults' \in 0..MaxFaults,
           stored \subseteq stored' /\ stored' \subseteq stored \cup {q.id},
           status \in {201, 409} => q.id \in stored'
    PROVE  DeliveryInv' /\ Journalled' = Journalled
<1>. USE Typed, Constants DEF DeliveryInv
<1>1. q.id \in Secured /\ q.id \in Receipt /\ stored \subseteq Receipt /\ stored \subseteq Secured
  BY DEF NothingForeign, TypeOK, Request, Secured
<1>2. stored' \subseteq Receipt /\ stored' \subseteq Secured
  BY <1>1
<1>3. /\ proc' \in [Task -> Call] /\ returned' \in Nat
      /\ \A t \in Task : t # q.by => proc'[t] = proc[t]
      /\ q.by \in Task =>
            /\ proc'[q.by].pc = "clear" => proc'[q.by].cur \in stored'
            /\ proc'[q.by].pc # "idle" => proc'[q.by].cur \in Secured
  BY <1>1, Heard
<1>4. DeliveryInv'
  BY <1>2, <1>3, Ended
<1>. QED BY <1>4 DEF Journalled

(* The collector reads a request and refuses it, or goes on with it.        *)
LEMMA ReceiveStep ==
    ASSUME DeliveryInv, NEW q \in reqs, Receive(q)
    PROVE  DeliveryInv' /\ Journalled' = Journalled
<1>. USE Typed, Constants DEF DeliveryInv
<1>1. /\ UNCHANGED <<phase, next, closed, signed, files, byID, maxIndex, todo, stored, acked, faults>>
      /\ Journalled' = Journalled /\ Secured' = Secured /\ faults' \in 0..MaxFaults
  BY DEF Receive, chainVars, journalVars, Journalled, Secured, TypeOK
<1>2. LeftWithout({q.by}, reqs \ {q})
  BY Answered
<1>3. CASE q.id \in Refused
  <2>1. Hear(q.by, 400) /\ LeftWithout({q.by}, reqs')
    BY <1>2, <1>3 DEF Receive
  <2>. QED BY <1>1, <2>1, HeardStep
<1>4. CASE q.id \notin Refused /\ q.id \in stored
  <2>1. Hear(q.by, 409) /\ LeftWithout({q.by}, reqs')
    BY <1>2, <1>4 DEF Receive
  <2>. QED BY <1>1, <1>4, <2>1, HeardStep
<1>5. CASE q.id \notin Refused /\ q.id \notin stored
  <2>1. PICK p : p = [q EXCEPT !.stage = "absent"]
    OBVIOUS
  <2>2. reqs' = (reqs \ {q}) \cup {p} /\ UNCHANGED <<proc, returned>>
    BY <1>5, <2>1 DEF Receive
  <2>3. p \in Request /\ p.id = q.id /\ p.by = q.by
    BY <2>1 DEF Request
  <2>4. TypeOK'
    BY <1>1, <2>2, <2>3 DEF TypeOK, Request
  <2>5. OneFile'
    BY <1>1 DEF OneFile
  <2>6. NothingForeign'
    BY <1>1, <2>2, <2>3 DEF NothingForeign, Delivering
  <2>7. OwnAnswer'
    BY <1>1, <2>2, <2>3 DEF OwnAnswer
  <2>. QED BY <1>1, <2>4, <2>5, <2>6, <2>7
<1>. QED BY <1>3, <1>4, <1>5

(* An insert stores a journalled receipt that was not stored, or nothing.   *)
LEMMA InsertStep ==
    ASSUME DeliveryInv, NEW q \in reqs, Insert(q)
    PROVE  /\ DeliveryInv' /\ Journalled' = Journalled /\ acked' = acked
           /\ \/ stored' = stored
              \/ q.id \in Journalled \ stored /\ stored' = stored \cup {q.id}
<1>. USE Typed, Constants DEF DeliveryInv
<1>1. /\ UNCHANGED <<phase, next, closed, signed, files, byID, maxIndex, todo, acked, faults>>
      /\ faults' \in 0..MaxFaults /\ reqs' = reqs \ {q} /\ Hear(q.by, InsertStatus(q.id))
      /\ stored' = IF InsertStatus(q.id) = 201 THEN stored \cup {q.id} ELSE stored
  BY DEF Insert, chainVars, journalVars, TypeOK
<1>2. /\ InsertStatus(q.id) \in {0, 201, 400, 409, 500}
      /\ InsertStatus(q.id) = 409 => q.id \in stored
      /\ InsertStatus(q.id) = 201 => q.id \notin stored
  BY DEF InsertStatus
<1>3. LeftWithout({q.by}, reqs \ {q})
  BY Answered
<1>4. DeliveryInv' /\ Journalled' = Journalled
  <2>1. PICK status \in {0, 201, 400, 409, 500} : status = InsertStatus(q.id)
    BY <1>2
  <2>2. /\ stored \subseteq stored' /\ stored' \subseteq stored \cup {q.id}
        /\ status \in {201, 409} => q.id \in stored'
        /\ Hear(q.by, status) /\ LeftWithout({q.by}, reqs')
    BY <1>1, <1>2, <1>3, <2>1
  <2>3. /\ UNCHANGED <<phase, next, closed, signed, files, byID, maxIndex, todo, acked>>
        /\ faults' \in 0..MaxFaults /\ DeliveryInv
    BY <1>1
  <2>. HIDE DEF DeliveryInv
  <2>. QED BY ONLY <2>1, <2>2, <2>3, q \in reqs, HeardStep
<1>5. stored' = stored \/ (q.id \in Journalled \ stored /\ stored' = stored \cup {q.id})
  BY <1>1, <1>2 DEF NothingForeign, Secured
<1>. QED BY <1>1, <1>4, <1>5

(* A request or its answer that is lost, late or ends in an error stores    *)
(* nothing.                                                                 *)
LEMMA LostStep ==
    ASSUME DeliveryInv, NEW q \in reqs, InsertFails(q) \/ Lose(q) \/ Timeout(q)
    PROVE  DeliveryInv' /\ Journalled' = Journalled
<1>. USE Typed, Constants DEF DeliveryInv
<1>1. /\ UNCHANGED <<phase, next, closed, signed, files, byID, maxIndex, todo, stored, acked>>
      /\ Hear(q.by, 500) \/ Hear(q.by, 0)
      /\ reqs' = reqs \ {q} \/ reqs' = Orphaned({q.by})
      /\ faults < MaxFaults /\ faults' = faults + 1
  BY DEF InsertFails, Lose, Timeout, Fault, chainVars, journalVars
<1>2. faults' \in 0..MaxFaults
  BY <1>1 DEF TypeOK
<1>3. LeftWithout({q.by}, reqs')
  BY <1>1, Answered, Orphans
<1>. QED BY <1>1, <1>2, <1>3, HeardStep

(* The first run finds an empty journal.                                    *)
LEMMA InitDelivery == Init => DeliveryInv /\ Journalled = {}
<1>. SUFFICES ASSUME Init PROVE DeliveryInv /\ Journalled = {}
  OBVIOUS
<1>1. DOMAIN files = {} /\ DOMAIN byID = {} /\ signed \in Seq(Nat) /\ Len(signed) = 0
  BY EmptySeq DEF Init
<1>2. Journalled = {} /\ Secured = {}
  BY <1>1 DEF Journalled, Secured, Init
<1>3. TypeOK
  <2>1. proc \in [Task -> Call] /\ 0 \in 0..MaxFaults
    BY Constants DEF Init
  <2>2. /\ next = 0 /\ returned = 0 /\ maxIndex = 0 /\ faults = 0 /\ closed = FALSE /\ phase = "down"
        /\ todo = {} /\ reqs = {} /\ stored = {} /\ acked = {}
    BY DEF Init
  <2>3. DOMAIN files \subseteq Nat /\ Journalled \subseteq Receipt /\ DOMAIN byID \subseteq Receipt
    BY <1>1, <1>2
  <2>4. Len(signed) <= MaxReceipts
    BY <1>1, Constants
  <2>5. proc \in [Task -> [pc: {"idle", "send", "wait", "clear"}, cur: 0..MaxReceipts,
                          attempt: 0..MaxAttempts]]
    BY <2>1 DEF Call
  <2>. QED BY <1>1, <2>1, <2>2, <2>3, <2>4, <2>5 DEF TypeOK
<1>4. OneFile /\ NothingForeign /\ OwnAnswer
  BY <1>1, <1>2, Constants DEF OneFile, NothingForeign, OwnAnswer, Delivering, Init
<1>. QED BY <1>2, <1>3, <1>4 DEF DeliveryInv
-----------------------------------------------------------------------------
KeptVars == <<Journalled, stored, acked>>

(* Every step keeps the invariant and is a step of Outbox, or none. *)
LEMMA DeliveryStep ==
    ASSUME DeliveryInv, [Next]_vars
    PROVE  DeliveryInv' /\ [Kept!Next]_KeptVars
<1>. USE DEF Kept!Next, Kept!Journal, Kept!Store, Kept!Clear, Kept!Acknowledge, KeptVars
<1>1. CASE UNCHANGED vars
  <2>. USE <1>1 DEF vars, chainVars, journalVars, serverVars
  <2>1. TypeOK' /\ OneFile' /\ NothingForeign' /\ OwnAnswer'
    BY DEF DeliveryInv, TypeOK, OneFile, NothingForeign, OwnAnswer, Secured, Journalled, Delivering
  <2>. QED BY <2>1 DEF DeliveryInv, Journalled
<1>2. CASE Settle \/ Flush \/ DrainNext
  BY <1>2, DrainStep DEF Settle, Flush, DrainNext, serverVars
<1>3. CASE Start
  BY <1>3, StartStep DEF Start, serverVars
<1>4. CASE NewChain
  BY <1>4, NewChainStep DEF NewChain, serverVars, journalVars, Journalled
<1>5. CASE Emit
  <2>1. Len(signed) + 1 \in Receipt /\ Len(signed) + 1 \notin Journalled \cup stored
    BY <1>5, Signed DEF Emit, Secured
  <2>2. UNCHANGED <<stored, acked>>
    BY <1>5 DEF Emit, serverVars
  <2>. QED BY <1>5, <2>1, <2>2, EmitStep
<1>6. CASE AppendFails
  BY <1>6, AppendFailsStep DEF AppendFails, serverVars, Journalled
<1>7. CASE Crash
  BY <1>7, CrashStep DEF Crash
<1>8. ASSUME NEW t \in Task, Send(t) \/ ClearFails(t) \/ Cancel(t)
      PROVE  DeliveryInv' /\ UNCHANGED KeptVars
  BY <1>8, SendStep, ClearFailsStep, CancelStep DEF Send, ClearFails, Cancel, serverVars
<1>9. ASSUME NEW t \in Task, Clear(t)
      PROVE  DeliveryInv' /\ [Kept!Next]_KeptVars
  <2>1. proc[t].cur \in Receipt
    BY <1>9, Given DEF Clear, Delivering
  <2>2. PICK r \in Receipt : r = proc[t].cur
    BY <2>1
  <2>3. /\ r \in stored /\ stored' = stored /\ acked' \in {acked, acked \cup {r}} /\ DeliveryInv'
        /\ Journalled' = Journalled \/ (r \in Journalled /\ Journalled' = Journalled \ {r})
    BY <1>9, <2>2, ClearStep
  <2>. QED BY <2>3
<1>10. ASSUME NEW q \in reqs, Receive(q) \/ InsertFails(q) \/ Lose(q) \/ Timeout(q)
       PROVE  DeliveryInv' /\ UNCHANGED KeptVars
  BY <1>10, ReceiveStep, LostStep DEF Receive, InsertFails, Lose, Timeout
<1>11. ASSUME NEW q \in reqs, Insert(q)
       PROVE  DeliveryInv' /\ [Kept!Next]_KeptVars
  <2>1. q.id \in Receipt
    BY DEF DeliveryInv, TypeOK
  <2>. QED BY <1>11, <2>1, InsertStep
<1>. QED BY <1>1, <1>2, <1>3, <1>4, <1>5, <1>6, <1>7, <1>8, <1>9, <1>10, <1>11 DEF Next, Serve

(* Every reachable state satisfies the invariant, whatever fails.            *)
THEOREM DeliveryInductive == Spec => []DeliveryInv
<1>1. Init => DeliveryInv
  BY InitDelivery
<1>2. DeliveryInv /\ [Next]_vars => DeliveryInv'
  BY DeliveryStep
<1>. QED BY <1>1, <1>2, PTL DEF Spec

(* The client and the collector implement Outbox: a receipt leaves the       *)
(* journal only when it is stored, is stored once, and Emit returns nil only *)
(* for a stored receipt, through lost, late and repeated requests, failing   *)
(* files and crashes of the client.                                          *)
THEOREM DeliveryImplementsOutbox == Spec => DeliveredOnce
<1>1. Init => Kept!Init
  BY InitDelivery DEF Init, Kept!Init
<1>2. DeliveryInv /\ [Next]_vars => [Kept!Next]_KeptVars
  BY DeliveryStep
<1>. QED BY <1>1, <1>2, DeliveryInductive, PTL DEF Spec, DeliveredOnce, Kept!Spec, Kept!vars, KeptVars
=============================================================================
