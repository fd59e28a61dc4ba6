----------------------------- MODULE DaemonProofs -----------------------------
(***************************************************************************)
(* Proofs about Pipeline, for any set of workers and agents, any number of *)
(* frames and any linked store an earlier run left; and, in the second     *)
(* half, about Daemon: what the commit path keeps it keeps through any     *)
(* number of stops, crashes and restarts.                                  *)
(***************************************************************************)
EXTENDS Daemon, SequenceTheorems, FiniteSetTheorems, TLAPS

(* A key of this run names a chain.                                         *)
LEMMA ChainOfType ==
    ASSUME gen \in Gen, NEW k \in Key
    PROVE  ChainOf(k) \in Chain
BY DEF ChainOf, Chain

(* The heads that a State can have.                                         *)
LEMMA HeadTypes ==
    ASSUME TypeOK, NEW c
    PROVE  /\ FreshHead \in StateHead
           /\ \A r \in rows : After(r) \in StateHead
           /\ TailHeads(c) \subseteq StateHead
<1>1. FreshHead \in StateHead
  BY DEF FreshHead, StateHead, IdOrNil
<1>2. ASSUME NEW r \in rows PROVE After(r) \in StateHead
  <2>1. r \in Receipt
    BY DEF TypeOK
  <2>2. r.seq \in Nat \ {0} /\ r.id \in IdOrNil
    BY <2>1 DEF Receipt, IdOrNil
  <2>. QED BY <2>2 DEF After, StateHead
<1>. QED BY <1>1, <1>2 DEF TailHeads, Tails, Rows

(* What a worker writes is a receipt.                                       *)
LEMMA ReceiptOfType ==
    ASSUME TypeOK, NEW w \in Worker, job[w].frame \in Frame, NEW kind \in Kind
    PROVE  /\ ReceiptOf(w, kind) \in Receipt
           /\ After(ReceiptOf(w, kind)) \in StateHead
<1>1. job[w].key \in Key
  BY DEF TypeOK, Job
<1>2. ChainOf(job[w].key) \in Chain
  BY <1>1, ChainOfType DEF TypeOK
<1>3. alloc[w].seq \in Nat \ {0} /\ alloc[w].prev \in IdOrNil /\ del[w] \in IdOrNil
  BY DEF TypeOK, StateHead
<1>4. <<job[w].frame, kind>> \in Id
  BY DEF Id
<1>5. ReceiptOf(w, kind) \in Receipt
  BY <1>2, <1>3, <1>4 DEF ReceiptOf, Receipt
<1>6. After(ReceiptOf(w, kind)) \in StateHead
  BY <1>3, <1>4 DEF ReceiptOf, After, StateHead, IdOrNil
<1>. QED BY <1>5, <1>6

(* The types, for a handler that returns,                                   *)
LEMMA ReturnType ==
    ASSUME TypeOK, NEW w \in Worker, job[w].frame \in Frame,
           NEW res \in {"ok", "err"}, Return(w, res)
    PROVE  /\ result' \in [Frame -> {"none", "ok", "err"}]
           /\ pc' \in [Worker -> PC]
           /\ job' \in [Worker -> Job]
           /\ \A v \in Worker : pc'[v] # "idle" => job'[v].frame \in Frame
           /\ loaded' \in [Worker -> StateHead]
           /\ alloc' \in [Worker -> StateHead]
           /\ del' \in [Worker -> IdOrNil]
<1>1. NoJob \in Job
  BY DEF NoJob, Job, Key
<1>2. FreshHead \in StateHead
  BY HeadTypes
<1>. QED BY <1>1, <1>2 DEF Return, TypeOK, Goto, Delegate, PC, IdOrNil

(* One step of one worker keeps the type invariant. *)
LEMMA StepType ==
    ASSUME TypeOK, NEW w \in Worker, Receive(w) \/ Step(w)
    PROVE  TypeOK'
<1>. USE DEF storeVars, stateVars, workerVars
<1>0. job[w].key \in Key /\ pc \in [Worker -> PC]
  BY DEF TypeOK, Job
<1>1. CASE Receive(w)
  <2>1. read' \in Frame /\ read' \in 0..MaxFrames
    BY <1>1, ConstantsAssumption DEF Receive, TypeOK, Frame
  <2>2. CASE UNCHANGED workerVars /\ result' = [result EXCEPT ![read'] = "err"]
    BY <1>1, <2>1, <2>2 DEF Receive, TypeOK
  <2>3. CASE /\ \E k \in Key, d \in BOOLEAN :
                   job' = [job EXCEPT ![w] = [frame |-> read', key |-> k, drop |-> d,
                              rootSeen |-> k # Root /\ Rows(ChainOf(Root)) # {}]]
             /\ Goto(w, "lookup")
             /\ UNCHANGED <<loaded, alloc, del, result>>
    <3>1. PICK k \in Key, d \in BOOLEAN :
             job' = [job EXCEPT ![w] = [frame |-> read', key |-> k, drop |-> d,
                        rootSeen |-> k # Root /\ Rows(ChainOf(Root)) # {}]]
      BY <2>3
    <3>2. [frame |-> read', key |-> k, drop |-> d,
           rootSeen |-> k # Root /\ Rows(ChainOf(Root)) # {}] \in Job
      BY <2>1 DEF Job
    <3>. QED BY <1>1, <2>1, <2>3, <3>1, <3>2 DEF Receive, TypeOK, Goto, PC
  <2>. QED BY <1>1, <2>2, <2>3 DEF Receive
<1>2. CASE Lookup(w)
  BY <1>2 DEF Lookup, TypeOK, Goto, PC
<1>3. CASE FastPath(w)
  BY <1>3 DEF FastPath, TypeOK, Goto, PC
<1>4. CASE LoadChain(w)
  <2>1. TailHeads(ChainOf(job[w].key)) \subseteq StateHead
    BY HeadTypes
  <2>. QED BY <1>4, <2>1 DEF LoadChain, TypeOK, Goto, PC
<1>5. CASE BuildDelegation(w)
  <2>1. del' \in [Worker -> IdOrNil]
    <3>1. \A r \in rows : r.id \in IdOrNil
      BY DEF TypeOK, Receipt, IdOrNil
    <3>. QED BY <1>5, <3>1 DEF BuildDelegation, Delegate, TypeOK, Tails, Rows, IdOrNil
  <2>. QED BY <1>5, <2>1 DEF BuildDelegation, TypeOK, Goto, PC
<1>6. CASE StoreReadFails(w)
  <2>1. job[w].frame \in Frame /\ Return(w, "err")
    BY <1>6 DEF StoreReadFails, TypeOK
  <2>. QED BY <1>6, <2>1, ReturnType DEF StoreReadFails, TypeOK
<1>7. CASE Install(w)
  BY <1>0, <1>7 DEF Install, TypeOK, Goto, PC
<1>8. CASE LoseRace(w)
  BY <1>8 DEF LoseRace, TypeOK, Goto, Delegate, PC, IdOrNil
<1>9. CASE Allocate(w)
  BY <1>0, <1>9 DEF Allocate, TypeOK, Goto, Delegate, PC, IdOrNil
<1>10. CASE InsertDrop(w)
  <2>1. ReceiptOf(w, "drop") \in Receipt
    BY <1>10, ReceiptOfType DEF InsertDrop, TypeOK, Kind
  <2>. QED BY <1>10, <2>1 DEF InsertDrop, TypeOK, Goto, PC
<1>11. CASE DropFails(w)
  <2>1. job' \in [Worker -> Job] /\ \A v \in Worker : job'[v].frame = job[v].frame
    BY <1>11, ZenonT(30) DEF DropFails, TypeOK, Job
  <2>. QED BY <1>0, <1>11, <2>1 DEF DropFails, TypeOK, Goto, Delegate, Unlock, PC, IdOrNil
<1>12. CASE CommitFirst(w)
  <2>1. After(ReceiptOf(w, "drop")) \in StateHead
    BY <1>12, ReceiptOfType DEF CommitFirst, TypeOK, Kind
  <2>. QED BY <1>0, <1>12, <2>1 DEF CommitFirst, TypeOK, Goto, Delegate, PC, IdOrNil
<1>13. CASE InsertLive(w)
  <2>1. ReceiptOf(w, "live") \in Receipt
    BY <1>13, ReceiptOfType DEF InsertLive, TypeOK, Kind
  <2>. QED BY <1>13, <2>1 DEF InsertLive, TypeOK, Goto, PC
<1>14. CASE LiveFails(w)
  <2>1. job[w].frame \in Frame /\ Return(w, "err")
    BY <1>14 DEF LiveFails, TypeOK
  <2>. QED BY <1>0, <1>14, <2>1, ReturnType DEF LiveFails, TypeOK, Unlock
<1>15. CASE Commit(w)
  <2>1. job[w].frame \in Frame /\ Return(w, "ok")
    BY <1>15 DEF Commit, TypeOK
  <2>2. After(ReceiptOf(w, "live")) \in StateHead
    BY <2>1, ReceiptOfType DEF Kind
  <2>. QED BY <1>0, <1>15, <2>1, <2>2, ReturnType DEF Commit, TypeOK, Unlock
<1>. QED
  BY <1>1, <1>2, <1>3, <1>4, <1>5, <1>6, <1>7, <1>8, <1>9, <1>10, <1>11,
     <1>12, <1>13, <1>14, <1>15 DEF Step

(* The types at the start of the daemon.                                    *)
LEMMA InitType == Init => TypeOK
<1>. SUFFICES ASSUME Init PROVE TypeOK
  OBVIOUS
<1>1. rows \subseteq Receipt /\ gen \in Gen
  BY ConstantsAssumption DEF Init
<1>2. FreshHead \in StateHead /\ NoJob \in Job
  BY DEF FreshHead, StateHead, IdOrNil, NoJob, Job, Key
<1>3. TailHeads(ChainOf(Root)) \subseteq StateHead
  <2>1. \A r \in rows : r.seq \in Nat /\ r.id \in IdOrNil
    BY <1>1 DEF Receipt, IdOrNil
  <2>. QED BY <1>2, <2>1 DEF TailHeads, Tails, Rows, After, StateHead
<1>4. head \in [Key -> StateHead]
  BY <1>2, <1>3 DEF Init
<1>5. known \subseteq Key /\ holder \in [Key -> Worker \union {Free}]
  BY DEF Init, Key
<1>6. /\ pc \in [Worker -> PC]
      /\ job \in [Worker -> Job]
      /\ \A w \in Worker : pc[w] = "idle"
      /\ loaded \in [Worker -> StateHead]
      /\ alloc \in [Worker -> StateHead]
      /\ del \in [Worker -> IdOrNil]
  BY <1>2 DEF Init, InitWorkers, PC, IdOrNil
<1>7. /\ mapLock \in Worker \union {Free}
      /\ read \in 0..MaxFrames
      /\ result \in [Frame -> {"none", "ok", "err"}]
  BY ConstantsAssumption DEF Init
<1>. QED BY <1>1, <1>4, <1>5, <1>6, <1>7 DEF TypeOK

(* Every variable of the commit path keeps its type: see TypeOK. *)
THEOREM TypeCorrect == Spec => []TypeOK
<1>1. TypeOK /\ [Next]_vars => TypeOK'
  <2>1. ASSUME TypeOK, UNCHANGED vars PROVE TypeOK'
    BY <2>1 DEF vars, storeVars, stateVars, workerVars, TypeOK
  <2>. QED BY <2>1, StepType DEF Next
<1>. QED BY InitType, <1>1, PTL DEF Spec
-----------------------------------------------------------------------------
(* What LoadFromStore reads is the head of the chain.                        *)
LEMMA TailHeadIsHead ==
    ASSUME rows \subseteq Receipt, NEW k, NEW h \in TailHeads(ChainOf(k))
    PROVE  IsHeadOf(h, k)
<1>1. \A r \in rows : r.seq \in Nat
  BY DEF Receipt
<1>2. CASE Rows(ChainOf(k)) = {}
  BY <1>2 DEF TailHeads, IsHeadOf, HeadIn, Rows
<1>3. CASE Rows(ChainOf(k)) # {}
  <2>1. PICK r \in Tails(ChainOf(k)) : h = After(r)
    BY <1>3 DEF TailHeads
  <2>2. r \in Rows(ChainOf(k)) /\ \A q \in Rows(ChainOf(k)) : q.seq <= r.seq
    BY DEF Tails
  <2>. QED BY <1>1, <2>1, <2>2 DEF IsHeadOf, HeadIn, Rows, After
<1>. QED BY <1>2, <1>3

(* Adding the row r that follows head h to table S makes r the head of its  *)
(* chain, leaves the heads of other chains, and keeps all chains linked.    *)
LEMMA InsertMovesHead ==
    ASSUME NEW S, S \subseteq Receipt, NEW r \in Receipt,
           HeadIn(S, [seq |-> r.seq, prev |-> r.prev], r.chain)
    PROVE  /\ HeadIn(S \union {r}, After(r), r.chain)
           /\ \A g, c : (c # r.chain /\ HeadIn(S, g, c)) => HeadIn(S \union {r}, g, c)
           /\ Linked(S) => Linked(S \union {r})
<1>. DEFINE h == [seq |-> r.seq, prev |-> r.prev]
            T == S \union {r}
<1>1. r.seq \in Nat /\ \A q \in S : q.seq \in Nat
  BY DEF Receipt
<1>2. \A q \in S : q.chain = r.chain => q.seq < r.seq
  BY DEF HeadIn
<1>3. HeadIn(T, After(r), r.chain)
  BY <1>1, <1>2 DEF HeadIn, After
<1>4. \A g, c : (c # r.chain /\ HeadIn(S, g, c)) => HeadIn(T, g, c)
  BY DEF HeadIn
<1>5. ASSUME Linked(S) PROVE Linked(T)
  <2>1. \A p, q \in T : (p.chain = q.chain /\ p.seq = q.seq) => p = q
    BY <1>1, <1>2, <1>5 DEF Linked
  <2>2. \/ r.seq = 1 /\ r.prev = Nil
        \/ \E q \in S : q.chain = r.chain /\ q.seq + 1 = r.seq /\ q.id = r.prev
    <3>1. CASE h = FreshHead
      BY <3>1 DEF FreshHead
    <3>2. CASE \E q \in S : q.chain = r.chain /\ h = After(q)
      BY <3>2 DEF After
    <3>. QED BY <3>1, <3>2 DEF HeadIn
  <2>. QED BY <1>5, <2>1, <2>2 DEF Linked
<1>. QED BY <1>3, <1>4, <1>5

(* Locals of v that a step of another worker leaves alone. *)
Untouched(v) == /\ pc'[v] = pc[v] /\ job'[v] = job[v]
                /\ loaded'[v] = loaded[v] /\ alloc'[v] = alloc[v] /\ del'[v] = del[v]

(* A step that inserts no row and forgets no State keeps what the untouched *)
(* workers rely on.                                                         *)
LEMMA UntouchedKept ==
    ASSUME NEW v \in Worker, Untouched(v), UNCHANGED storeVars,
           known \subseteq known', SlotOf(v), LoadOf(v)
    PROVE  SlotOf(v)' /\ LoadOf(v)'
<1>1. /\ ReceiptOf(v, "drop")' = ReceiptOf(v, "drop")
      /\ ReceiptOf(v, "live")' = ReceiptOf(v, "live")
  BY DEF Untouched, storeVars, ReceiptOf, ChainOf
<1>. QED BY <1>1 DEF Untouched, storeVars, SlotOf, LoadOf, IsHeadOf, ChainOf

(* A step of w assigns no local variable of another worker. *)
LEMMA StepTouchesItself ==
    ASSUME TypeOK, NEW w \in Worker, Receive(w) \/ Step(w)
    PROVE  \A v \in Worker \ {w} : Untouched(v)
<1>. USE DEF TypeOK, Untouched, Goto, Delegate, workerVars
<1>1. CASE Receive(w)
  BY <1>1 DEF Receive
<1>2. CASE \/ Lookup(w) \/ FastPath(w) \/ LoadChain(w) \/ BuildDelegation(w)
           \/ Install(w) \/ LoseRace(w)
  BY <1>2 DEF Lookup, FastPath, LoadChain, BuildDelegation, Install, LoseRace
<1>3. CASE \/ Allocate(w) \/ InsertDrop(w) \/ DropFails(w) \/ CommitFirst(w) \/ InsertLive(w)
  BY <1>3 DEF Allocate, InsertDrop, DropFails, CommitFirst, InsertLive
<1>4. CASE StoreReadFails(w) \/ LiveFails(w) \/ Commit(w)
  BY <1>4 DEF StoreReadFails, LiveFails, Commit, Return
<1>. QED BY <1>1, <1>2, <1>3, <1>4 DEF Step

(* The conjuncts of IInv that a step of w can disturb without touching the  *)
(* locals of the other workers.                                             *)
LEMMA WorkersKept ==
    ASSUME NEW w \in Worker,
           \A v \in Worker \ {w} : Untouched(v) /\ SlotOf(v) /\ LoadOf(v),
           UNCHANGED storeVars, known \subseteq known', SlotOf(w)', LoadOf(w)'
    PROVE  \A v \in Worker : SlotOf(v)' /\ LoadOf(v)'
BY UntouchedKept

(* One step of one worker keeps the inductive invariant. *)
LEMMA StepInv ==
    ASSUME IInv, NEW w \in Worker, Receive(w) \/ Step(w)
    PROVE  IInv'
<1>. USE DEF storeVars, stateVars, workerVars
<1>0. /\ TypeOK /\ TypeOK'
      /\ job[w].key \in Key
      /\ pc \in [Worker -> PC] /\ job \in [Worker -> Job]
      /\ alloc \in [Worker -> StateHead] /\ loaded \in [Worker -> StateHead]
      /\ head \in [Key -> StateHead] /\ holder \in [Key -> Worker \union {Free}]
      /\ w # Free
  BY StepType, ConstantsAssumption DEF IInv, TypeOK, Job
<1>a. /\ ChainLinked /\ HeadCurrent /\ LockHeld /\ StateKnown
      /\ \A v \in Worker : SlotOf(v) /\ LoadOf(v)
  BY DEF IInv
<1>b. \A v \in Worker \ {w} : Untouched(v)
  BY <1>0, StepTouchesItself
<1>c. ASSUME UNCHANGED <<storeVars, known, head, holder>>,
             pc[w] \notin Holding, pc'[w] \notin Holding,
             pc'[w] \in {"fast", "delegateFast", "raced", "allocate"} => job'[w].key \in known,
             LoadOf(w)'
      PROVE  IInv' \* a step that touches no chain and no chain mutex
  <2>1. ChainLinked' /\ LockHeld' /\ StateKnown'
    BY <1>a, <1>b, <1>c DEF ChainLinked, LockHeld, StateKnown, Untouched
  <2>2. HeadCurrent'
    BY <1>a, <1>b, <1>c DEF HeadCurrent, Uncommitted, Untouched, Holding, IsHeadOf, ChainOf
  <2>3. SlotOf(w)'
    BY <1>c DEF SlotOf, Holding
  <2>. QED BY <1>0, <1>a, <1>b, <1>c, <2>1, <2>2, <2>3, WorkersKept DEF IInv
<1>1. CASE Receive(w)
  <2>1. /\ UNCHANGED <<storeVars, stateVars>>
        /\ pc[w] = "idle" /\ pc'[w] \in {"idle", "lookup"}
    BY <1>0, <1>1 DEF Receive, Goto
  <2>. QED BY <1>c, <2>1 DEF Holding, LoadOf
<1>2. CASE Lookup(w)
  <2>1. /\ UNCHANGED <<storeVars, stateVars>>
        /\ pc[w] = "lookup" /\ pc'[w] \in {"allocate", "fast", "load"}
        /\ pc'[w] \in {"allocate", "fast"} => job'[w].key \in known
    BY <1>0, <1>2, <1>a DEF Lookup, Goto, StateKnown
  <2>. QED BY <1>c, <2>1 DEF Holding, LoadOf
<1>3. CASE FastPath(w)
  <2>1. /\ UNCHANGED <<storeVars, stateVars>>
        /\ pc[w] = "fast" /\ pc'[w] \in {"allocate", "delegateFast"}
        /\ job'[w].key \in known
    BY <1>0, <1>3, <1>a DEF FastPath, Goto, StateKnown
  <2>. QED BY <1>c, <2>1 DEF Holding, LoadOf
<1>4. CASE LoadChain(w)
  <2>1. PICK h \in TailHeads(ChainOf(job[w].key)) :
            /\ loaded' = [loaded EXCEPT ![w] = h]
            /\ Goto(w, IF h.seq = 1 THEN "delegateSlow" ELSE "install")
    BY <1>4 DEF LoadChain
  <2>2. /\ UNCHANGED <<storeVars, stateVars, job>> /\ loaded'[w] = h
        /\ pc[w] = "load" /\ pc'[w] \in {"delegateSlow", "install"}
    BY <1>0, <1>4, <2>1 DEF LoadChain, Goto
  <2>3. IsHeadOf(h, job[w].key)
    BY <1>0, TailHeadIsHead DEF TypeOK
  <2>4. LoadOf(w)'
    BY <2>2, <2>3 DEF LoadOf, IsHeadOf, ChainOf
  <2>. QED BY <1>c, <2>2, <2>4 DEF Holding
<1>5. CASE BuildDelegation(w)
  <2>1. /\ UNCHANGED <<storeVars, stateVars, loaded, job>>
        /\ \/ pc[w] = "delegateFast" /\ pc'[w] = "allocate"
           \/ pc[w] = "delegateSlow" /\ pc'[w] = "install"
    BY <1>0, <1>5 DEF BuildDelegation, Goto
  <2>2. pc'[w] = "allocate" => job[w].key \in known
    BY <1>a, <2>1 DEF StateKnown
  <2>3. LoadOf(w)'
    BY <1>a, <2>1 DEF LoadOf, IsHeadOf, ChainOf
  <2>. QED BY <1>c, <2>1, <2>2, <2>3 DEF Holding
<1>6. CASE StoreReadFails(w)
  <2>1. /\ UNCHANGED <<storeVars, stateVars>>
        /\ pc[w] \in {"load", "delegateFast", "delegateSlow"} /\ pc'[w] = "idle"
    BY <1>0, <1>6 DEF StoreReadFails, Return, Goto
  <2>. QED BY <1>c, <2>1 DEF Holding, LoadOf
<1>7. CASE LoseRace(w)
  <2>1. /\ UNCHANGED <<storeVars, known, head, holder>>
        /\ pc[w] = "raced" /\ pc'[w] = "allocate" /\ job'[w].key \in known
    BY <1>0, <1>7, <1>a DEF LoseRace, Goto, StateKnown
  <2>. QED BY <1>c, <2>1 DEF Holding, LoadOf
<1>8. CASE Install(w)
  <2>1. CASE job[w].key \in known
    <3>1. /\ UNCHANGED <<storeVars, known, head, holder>>
          /\ pc[w] = "install" /\ pc'[w] = "raced" /\ job'[w].key \in known
      BY <1>0, <1>8, <2>1 DEF Install, Goto
    <3>. QED BY <1>c, <3>1 DEF Holding, LoadOf
  <2>2. CASE job[w].key \notin known
    <3>1. /\ UNCHANGED <<storeVars, holder, job, loaded>>
          /\ known' = known \union {job[w].key}
          /\ head' = [head EXCEPT ![job[w].key] = loaded[w]]
          /\ pc[w] = "install" /\ pc'[w] = "allocate"
      BY <1>0, <1>8, <2>2 DEF Install, Goto
    <3>2. IsHeadOf(loaded[w], job[w].key)
      BY <1>a, <2>2, <3>1 DEF LoadOf
    <3>3. HeadCurrent'
      BY <1>0, <1>a, <1>b, <3>1, <3>2 DEF HeadCurrent, Uncommitted, Untouched, IsHeadOf, ChainOf, TypeOK
    <3>4. ChainLinked' /\ LockHeld' /\ StateKnown'
      BY <1>a, <1>b, <3>1 DEF ChainLinked, LockHeld, StateKnown, Untouched, Holding
    <3>5. SlotOf(w)' /\ LoadOf(w)'
      BY <3>1 DEF SlotOf, LoadOf
    <3>. QED BY <1>0, <1>a, <1>b, <3>1, <3>3, <3>4, <3>5, WorkersKept DEF IInv
  <2>. QED BY <2>1, <2>2
<1>9. CASE Allocate(w)
  <2>1. /\ UNCHANGED <<storeVars, known, head, job>>
        /\ holder[job[w].key] = Free
        /\ holder' = [holder EXCEPT ![job[w].key] = w]
        /\ alloc'[w] = head[job[w].key]
        /\ pc[w] = "allocate" /\ pc'[w] \in {"insertDrop", "insertLive"}
    BY <1>0, <1>9 DEF Allocate, Goto
  <2>2. IsHeadOf(head[job[w].key], job[w].key)
    BY <1>a, <2>1, ConstantsAssumption DEF HeadCurrent, Uncommitted, StateKnown
  <2>3. HeadCurrent'
    BY <1>0, <1>a, <1>b, <2>1, <2>2 DEF HeadCurrent, Uncommitted, Untouched, IsHeadOf, ChainOf, TypeOK
  <2>4. ChainLinked' /\ LockHeld' /\ StateKnown'
    <3>1. \A v \in Worker \ {w} : pc[v] \in Holding => job[v].key # job[w].key
      BY <1>a, <2>1, ConstantsAssumption DEF LockHeld
    <3>. QED BY <1>0, <1>a, <1>b, <2>1, <3>1 DEF ChainLinked, LockHeld, StateKnown, Untouched, Holding, TypeOK, Job
  <2>5. SlotOf(w)' /\ LoadOf(w)'
    BY <2>1, <2>2 DEF SlotOf, LoadOf, IsHeadOf, ChainOf
  <2>. QED BY <1>0, <1>a, <1>b, <2>1, <2>3, <2>4, <2>5, WorkersKept DEF IInv
<1>d. ASSUME NEW kind \in {"drop", "live"},
             UNCHANGED <<gen, stateVars, job, loaded, alloc, del>>,
             rows' = rows \union {ReceiptOf(w, kind)},
             pc[w] \in {"insertDrop", "insertLive"},
             pc'[w] = IF kind = "drop" THEN "commitFirst" ELSE "commit"
      PROVE  IInv' \* the insertion of a receipt
  <2>. DEFINE r == ReceiptOf(w, kind)
              k == job[w].key
  <2>1. r \in Receipt /\ rows \subseteq Receipt
    BY <1>0, <1>d, ReceiptOfType DEF TypeOK, Kind
  <2>2. HeadIn(rows, [seq |-> r.seq, prev |-> r.prev], r.chain)
    <3>1. IsHeadOf(alloc[w], k)
      BY <1>a, <1>d DEF SlotOf
    <3>2. alloc[w] = [seq |-> alloc[w].seq, prev |-> alloc[w].prev]
      BY <1>0 DEF StateHead
    <3>. QED BY <3>1, <3>2 DEF IsHeadOf, ReceiptOf
  <2>3. /\ HeadIn(rows', After(r), ChainOf(k))
        /\ \A g, c : (c # ChainOf(k) /\ HeadIn(rows, g, c)) => HeadIn(rows', g, c)
        /\ ChainLinked'
    <3>1. r.chain = ChainOf(k)
      BY DEF ReceiptOf
    <3>. HIDE DEF r
    <3>. QED BY <1>a, <1>d, <2>1, <2>2, <3>1, InsertMovesHead DEF ChainLinked, r
  <2>4. \A g, j : (j # k /\ IsHeadOf(g, j)) => IsHeadOf(g, j)'
    BY <1>d, <2>3 DEF IsHeadOf, ChainOf
  <2>5. IsHeadOf(After(r), k)'
    <3>1. After(r)' = After(r) /\ k' = k /\ ChainOf(k)' = ChainOf(k)
      BY <1>d DEF ReceiptOf, ChainOf, After
    <3>. QED BY <2>3, <3>1 DEF IsHeadOf
  <2>6. holder[k] = w /\ k \in known
    BY <1>a, <1>d DEF LockHeld, StateKnown, Holding
  <2>7. LockHeld' /\ StateKnown'
    BY <1>a, <1>b, <1>d, <2>6 DEF LockHeld, StateKnown, Untouched, Holding
  <2>8. HeadCurrent'
    <3>1. ASSUME NEW j \in known, j # k, Uncommitted(j) PROVE Uncommitted(j)'
      BY <1>b, <1>d, <3>1 DEF Uncommitted, Untouched
    <3>2. Uncommitted(k)'
      BY <1>d, <2>6 DEF Uncommitted
    <3>3. ASSUME NEW j \in known, j # k, IsHeadOf(head[j], j) PROVE IsHeadOf(head[j], j)'
      <4>1. head' = head /\ ChainOf(j)' = ChainOf(j) /\ ChainOf(j) # ChainOf(k)
        BY <1>d, <3>3 DEF ChainOf
      <4>. QED BY <2>3, <3>3, <4>1 DEF IsHeadOf
    <3>. QED BY <1>a, <1>d, <3>1, <3>2, <3>3 DEF HeadCurrent
  <2>9. SlotOf(w)' /\ LoadOf(w)'
    BY <1>d, <2>5 DEF SlotOf, LoadOf
  <2>10. ASSUME NEW v \in Worker \ {w} PROVE SlotOf(v)' /\ LoadOf(v)'
    <3>1. /\ pc[v] \in Holding => job[v].key # k
          /\ job[v].key \notin known => job[v].key # k
      BY <1>a, <2>6 DEF LockHeld
    <3>2. /\ Untouched(v) /\ SlotOf(v) /\ LoadOf(v)
          /\ ChainOf(job[v].key)' = ChainOf(job[v].key)
          /\ ReceiptOf(v, "drop")' = ReceiptOf(v, "drop")
          /\ ReceiptOf(v, "live")' = ReceiptOf(v, "live")
      BY <1>a, <1>b, <1>d DEF Untouched, ReceiptOf, ChainOf
    <3>3. job[v].key # k => ChainOf(job[v].key) # ChainOf(k)
      BY DEF ChainOf
    <3>4. SlotOf(v)'
      BY <2>3, <3>1, <3>2, <3>3 DEF SlotOf, IsHeadOf, Untouched, Holding
    <3>5. LoadOf(v)'
      BY <1>d, <2>3, <3>1, <3>2, <3>3 DEF LoadOf, IsHeadOf, Untouched
    <3>. QED BY <3>4, <3>5
  <2>. QED BY <1>0, <2>3, <2>7, <2>8, <2>9, <2>10 DEF IInv
<1>u. ASSUME UNCHANGED <<storeVars, known, head>>, Unlock(job[w].key),
             pc[w] \in {"insertDrop", "insertLive"}, pc'[w] \in {"lookup", "idle"}
      PROVE  IInv' \* a rollback
  <2>. DEFINE k == job[w].key
  <2>1. holder[k] = w /\ holder' = [holder EXCEPT ![k] = Free]
    BY <1>a, <1>u DEF LockHeld, Holding, Unlock
  <2>2. ChainLinked' /\ StateKnown'
    BY <1>a, <1>b, <1>u DEF ChainLinked, StateKnown, Untouched, Holding
  <2>3. LockHeld'
    <3>1. \A v \in Worker \ {w} : pc[v] \in Holding => job[v].key # k
      BY <1>a, <2>1 DEF LockHeld
    <3>. QED BY <1>0, <1>a, <1>b, <1>u, <2>1, <3>1 DEF LockHeld, Untouched, Holding
  <2>4. HeadCurrent'
    <3>1. ~Uncommitted(k)
      BY <1>u, <2>1 DEF Uncommitted
    <3>2. ASSUME NEW j, j # k, Uncommitted(j) PROVE Uncommitted(j)'
      BY <1>0, <1>b, <1>u, <2>1, <3>2 DEF Uncommitted, Untouched
    <3>3. ASSUME NEW j, IsHeadOf(head[j], j) PROVE IsHeadOf(head[j], j)'
      BY <1>u, <3>3 DEF IsHeadOf, ChainOf
    <3>. QED BY <1>a, <1>u, <3>1, <3>2, <3>3 DEF HeadCurrent
  <2>5. SlotOf(w)' /\ LoadOf(w)'
    BY <1>u DEF SlotOf, LoadOf
  <2>. QED BY <1>0, <1>a, <1>b, <1>u, <2>2, <2>3, <2>4, <2>5, WorkersKept DEF IInv
<1>10. CASE InsertDrop(w)
  <2>1. /\ UNCHANGED <<gen, stateVars, job, loaded, alloc, del>>
        /\ rows' = rows \union {ReceiptOf(w, "drop")}
        /\ pc[w] = "insertDrop" /\ pc'[w] = "commitFirst"
    BY <1>0, <1>10 DEF InsertDrop, Goto
  <2>. QED BY <1>d, <2>1
<1>11. CASE DropFails(w)
  <2>1. /\ UNCHANGED <<storeVars, known, head>> /\ Unlock(job[w].key)
        /\ pc[w] = "insertDrop" /\ pc'[w] = "lookup"
    BY <1>0, <1>11 DEF DropFails, Goto
  <2>. QED BY <1>u, <2>1
<1>12. CASE CommitFirst(w)
  <2>. DEFINE k == job[w].key
              h == After(ReceiptOf(w, "drop"))
  <2>1. /\ UNCHANGED <<storeVars, known, holder, job>>
        /\ head' = [head EXCEPT ![k] = h]
        /\ alloc' = [alloc EXCEPT ![w] = h]
        /\ pc[w] = "commitFirst" /\ pc'[w] = "insertLive"
    BY <1>0, <1>12 DEF CommitFirst, Goto
  <2>2. IsHeadOf(h, k) /\ holder[k] = w /\ k \in known
    BY <1>a, <2>1 DEF SlotOf, LockHeld, StateKnown, Holding
  <2>3. HeadCurrent'
    <3>1. ASSUME NEW j \in Key, j = k PROVE IsHeadOf(head[j], j)'
      <4>1. head'[j] = h
        BY <1>0, <2>1, <3>1
      <4>. QED BY <2>1, <2>2, <3>1, <4>1 DEF IsHeadOf, ChainOf
    <3>2. ASSUME NEW j, j # k, Uncommitted(j) PROVE Uncommitted(j)'
      BY <1>0, <1>b, <2>1, <3>2 DEF Uncommitted, Untouched
    <3>3. ASSUME NEW j \in Key, j # k, IsHeadOf(head[j], j) PROVE IsHeadOf(head[j], j)'
      BY <1>0, <2>1, <3>3 DEF IsHeadOf, ChainOf
    <3>. QED BY <1>0, <1>a, <2>1, <3>1, <3>2, <3>3 DEF HeadCurrent, TypeOK
  <2>4. ChainLinked' /\ LockHeld' /\ StateKnown'
    BY <1>a, <1>b, <2>1, <2>2 DEF ChainLinked, LockHeld, StateKnown, Untouched, Holding
  <2>5. SlotOf(w)' /\ LoadOf(w)'
    <3>1. alloc'[w] = h
      BY <1>0, <2>1
    <3>. QED BY <2>1, <2>2, <3>1 DEF SlotOf, LoadOf, IsHeadOf, ChainOf
  <2>. QED BY <1>0, <1>a, <1>b, <2>1, <2>3, <2>4, <2>5, WorkersKept DEF IInv
<1>13. CASE InsertLive(w)
  <2>1. /\ UNCHANGED <<gen, stateVars, job, loaded, alloc, del>>
        /\ rows' = rows \union {ReceiptOf(w, "live")}
        /\ pc[w] = "insertLive" /\ pc'[w] = "commit"
    BY <1>0, <1>13 DEF InsertLive, Goto
  <2>. QED BY <1>d, <2>1
<1>14. CASE LiveFails(w)
  <2>1. /\ UNCHANGED <<storeVars, known, head>> /\ Unlock(job[w].key)
        /\ pc[w] = "insertLive" /\ pc'[w] = "idle"
    BY <1>0, <1>14 DEF LiveFails, Return, Goto
  <2>. QED BY <1>u, <2>1
<1>15. CASE Commit(w)
  <2>. DEFINE k == job[w].key
              h == After(ReceiptOf(w, "live"))
  <2>1. /\ UNCHANGED <<storeVars, known>>
        /\ head' = [head EXCEPT ![k] = h]
        /\ holder' = [holder EXCEPT ![k] = Free]
        /\ pc[w] = "commit" /\ pc'[w] = "idle"
    BY <1>0, <1>15 DEF Commit, Unlock, Return, Goto
  <2>2. IsHeadOf(h, k) /\ holder[k] = w
    BY <1>a, <2>1 DEF SlotOf, LockHeld, Holding
  <2>3. HeadCurrent'
    <3>1. ASSUME NEW j \in Key, j = k PROVE IsHeadOf(head[j], j)'
      <4>1. head'[j] = h
        BY <1>0, <2>1, <3>1
      <4>. QED BY <2>1, <2>2, <3>1, <4>1 DEF IsHeadOf, ChainOf
    <3>2. ASSUME NEW j, j # k, Uncommitted(j) PROVE Uncommitted(j)'
      BY <1>0, <1>b, <2>1, <3>2 DEF Uncommitted, Untouched
    <3>3. ASSUME NEW j \in Key, j # k, IsHeadOf(head[j], j) PROVE IsHeadOf(head[j], j)'
      BY <1>0, <2>1, <3>3 DEF IsHeadOf, ChainOf
    <3>. QED BY <1>0, <1>a, <2>1, <3>1, <3>2, <3>3 DEF HeadCurrent, TypeOK
  <2>4. ChainLinked' /\ StateKnown'
    BY <1>a, <1>b, <2>1 DEF ChainLinked, StateKnown, Untouched, Holding
  <2>5. LockHeld'
    <3>1. \A v \in Worker \ {w} : pc[v] \in Holding => job[v].key # k
      BY <1>a, <2>2 DEF LockHeld
    <3>. QED BY <1>0, <1>a, <1>b, <2>1, <3>1 DEF LockHeld, Untouched, Holding
  <2>6. SlotOf(w)' /\ LoadOf(w)'
    BY <2>1 DEF SlotOf, LoadOf
  <2>. QED BY <1>0, <1>a, <1>b, <2>1, <2>3, <2>4, <2>5, <2>6, WorkersKept DEF IInv
<1>. QED
  BY <1>1, <1>2, <1>3, <1>4, <1>5, <1>6, <1>7, <1>8, <1>9, <1>10, <1>11,
     <1>12, <1>13, <1>14, <1>15 DEF Step

(* The invariant at the start of the daemon.                                *)
LEMMA InitInv == Init => IInv
<1>. SUFFICES ASSUME Init PROVE IInv
  OBVIOUS
<1>1. TypeOK
  BY InitType
<1>2. ChainLinked
  BY ConstantsAssumption DEF Init, ChainLinked
<1>3. \A w \in Worker : pc[w] = "idle"
  BY DEF Init, InitWorkers
<1>4. IsHeadOf(head[Root], Root) /\ known = {Root}
  <2>1. PICK h \in TailHeads(ChainOf(Root)) :
            head = [k \in Key |-> IF k = Root THEN h ELSE FreshHead]
    BY DEF Init
  <2>2. IsHeadOf(h, Root)
    BY <1>1, TailHeadIsHead DEF TypeOK
  <2>. QED BY <2>1, <2>2 DEF Init, Key
<1>5. HeadCurrent /\ LockHeld /\ StateKnown
  BY <1>3, <1>4 DEF HeadCurrent, LockHeld, StateKnown, Holding
<1>6. \A w \in Worker : SlotOf(w) /\ LoadOf(w)
  BY <1>3 DEF SlotOf, LoadOf
<1>. QED BY <1>1, <1>2, <1>5, <1>6 DEF IInv

(* IInv holds in every reachable state. *)
THEOREM Inductive == Spec => []IInv
<1>1. IInv /\ [Next]_vars => IInv'
  <2>1. ASSUME IInv, UNCHANGED vars PROVE IInv'
    <3>. USE DEF vars, storeVars, stateVars, workerVars
    <3>1. TypeOK' /\ ChainLinked' /\ LockHeld' /\ StateKnown'
      BY <2>1 DEF IInv, TypeOK, ChainLinked, LockHeld, StateKnown
    <3>2. HeadCurrent'
      BY <2>1 DEF IInv, HeadCurrent, Uncommitted, IsHeadOf, ChainOf
    <3>3. \A v \in Worker : SlotOf(v)' /\ LoadOf(v)'
      BY <2>1, UntouchedKept DEF IInv, Untouched
    <3>. QED BY <3>1, <3>2, <3>3 DEF IInv
  <2>. QED BY <2>1, StepInv DEF Next
<1>. QED BY InitInv, <1>1, PTL DEF Spec

(* Every chain in the store verifies, whatever the interleaving: ChainLinked. *)
THEOREM StoreLinked == Spec => []ChainLinked
BY Inductive, PTL DEF IInv

(* A State whose mutex is free agrees with the store: HeadMatchesStore.       *)
THEOREM StateMatchesStore == Spec => []HeadMatchesStore
<1>1. IInv => HeadMatchesStore
  BY ConstantsAssumption DEF IInv, HeadCurrent, HeadMatchesStore, Uncommitted
<1>. QED BY Inductive, <1>1, PTL

(* The UNIQUE index rejects no receipt of the pipeline: SlotFree.             *)
THEOREM SlotsFree == Spec => []SlotFree
<1>1. ASSUME IInv PROVE SlotFree
  <2>1. \A r \in rows : r.seq \in Nat
    BY <1>1 DEF IInv, TypeOK, Receipt
  <2>. QED BY <1>1, <2>1 DEF IInv, SlotFree, SlotOf, IsHeadOf, HeadIn, Rows
<1>. QED BY Inductive, <1>1, PTL
-----------------------------------------------------------------------------
(* What the answers to frames and the receipts of one frame have to do with *)
(* each other: FrameInv.                                                        *)

LEMMA IdTypes ==
    ASSUME TypeOK
    PROVE  /\ \A r \in rows : r.id = <<r.id[1], r.id[2]>> /\ r.seq \in Nat \ {0} /\ r.id # Nil
           /\ read \in Int
           /\ Frame \subseteq Nat
           /\ \A w \in Worker : pc[w] # "idle" => job[w].frame \in Frame
<1>1. \A r \in rows : r \in Receipt
  BY DEF TypeOK
<1>. QED BY <1>1, ConstantsAssumption DEF Receipt, Id, TypeOK, Frame

(* A step that leaves the table, the answers and the frames of all workers  *)
(* as they are, and moves w somewhere before its live receipt's insertion.  *)
LEMMA FrameKept ==
    ASSUME FrameInv, NEW w \in Worker,
           \A v \in Worker \ {w} : Untouched(v),
           UNCHANGED <<rows, gen, read, result>>,
           pc[w] \notin {"idle", "commit"}, pc'[w] \notin {"idle", "commit"},
           job'[w].frame = job[w].frame, job'[w].key = job[w].key,
           \A d \in rows : d.id = <<job[w].frame, "drop">> =>
              \/ pc'[w] = "commitFirst" /\ alloc'[w].seq = d.seq
              \/ pc'[w] = "insertLive" /\ alloc'[w].seq = d.seq + 1
    PROVE  FrameInv'
<1>1. Unread' /\ AnswerMatchesStore' /\ DropAdjacent'
  BY DEF FrameInv, Unread, AnswerMatchesStore, Stored, DropAdjacent
<1>2. ASSUME NEW v \in Worker \ {w} PROVE FrameOf(v)'
  <2>1. FrameOf(v) /\ Untouched(v)
    BY DEF FrameInv
  <2>. QED BY <2>1 DEF FrameOf, Untouched, Stored, ChainOf
<1>3. FrameOf(w)'
  <2>1. FrameOf(w)
    BY DEF FrameInv
  <2>. QED BY <2>1 DEF FrameOf, Untouched, Stored, ChainOf
<1>. QED BY <1>1, <1>2, <1>3 DEF FrameInv

(* The answer to the frame of w, when it is what the store says. *)
LEMMA FrameAnswered ==
    ASSUME FrameInv, TypeOK, NEW w \in Worker,
           \A v \in Worker \ {w} : Untouched(v),
           UNCHANGED <<rows, gen, read>>,
           pc[w] # "idle", NEW res \in {"ok", "err"}, Return(w, res),
           res = "ok" <=> pc[w] = "commit"
    PROVE  FrameInv'
<1>. DEFINE f == job[w].frame
<1>1. /\ f \in Frame /\ f <= read
      /\ Stored(f, "live") <=> pc[w] = "commit"
      /\ \A v \in Worker \ {w} : pc[v] # "idle" => job[v].frame # f
  BY IdTypes DEF FrameInv, FrameOf
<1>2. /\ result'[f] = res
      /\ \A g \in Frame \ {f} : result'[g] = result[g]
      /\ pc'[w] = "idle"
  BY <1>1 DEF Return, Goto, TypeOK
<1>3. Unread'
  <2>1. read \in Int /\ f \in Int
    BY <1>1, IdTypes
  <2>2. ~(f > read)
    BY <1>1, <2>1
  <2>3. \A g \in Frame : g > read => result'[g] = "none"
    BY <1>2, <2>2 DEF FrameInv, Unread
  <2>. QED BY <2>3 DEF FrameInv, Unread
<1>4. AnswerMatchesStore' /\ DropAdjacent'
  <2>1. \A g \in Frame : Stored(g, "live")' <=> Stored(g, "live")
    BY DEF Stored
  <2>2. res = "ok" <=> Stored(f, "live")
    BY <1>1
  <2>. QED BY <1>2, <2>1, <2>2 DEF FrameInv, AnswerMatchesStore, DropAdjacent
<1>5. ASSUME NEW v \in Worker \ {w} PROVE FrameOf(v)'
  <2>1. FrameOf(v) /\ Untouched(v) /\ (pc[v] # "idle" => job[v].frame \in Frame \ {f})
    BY <1>1, IdTypes DEF FrameInv
  <2>. QED BY <1>2, <2>1 DEF FrameOf, Untouched, Stored, ChainOf
<1>. QED BY <1>2, <1>3, <1>4, <1>5 DEF FrameInv, FrameOf

(* The insertion of w's receipt of the given kind. *)
LEMMA FrameStored ==
    ASSUME FrameInv, TypeOK, NEW w \in Worker, NEW kind \in {"drop", "live"},
           \A v \in Worker \ {w} : Untouched(v),
           UNCHANGED <<gen, read, result, job, alloc>>,
           rows' = rows \union {ReceiptOf(w, kind)},
           pc[w] = IF kind = "drop" THEN "insertDrop" ELSE "insertLive",
           pc'[w] = IF kind = "drop" THEN "commitFirst" ELSE "commit"
    PROVE  FrameInv'
<1>. DEFINE f == job[w].frame
            n == ReceiptOf(w, kind)
<1>1. /\ f \in Frame /\ f <= read /\ result[f] = "none" /\ ~Stored(f, "live")
      /\ \A v \in Worker \ {w} : pc[v] # "idle" => job[v].frame # f
      /\ \A d \in rows : d.id = <<f, "drop">> =>
            kind = "live" /\ d.chain = n.chain /\ n.seq = d.seq + 1
  BY IdTypes DEF FrameInv, FrameOf, ReceiptOf
<1>2. n.id = <<f, kind>> /\ n.chain = ChainOf(job[w].key) /\ n.seq = alloc[w].seq
  BY DEF ReceiptOf
<1>. HIDE DEF n
<1>3. Unread'
  <2>1. n.id[1] = f
    BY <1>2
  <2>. QED BY <1>1, <2>1 DEF FrameInv, Unread, n
<1>4. AnswerMatchesStore'
  <2>1. ASSUME NEW g \in Frame, g # f PROVE Stored(g, "live")' <=> Stored(g, "live")
    BY <1>2, <2>1 DEF Stored, n
  <2>. QED BY <1>1, <2>1 DEF FrameInv, AnswerMatchesStore
<1>5. DropAdjacent'
  <2>. SUFFICES ASSUME NEW d \in rows', NEW l \in rows', d.id[1] \in Frame, l.id[1] = d.id[1],
                       d.id[2] = "drop", l.id[2] = "live"
                PROVE  l.chain = d.chain /\ l.seq = d.seq + 1
    BY DEF DropAdjacent
  <2>1. CASE d \in rows /\ l \in rows
    BY <2>1 DEF FrameInv, DropAdjacent
  <2>2. CASE l \in rows /\ d = n
    <3>1. l.id = <<f, "live">>
      BY <1>2, <2>2, IdTypes
    <3>. QED BY <1>1, <2>2, <3>1 DEF Stored
  <2>3. CASE d \in rows /\ l = n
    <3>1. d.id = <<f, "drop">>
      BY <1>2, <2>3, IdTypes
    <3>. QED BY <1>1, <2>3, <3>1
  <2>4. CASE d = n /\ l = n
    BY <2>4
  <2>. QED BY <2>1, <2>2, <2>3, <2>4 DEF n
<1>6. ASSUME NEW v \in Worker \ {w} PROVE FrameOf(v)'
  <2>1. FrameOf(v) /\ Untouched(v) /\ (pc[v] # "idle" => job[v].frame # f)
    BY <1>1 DEF FrameInv
  <2>2. pc[v] # "idle" => (Stored(job[v].frame, "live")' <=> Stored(job[v].frame, "live"))
    BY <1>2, <2>1 DEF Stored, n
  <2>3. pc[v] # "idle" => \A d \in rows' : d.id = <<job[v].frame, "drop">> => d \in rows
    BY <1>2, <2>1 DEF n
  <2>4. \A u \in Worker : job'[u] = job[u] /\ (pc'[u] # "idle" => pc[u] # "idle")
    BY DEF Untouched
  <2>. QED BY <2>1, <2>2, <2>3, <2>4 DEF FrameOf, Untouched, ChainOf
<1>7. FrameOf(w)'
  <2>1. Stored(f, "live")' <=> kind = "live"
    BY <1>1, <1>2 DEF Stored, n
  <2>2. \A d \in rows' : d.id = <<f, "drop">> =>
            /\ d.chain = ChainOf(job[w].key)
            /\ \/ kind = "drop" /\ d.seq = alloc[w].seq
               \/ kind = "live" /\ alloc[w].seq = d.seq + 1
    BY <1>1, <1>2 DEF n
  <2>. QED BY <1>1, <2>1, <2>2 DEF FrameOf, Untouched, ChainOf
<1>. QED BY <1>3, <1>4, <1>5, <1>6, <1>7 DEF FrameInv

(* A frame is read: it has no receipt and no answer yet. *)
LEMMA FrameRead ==
    ASSUME FrameInv, TypeOK, NEW w \in Worker, Receive(w),
           \A v \in Worker \ {w} : Untouched(v)
    PROVE  FrameInv'
<1>. USE DEF storeVars, workerVars
<1>1. /\ UNCHANGED <<rows, gen>> /\ pc[w] = "idle" /\ read' = read + 1
      /\ read \in Int /\ read' \in Frame /\ Frame \subseteq Nat
  BY IdTypes, ConstantsAssumption DEF Receive, TypeOK, Frame
<1>2. /\ ~Stored(read', "live")
      /\ \A d \in rows : d.id[1] # read'
      /\ result[read'] = "none"
  <2>1. ~(read' <= read) /\ read' > read
    BY <1>1
  <2>. QED BY <1>1, <2>1 DEF FrameInv, Unread, Stored
<1>3. /\ \A f \in Frame \ {read'} : result'[f] = result[f]
      /\ result'[read'] \in {"err", "none"}
      /\ \/ pc'[w] = "idle"
         \/ pc'[w] = "lookup" /\ job'[w].frame = read' /\ result'[read'] = "none"
  BY <1>1, <1>2 DEF Receive, Goto, TypeOK
<1>4. Unread'
  <2>1. \A r \in rows : r.id[1] \in Frame => r.id[1] <= read'
    BY <1>1 DEF FrameInv, Unread
  <2>2. ASSUME NEW f \in Frame, f > read' PROVE result'[f] = "none"
    <3>1. f # read' /\ f > read
      BY <1>1, <2>2
    <3>. QED BY <1>3, <3>1 DEF FrameInv, Unread
  <2>. QED BY <1>1, <2>1, <2>2 DEF Unread
<1>5. AnswerMatchesStore' /\ DropAdjacent'
  BY <1>1, <1>2, <1>3 DEF FrameInv, AnswerMatchesStore, Stored, DropAdjacent
<1>6. \A v \in Worker : pc[v] # "idle" => job[v].frame \in Frame /\ job[v].frame <= read
                                            /\ job[v].frame # read'
  BY <1>1, IdTypes DEF FrameInv, FrameOf
<1>7. ASSUME NEW v \in Worker \ {w} PROVE FrameOf(v)'
  <2>1. FrameOf(v) /\ Untouched(v)
    BY DEF FrameInv
  <2>2. ASSUME pc[v] # "idle" PROVE job[v].frame <= read'
    <3>1. job[v].frame \in Nat /\ job[v].frame <= read
      BY <1>1, <1>6, <2>2
    <3>. QED BY <1>1, <3>1
  <2>3. pc[v] # "idle" => result'[job[v].frame] = result[job[v].frame]
    BY <1>3, <1>6
  <2>4. pc[v] # "idle" =>
            \A u \in Worker \ {v} : pc'[u] # "idle" => job'[u].frame # job[v].frame
    BY <1>3, <1>6, <2>1 DEF FrameOf, Untouched
  <2>. QED BY <1>1, <2>1, <2>2, <2>3, <2>4 DEF FrameOf, Untouched, Stored, ChainOf
<1>8. FrameOf(w)'
  <2>1. CASE pc'[w] = "idle"
    BY <2>1 DEF FrameOf
  <2>2. CASE pc'[w] = "lookup" /\ job'[w].frame = read' /\ result'[read'] = "none"
    <3>1. \A d \in rows : d.id # <<read', "drop">>
      BY <1>2
    <3>2. read' <= read'
      BY <1>1
    <3>. QED BY <1>1, <1>2, <1>6, <2>2, <3>1, <3>2 DEF FrameOf, Untouched, Stored
  <2>. QED BY <1>3, <2>1, <2>2
<1>. QED BY <1>4, <1>5, <1>7, <1>8 DEF FrameInv

(* One step of one worker keeps FrameInv. *)
LEMMA FrameStep ==
    ASSUME FrameInv, TypeOK, NEW w \in Worker, Receive(w) \/ Step(w)
    PROVE  FrameInv'
<1>. USE DEF storeVars, stateVars, workerVars
<1>0. /\ \A v \in Worker \ {w} : Untouched(v)
      /\ pc \in [Worker -> PC] /\ job \in [Worker -> Job] /\ alloc \in [Worker -> StateHead]
      /\ FrameOf(w)
  BY StepTouchesItself DEF TypeOK, FrameInv
<1>1. CASE Receive(w)
  BY <1>0, <1>1, FrameRead
<1>2. CASE \/ Lookup(w) \/ FastPath(w) \/ LoadChain(w) \/ BuildDelegation(w)
           \/ Install(w) \/ LoseRace(w) \/ Allocate(w)
  <2>1. /\ UNCHANGED <<rows, gen, read, result, job>>
        /\ pc[w] \in {"lookup", "fast", "load", "delegateFast", "delegateSlow", "install",
                      "raced", "allocate"}
        /\ pc'[w] \notin {"idle", "commit"}
    BY <1>0, <1>2 DEF Lookup, FastPath, LoadChain, BuildDelegation, Install, LoseRace, Allocate, Goto
  <2>2. ~ \E d \in rows : d.id = <<job[w].frame, "drop">>
    BY <1>0, <2>1 DEF FrameOf
  <2>. QED BY <1>0, <2>1, <2>2, FrameKept
<1>3. CASE DropFails(w)
  <2>1. /\ UNCHANGED <<rows, gen, read, result>>
        /\ pc[w] = "insertDrop" /\ pc'[w] = "lookup"
        /\ job'[w].frame = job[w].frame /\ job'[w].key = job[w].key
    BY <1>0, <1>3 DEF DropFails, Goto, Job
  <2>2. ~ \E d \in rows : d.id = <<job[w].frame, "drop">>
    BY <1>0, <2>1 DEF FrameOf
  <2>. QED BY <1>0, <2>1, <2>2, FrameKept
<1>4. CASE CommitFirst(w)
  <2>1. /\ UNCHANGED <<rows, gen, read, result, job>>
        /\ pc[w] = "commitFirst" /\ pc'[w] = "insertLive"
        /\ alloc'[w].seq = alloc[w].seq + 1
    BY <1>0, <1>4 DEF CommitFirst, Goto, After, ReceiptOf
  <2>2. \A d \in rows : d.id = <<job[w].frame, "drop">> => d.seq = alloc[w].seq
    BY <1>0, <2>1 DEF FrameOf
  <2>. QED BY <1>0, <2>1, <2>2, FrameKept
<1>5. CASE StoreReadFails(w) \/ LiveFails(w)
  <2>1. /\ UNCHANGED <<rows, gen, read>> /\ Return(w, "err")
        /\ pc[w] \notin {"idle", "commit"}
    BY <1>5 DEF StoreReadFails, LiveFails
  <2>. QED BY <1>0, <2>1, FrameAnswered
<1>6. CASE Commit(w)
  <2>1. UNCHANGED <<rows, gen, read>> /\ Return(w, "ok") /\ pc[w] = "commit"
    BY <1>6 DEF Commit
  <2>. QED BY <1>0, <2>1, FrameAnswered
<1>7. CASE InsertDrop(w)
  <2>1. /\ UNCHANGED <<gen, read, result, job, alloc>>
        /\ rows' = rows \union {ReceiptOf(w, "drop")}
        /\ pc[w] = "insertDrop" /\ pc'[w] = "commitFirst"
    BY <1>0, <1>7 DEF InsertDrop, Goto
  <2>. QED BY <1>0, <2>1, FrameStored
<1>8. CASE InsertLive(w)
  <2>1. /\ UNCHANGED <<gen, read, result, job, alloc>>
        /\ rows' = rows \union {ReceiptOf(w, "live")}
        /\ pc[w] = "insertLive" /\ pc'[w] = "commit"
    BY <1>0, <1>8 DEF InsertLive, Goto
  <2>. QED BY <1>0, <2>1, FrameStored
<1>. QED BY <1>1, <1>2, <1>3, <1>4, <1>5, <1>6, <1>7, <1>8 DEF Step

(* No frame has been read at the start of the daemon.                       *)
LEMMA InitFrames == Init => FrameInv
<1>. SUFFICES ASSUME Init PROVE FrameInv
  OBVIOUS
<1>1. /\ \A r \in rows : r.id[1] \notin Frame
      /\ \A f \in Frame : result[f] = "none"
      /\ \A w \in Worker : pc[w] = "idle"
  BY ConstantsAssumption DEF Init, InitWorkers
<1>. QED BY <1>1 DEF FrameInv, Unread, AnswerMatchesStore, DropAdjacent, FrameOf

(* FrameInv holds in every reachable state. *)
THEOREM FramesAnswered == Spec => []FrameInv
<1>1. TypeOK /\ FrameInv /\ [Next]_vars => FrameInv'
  <2>1. ASSUME FrameInv, UNCHANGED vars PROVE FrameInv'
    <3>. USE DEF vars, storeVars, stateVars, workerVars
    <3>1. Unread' /\ AnswerMatchesStore' /\ DropAdjacent'
      BY <2>1 DEF FrameInv, Unread, AnswerMatchesStore, Stored, DropAdjacent
    <3>2. \A w \in Worker : FrameOf(w)'
      BY <2>1, ZenonT(30) DEF FrameInv, FrameOf, Stored, ChainOf
    <3>. QED BY <3>1, <3>2 DEF FrameInv
  <2>. QED BY <2>1, FrameStep DEF Next
<1>. QED BY InitFrames, TypeCorrect, <1>1, PTL DEF Spec

(* Process returns nil exactly when the live receipt is stored:             *)
(* AnswerMatchesStore.                                                      *)
THEOREM AnswersTrue == Spec => []AnswerMatchesStore
BY FramesAnswered, PTL DEF FrameInv

(* The events_dropped receipt of a frame and its live receipt are           *)
(* neighbours in one chain: DropAdjacent.                                   *)
THEOREM DropsAdjacent == Spec => []DropAdjacent
BY FramesAnswered, PTL DEF FrameInv
-----------------------------------------------------------------------------
(* Why the first receipt of an agent's chain carries its delegation: DelegationInv.  *)

(* A step that moves no chain head back to its first slot and takes no row  *)
(* away keeps what an untouched worker knows of the root chain.             *)
LEMMA DelegationKept ==
    ASSUME NEW v \in Worker, Untouched(v), DelegationOf(v),
           gen' = gen, rows \subseteq rows',
           pc[v] = "allocate" => (head[job[v].key].seq # 1 => head'[job[v].key].seq # 1)
    PROVE  DelegationOf(v)'
<1>1. \A k : Rows(ChainOf(k)) # {} => Rows(ChainOf(k))' # {}
  BY DEF Rows, ChainOf
<1>. QED BY <1>1 DEF DelegationOf, Untouched

(* No step takes a row away, changes the root chain's id, or moves the head *)
(* of a chain that has a State back to its first slot.                      *)
LEMMA HeadsOnlyGrow ==
    ASSUME IInv, NEW w \in Worker, Receive(w) \/ Step(w)
    PROVE  /\ gen' = gen /\ rows \subseteq rows'
           /\ \A k \in known : head[k].seq # 1 => head'[k].seq # 1
<1>. USE DEF storeVars, stateVars, workerVars
<1>0. /\ head \in [Key -> StateHead] /\ known \subseteq Key /\ job[w].key \in Key
      /\ alloc[w].seq \in Nat \ {0}
  BY DEF IInv, TypeOK, Job, StateHead
<1>1. CASE \/ Receive(w) \/ Lookup(w) \/ FastPath(w) \/ LoadChain(w) \/ BuildDelegation(w)
           \/ StoreReadFails(w) \/ LoseRace(w) \/ Allocate(w) \/ DropFails(w) \/ LiveFails(w)
  BY <1>1 DEF Receive, Lookup, FastPath, LoadChain, BuildDelegation, StoreReadFails, LoseRace,
              Allocate, DropFails, LiveFails
<1>2. CASE Install(w)
  BY <1>0, <1>2 DEF Install
<1>3. CASE InsertDrop(w) \/ InsertLive(w)
  BY <1>3 DEF InsertDrop, InsertLive
<1>4. CASE CommitFirst(w) \/ Commit(w)
  BY <1>0, <1>4 DEF CommitFirst, Commit, After, ReceiptOf
<1>. QED BY <1>1, <1>2, <1>3, <1>4 DEF Step

(* A State whose chain has rows and whose mutex is free is past slot 1.     *)
LEMMA GrownHead ==
    ASSUME IInv, NEW k \in known, holder[k] = Free, Rows(ChainOf(k)) # {}
    PROVE  head[k].seq # 1
<1>1. IsHeadOf(head[k], k)
  BY ConstantsAssumption DEF IInv, HeadCurrent, Uncommitted
<1>2. \A r \in rows : r.seq \in Nat \ {0}
  BY IdTypes DEF IInv
<1>. QED BY <1>1, <1>2 DEF IsHeadOf, HeadIn, Rows

(* buildDelegation yields a delegation as soon as the root chain has a row. *)
LEMMA DelegationBuilt ==
    ASSUME TypeOK, NEW w \in Worker, BuildDelegation(w), Rows(ChainOf(Root)) # {}
    PROVE  del'[w] # Nil
<1>1. PICK r \in Tails(ChainOf(Root)) : Delegate(w, r.id)
  BY DEF BuildDelegation
<1>. QED BY <1>1, IdTypes DEF Delegate, Tails, Rows, TypeOK

(* One step of one worker keeps DelegationInv. *)
LEMMA DelegationStep ==
    ASSUME IInv, DelegationInv, NEW w \in Worker, Receive(w) \/ Step(w)
    PROVE  DelegationInv'
<1>. USE DEF storeVars, stateVars, workerVars
<1>0. /\ TypeOK /\ job[w].key \in Key
      /\ pc \in [Worker -> PC] /\ job \in [Worker -> Job]
      /\ alloc \in [Worker -> StateHead] /\ loaded \in [Worker -> StateHead]
      /\ head \in [Key -> StateHead] /\ del \in [Worker -> IdOrNil]
      /\ DelegationOf(w)
  BY DEF IInv, TypeOK, Job, DelegationInv
<1>1. ASSUME NEW v \in Worker \ {w} PROVE DelegationOf(v)'
  <2>1. Untouched(v) /\ DelegationOf(v)
    BY <1>0, StepTouchesItself DEF DelegationInv
  <2>2. pc[v] = "allocate" => job[v].key \in known
    BY DEF IInv, StateKnown
  <2>. QED BY <2>1, <2>2, HeadsOnlyGrow, DelegationKept
<1>. SUFFICES DelegationOf(w)'
  BY <1>1 DEF DelegationInv
<1>2. ASSUME pc'[w] = "idle" PROVE DelegationOf(w)'
  BY <1>2 DEF DelegationOf
<1>3. ASSUME UNCHANGED <<rows, gen>>, pc[w] # "idle", job'[w].key = job[w].key,
             job'[w].rootSeen = job[w].rootSeen
      PROVE  (pc'[w] # "idle" /\ job'[w].rootSeen) =>
                job'[w].key # Root /\ Rows(ChainOf(Root))' # {}
  BY <1>0, <1>3 DEF DelegationOf, Rows, ChainOf
<1>4. CASE Receive(w)
  <2>1. CASE pc'[w] = "idle"
    BY <1>2, <2>1
  <2>2. CASE pc'[w] # "idle"
    <3>1. /\ pc'[w] = "lookup" /\ UNCHANGED <<rows, gen>>
          /\ job'[w].rootSeen => job'[w].key # Root /\ Rows(ChainOf(Root)) # {}
      <4>1. PICK k \in Key, d \in BOOLEAN :
               job' = [job EXCEPT ![w] = [frame |-> read', key |-> k, drop |-> d,
                          rootSeen |-> k # Root /\ Rows(ChainOf(Root)) # {}]]
        BY <1>0, <1>4, <2>2 DEF Receive
      <4>. QED BY <1>0, <1>4, <2>2, <4>1 DEF Receive, Goto
    <3>. QED BY <3>1 DEF DelegationOf, Rows, ChainOf
  <2>. QED BY <2>1, <2>2
<1>5. CASE Lookup(w)
  <2>1. /\ UNCHANGED <<rows, gen, job>> /\ pc[w] = "lookup"
        /\ \/ pc'[w] \in {"fast", "load"}
           \/ pc'[w] = "allocate" /\ job[w].key = Root
    BY <1>0, <1>5 DEF Lookup, Goto
  <2>. QED BY <1>0, <1>3, <2>1 DEF DelegationOf
<1>6. CASE FastPath(w)
  <2>1. /\ UNCHANGED <<rows, gen, job, head>> /\ pc[w] = "fast"
        /\ \/ pc'[w] = "delegateFast"
           \/ pc'[w] = "allocate" /\ head[job[w].key].seq # 1
    BY <1>0, <1>6 DEF FastPath, Goto
  <2>. QED BY <1>0, <1>3, <2>1 DEF DelegationOf
<1>7. CASE LoadChain(w)
  <2>1. PICK h \in TailHeads(ChainOf(job[w].key)) :
            /\ loaded' = [loaded EXCEPT ![w] = h]
            /\ Goto(w, IF h.seq = 1 THEN "delegateSlow" ELSE "install")
    BY <1>7 DEF LoadChain
  <2>2. /\ UNCHANGED <<rows, gen, job>> /\ loaded'[w] = h /\ pc[w] = "load"
        /\ pc'[w] = IF h.seq = 1 THEN "delegateSlow" ELSE "install"
    BY <1>0, <1>7, <2>1 DEF LoadChain, Goto
  <2>3. h.seq = 1 \/ Rows(ChainOf(job[w].key)) # {}
    BY DEF TailHeads, FreshHead
  <2>4. Rows(ChainOf(job[w].key))' = Rows(ChainOf(job[w].key))
    BY <2>2 DEF Rows, ChainOf
  <2>. QED BY <1>0, <1>3, <2>2, <2>3, <2>4 DEF DelegationOf
<1>8. CASE BuildDelegation(w)
  <2>1. /\ UNCHANGED <<rows, gen, job, loaded, head>>
        /\ \/ pc[w] = "delegateFast" /\ pc'[w] = "allocate"
           \/ pc[w] = "delegateSlow" /\ pc'[w] = "install"
    BY <1>0, <1>8 DEF BuildDelegation, Goto
  <2>2. job[w].rootSeen => del'[w] # Nil
    BY <1>0, <1>8, <2>1, DelegationBuilt DEF DelegationOf
  <2>3. Rows(ChainOf(job[w].key))' = Rows(ChainOf(job[w].key))
    BY <2>1 DEF Rows, ChainOf
  <2>. QED BY <1>0, <1>3, <2>1, <2>2, <2>3 DEF DelegationOf
<1>9. CASE StoreReadFails(w) \/ LiveFails(w) \/ Commit(w)
  <2>1. pc'[w] = "idle"
    BY <1>0, <1>9 DEF StoreReadFails, LiveFails, Commit, Return, Goto
  <2>. QED BY <1>2, <2>1
<1>10. CASE Install(w)
  <2>1. /\ UNCHANGED <<rows, gen, job, loaded, del>> /\ pc[w] = "install"
        /\ \/ pc'[w] = "raced"
           \/ pc'[w] = "allocate" /\ head'[job[w].key] = loaded[w]
    BY <1>0, <1>10 DEF Install, Goto
  <2>2. Rows(ChainOf(job[w].key))' = Rows(ChainOf(job[w].key))
    BY <2>1 DEF Rows, ChainOf
  <2>. QED BY <1>0, <1>3, <2>1, <2>2 DEF DelegationOf
<1>11. CASE LoseRace(w)
  <2>1. /\ UNCHANGED <<rows, gen, job, loaded, head>> /\ holder[job[w].key] = Free
        /\ pc[w] = "raced" /\ pc'[w] = "allocate"
        /\ del'[w] = IF head[job[w].key].seq = 1 THEN del[w] ELSE Nil
    BY <1>0, <1>11 DEF LoseRace, Goto, Delegate
  <2>2. job[w].key \in known
    BY <2>1 DEF IInv, StateKnown
  <2>3. loaded[w].seq # 1 => head[job[w].key].seq # 1
    BY <1>0, <2>1, <2>2, GrownHead DEF DelegationOf
  <2>. QED BY <1>0, <1>3, <2>1, <2>3 DEF DelegationOf
<1>12. CASE Allocate(w)
  <2>1. /\ UNCHANGED <<rows, gen, job>>
        /\ pc[w] = "allocate" /\ pc'[w] \in {"insertDrop", "insertLive"}
        /\ alloc'[w] = head[job[w].key]
        /\ del'[w] = IF head[job[w].key].seq # 1 THEN Nil ELSE del[w]
    BY <1>0, <1>12 DEF Allocate, Goto, Delegate
  <2>. QED BY <1>0, <1>3, <2>1 DEF DelegationOf
<1>13. CASE DropFails(w)
  <2>1. /\ UNCHANGED <<rows, gen>> /\ pc[w] = "insertDrop" /\ pc'[w] = "lookup"
        /\ job'[w].key = job[w].key /\ job'[w].rootSeen = job[w].rootSeen
    BY <1>0, <1>13 DEF DropFails, Goto, Job
  <2>. QED BY <1>0, <1>3, <2>1 DEF DelegationOf
<1>14. CASE CommitFirst(w)
  <2>1. /\ UNCHANGED <<rows, gen, job>> /\ pc[w] = "commitFirst" /\ pc'[w] = "insertLive"
        /\ alloc'[w].seq = alloc[w].seq + 1 /\ alloc[w].seq \in Nat \ {0}
        /\ del'[w] = Nil
    BY <1>0, <1>14 DEF CommitFirst, Goto, Delegate, After, ReceiptOf, StateHead
  <2>2. alloc'[w].seq # 1
    BY <2>1
  <2>. QED BY <1>0, <1>3, <2>1, <2>2 DEF DelegationOf
<1>15. CASE InsertDrop(w) \/ InsertLive(w)
  <2>1. /\ gen' = gen /\ rows \subseteq rows' /\ UNCHANGED job
        /\ pc[w] \in {"insertDrop", "insertLive"} /\ pc'[w] \in {"commitFirst", "commit"}
    BY <1>0, <1>15 DEF InsertDrop, InsertLive, Goto
  <2>2. Rows(ChainOf(Root)) # {} => Rows(ChainOf(Root))' # {}
    BY <2>1 DEF Rows, ChainOf
  <2>. QED BY <1>0, <2>1, <2>2 DEF DelegationOf
<1>. QED
  BY <1>4, <1>5, <1>6, <1>7, <1>8, <1>9, <1>10, <1>11, <1>12, <1>13, <1>14, <1>15 DEF Step

(* DelegationInv holds in every reachable state. *)
THEOREM DelegationsKept == Spec => []DelegationInv
<1>1. Init => DelegationInv
  BY DEF Init, InitWorkers, DelegationInv, DelegationOf
<1>2. IInv /\ DelegationInv /\ [Next]_vars => DelegationInv'
  <2>1. ASSUME DelegationInv, UNCHANGED vars PROVE DelegationInv'
    BY <2>1 DEF vars, storeVars, stateVars, workerVars, DelegationInv, DelegationOf, Rows, ChainOf
  <2>. QED BY <2>1, DelegationStep DEF Next
<1>. QED BY <1>1, <1>2, Inductive, PTL DEF Spec

(* A frame that opens an agent's chain after it saw a root receipt carries  *)
(* a delegation, and no later receipt does: DelegationCarried.              *)
THEOREM DelegationsCarried == Spec => []DelegationCarried
<1>1. DelegationInv => DelegationCarried
  BY DEF DelegationInv, DelegationOf, DelegationCarried
<1>. QED BY DelegationsKept, <1>1, PTL
-----------------------------------------------------------------------------
(* The store as one log per chain: Pipeline implements ReceiptLog.          *)

(* A nonempty set of naturals has a least element. *)
LEMMA LeastElement ==
    ASSUME NEW T, T \subseteq Nat, T # {}
    PROVE  \E x \in T : \A y \in T : x <= y
<1>1. IsWellFoundedOn({ss \in Nat \X Nat : ss[1] < ss[2]}, Nat)
  BY NatLessThanWellFounded DEF OpToRel
<1>2. PICK x \in T : \A y \in T : ~(<<y, x>> \in {ss \in Nat \X Nat : ss[1] < ss[2]})
  BY <1>1, WFMin
<1>3. ASSUME NEW y \in T PROVE x <= y
  <2>1. <<y, x>> \in Nat \X Nat
    OBVIOUS
  <2>2. ~(y < x)
    BY <1>2, <2>1
  <2>. QED BY <2>2
<1>. QED BY <1>3

(* A finite set of naturals has an upper bound: there is no smallest finite *)
(* set without one.                                                         *)
LEMMA FiniteBound ==
    ASSUME NEW T, T \subseteq Nat, IsFiniteSet(T)
    PROVE  \E b \in Nat : \A x \in T : x <= b
<1>. DEFINE Unbounded(U) == ~ \E b \in Nat : \A x \in U : x <= b
            Bad == {n \in Nat : \E U \in SUBSET Nat :
                       IsFiniteSet(U) /\ Cardinality(U) = n /\ Unbounded(U)}
<1>1. ASSUME Bad # {} PROVE FALSE
  <2>1. PICK n \in Bad : \A m \in Bad : n <= m
    BY <1>1, LeastElement
  <2>2. PICK U \in SUBSET Nat : IsFiniteSet(U) /\ Cardinality(U) = n /\ Unbounded(U)
    OBVIOUS
  <2>3. PICK x \in U : TRUE
    BY <2>2
  <2>4. IsFiniteSet(U \ {x}) /\ Cardinality(U \ {x}) = n - 1 /\ n - 1 \in Nat
    <3>1. IsFiniteSet(U \ {x}) /\ Cardinality(U \ {x}) = n - 1
      BY <2>2, <2>3, FS_RemoveElement
    <3>2. Cardinality(U \ {x}) \in Nat
      BY <3>1, FS_CardinalityType
    <3>. QED BY <3>1, <3>2
  <2>5. n - 1 \notin Bad
    BY <2>1, <2>4
  <2>6. PICK b \in Nat : \A y \in U \ {x} : y <= b
    BY <2>4, <2>5
  <2>7. \A y \in U : y <= b + x
    BY <2>2, <2>6
  <2>. QED BY <2>2, <2>7
<1>. QED BY <1>1, FS_CardinalityType

Seqs(c) == {r.seq : r \in Rows(c)}

(* The sequence numbers of a chain are 1..n. *)
Whole(c) == \E n \in Nat : Seqs(c) = 1..n

(* A finite table of linked chains has no gap: below the last sequence      *)
(* number there is no largest missing one.                                  *)
LEMMA LinkedIsWhole ==
    ASSUME rows \subseteq Receipt, IsFiniteSet(rows), Linked(rows), NEW c
    PROVE  Whole(c)
<1>. DEFINE D == Seqs(c)
<1>1. D \subseteq Nat \ {0}
  BY DEF Receipt, Rows, Seqs
<1>2. IsFiniteSet(D)
  <2>. DEFINE f == [r \in Rows(c) |-> r.seq]
  <2>1. IsFiniteSet(Rows(c))
    BY FS_Subset DEF Rows
  <2>2. f \in Surjection(Rows(c), D)
    BY DEF Surjection, Seqs
  <2>. QED BY <2>1, <2>2, FS_Surjection
<1>3. \A n \in D : n # 1 => n - 1 \in D
  BY DEF Linked, Receipt, Rows, Seqs
<1>4. CASE D = {}
  BY <1>4 DEF Whole
<1>5. CASE D # {}
  <2>. DEFINE Above == {b \in Nat : \A x \in D : x <= b}
  <2>1. Above # {}
    BY <1>1, <1>2, FiniteBound
  <2>2. PICK m \in Above : \A b \in Above : m <= b
    BY <2>1, LeastElement
  <2>. DEFINE Gap == {g \in Nat : g < m /\ m - g \notin D}
  <2>3. m \in D
    <3>1. CASE m = 0
      BY <1>1, <1>5, <3>1
    <3>2. CASE m # 0
      <4>1. m - 1 \notin Above /\ m - 1 \in Nat
        BY <2>2, <3>2
      <4>2. PICK x \in D : ~(x <= m - 1)
        BY <4>1
      <4>. QED BY <1>1, <3>2, <4>2
    <3>. QED BY <3>1, <3>2
  <2>4. ASSUME Gap # {} PROVE FALSE
    <3>1. PICK g \in Gap : \A h \in Gap : g <= h
      BY <2>4, LeastElement
    <3>2. g # 0
      BY <2>3
    <3>3. g - 1 \in Nat /\ g - 1 \notin Gap /\ g - 1 < m
      BY <3>1, <3>2
    <3>4. m - (g - 1) \in D /\ m - (g - 1) # 1
      BY <3>3
    <3>5. m - (g - 1) - 1 = m - g
      BY <3>1
    <3>. QED BY <1>3, <3>4, <3>5
  <2>5. D = 1..m
    <3>1. ASSUME NEW x \in 1..m PROVE x \in D
      <4>1. m - x \in Nat /\ m - x < m /\ m - (m - x) = x
        BY <2>2
      <4>. QED BY <2>4, <4>1
    <3>2. ASSUME NEW x \in D PROVE x \in 1..m
      BY <1>1
    <3>. QED BY <3>1, <3>2
  <2>. QED BY <2>5 DEF Whole
<1>. QED BY <1>4, <1>5

(* The log of a whole chain: at n the receipt with sequence number n. *)
LEMMA LogIsSeq ==
    ASSUME rows \subseteq Receipt, Linked(rows), NEW c, NEW n \in Nat, Seqs(c) = 1..n
    PROVE  /\ LogOf(c) \in Seq(Id) /\ Len(LogOf(c)) = n
           /\ \A r \in Rows(c) : r.seq \in 1..n /\ LogOf(c)[r.seq] = r.id
           /\ \A i \in 1..n : \E r \in Rows(c) : r.seq = i
<1>. DEFINE at(i) == CHOOSE r \in Rows(c) : r.seq = i
<1>1. \A i \in 1..n : \E r \in Rows(c) : r.seq = i
  BY DEF Seqs
<1>2. \A i \in 1..n : at(i) \in Rows(c) /\ at(i).seq = i
  BY <1>1
<1>3. \A r \in Rows(c) : r.seq \in 1..n /\ at(r.seq) = r
  BY <1>2 DEF Linked, Rows, Seqs
<1>4. \A r \in Rows(c) : r.id \in Id
  BY DEF Rows, Receipt
<1>. HIDE DEF at
<1>5. LogOf(c) = [i \in 1..n |-> at(i).id]
  BY DEF LogOf, Seqs, at
<1>6. LogOf(c) \in [1..n -> Id]
  BY <1>2, <1>4, <1>5
<1>7. LogOf(c) \in Seq(Id) /\ Len(LogOf(c)) = n
  BY <1>6
<1>. QED BY <1>1, <1>3, <1>5, <1>7

(* Every chain of the table is whole. *)
AllWhole == \A c \in Chain : Whole(c)

LogBar == [c \in Chain |-> LogOf(c)]

(* A receipt that the log holds is a row of the table. *)
LEMMA RecordedIsRow ==
    ASSUME rows \subseteq Receipt, Linked(rows), AllWhole, NEW i
    PROVE  Log!Recorded(i) => \E r \in rows : r.id = i
<1>. SUFFICES ASSUME NEW c \in Chain, NEW n \in 1..Len(LogOf(c)), LogOf(c)[n] = i
              PROVE  \E r \in rows : r.id = i
  BY DEF Log!Recorded
<1>1. PICK m \in Nat : Seqs(c) = 1..m
  BY DEF AllWhole, Whole
<1>2. /\ Len(LogOf(c)) = m
      /\ \A r \in Rows(c) : r.seq \in 1..m /\ LogOf(c)[r.seq] = r.id
      /\ \A k \in 1..m : \E r \in Rows(c) : r.seq = k
  BY <1>1, LogIsSeq
<1>3. PICK r \in Rows(c) : r.seq = n
  BY <1>2
<1>. QED BY <1>2, <1>3 DEF Rows

(* Adding to the table the row that follows the head of its chain is a step *)
(* of ReceiptLog.                                                           *)
LEMMA InsertExtendsLog ==
    ASSUME rows \subseteq Receipt, Linked(rows), AllWhole,
           NEW r \in Receipt, rows' = rows \union {r},
           HeadIn(rows, [seq |-> r.seq, prev |-> r.prev], r.chain),
           \A q \in rows : q.id # r.id
    PROVE  Log!Extend(r.chain, r.id) /\ AllWhole'
<1>. DEFINE c == r.chain
<1>0. /\ rows' \subseteq Receipt /\ Linked(rows') /\ c \in Chain
      /\ r.seq \in Nat \ {0} /\ r.id \in Id
      /\ \A q \in rows : q.seq \in Nat /\ q.chain \in Chain
  BY InsertMovesHead DEF Receipt
<1>1. PICK n \in Nat : Seqs(c) = 1..n
  BY <1>0 DEF AllWhole, Whole
<1>2. r.seq = n + 1
  <2>1. \A x \in Seqs(c) : x < r.seq
    BY DEF HeadIn, Seqs, Rows
  <2>2. r.seq = 1 \/ r.seq - 1 \in Seqs(c)
    <3>1. CASE [seq |-> r.seq, prev |-> r.prev] = FreshHead
      BY <3>1 DEF FreshHead
    <3>2. CASE \E q \in rows : q.chain = c /\ [seq |-> r.seq, prev |-> r.prev] = After(q)
      <4>1. PICK q \in rows : q.chain = c /\ r.seq = q.seq + 1
        BY <3>2 DEF After
      <4>. QED BY <1>0, <4>1 DEF Seqs, Rows
    <3>. QED BY <3>1, <3>2 DEF HeadIn
  <2>3. n = 0 \/ n < r.seq
    BY <1>1, <2>1
  <2>4. r.seq = 1 \/ r.seq - 1 <= n
    BY <1>1, <2>2
  <2>. QED BY <1>0, <2>1, <2>2, <2>3, <2>4, <1>1
<1>3. Rows(c)' = Rows(c) \union {r} /\ \A d : d # c => Rows(d)' = Rows(d)
  BY DEF Rows
<1>4. Seqs(c)' = 1..(n + 1)
  BY <1>1, <1>2, <1>3 DEF Seqs
<1>5. AllWhole'
  <2>1. \A d : d # c => Seqs(d)' = Seqs(d)
    BY <1>3 DEF Seqs
  <2>2. n + 1 \in Nat
    OBVIOUS
  <2>. QED BY <1>4, <2>1, <2>2 DEF AllWhole, Whole
<1>6. ASSUME NEW d, d # c PROVE LogOf(d)' = LogOf(d)
  <2>. DEFINE logOver(R) == [m \in {q.seq : q \in R} |-> (CHOOSE q \in R : q.seq = m).id]
  <2>1. LogOf(d) = logOver(Rows(d)) /\ LogOf(d)' = logOver(Rows(d)')
    BY DEF LogOf
  <2>2. Rows(d)' = Rows(d)
    BY <1>3, <1>6
  <2>. HIDE DEF logOver
  <2>. QED BY <2>1, <2>2
<1>7. LogOf(c)' = Append(LogOf(c), r.id)
  <2>1. /\ LogOf(c) \in Seq(Id) /\ Len(LogOf(c)) = n
        /\ \A q \in Rows(c) : q.seq \in 1..n /\ LogOf(c)[q.seq] = q.id
        /\ \A i \in 1..n : \E q \in Rows(c) : q.seq = i
    BY <1>1, LogIsSeq
  <2>2. /\ LogOf(c)' \in Seq(Id) /\ Len(LogOf(c)') = n + 1
        /\ \A q \in Rows(c)' : LogOf(c)'[q.seq] = q.id
    <3>. DEFINE at(i) == CHOOSE q \in Rows(c)' : q.seq = i
    <3>1. \A i \in 1..(n + 1) : at(i) \in Rows(c)' /\ at(i).seq = i
      BY <1>4 DEF Seqs
    <3>2. \A q \in Rows(c)' : q.seq \in 1..(n + 1) /\ at(q.seq) = q /\ q.id \in Id
      BY <1>0, <1>4, <3>1 DEF Linked, Rows, Seqs, Receipt
    <3>. HIDE DEF at
    <3>3. LogOf(c)' = [i \in 1..(n + 1) |-> at(i).id]
      BY <1>4 DEF LogOf, Seqs, at
    <3>4. LogOf(c)' \in [1..(n + 1) -> Id]
      BY <3>1, <3>2, <3>3
    <3>. QED BY <3>2, <3>3, <3>4
  <2>3. \A i \in 1..n : LogOf(c)'[i] = LogOf(c)[i]
    BY <1>3, <2>1, <2>2
  <2>4. LogOf(c)'[n + 1] = r.id
    BY <1>2, <1>3, <2>2
  <2>5. /\ Append(LogOf(c), r.id) \in Seq(Id)
        /\ Len(Append(LogOf(c), r.id)) = n + 1
        /\ \A i \in 1..n : Append(LogOf(c), r.id)[i] = LogOf(c)[i]
        /\ Append(LogOf(c), r.id)[n + 1] = r.id
    BY <1>0, <2>1, AppendProperties
  <2>. DEFINE s == LogOf(c)'
              t == Append(LogOf(c), r.id)
  <2>6. \A i \in 1..(n + 1) : s[i] = t[i]
    BY <2>3, <2>4, <2>5
  <2>. HIDE DEF s, t
  <2>7. s \in Seq(Id) /\ t \in Seq(Id) /\ Len(s) = n + 1 /\ Len(t) = n + 1
    BY <2>2, <2>5 DEF s, t
  <2>8. s = t
    BY <2>6, <2>7, SeqEqual
  <2>. QED BY <2>8 DEF s, t
<1>8. LogBar' = [LogBar EXCEPT ![c] = Append(@, r.id)]
  BY <1>0, <1>6, <1>7 DEF LogBar
<1>9. ~Log!Recorded(r.id)
  BY RecordedIsRow
<1>. QED BY <1>5, <1>8, <1>9 DEF Log!Extend, LogBar

(* A store that is typed, linked and whole is a state ReceiptLog starts in. *)
LEMMA WholeIsLog ==
    ASSUME rows \subseteq Receipt, Linked(rows), AllWhole
    PROVE  Log!Init
<1>1. ASSUME NEW c \in Chain PROVE LogOf(c) \in Seq(Id)
  BY LogIsSeq DEF AllWhole, Whole
<1>. QED BY <1>1 DEF Log!Init

(* A step that leaves the table alone leaves every log alone. *)
LEMMA LogsKept ==
    ASSUME AllWhole, rows' = rows
    PROVE  AllWhole' /\ LogBar' = LogBar
BY DEF AllWhole, Whole, Seqs, Rows, LogBar, LogOf

(* So is every store that the daemon may start on. *)
LEMMA InitLog == Init => Log!Init /\ AllWhole
<1>. SUFFICES ASSUME Init PROVE Log!Init /\ AllWhole
  OBVIOUS
<1>1. rows \subseteq Receipt /\ IsFiniteSet(rows) /\ Linked(rows)
  BY ConstantsAssumption DEF Init
<1>2. AllWhole
  BY <1>1, LinkedIsWhole DEF AllWhole
<1>. QED BY <1>1, <1>2, WholeIsLog

(* A step of a worker is a step of ReceiptLog or leaves every log as it is. *)
LEMMA StepExtendsLog ==
    ASSUME IInv, AllWhole, NEW w \in Worker, Receive(w) \/ Step(w)
    PROVE  AllWhole' /\ (Log!Next \/ LogBar' = LogBar)
<1>. USE DEF storeVars, stateVars, workerVars
<1>2. ASSUME NEW kind \in {"drop", "live"}, pc[w] \in {"insertDrop", "insertLive"},
             Insertable(ReceiptOf(w, kind)), rows' = rows \union {ReceiptOf(w, kind)}
      PROVE  AllWhole' /\ Log!Next
  <2>. DEFINE r == ReceiptOf(w, kind)
  <2>1. r \in Receipt /\ rows \subseteq Receipt /\ Linked(rows)
    BY <1>2, ReceiptOfType DEF IInv, TypeOK, Kind, ChainLinked
  <2>2. HeadIn(rows, [seq |-> r.seq, prev |-> r.prev], r.chain)
    <3>1. IsHeadOf(alloc[w], job[w].key)
      BY <1>2 DEF IInv, SlotOf
    <3>2. alloc[w] = [seq |-> alloc[w].seq, prev |-> alloc[w].prev]
      BY DEF IInv, TypeOK, StateHead
    <3>. QED BY <3>1, <3>2 DEF IsHeadOf, ReceiptOf
  <2>3. r.chain \in Chain /\ r.id \in Id
    BY <2>1 DEF Receipt
  <2>4. \A q \in rows : q.id # r.id
    BY <1>2 DEF Insertable
  <2>. HIDE DEF r
  <2>5. Log!Extend(r.chain, r.id) /\ AllWhole'
    BY <1>2, <2>1, <2>2, <2>4, InsertExtendsLog DEF r
  <2>. QED BY <2>3, <2>5 DEF Log!Next
<1>3. CASE InsertDrop(w) \/ InsertLive(w)
  BY <1>2, <1>3 DEF InsertDrop, InsertLive
<1>4. CASE \/ Receive(w) \/ Lookup(w) \/ FastPath(w) \/ LoadChain(w) \/ BuildDelegation(w)
           \/ StoreReadFails(w) \/ Install(w) \/ LoseRace(w) \/ Allocate(w) \/ DropFails(w)
           \/ CommitFirst(w) \/ LiveFails(w) \/ Commit(w)
  <2>1. rows' = rows
    BY <1>4 DEF Receive, Lookup, FastPath, LoadChain, BuildDelegation, StoreReadFails, Install,
                LoseRace, Allocate, DropFails, CommitFirst, LiveFails, Commit
  <2>. QED BY <2>1, LogsKept
<1>. QED BY <1>3, <1>4 DEF Step

(* Whatever the interleaving, the commit path only appends to the logs of   *)
(* the chains, one receipt at a time and none twice: ImplementsLog.         *)
THEOREM PipelineImplementsLog == Spec => ImplementsLog
<1>2. IInv /\ AllWhole /\ [Next]_vars => AllWhole' /\ [Log!Next]_LogBar
  <2>1. ASSUME AllWhole, UNCHANGED vars PROVE AllWhole' /\ LogBar' = LogBar
    BY <2>1, LogsKept DEF vars, storeVars
  <2>. QED BY <2>1, StepExtendsLog DEF Next
<1>3. Spec => []AllWhole /\ [][Log!Next]_LogBar
  BY InitLog, <1>2, Inductive, PTL DEF Spec
<1>4. Init => Log!Init
  BY InitLog
<1>. QED BY <1>3, <1>4, PTL DEF Spec, ImplementsLog, Log!Spec, LogBar
-----------------------------------------------------------------------------
(* Daemon. *)

(* If a chain ends at its terminal receipts and its tail is not one, it has *)
(* none.                                                                    *)
LEMMA OpenTail ==
    ASSUME NEW c, ~TerminalTail(c), EndsInTerminal({c})
    PROVE  \A r \in Rows(c) : ~Terminal(r)
BY DEF TerminalTail, Tails, EndsInTerminal, Rows

(* When no handler is at work every State agrees with the store. *)
LEMMA RestedHeads ==
    ASSUME IInv, \A w \in Worker : pc[w] = "idle"
    PROVE  \A k \in known : IsHeadOf(head[k], k)
BY DEF IInv, HeadCurrent, Uncommitted

(* A head at its first slot is the head of a chain without rows. *)
LEMMA FirstSlotEmpty ==
    ASSUME TypeOK, NEW k, NEW h, IsHeadOf(h, k), h.seq = 1
    PROVE  Rows(ChainOf(k)) = {}
<1>1. \A r \in rows : r.seq \in Nat \ {0}
  BY IdTypes
<1>. QED BY <1>1 DEF IsHeadOf, HeadIn, Rows

-----------------------------------------------------------------------------
(* A step of a handler: the rows it adds are not terminal, and it adds none *)
(* to a chain of another key.                                               *)
LEMMA HandlerRows ==
    ASSUME TypeOK, NEW w \in Worker, Receive(w) \/ Step(w)
    PROVE  /\ gen' = gen
           /\ \/ rows' = rows
              \/ \E r \in Receipt :
                    /\ rows' = rows \union {r}
                    /\ pc[w] # "idle" /\ r.chain = ChainOf(job[w].key) /\ ~Terminal(r)
                    /\ [seq |-> r.seq, prev |-> r.prev] = alloc[w]
                    /\ pc[w] \in {"insertDrop", "insertLive"}
<1>. USE DEF storeVars, stateVars, workerVars
<1>1. ASSUME NEW kind \in {"drop", "live"}, pc[w] \in {"insertDrop", "insertLive"},
             rows' = rows \union {ReceiptOf(w, kind)}
      PROVE  \E r \in Receipt :
                /\ rows' = rows \union {r}
                /\ pc[w] # "idle" /\ r.chain = ChainOf(job[w].key) /\ ~Terminal(r)
                /\ [seq |-> r.seq, prev |-> r.prev] = alloc[w]
                /\ pc[w] \in {"insertDrop", "insertLive"}
  <2>1. ReceiptOf(w, kind) \in Receipt
    BY <1>1, ReceiptOfType DEF TypeOK, Kind
  <2>2. [seq |-> ReceiptOf(w, kind).seq, prev |-> ReceiptOf(w, kind).prev] = alloc[w]
    BY DEF ReceiptOf, TypeOK, StateHead
  <2>3. ReceiptOf(w, kind).chain = ChainOf(job[w].key) /\ ~Terminal(ReceiptOf(w, kind))
    BY DEF ReceiptOf, Terminal
  <2>. QED BY <1>1, <2>1, <2>2, <2>3
<1>2. CASE InsertDrop(w) \/ InsertLive(w)
  BY <1>1, <1>2 DEF InsertDrop, InsertLive
<1>3. CASE \/ Receive(w) \/ Lookup(w) \/ FastPath(w) \/ LoadChain(w) \/ BuildDelegation(w)
           \/ StoreReadFails(w) \/ Install(w) \/ LoseRace(w) \/ Allocate(w) \/ DropFails(w)
           \/ CommitFirst(w) \/ LiveFails(w) \/ Commit(w)
  BY <1>3 DEF Receive, Lookup, FastPath, LoadChain, BuildDelegation, StoreReadFails, Install,
              LoseRace, Allocate, DropFails, CommitFirst, LiveFails, Commit
<1>. QED BY <1>2, <1>3 DEF Step

(* A step of a connection handler, in a run that serves, drains or aborts:  *)
(* the frames find the same chains under the same heads, and do not reopen  *)
(* a root.                                                                  *)
LEMMA HandlerStep ==
    ASSUME DaemonInv, NEW w \in Worker, DReceive(w) \/ DStep(w)
    PROVE  DaemonInv'
<1>. USE DEF daemonVars
<1>1. /\ phase \in {"serving", "draining", "aborting"} /\ UNCHANGED daemonVars
      /\ Receive(w) \/ Step(w)
      /\ Up /\ IInv /\ TypeOK /\ RootOpen /\ RootEndsInTerminal /\ OneInterruption
  BY DEF DReceive, DStep, DaemonInv, Up, DTypeOK
<1>2. IInv'
  BY <1>1, StepInv
<1>3. DTypeOK' /\ ChainLinked'
  BY <1>1, <1>2 DEF DaemonInv, DTypeOK, IInv
<1>4. Rested' /\ Visited'
  BY <1>1 DEF Rested, Visited
<1>5. CASE rows' = rows /\ gen' = gen
  BY <1>1, <1>2, <1>3, <1>4, <1>5
  DEF DaemonInv, RootOpen, RootEndsInTerminal, EndsInTerminal, OneInterruption, Rows, ChainOf
<1>6. CASE gen' = gen /\ \E r \in Receipt : /\ rows' = rows \union {r}
                                            /\ r.chain = ChainOf(job[w].key) /\ ~Terminal(r)
  <2>1. PICK r \in Receipt : /\ rows' = rows \union {r}
                             /\ r.chain = ChainOf(job[w].key) /\ ~Terminal(r)
    BY <1>6
  <2>2. RootOpen'
    BY <1>1, <1>6, <2>1 DEF RootOpen, Rows, ChainOf, Terminal
  <2>3. RootEndsInTerminal'
    <3>. SUFFICES ASSUME NEW t \in rows', NEW q \in rows', Terminal(t),
                         t.chain \in Gen \X {Root}, q.chain = t.chain
                  PROVE  q.seq <= t.seq
      BY DEF RootEndsInTerminal, EndsInTerminal, Terminal
    <3>1. t \in rows
      BY <2>1
    <3>2. CASE q \in rows
      BY <1>1, <3>1, <3>2 DEF RootEndsInTerminal, EndsInTerminal
    <3>3. CASE q = r
      <4>1. t.chain = ChainOf(Root)
        BY <2>1, <3>3 DEF ChainOf
      <4>. QED BY <1>1, <3>1, <4>1 DEF RootOpen, Rows
    <3>. QED BY <2>1, <3>2, <3>3
  <2>4. OneInterruption'
    BY <1>1, <2>1 DEF OneInterruption, Terminal
  <2>. QED BY <1>2, <1>3, <1>4, <2>2, <2>3, <2>4 DEF DaemonInv
<1>. QED BY <1>1, <1>5, <1>6, HandlerRows

-----------------------------------------------------------------------------
(* EmitTerminator on one chain. *)

LEMMA SkipStep ==
    ASSUME DaemonInv, NEW k \in Key, SkipTerminator(k) \/ TerminatorFails(k)
    PROVE  DaemonInv'
<1>. USE DEF storeVars, stateVars, workerVars
<1>1. /\ UNCHANGED <<vars, phase, boots>> /\ phase = "terminating"
      /\ k \in todo /\ todo' = todo \ {k} /\ late' \in BOOLEAN
      /\ \/ ~Open(k) /\ failed' = failed
         \/ failed' = failed \union {k}
  BY DEF SkipTerminator, TerminatorFails, Visit, DaemonInv, DTypeOK, vars
<1>2. IInv /\ k \in known /\ \A w \in Worker : pc[w] = "idle"
  BY <1>1 DEF DaemonInv, Up, Visited, Rested
<1>3. ~Open(k) => (Rows(ChainOf(k)) # {} => TerminalTail(ChainOf(k)))
  <2>1. IsHeadOf(head[k], k) /\ TypeOK
    BY <1>2, RestedHeads DEF IInv
  <2>. QED BY <2>1, FirstSlotEmpty DEF Open
<1>4. \A c : Rows(c)' = Rows(c)
  BY <1>1 DEF Rows, vars
<1>5. Visited'
  <2>1. \A j : ChainOf(j)' = ChainOf(j)
    BY <1>1 DEF ChainOf, vars
  <2>2. \A j : TerminalTail(ChainOf(j))' <=> TerminalTail(ChainOf(j))
    BY <1>1 DEF TerminalTail, Tails, Rows, ChainOf, Terminal, vars
  <2>. QED BY <1>1, <1>3, <1>4, <2>1, <2>2 DEF DaemonInv, Visited, vars
<1>6. DTypeOK'
  BY <1>1 DEF DaemonInv, DTypeOK, TypeOK, vars
<1>7. IInv'
  <2>1. TypeOK' /\ ChainLinked'
    BY <1>1, <1>2 DEF IInv, TypeOK, ChainLinked, vars
  <2>2. \A j \in known : IsHeadOf(head[j], j)'
    BY <1>1, <1>2, RestedHeads DEF IsHeadOf, ChainOf, vars
  <2>. QED BY <1>1, <1>2, <2>1, <2>2 DEF IInv, HeadCurrent, LockHeld, StateKnown,
              SlotOf, LoadOf, Holding, vars
<1>8. ChainLinked' /\ Rested' /\ RootOpen' /\ RootEndsInTerminal' /\ OneInterruption'
  BY <1>1 DEF DaemonInv, ChainLinked, Rested, RootOpen, RootEndsInTerminal, EndsInTerminal,
              OneInterruption, vars
<1>. QED BY <1>5, <1>6, <1>7, <1>8 DEF DaemonInv

(* The row that EmitTerminator adds is the next of its chain. *)
LEMMA TerminatorRow ==
    ASSUME DaemonInv, NEW k \in Key, EmitTerminator(k)
    PROVE  \E t \in Past :
              LET r == TerminatorOf(k, t) IN
              /\ r \in Receipt /\ Terminal(r)
              /\ r.chain = ChainOf(k) /\ r.seq = head[k].seq
              /\ HeadIn(rows, [seq |-> r.seq, prev |-> r.prev], r.chain)
              /\ \A q \in rows : q.id # r.id
              /\ rows' = rows \union {r} /\ head' = [head EXCEPT ![k] = After(r)]
<1>. DEFINE t == CHOOSE t \in Past : Unused(t)
            r == TerminatorOf(k, t)
<1>1. t \in Past
  BY DEF EmitTerminator
<1>2. /\ Visit(k) /\ Insertable(r)
      /\ rows' = rows \union {r} /\ head' = [head EXCEPT ![k] = After(r)]
  BY DEF EmitTerminator
<1>. HIDE DEF t
<1>3. IInv /\ TypeOK /\ k \in known /\ \A w \in Worker : pc[w] = "idle"
  BY <1>2 DEF DaemonInv, Up, Visited, Rested, Visit, IInv
<1>4. head[k].seq \in Nat \ {0} /\ head[k].prev \in IdOrNil /\ head[k] \in StateHead
  BY <1>3 DEF TypeOK, StateHead
<1>5. r \in Receipt
  <2>1. <<t, "terminal">> \in Id /\ ChainOf(k) \in Chain
    BY <1>1, <1>3, ChainOfType DEF Id, Kind, TypeOK
  <2>. QED BY <1>4, <2>1 DEF TerminatorOf, Receipt, IdOrNil
<1>6. HeadIn(rows, [seq |-> r.seq, prev |-> r.prev], r.chain)
  <2>1. IsHeadOf(head[k], k)
    BY <1>3, RestedHeads
  <2>2. head[k] = [seq |-> head[k].seq, prev |-> head[k].prev]
    BY <1>4 DEF StateHead
  <2>. QED BY <2>1, <2>2 DEF IsHeadOf, TerminatorOf
<1>7. Terminal(r) /\ r.chain = ChainOf(k) /\ r.seq = head[k].seq
  BY DEF Terminal, TerminatorOf
<1>8. \A q \in rows : q.id # r.id
  BY <1>2 DEF Insertable
<1>. QED BY <1>1, <1>2, <1>5, <1>6, <1>7, <1>8

(* A terminator goes to the end of its chain, and only to a chain that is   *)
(* open.                                                                    *)
LEMMA TerminatorStep ==
    ASSUME DaemonInv, NEW k \in Key, EmitTerminator(k)
    PROVE  DaemonInv'
<1>. USE DEF workerVars
<1>1. PICK t \in Past :
         LET r == TerminatorOf(k, t) IN
         /\ r \in Receipt /\ Terminal(r)
         /\ r.chain = ChainOf(k) /\ r.seq = head[k].seq
         /\ HeadIn(rows, [seq |-> r.seq, prev |-> r.prev], r.chain)
         /\ rows' = rows \union {r} /\ head' = [head EXCEPT ![k] = After(r)]
  BY TerminatorRow
<1>. DEFINE r == TerminatorOf(k, t)
<1>2. /\ r \in Receipt /\ Terminal(r) /\ r.chain = ChainOf(k)
      /\ HeadIn(rows, [seq |-> r.seq, prev |-> r.prev], r.chain)
      /\ rows' = rows \union {r} /\ head' = [head EXCEPT ![k] = After(r)]
  BY <1>1
<1>. HIDE DEF r
<1>3. /\ phase = "terminating" /\ k \in todo /\ todo' = todo \ {k}
      /\ UNCHANGED <<gen, known, holder, mapLock, read, workerVars, result, phase, boots,
                     late, failed>>
      /\ Open(k)
  BY DEF EmitTerminator, Visit
<1>4. IInv /\ TypeOK /\ k \in known /\ \A w \in Worker : pc[w] = "idle"
  BY <1>3 DEF DaemonInv, Up, Visited, Rested, IInv
<1>5. rows \subseteq Receipt /\ Linked(rows) /\ head \in [Key -> StateHead] /\ known \subseteq Key
  BY <1>4 DEF IInv, TypeOK, ChainLinked
<1>6. /\ HeadIn(rows', After(r), ChainOf(k))
      /\ \A g, c : (c # ChainOf(k) /\ HeadIn(rows, g, c)) => HeadIn(rows', g, c)
      /\ Linked(rows')
  BY <1>2, <1>5, InsertMovesHead
<1>7. \A j : ChainOf(j)' = ChainOf(j) /\ (j # k => ChainOf(j) # ChainOf(k))
  BY <1>3 DEF ChainOf
<1>8. \A q \in rows : q.chain = ChainOf(k) => q.seq < r.seq /\ q.seq \in Nat /\ r.seq \in Nat
  BY <1>2, <1>5 DEF HeadIn, Receipt
<1>9. IInv'
  <2>1. TypeOK'
    <3>1. After(r) \in StateHead
      BY <1>2 DEF After, StateHead, Receipt, IdOrNil
    <3>2. head' \in [Key -> StateHead] /\ rows' \subseteq Receipt
      BY <1>2, <1>5, <3>1
    <3>. QED BY <1>3, <1>4, <3>2 DEF TypeOK
  <2>2. ASSUME NEW j \in known PROVE IsHeadOf(head[j], j)'
    <3>1. IsHeadOf(head[j], j)
      BY <1>4, RestedHeads
    <3>. QED BY <1>2, <1>5, <1>6, <1>7, <3>1 DEF IsHeadOf
  <2>3. (\A w \in Worker : pc'[w] = "idle") /\ Root \in known' /\ ChainLinked'
    BY <1>3, <1>4, <1>6 DEF IInv, StateKnown, ChainLinked
  <2>4. HeadCurrent'
    BY <1>3, <2>2 DEF HeadCurrent
  <2>. QED BY <2>1, <2>3, <2>4 DEF IInv, LockHeld, StateKnown, SlotOf, LoadOf, Holding
<1>10. Visited'
  <2>1. ASSUME NEW j, j # k
        PROVE  Rows(ChainOf(j))' = Rows(ChainOf(j))
    BY <1>2, <1>7, <2>1 DEF Rows
  <2>2. ASSUME NEW j, j # k PROVE TerminalTail(ChainOf(j))' <=> TerminalTail(ChainOf(j))
    BY <1>7, <2>1, <2>2 DEF TerminalTail, Tails, Terminal
  <2>3. TerminalTail(ChainOf(k))'
    <3>1. r \in Rows(ChainOf(k))' /\ \A q \in Rows(ChainOf(k))' : q.seq <= r.seq
      BY <1>2, <1>7, <1>8 DEF Rows, Receipt
    <3>. QED BY <1>2, <1>7, <3>1 DEF TerminalTail, Tails, Terminal
  <2>4. ASSUME NEW j \in known', j \notin todo', j \notin failed', (Rows(ChainOf(j)) # {})'
        PROVE  TerminalTail(ChainOf(j))'
    BY <1>3, <2>1, <2>2, <2>3, <2>4 DEF DaemonInv, Visited
  <2>. QED BY <1>3, <2>4 DEF DaemonInv, Visited
<1>11. \A q \in Rows(ChainOf(k)) : Terminal(q) => q.seq + 1 # r.seq
  <2>. SUFFICES ASSUME NEW q \in Rows(ChainOf(k)), Terminal(q), q.seq + 1 = r.seq
                PROVE  TerminalTail(ChainOf(k))
    BY <1>3 DEF Open
  <2>1. \A p \in Rows(ChainOf(k)) : p.seq <= q.seq
    BY <1>8 DEF Rows
  <2>. QED BY <2>1 DEF TerminalTail, Tails
<1>12. OneInterruption'
  <2>. SUFFICES ASSUME NEW p \in rows', NEW q \in rows', Terminal(p), Terminal(q),
                       q.chain = p.chain
                PROVE  q.seq # p.seq + 1
    BY DEF OneInterruption, Terminal
  <2>1. CASE p \in rows /\ q \in rows
    BY <2>1 DEF DaemonInv, OneInterruption
  <2>2. CASE p \in rows /\ q = r
    BY <1>2, <1>11, <2>2 DEF Rows
  <2>3. CASE p = r /\ q \in rows
    BY <1>2, <1>8, <2>3
  <2>4. CASE p = r /\ q = r
    BY <1>2, <2>4 DEF Receipt
  <2>. QED BY <1>2, <2>1, <2>2, <2>3, <2>4
<1>13. RootEndsInTerminal'
  <2>. SUFFICES ASSUME NEW p \in rows', NEW q \in rows', Terminal(p),
                       p.chain \in Gen \X {Root}, q.chain = p.chain
                PROVE  q.seq <= p.seq
    BY DEF RootEndsInTerminal, EndsInTerminal, Terminal
  <2>1. CASE p \in rows /\ q \in rows
    BY <2>1 DEF DaemonInv, RootEndsInTerminal, EndsInTerminal
  <2>2. CASE p \in rows /\ q = r
    <3>1. EndsInTerminal({ChainOf(k)})
      BY <1>2, <2>2 DEF DaemonInv, RootEndsInTerminal, EndsInTerminal
    <3>2. ~TerminalTail(ChainOf(k))
      BY <1>3 DEF Open
    <3>. QED BY <1>2, <2>2, <3>1, <3>2, OpenTail DEF Rows
  <2>3. CASE p = r /\ q \in rows
    BY <1>2, <1>8, <2>3
  <2>4. CASE p = r /\ q = r
    BY <1>2, <2>4 DEF Receipt
  <2>. QED BY <1>2, <2>1, <2>2, <2>3, <2>4
<1>14. DTypeOK' /\ ChainLinked'
  BY <1>3, <1>9 DEF DaemonInv, DTypeOK, IInv
<1>15. Rested' /\ RootOpen'
  BY <1>3, <1>4 DEF Rested, RootOpen
<1>. QED BY <1>9, <1>10, <1>12, <1>13, <1>14, <1>15 DEF DaemonInv

-----------------------------------------------------------------------------
(* Starts.  A table left by this daemon has an open root chain to resume.   *)

LEMMA RootResumed ==
    ASSUME NEW g \in Gen, Resumed(g), RootEndsInTerminal
    PROVE  \A r \in Rows(<<g, Root>>) : ~Terminal(r)
<1>1. EndsInTerminal({<<g, Root>>}) /\ ~TerminalTail(<<g, Root>>)
  BY DEF RootEndsInTerminal, EndsInTerminal, Resumed
<1>. QED BY <1>1, OpenTail

(* A start of the daemon resumes a root that is open, under the head the    *)
(* store has.                                                               *)
LEMMA BootStep ==
    ASSUME DaemonInv, Boot
    PROVE  DaemonInv'
<1>. USE DEF storeVars, stateVars, workerVars
<1>1. PICK g \in Gen : /\ Resumed(g) /\ gen' = g
                       /\ \E h \in TailHeads(<<g, Root>>) :
                             head' = [k \in Key |-> IF k = Root THEN h ELSE FreshHead]
  BY DEF Boot
<1>2. /\ ~Up /\ phase' = "serving" /\ known' = {Root} /\ todo' = {} /\ failed' = {}
      /\ late' = FALSE /\ boots' \in 1..MaxBoots
      /\ UNCHANGED <<rows, holder, mapLock, read, workerVars, result>>
  BY BootAssumption DEF Boot, DaemonInv, DTypeOK
<1>3. TypeOK /\ Linked(rows) /\ RootEndsInTerminal /\ \A w \in Worker : pc[w] = "idle"
  BY <1>2 DEF DaemonInv, DTypeOK, ChainLinked, Rested, Up
<1>4. PICK h \in TailHeads(<<g, Root>>) :
         head' = [k \in Key |-> IF k = Root THEN h ELSE FreshHead]
  BY <1>1
<1>5. h \in StateHead /\ FreshHead \in StateHead
  BY <1>3, HeadTypes
<1>6. TypeOK'
  BY <1>1, <1>2, <1>3, <1>4, <1>5 DEF TypeOK, Key
<1>7. HeadIn(rows, h, <<g, Root>>)
  <2>1. \A r \in rows : r.seq \in Nat
    BY <1>3 DEF TypeOK, Receipt
  <2>2. CASE Rows(<<g, Root>>) = {}
    BY <2>2 DEF TailHeads, HeadIn, Rows
  <2>3. CASE Rows(<<g, Root>>) # {}
    <3>1. PICK r \in Tails(<<g, Root>>) : h = After(r)
      BY <2>3 DEF TailHeads
    <3>. QED BY <2>1, <3>1 DEF HeadIn, Tails, Rows, After
  <2>. QED BY <2>2, <2>3
<1>8. IInv'
  <2>1. IsHeadOf(head[Root], Root)'
    BY <1>1, <1>2, <1>4, <1>7 DEF IsHeadOf, ChainOf, Key
  <2>2. HeadCurrent'
    BY <1>2, <2>1 DEF HeadCurrent
  <2>. QED BY <1>2, <1>3, <1>6, <2>2 DEF IInv, ChainLinked, LockHeld, StateKnown, SlotOf, LoadOf, Holding
<1>9. RootOpen'
  BY <1>1, <1>2, <1>3, RootResumed DEF RootOpen, Rows, ChainOf, Terminal
<1>10. DTypeOK'
  BY <1>2, <1>6 DEF DTypeOK, Phase
<1>11. ChainLinked' /\ Rested' /\ Visited' /\ RootEndsInTerminal' /\ OneInterruption'
  BY <1>2, <1>3 DEF DaemonInv, ChainLinked, Rested, Visited, RootEndsInTerminal, EndsInTerminal,
                    OneInterruption
<1>. QED BY <1>8, <1>9, <1>10, <1>11 DEF DaemonInv

(* The process dies: the store is what it was, no handler is left.          *)
LEMMA CrashStep ==
    ASSUME DaemonInv, Crash
    PROVE  DaemonInv'
<1>. USE DEF storeVars
<1>1. /\ phase' = "crashed" /\ pc' = [w \in Worker |-> "idle"]
      /\ UNCHANGED <<rows, gen, known, head, read, result, boots, todo, late, failed>>
      /\ job' = [w \in Worker |-> NoJob] /\ loaded' = [w \in Worker |-> FreshHead]
      /\ alloc' = [w \in Worker |-> FreshHead] /\ del' = [w \in Worker |-> Nil]
      /\ holder' = [k \in Key |-> Free] /\ mapLock' = Free
  BY DEF Crash
<1>2. TypeOK'
  <2>1. FreshHead \in StateHead /\ NoJob \in Job
    BY DEF FreshHead, StateHead, IdOrNil, NoJob, Job, Key
  <2>2. /\ pc' \in [Worker -> PC] /\ job' \in [Worker -> Job]
        /\ \A w \in Worker : pc'[w] = "idle"
        /\ loaded' \in [Worker -> StateHead] /\ alloc' \in [Worker -> StateHead]
        /\ del' \in [Worker -> IdOrNil]
        /\ holder' \in [Key -> Worker \union {Free}] /\ mapLock' \in Worker \union {Free}
    BY <1>1, <2>1 DEF PC, IdOrNil
  <2>. QED BY <1>1, <2>2 DEF DaemonInv, DTypeOK, TypeOK
<1>3. DTypeOK'
  BY <1>1, <1>2 DEF DaemonInv, DTypeOK, Phase
<1>4. Rested' /\ RootOpen' /\ Visited' /\ ~Up'
  BY <1>1 DEF Rested, RootOpen, Visited, Up
<1>5. ChainLinked' /\ RootEndsInTerminal' /\ OneInterruption'
  BY <1>1 DEF DaemonInv, ChainLinked, RootEndsInTerminal, EndsInTerminal, OneInterruption
<1>. QED BY <1>3, <1>4, <1>5 DEF DaemonInv

(* Stop, Drain and Stopped: the commit path rests, only the phase moves on. *)
LEMMA PhaseStep ==
    ASSUME DaemonInv, Stop \/ Drain \/ Stopped
    PROVE  DaemonInv'
<1>. USE DEF vars, storeVars, stateVars, workerVars
<1>1. UNCHANGED vars /\ boots' = boots /\ late' = late /\ failed' = failed
  BY DEF Stop, Drain, Stopped
<1>2. /\ TypeOK' /\ ChainLinked' /\ RootEndsInTerminal' /\ OneInterruption'
      /\ Up => (Up' => IInv')
  <2>1. TypeOK' /\ ChainLinked' /\ RootEndsInTerminal' /\ OneInterruption'
    BY <1>1 DEF DaemonInv, DTypeOK, TypeOK, ChainLinked, RootEndsInTerminal, EndsInTerminal,
                OneInterruption
  <2>2. ASSUME IInv PROVE IInv'
    <3>1. LockHeld' /\ StateKnown'
      BY <1>1, <2>2 DEF IInv, LockHeld, StateKnown
    <3>2. HeadCurrent'
      BY <1>1, <2>2 DEF IInv, HeadCurrent, Uncommitted, IsHeadOf, ChainOf
    <3>3. \A v \in Worker : SlotOf(v)' /\ LoadOf(v)'
      BY <1>1, <2>2, UntouchedKept DEF IInv, Untouched
    <3>. QED BY <2>1, <3>1, <3>2, <3>3 DEF IInv
  <2>. QED BY <2>1, <2>2 DEF DaemonInv
<1>3. CASE Stop
  BY <1>1, <1>2, <1>3 DEF Stop, DaemonInv, DTypeOK, Phase, Up, Rested, RootOpen, Rows, ChainOf,
                          Visited
<1>4. CASE Drain
  BY <1>1, <1>2, <1>4 DEF Drain, DaemonInv, DTypeOK, TypeOK, Phase, Up, Rested, RootOpen, Visited
<1>5. CASE Stopped
  <2>1. phase = "terminating" /\ phase' = "stopped" /\ todo = {} /\ todo' = todo
    BY <1>5 DEF Stopped
  <2>2. Visited'
    BY <1>1, <2>1, ZenonT(30) DEF DaemonInv, Visited, Rows, ChainOf, TerminalTail, Tails, Terminal
  <2>. QED BY <1>1, <1>2, <2>1, <2>2 DEF DaemonInv, DTypeOK, Phase, Up, Rested, RootOpen
<1>. QED BY <1>3, <1>4, <1>5

(* The store that the first run finds is the end of some earlier history.   *)
LEMMA InitDaemon == DInit => DaemonInv
<1>. SUFFICES ASSUME DInit PROVE DaemonInv
  OBVIOUS
<1>1. IInv /\ \A w \in Worker : pc[w] = "idle"
  BY InitInv DEF DInit, Init, InitWorkers
<1>2. RootEndsInTerminal /\ OneInterruption
  <2>1. rows \in Prior
    BY DEF DInit, Init
  <2>2. \A r, q \in rows : (Terminal(r) /\ q.chain = r.chain) =>
            /\ r.chain[2] = Root => q.seq <= r.seq
            /\ Terminal(q) => q.seq # r.seq + 1
    BY <2>1, BootAssumption
  <2>. QED BY <2>2 DEF RootEndsInTerminal, EndsInTerminal, OneInterruption
<1>3. RootOpen
  <2>1. gen \in Gen /\ Resumed(gen)
    BY DEF DInit, Init
  <2>. QED BY <1>2, <2>1, RootResumed DEF RootOpen, ChainOf
<1>4. DTypeOK
  <2>1. 1 \in 1..MaxBoots
    BY BootAssumption
  <2>. QED BY <1>1, <2>1 DEF DInit, DTypeOK, Phase, IInv
<1>. QED BY <1>1, <1>2, <1>3, <1>4 DEF DInit, DaemonInv, IInv, Rested, Visited

(* DaemonInv holds in every reachable state. *)
THEOREM DaemonInductive == DSpec => []DaemonInv
<1>1. DaemonInv /\ [DNext]_dvars => DaemonInv'
  <2>1. ASSUME DaemonInv, UNCHANGED dvars PROVE DaemonInv'
    <3>. USE DEF dvars, daemonVars, vars, storeVars, stateVars, workerVars
    <3>1. DTypeOK' /\ ChainLinked' /\ Rested' /\ RootEndsInTerminal' /\ OneInterruption'
      BY <2>1 DEF DaemonInv, DTypeOK, TypeOK, ChainLinked, Rested, RootEndsInTerminal,
                  EndsInTerminal, OneInterruption
    <3>2. RootOpen' /\ Visited'
      BY <2>1, ZenonT(30) DEF DaemonInv, RootOpen, Visited, Rows, ChainOf, TerminalTail, Tails, Terminal
    <3>3. ASSUME IInv PROVE IInv'
      <4>1. LockHeld' /\ StateKnown' /\ HeadCurrent'
        BY <2>1, <3>3 DEF IInv, LockHeld, StateKnown, HeadCurrent, Uncommitted, IsHeadOf, ChainOf
      <4>2. \A v \in Worker : SlotOf(v)' /\ LoadOf(v)'
        BY <2>1, <3>3, UntouchedKept DEF IInv, Untouched
      <4>. QED BY <3>1, <4>1, <4>2 DEF IInv, DTypeOK
    <3>4. Up' <=> Up
      BY <2>1 DEF Up
    <3>. QED BY <2>1, <3>1, <3>2, <3>3, <3>4 DEF DaemonInv
  <2>. QED BY <2>1, HandlerStep, PhaseStep, SkipStep, TerminatorStep, CrashStep, BootStep
           DEF DNext, Shutdown, Off
<1>. QED BY InitDaemon, <1>1, PTL DEF DSpec

(* No root chain goes on past its terminal receipt, whatever the order of   *)
(* stops, crashes and restarts: RootEndsInTerminal.                         *)
THEOREM RootsEnd == DSpec => []RootEndsInTerminal
BY DaemonInductive, PTL DEF DaemonInv

(* No chain is terminated twice in a row: OneInterruption.                  *)
THEOREM OneTerminator == DSpec => []OneInterruption
BY DaemonInductive, PTL DEF DaemonInv

(* A graceful stop terminates every chain whose own terminator it could     *)
(* write: StopTerminates.                                                   *)
THEOREM StopsTerminate == DSpec => []StopTerminates
<1>1. DaemonInv => StopTerminates
  BY DEF DaemonInv, Visited, StopTerminates
<1>. QED BY DaemonInductive, <1>1, PTL

(* In every run a State whose mutex is free agrees with the store:          *)
(* RunningHeadMatchesStore.                                                 *)
THEOREM RunningStatesMatch == DSpec => []RunningHeadMatchesStore
<1>1. DaemonInv => RunningHeadMatchesStore
  BY ConstantsAssumption DEF DaemonInv, RunningHeadMatchesStore, HeadMatchesStore, IInv,
                             HeadCurrent, Uncommitted
<1>. QED BY DaemonInductive, <1>1, PTL

(* Every chain in the store verifies after any number of restarts.          *)
THEOREM RestartedStoreLinked == DSpec => []ChainLinked
BY DaemonInductive, PTL DEF DaemonInv

-----------------------------------------------------------------------------
(* Through stops, crashes and restarts the store stays one log per chain    *)
(* that only grows at its end: ImplementsLog.                               *)
THEOREM DaemonImplementsLog == DSpec => ImplementsLog
<1>1. DInit => Log!Init /\ AllWhole
  BY InitLog DEF DInit
<1>2. DaemonInv /\ AllWhole /\ [DNext]_dvars => AllWhole' /\ [Log!Next]_LogBar
  <2>. SUFFICES ASSUME DaemonInv, AllWhole, [DNext]_dvars
                PROVE  AllWhole' /\ (Log!Next \/ LogBar' = LogBar)
    OBVIOUS
  <2>1. CASE rows' = rows
    BY <2>1, LogsKept
  <2>2. CASE \E w \in Worker : DReceive(w) \/ DStep(w)
    <3>1. PICK w \in Worker : Receive(w) \/ Step(w)
      BY <2>2 DEF DReceive, DStep
    <3>2. IInv
      BY <2>2 DEF DaemonInv, DReceive, DStep, Up
    <3>. QED BY <3>1, <3>2, StepExtendsLog
  <2>3. CASE \E k \in Key : EmitTerminator(k)
    <3>1. PICK k \in Key : EmitTerminator(k)
      BY <2>3
    <3>2. PICK t \in Past :
             LET r == TerminatorOf(k, t) IN
             /\ r \in Receipt
             /\ HeadIn(rows, [seq |-> r.seq, prev |-> r.prev], r.chain)
             /\ \A q \in rows : q.id # r.id
             /\ rows' = rows \union {r}
      BY <3>1, TerminatorRow
    <3>. DEFINE r == TerminatorOf(k, t)
    <3>3. /\ r \in Receipt /\ HeadIn(rows, [seq |-> r.seq, prev |-> r.prev], r.chain)
          /\ \A q \in rows : q.id # r.id
          /\ rows' = rows \union {r}
      BY <3>2
    <3>. HIDE DEF r
    <3>4. rows \subseteq Receipt /\ Linked(rows)
      BY DEF DaemonInv, DTypeOK, TypeOK, ChainLinked
    <3>5. Log!Extend(r.chain, r.id) /\ AllWhole' /\ r.chain \in Chain /\ r.id \in Id
      BY <3>3, <3>4, InsertExtendsLog DEF Receipt
    <3>. QED BY <3>5 DEF Log!Next
  <2>4. CASE Stop \/ Drain \/ Stopped \/ Crash \/ Boot \/ UNCHANGED dvars
             \/ \E k \in Key : SkipTerminator(k) \/ TerminatorFails(k)
    <3>1. rows' = rows
      BY <2>4 DEF Stop, Drain, Stopped, Crash, Boot, dvars, vars, storeVars, SkipTerminator,
                  TerminatorFails
    <3>. QED BY <2>1, <3>1
  <2>. QED BY <2>2, <2>3, <2>4 DEF DNext, Shutdown, Off
<1>3. DSpec => []AllWhole /\ [][Log!Next]_LogBar
  BY <1>1, <1>2, DaemonInductive, PTL DEF DSpec
<1>4. DInit => Log!Init
  BY <1>1
<1>. QED BY <1>3, <1>4, PTL DEF DSpec, ImplementsLog, Log!Spec, LogBar
=============================================================================
