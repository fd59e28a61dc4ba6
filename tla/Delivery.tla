------------------------------ MODULE Delivery ------------------------------
(***************************************************************************)
(* A program that builds its own chain and sends it to a collector: the    *)
(* builder (sdk/go/chain), the write-ahead emitter over the file journal   *)
(* (sdk/go/emitters/wal.go), the HTTP emitter in its synchronous mode      *)
(* (http.go), and the collector over SQLite.  Two deliveries run at once:  *)
(* the one the builder waits for under its lock, and a drain of the        *)
(* journal (Replay at the start, Flush later).  A request can be lost,     *)
(* answered too late or after the client has died; writing, removing and   *)
(* inserting can fail; the client can crash at any step.                   *)
(***************************************************************************)
EXTENDS Integers, Sequences

CONSTANTS
    MaxReceipts, \* bound on the receipts signed
    MaxFaults,   \* bound on the faults
    MaxAttempts, \* RetryConfig.MaxAttempts
    Refused,     \* the receipts the collector answers with 400 (too large)
    Nobody       \* the client of a request that no one waits for any more

Receipt == 1..MaxReceipts
Task    == {"emit", "drain"}

ASSUME DeliveryAssumption ==
    /\ MaxReceipts \in Nat /\ MaxFaults \in Nat
    /\ MaxAttempts \in Nat \ {0}
    /\ Refused \subseteq Receipt
    /\ Nobody \notin Task

VARIABLES
    phase,    \* "down", "replay" (the journal is drained first) or "run"
    next,     \* the sequence number the builder gives next
    closed,   \* a terminal receipt was signed
    signed,   \* signed[r]: the sequence number of receipt r
    returned, \* the sequence number of the last receipt Emit gave its caller
    files,    \* files[i]: the receipt in the journal's file i
    byID,     \* byID[r]: the file of receipt r, as the running client knows it
    maxIndex, \* the highest file number used
    proc,     \* what the two deliveries are doing
    todo,     \* the receipts the drain has listed and not tried yet
    reqs,     \* the requests on the wire or in the collector's handler
    stored,   \* the rows of the collector
    acked,    \* (history) the receipts whose Emit returned nil
    faults    \* faults so far

chainVars   == <<phase, next, closed, signed>>
journalVars == <<files, byID, maxIndex>>
serverVars  == <<reqs, stored>>
vars == <<chainVars, returned, journalVars, proc, todo, serverVars, acked, faults>>

Idle      == [pc |-> "idle", cur |-> 0, attempt |-> 0]
Trying(r) == [pc |-> "send", cur |-> r, attempt |-> 1]

(* The receipts in the journal's directory, and a function less one point.   *)
Journalled == {files[i] : i \in DOMAIN files}
Less(f, x) == [y \in DOMAIN f \ {x} |-> f[y]]
With(f, x, v) == [y \in DOMAIN f \cup {x} |-> IF y = x THEN v ELSE f[y]]

Init ==
    /\ phase = "down" /\ next = 0 /\ closed = FALSE
    /\ signed = <<>> /\ returned = 0
    /\ files = <<>> /\ byID = <<>> /\ maxIndex = 0
    /\ proc = [t \in Task |-> Idle] /\ todo = {}
    /\ reqs = {} /\ stored = {}
    /\ acked = {} /\ faults = 0

Fault == faults < MaxFaults /\ faults' = faults + 1

(* From here on nothing fails any more. *)
Settle ==
    /\ faults < MaxFaults
    /\ faults' = MaxFaults
    /\ UNCHANGED <<chainVars, returned, journalVars, proc, todo, serverVars, acked>>
-----------------------------------------------------------------------------
(* The start of the client.  NewFileWal reads the directory: of two files of *)
(* one receipt the later one stays.                                          *)
Newest(r) == CHOOSE i \in DOMAIN files :
                /\ files[i] = r
                /\ \A j \in DOMAIN files : files[j] = r => j <= i

Load ==
    /\ byID' = [r \in Journalled |-> Newest(r)]
    /\ files' = [i \in {Newest(r) : r \in Journalled} |-> files[i]]
    /\ \E n \in DOMAIN files \cup {0} :
          (\A i \in DOMAIN files : i <= n) /\ maxIndex' = n

(* Replay before anything else is emitted. *)
Start ==
    /\ phase = "down"
    /\ phase' = "replay"
    /\ Load
    /\ todo' = Journalled
    /\ UNCHANGED <<next, closed, signed, returned, proc, serverVars, acked, faults>>

(* chain.New.  The head is the caller's to give: the last receipt it was     *)
(* given back, or the last the collector has.                                *)
Tails == {n \in {0} \cup {signed[r] : r \in stored} : \A r \in stored : signed[r] <= n}

NewChain ==
    /\ phase = "replay"
    /\ proc["drain"] = Idle /\ todo = {}
    /\ phase' = "run"
    /\ \E n \in {returned} \cup Tails : next' = n + 1
    /\ closed' = FALSE
    /\ UNCHANGED <<signed, returned, journalVars, proc, todo, serverVars, acked, faults>>

(* ReceiptChain.Emit up to the delivery: the receipt is signed, the head     *)
(* moves on, and WALEmitter.Emit writes the receipt to the journal first.    *)
Sign ==
    /\ phase = "run" /\ proc["emit"] = Idle
    /\ ~closed
    /\ Len(signed) < MaxReceipts
    /\ signed' = Append(signed, next)
    /\ next' = next + 1
    /\ closed' \in BOOLEAN
    /\ maxIndex' = maxIndex + 1

Emit ==
    /\ Sign
    /\ LET r == Len(signed) + 1 IN
       /\ files' = With(files, maxIndex + 1, r)
       /\ byID' = With(byID, r, maxIndex + 1)
       /\ proc' = [proc EXCEPT !["emit"] = Trying(r)]
    /\ UNCHANGED <<phase, returned, todo, serverVars, acked, faults>>

AppendFails ==
    /\ Sign
    /\ Fault
    /\ returned' = next
    /\ UNCHANGED <<phase, files, byID, proc, todo, serverVars, acked>>

(* WALEmitter.Flush: a drain works from the list it read at its start. *)
Flush ==
    /\ phase = "run"
    /\ proc["drain"] = Idle /\ todo = {}
    /\ DOMAIN byID # {}
    /\ todo' = DOMAIN byID
    /\ UNCHANGED <<chainVars, returned, journalVars, proc, serverVars, acked, faults>>

(* The receipts are tried in the order of the journal, which is the order    *)
(* they were signed in.                                                      *)
DrainNext ==
    /\ proc["drain"] = Idle
    /\ \E r \in todo :
       /\ \A s \in todo : r <= s
       /\ proc' = [proc EXCEPT !["drain"] = Trying(r)]
       /\ todo' = todo \ {r}
    /\ UNCHANGED <<chainVars, returned, journalVars, serverVars, acked, faults>>
-----------------------------------------------------------------------------
(* HttpEmitter.deliver: one request after the other, *)
Send(t) ==
    /\ proc[t].pc = "send"
    /\ proc' = [proc EXCEPT ![t].pc = "wait"]
    /\ reqs' = reqs \cup {[id |-> proc[t].cur, by |-> t, stage |-> "sent"]}
    /\ UNCHANGED <<chainVars, returned, journalVars, todo, stored, acked, faults>>

(* until one is answered with 201 or 409; a failure of the network or a 5xx  *)
(* is tried again MaxAttempts times in all, anything else is final.          *)
WrongReaction(p, status) ==
    [p EXCEPT !.pc = IF status \in {201, 409} THEN "clear" ELSE "send"]

Reaction(p, status) ==
    IF status \in {201, 409} THEN [p EXCEPT !.pc = "clear"]
    ELSE IF status \in {0, 500} /\ p.attempt < MaxAttempts
         THEN [p EXCEPT !.pc = "send", !.attempt = @ + 1]
         ELSE Idle

(* Emit has given its caller the receipt of delivery p, with an error or without. *)
GivenBack(t) == returned' = IF t = "emit" THEN signed[proc[t].cur] ELSE returned

(* Task t hears the status (0: no answer); a receipt that was not delivered  *)
(* stays in the journal, and a drain goes on with the next.                  *)
Hear(t, status) ==
    IF t \in Task
    THEN /\ proc' = [proc EXCEPT ![t] = Reaction(@, status)]
         /\ IF proc'[t] = Idle THEN GivenBack(t) ELSE UNCHANGED returned
    ELSE UNCHANGED <<proc, returned>>

(* The delivered receipt leaves the journal (FileWal.Remove), unless the     *)
(* other delivery has removed it already.                                    *)
Clear(t) ==
    /\ proc[t].pc = "clear"
    /\ LET r == proc[t].cur IN
       /\ IF r \in DOMAIN byID
          THEN files' = Less(files, byID[r]) /\ byID' = Less(byID, r)
          ELSE UNCHANGED <<files, byID>>
       /\ acked' = IF t = "emit" THEN acked \cup {r} ELSE acked
    /\ proc' = [proc EXCEPT ![t] = Idle]
    /\ GivenBack(t)
    /\ UNCHANGED <<chainVars, maxIndex, todo, serverVars, faults>>

(* The file cannot be unlinked: the client forgets it all the same, and a    *)
(* drain ends there.                                                         *)
ClearFails(t) ==
    /\ proc[t].pc = "clear"
    /\ proc[t].cur \in DOMAIN byID
    /\ Fault
    /\ byID' = Less(byID, proc[t].cur)
    /\ proc' = [proc EXCEPT ![t] = Idle]
    /\ todo' = IF t = "drain" THEN {} ELSE todo
    /\ GivenBack(t)
    /\ UNCHANGED <<chainVars, files, maxIndex, serverVars, acked>>

(* No one waits for the requests of the tasks T any more; the collector may  *)
(* still get and serve them.                                                 *)
Orphaned(T) == {[q EXCEPT !.by = IF @ \in T THEN Nobody ELSE @] : q \in reqs}

(* The context of a call ends: the request is dropped and not repeated, and  *)
(* Flush stops.  Replay is called without a deadline.                        *)
Cancel(t) ==
    /\ phase = "run"
    /\ proc[t].pc \in {"send", "wait"}
    /\ Fault
    /\ reqs' = Orphaned({t})
    /\ proc' = [proc EXCEPT ![t] = Idle]
    /\ todo' = IF t = "drain" THEN {} ELSE todo
    /\ GivenBack(t)
    /\ UNCHANGED <<chainVars, journalVars, stored, acked>>

Crash ==
    /\ phase # "down"
    /\ Fault
    /\ phase' = "down" /\ next' = 0 /\ closed' = FALSE
    /\ byID' = <<>> /\ maxIndex' = 0
    /\ proc' = [t \in Task |-> Idle] /\ todo' = {}
    /\ reqs' = Orphaned(Task)
    /\ UNCHANGED <<signed, returned, files, stored, acked>>
-----------------------------------------------------------------------------
(* The collector.  receiptHandler.ServeHTTP refuses a body it cannot take,   *)
(* and SQLiteStore.Insert looks the id up before it inserts.                 *)
Receive(q) ==
    /\ q.stage = "sent"
    /\ IF q.id \in Refused
       THEN reqs' = reqs \ {q} /\ Hear(q.by, 400)
       ELSE IF q.id \in stored
       THEN reqs' = reqs \ {q} /\ Hear(q.by, 409)
       ELSE /\ reqs' = (reqs \ {q}) \cup {[q EXCEPT !.stage = "absent"]}
            /\ UNCHANGED <<proc, returned>>
    /\ UNCHANGED <<chainVars, journalVars, todo, stored, acked, faults>>

(* Then it inserts.  The two constraints of the table: the id and the place  *)
(* in the chain.  Only a row with this id makes the receipt a duplicate.     *)
Taken(r) == \E s \in stored : s # r /\ signed[s] = signed[r]

WrongInsertStatus(r) == IF r \in stored \/ Taken(r) THEN 409 ELSE 201

InsertStatus(r) == IF r \in stored THEN 409 ELSE IF Taken(r) THEN 500 ELSE 201

Insert(q) ==
    /\ q.stage = "absent"
    /\ reqs' = reqs \ {q}
    /\ stored' = IF InsertStatus(q.id) = 201 THEN stored \cup {q.id} ELSE stored
    /\ Hear(q.by, InsertStatus(q.id))
    /\ UNCHANGED <<chainVars, journalVars, todo, acked, faults>>

(* The insert fails for a reason of the database's own. *)
InsertFails(q) ==
    /\ q.stage = "absent"
    /\ Fault
    /\ reqs' = reqs \ {q}
    /\ Hear(q.by, 500)
    /\ UNCHANGED <<chainVars, journalVars, todo, stored, acked>>

(* A request or the collector that had it is lost; *)
Lose(q) ==
    /\ Fault
    /\ reqs' = reqs \ {q}
    /\ Hear(q.by, 0)
    /\ UNCHANGED <<chainVars, journalVars, todo, stored, acked>>

(* or the client stops waiting before the collector is done with it.         *)
Timeout(q) ==
    /\ q.by \in Task
    /\ Fault
    /\ reqs' = Orphaned({q.by})
    /\ Hear(q.by, 0)
    /\ UNCHANGED <<chainVars, journalVars, todo, stored, acked>>

Serve(q) == Receive(q) \/ Insert(q)

Next ==
    \/ Settle \/ Start \/ NewChain \/ Emit \/ AppendFails \/ Flush \/ DrainNext \/ Crash
    \/ \E t \in Task : Send(t) \/ Clear(t) \/ ClearFails(t) \/ Cancel(t)
    \/ \E q \in reqs : Serve(q) \/ InsertFails(q) \/ Lose(q) \/ Timeout(q)

(* A delivery that was begun goes on, and the collector serves the requests  *)
(* that reach it.  Nothing makes a program start, emit or flush.             *)
Fairness ==
    /\ WF_vars(DrainNext)
    /\ \A t \in Task : /\ WF_vars(Send(t)) /\ WF_vars(Clear(t))
                       /\ WF_vars(\E q \in reqs : q.by = t /\ Serve(q))

Spec == Init /\ [][Next]_vars /\ Fairness
-----------------------------------------------------------------------------
(* A receipt is in the journal until the collector has stored it, whatever   *)
(* is lost, repeated or cut off by a crash; Emit returns nil only for a      *)
(* stored receipt; and two deliveries of one receipt store it once           *)
(* (wal.go: at-least-once; sqlite_store.go: the id is what is looked up).    *)
Kept == INSTANCE Outbox WITH pending <- Journalled

DeliveredOnce == Kept!Spec

(* A drain brings every receipt it has listed to the collector once nothing  *)
(* fails any more: a receipt that can never be stored, because it is too     *)
(* large or its place in the chain is taken, does not hold up the others     *)
(* (wal.go:426: one stuck receipt does not strand the rest).                 *)
Draining(r) ==
    /\ faults = MaxFaults
    /\ r \notin Refused
    /\ r \in todo \/ (proc["drain"].pc \in {"send", "wait"} /\ proc["drain"].cur = r)

DrainDelivers == \A r \in Receipt : Draining(r) ~> (r \in stored \/ (r \in DOMAIN signed /\ Taken(r)))
-----------------------------------------------------------------------------
(* The inductive invariant behind the refinement.                            *)

Delivering(t) == proc[t].pc # "idle"

TypeOK ==
    /\ phase \in {"down", "replay", "run"} /\ next \in Nat /\ closed \in BOOLEAN
    /\ signed \in Seq(Nat) /\ Len(signed) <= MaxReceipts /\ returned \in Nat
    /\ DOMAIN files \subseteq Nat /\ Journalled \subseteq Receipt
    /\ DOMAIN byID \subseteq Receipt /\ maxIndex \in Nat
    /\ proc \in [Task -> [pc: {"idle", "send", "wait", "clear"}, cur: 0..MaxReceipts,
                          attempt: 0..MaxAttempts]]
    /\ todo \subseteq Receipt
    /\ reqs \subseteq [id: Receipt, by: Task \cup {Nobody}, stage: {"sent", "absent"}]
    /\ stored \subseteq Receipt /\ acked \subseteq Receipt
    /\ faults \in 0..MaxFaults

(* No receipt has two files, and the running client knows where they are.    *)
OneFile ==
    /\ \A i, j \in DOMAIN files : files[i] = files[j] => i = j
    /\ \A r \in DOMAIN byID : byID[r] \in DOMAIN files /\ files[byID[r]] = r
    /\ phase # "down" => \A i \in DOMAIN files : i <= maxIndex

(* What is delivered was signed, and is in the journal or stored already.    *)
Secured == Journalled \cup stored

NothingForeign ==
    /\ Secured \subseteq 1..Len(signed)
    /\ todo \subseteq Secured
    /\ \A t \in Task : Delivering(t) => proc[t].cur \in Secured
    /\ \A q \in reqs : q.id \in Secured

(* A delivery waits for its own request only, and its receipt is cleared     *)
(* only when the collector has it.                                           *)
OwnAnswer ==
    /\ \A t \in Task : proc[t].pc = "clear" => proc[t].cur \in stored
    /\ \A q \in reqs : q.by \in Task => proc[q.by].pc = "wait" /\ proc[q.by].cur = q.id
    /\ \A p, q \in reqs : p.by = q.by /\ p.by \in Task => p = q

DeliveryInv == TypeOK /\ OneFile /\ NothingForeign /\ OwnAnswer
=============================================================================
