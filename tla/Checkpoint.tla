----------------------------- MODULE Checkpoint -----------------------------
(***************************************************************************)
(* The out-of-band anchor of chain heads: checkpoint.Emitter, its callers  *)
(* in the pipeline (checkpoint, FlushCheckpoints) and the part of Run that *)
(* orders them.                                                            *)
(*                                                                         *)
(* A handler commits a receipt, lets go of the chain mutex, and only then  *)
(* calls Observe.  Observe marks a head as anchored under e.mu, lets go of *)
(* e.mu, and only then puts a job on a bounded queue that one goroutine    *)
(* writes to the sinks.  A chain's receipt is its sequence number here:    *)
(* Pipeline shows that the store never has two with the same one.          *)
(***************************************************************************)
EXTENDS Integers, Sequences

CONSTANTS Handler,  \* connection goroutines
          Chain,    \* chain ids
          Root,     \* the root chain
          Sink,     \* the configured anchors
          Cadence,  \* a checkpoint every so many observed receipts
          Depth,    \* capacity of workerCh
          MaxSeq,   \* bound on the receipts of a chain
          MaxBoots, \* bound on the starts of the daemon
          None      \* no job

VARIABLES
    tail,    \* tail[c]: how many receipts the store has of chain c
    ended,   \* the root chain has its terminal receipt
    log,     \* log[s]: the checkpoints sink s holds, with the run that wrote each
    boot,    \* the run of the daemon
    phase,   \* how far Run is
    open,    \* the chains the pipeline has a State of
    pc, job, \* per handler: what it does next, the head it reports
    counts,  \* Emitter.counts
    lastSeq, \* Emitter.lastSeq
    queue,   \* Emitter.workerCh
    busy,    \* the job the worker goroutine runs
    left,    \* the sinks it has still to write that job to
    toFlush, \* the chains FlushCheckpoints has still to visit
    flush,   \* the job of the Flush call in progress
    marked,  \* (history) the heads this run marked as anchored
    lost,    \* what this run counted as dropped or failed, per sink
    flushed  \* (history) the chains whose final head was handed to Flush

durable     == <<tail, ended, log>>
handlerVars == <<pc, job>>
markVars    == <<counts, lastSeq, marked>>
workerVars  == <<queue, busy, left>>
flushVars   == <<toFlush, flush, flushed>>
vars == <<durable, boot, phase, open, handlerVars, markVars, workerVars, flushVars, lost>>

ChainHead == [chain: Chain, seq: 1..MaxSeq]
WrongHeadOf(c) == [chain |-> c, seq |-> tail[c] + 1] \* NextSeq for the tail
HeadOf(c) == [chain |-> c, seq |-> tail[c]]

ASSUME CheckpointAssumption ==
    /\ Root \in Chain
    /\ None \notin ChainHead
    /\ {Cadence, Depth, MaxSeq, MaxBoots} \subseteq Nat \ {0}

Init ==
    /\ tail = [c \in Chain |-> 0]
    /\ ended = FALSE
    /\ log = [s \in Sink |-> <<>>]
    /\ boot = 1
    /\ phase = "serving"
    /\ open = {Root}
    /\ pc = [h \in Handler |-> "idle"]
    /\ job = [h \in Handler |-> None]
    /\ counts = [c \in Chain |-> 0]
    /\ lastSeq = [c \in Chain |-> 0]
    /\ queue = <<>>
    /\ busy = None
    /\ left = {}
    /\ toFlush = {}
    /\ flush = None
    /\ marked = {}
    /\ lost = {}
    /\ flushed = {}
-----------------------------------------------------------------------------
WrongMarkEmit(j) == j.seq >= lastSeq[j.chain] \* the newest marked head again

(* markEmitLocked: whether the head is newer than the newest marked one.     *)
MarkEmit(j) == j.seq > lastSeq[j.chain]
Mark(j) == /\ lastSeq' = [lastSeq EXCEPT ![j.chain] = j.seq]
           /\ marked' = marked \union {j}
NoMark  == UNCHANGED <<lastSeq, marked>>

(* Process up to checkpoint(): a frame fails, commits its receipt, commits   *)
(* the pair of a frame with drops, or only the first of that pair.           *)
HandleFrame(h, c) ==
    /\ phase = "serving"
    /\ pc[h] = "idle"
    /\ open' = open \union {c}
    /\ \/ UNCHANGED <<tail, handlerVars>>
       \/ /\ tail[c] < MaxSeq
          /\ tail' = [tail EXCEPT ![c] = @ + 1]
          /\ UNCHANGED handlerVars
       \/ \E n \in {1, 2} :
            /\ tail[c] + n <= MaxSeq
            /\ tail' = [tail EXCEPT ![c] = @ + n]
            /\ job'  = [job EXCEPT ![h] = [chain |-> c, seq |-> tail[c] + n]]
            /\ pc'   = [pc EXCEPT ![h] = "observe"]
    /\ UNCHANGED <<ended, log, boot, phase, markVars, workerVars, flushVars, lost>>

Idle(h) == pc' = [pc EXCEPT ![h] = "idle"] /\ job' = [job EXCEPT ![h] = None]

(* Observe, its critical section. *)
Observe(h) ==
    LET j == job[h]
        due == counts[j.chain] + 1 >= Cadence
    IN
    /\ pc[h] = "observe"
    /\ counts' = [counts EXCEPT ![j.chain] = IF due THEN 0 ELSE @ + 1]
    /\ IF due /\ MarkEmit(j)
       THEN Mark(j) /\ pc' = [pc EXCEPT ![h] = "enqueue"] /\ UNCHANGED job
       ELSE NoMark /\ Idle(h)
    /\ UNCHANGED <<durable, boot, phase, open, workerVars, flushVars, lost>>

WrongLose(j, S) == UNCHANGED lost \* swallowed
Lose(j, S) == lost' = lost \union ({j} \X S)

Refused == phase = "closing" \/ Len(queue) >= Depth

(* enqueue: a job that finds the emitter closed or the queue full is dropped *)
(* and counted.                                                              *)
Enqueue(h) ==
    /\ pc[h] = "enqueue"
    /\ Idle(h)
    /\ IF Refused
       THEN Lose(job[h], Sink) /\ UNCHANGED queue
       ELSE queue' = Append(queue, job[h]) /\ UNCHANGED lost
    /\ UNCHANGED <<durable, boot, phase, open, markVars, busy, left, flushVars>>
-----------------------------------------------------------------------------
Up == phase \notin {"off", "crashed"}

(* The worker goroutine takes the oldest job. *)
Take ==
    /\ Up
    /\ busy = None
    /\ queue # <<>>
    /\ busy' = Head(queue)
    /\ queue' = Tail(queue)
    /\ left' = Sink
    /\ UNCHANGED <<durable, boot, phase, open, handlerVars, markVars, flushVars, lost>>

(* The job is given up without a word to whoever waits for it. *)
WrongSignFails ==
    /\ Up
    /\ busy # None
    /\ left = Sink
    /\ Lose(busy, Sink)
    /\ left' = {}
    /\ UNCHANGED <<durable, boot, phase, open, handlerVars, markVars, queue, busy, flushVars>>

(* emit: the checkpoint cannot be signed. *)
SignFails ==
    /\ Up
    /\ busy # None
    /\ left = Sink
    /\ Lose(busy, Sink)
    /\ busy' = None
    /\ left' = {}
    /\ UNCHANGED <<durable, boot, phase, open, handlerVars, markVars, queue, flushVars>>

(* emit: one sink takes the record or reports an error, which it may also do *)
(* after the record got there (a failing fsync).  The others get theirs.     *)
WriteSink(s) ==
    /\ Up
    /\ s \in left
    /\ \E wrote, err \in BOOLEAN :
        /\ wrote \/ err
        /\ IF wrote
           THEN log' = [log EXCEPT ![s] = Append(@, [chain |-> busy.chain, seq |-> busy.seq,
                                                     boot |-> boot])]
           ELSE UNCHANGED log
        /\ IF err THEN Lose(busy, {s}) ELSE UNCHANGED lost
    /\ left' = left \ {s}
    /\ busy' = IF left' = {} THEN None ELSE busy
    /\ UNCHANGED <<tail, ended, boot, phase, open, handlerVars, markVars, queue, flushVars>>
-----------------------------------------------------------------------------
(* The context is cancelled, or accept fails: no further frame. *)
Stop ==
    /\ phase = "serving"
    /\ phase' = "draining"
    /\ UNCHANGED <<durable, boot, open, handlerVars, markVars, workerVars, flushVars, lost>>

(* The handlers are back.  EmitTerminator ends some chains (a deadline may   *)
(* spare others).  A fatal error, or a failed accept, makes Run return, past *)
(* FlushCheckpoints, to the deferred Close.                                  *)
EmitTerminator ==
    /\ phase = "draining"
    /\ \A h \in Handler : pc[h] = "idle"
    /\ \E S \in SUBSET {c \in open : tail[c] \in 1..(MaxSeq - 1)} :
        /\ tail' = [c \in Chain |-> IF c \in S THEN tail[c] + 1 ELSE tail[c]]
        /\ ended' = (Root \in S)
    /\ \/ phase' = "flushing" /\ toFlush' = open
       \/ phase' = "closing" /\ UNCHANGED toFlush
    /\ UNCHANGED <<log, boot, open, handlerVars, markVars, workerVars, flush, flushed, lost>>

(* FlushCheckpoints visits a chain: its tail cannot be read or is empty, or  *)
(* Flush finds its head marked, or marks it and sends a job.                 *)
Visit(c) == /\ phase = "flushing"
            /\ c \in toFlush
            /\ c = Root => toFlush = {Root}
            /\ toFlush' = toFlush \ {c}
            /\ UNCHANGED <<durable, boot, open, handlerVars, workerVars, lost>>

SkipFlush(c) == Visit(c) /\ UNCHANGED <<phase, markVars, flush, flushed>>

Flush(c) ==
    /\ Visit(c)
    /\ tail[c] > 0
    /\ counts' = [counts EXCEPT ![c] = 0]
    /\ flushed' = flushed \union {c}
    /\ IF MarkEmit(HeadOf(c))
       THEN Mark(HeadOf(c)) /\ flush' = HeadOf(c) /\ phase' = "sending"
       ELSE NoMark /\ UNCHANGED <<flush, phase>>

(* Flush does not wait for room. *)
WrongFlushSend ==
    /\ phase = "sending"
    /\ queue' = IF Len(queue) < Depth THEN Append(queue, flush) ELSE queue
    /\ phase' = "waiting"
    /\ UNCHANGED <<durable, boot, open, handlerVars, markVars, busy, left, flushVars, lost>>

(* Flush blocks until the queue has room, ... *)
FlushSend ==
    /\ phase = "sending"
    /\ Len(queue) < Depth
    /\ queue' = Append(queue, flush)
    /\ phase' = "waiting"
    /\ UNCHANGED <<durable, boot, open, handlerVars, markVars, busy, left, flushVars, lost>>

(* ... and then until the worker has run its job. *)
FlushDone ==
    /\ phase = "waiting"
    /\ busy # flush
    /\ \A i \in 1..Len(queue) : queue[i] # flush
    /\ phase' = "flushing"
    /\ flush' = None
    /\ UNCHANGED <<durable, boot, open, handlerVars, markVars, workerVars, toFlush, flushed, lost>>

(* Close: stopCh is closed; the worker drains the queue and exits.           *)
Close ==
    /\ \/ phase = "flushing" /\ toFlush = {} /\ phase' = "closing"
       \/ phase = "closing" /\ queue = <<>> /\ busy = None /\ phase' = "off"
    /\ UNCHANGED <<durable, boot, open, handlerVars, markVars, workerVars, flushVars, lost>>

(* The process dies.  Nothing but the store and the sinks survives.          *)
Crash ==
    /\ Up
    /\ phase' = "crashed"
    /\ UNCHANGED <<durable, boot, open, handlerVars, markVars, workerVars, flushVars, lost>>

(* A start on the same root chain.  (After a terminal receipt the next root  *)
(* chain has another id, and so another place in the log.)                   *)
Boot ==
    /\ ~Up
    /\ boot < MaxBoots
    /\ ~ended
    /\ boot' = boot + 1
    /\ phase' = "serving"
    /\ open' = {Root}
    /\ pc' = [h \in Handler |-> "idle"]
    /\ job' = [h \in Handler |-> None]
    /\ counts' = [c \in Chain |-> 0]
    /\ lastSeq' = [c \in Chain |-> 0]
    /\ queue' = <<>>
    /\ busy' = None
    /\ left' = {}
    /\ toFlush' = {}
    /\ flush' = None
    /\ marked' = {}
    /\ lost' = {}
    /\ flushed' = {}
    /\ UNCHANGED durable

Off == ~Up /\ (boot = MaxBoots \/ ended) /\ UNCHANGED vars

Worker   == Take \/ SignFails \/ \E s \in Sink : WriteSink(s)
Shutdown == EmitTerminator \/ FlushSend \/ FlushDone \/ Close
            \/ \E c \in Chain : SkipFlush(c) \/ Flush(c)

Next == \/ \E h \in Handler : Observe(h) \/ Enqueue(h) \/ \E c \in Chain : HandleFrame(h, c)
        \/ Worker \/ Stop \/ Shutdown \/ Crash \/ Boot \/ Off

Spec == Init /\ [][Next]_vars

(* Handlers and the emitter's goroutine run; a sink's Write returns.         *)
FairSpec == /\ Spec
            /\ WF_vars(Worker)
            /\ WF_vars(Shutdown)
            /\ \A h \in Handler : WF_vars(Observe(h) \/ Enqueue(h))
-----------------------------------------------------------------------------
(* Type correctness. *)
TypeOK ==
    /\ tail \in [Chain -> 0..MaxSeq]
    /\ ended \in BOOLEAN
    /\ log \in [Sink -> Seq([chain: Chain, seq: 1..MaxSeq, boot: 1..MaxBoots])]
    /\ boot \in 1..MaxBoots
    /\ phase \in {"serving", "draining", "flushing", "sending", "waiting", "closing",
                  "off", "crashed"}
    /\ open \subseteq Chain
    /\ pc \in [Handler -> {"idle", "observe", "enqueue"}]
    /\ job \in [Handler -> ChainHead \union {None}]
    /\ counts \in [Chain -> 0..(Cadence - 1)]
    /\ lastSeq \in [Chain -> 0..MaxSeq]
    /\ queue \in Seq(ChainHead) /\ Len(queue) <= Depth
    /\ busy \in ChainHead \union {None}
    /\ left \subseteq Sink
    /\ toFlush \subseteq Chain
    /\ flush \in ChainHead \union {None}
    /\ marked \subseteq ChainHead
    /\ lost \subseteq ChainHead \X Sink
    /\ flushed \subseteq Chain

(* A sink never holds a head that the store does not have: the verifier      *)
(* would report the store as truncated.                                      *)
AnchoredIsStored ==
    \A s \in Sink : \A i \in 1..Len(log[s]) : log[s][i].seq <= tail[log[s][i].chain]

(* One run anchors a head at most once in a sink: a head that Observe has    *)
(* anchored is not anchored again by Flush (markEmitLocked).                 *)
AnchoredOnce ==
    \A s \in Sink : \A i, k \in 1..Len(log[s]) :
        (i # k /\ log[s][i].boot = log[s][k].boot /\ log[s][i].chain = log[s][k].chain) =>
            log[s][i].seq # log[s][k].seq

InLog(j, s) == \E i \in 1..Len(log[s]) :
                    log[s][i] = [chain |-> j.chain, seq |-> j.seq, boot |-> boot]
InFlight(j, s) == \/ \E h \in Handler : pc[h] = "enqueue" /\ job[h] = j
                  \/ \E i \in 1..Len(queue) : queue[i] = j
                  \/ busy = j /\ s \in left
                  \/ phase = "sending" /\ flush = j

(* "Failures are visible, not silently swallowed": a head that was marked as *)
(* anchored is on its way, in the log, or counted as dropped or failed; when *)
(* Close has returned, it is no longer on its way.                           *)
NothingSwallowed ==
    /\ Up => \A j \in marked, s \in Sink :
                InLog(j, s) \/ InFlight(j, s) \/ <<j, s>> \in lost
    /\ phase = "off" => \A j \in marked, s \in Sink : InLog(j, s) \/ <<j, s>> \in lost

(* After a graceful stop the final head of a chain given to Flush, its       *)
(* terminal receipt included, is in every sink, unless that very checkpoint  *)
(* was counted as lost: the cadence leaves no gap at the end.                *)
FinalHeadAnchored ==
    phase = "off" => \A c \in flushed, s \in Sink :
        InLog(HeadOf(c), s) \/ <<HeadOf(c), s>> \in lost

(* "The emitter only ever appends strictly-increasing sequences" (reader.go, *)
(* which reports anything else as tampering).                                *)
StrictlyIncreasing ==
    \A s \in Sink : \A i, k \in 1..Len(log[s]) :
        (i < k /\ log[s][i].chain = log[s][k].chain) => log[s][i].seq < log[s][k].seq

(* A stop ends: Flush, which blocks on a full queue and then on its own job,  *)
(* always returns, and so does Close, which waits for the worker goroutine.  *)
ShutdownEnds == (phase = "draining") ~> (phase \in {"off", "crashed"})
-----------------------------------------------------------------------------
(* The inductive invariant behind the safety properties.                     *)

(* What is reported was in the store, and lastSeq is the newest marked head. *)
Heads ==
    /\ \A h \in Handler : pc[h] # "idle" =>
          job[h] \in ChainHead /\ job[h].seq <= tail[job[h].chain]
    /\ \A j \in marked : j.seq <= tail[j.chain] /\ j.seq <= lastSeq[j.chain]
    /\ \A c \in Chain : lastSeq[c] # 0 => [chain |-> c, seq |-> lastSeq[c]] \in marked
    /\ AnchoredIsStored

(* Only a marked head is on its way or in the log of this run, ... *)
OnlyMarked ==
    /\ \A h \in Handler : pc[h] = "enqueue" => job[h] \in marked
    /\ \A i \in 1..Len(queue) : queue[i] \in marked
    /\ busy # None => busy \in marked
    /\ phase = "sending" => flush \in marked
    /\ \A s \in Sink : \A i \in 1..Len(log[s]) :
          /\ log[s][i].boot <= boot
          /\ log[s][i].boot = boot =>
                [chain |-> log[s][i].chain, seq |-> log[s][i].seq] \in marked

(* ... and it is in one place only. *)
OnePlace ==
    /\ \A h \in Handler : pc[h] = "enqueue" =>
          /\ \A g \in Handler \ {h} : pc[g] = "enqueue" => job[g] # job[h]
          /\ \A i \in 1..Len(queue) : queue[i] # job[h]
          /\ busy # job[h]
          /\ \A s \in Sink : ~InLog(job[h], s)
    /\ \A i \in 1..Len(queue) :
          /\ \A k \in 1..Len(queue) : k # i => queue[k] # queue[i]
          /\ busy # queue[i]
          /\ \A s \in Sink : ~InLog(queue[i], s)
    /\ phase = "sending" =>
          /\ \A i \in 1..Len(queue) : queue[i] # flush
          /\ busy # flush
          /\ \A s \in Sink : ~InLog(flush, s)
    /\ \A s \in left : busy # None /\ ~InLog(busy, s)

(* Run is past the handlers from EmitTerminator on. *)
Drained ==
    /\ phase \in {"flushing", "sending", "waiting", "closing", "off"} =>
          \A h \in Handler : pc[h] = "idle"
    /\ phase \in {"serving", "draining"} => flushed = {}
    /\ phase # "crashed" => \A c \in flushed : HeadOf(c) \in marked

CheckpointInv ==
    /\ TypeOK
    /\ Heads
    /\ OnlyMarked
    /\ OnePlace
    /\ Drained
    /\ AnchoredOnce
    /\ NothingSwallowed
=============================================================================
