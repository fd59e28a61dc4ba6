--------------------------- MODULE CheckpointProofs ---------------------------
(***************************************************************************)
(* Proofs about Checkpoint: a head that was marked as anchored is in one    *)
(* place at a time, from Observe or Flush to the sinks.                     *)
(***************************************************************************)
EXTENDS Checkpoint, SequenceTheorems, TLAPS

(* The heads of chains are records of a chain and a number. *)
LEMMA HeadRecord ==
    ASSUME TypeOK, NEW c \in Chain, tail[c] > 0
    PROVE  HeadOf(c) \in ChainHead /\ HeadOf(c).chain = c /\ HeadOf(c).seq = tail[c]
BY DEF TypeOK, HeadOf, ChainHead

(* A head that is queued, field by field, and the bounds.                   *)
LEMMA JobRecord ==
    /\ \A j \in ChainHead : /\ j.chain \in Chain /\ j.seq \in 1..MaxSeq /\ j.seq \in Nat
                            /\ j = [chain |-> j.chain, seq |-> j.seq] /\ j # None
    /\ Cadence \in Nat \ {0} /\ Depth \in Nat \ {0}
    /\ MaxSeq \in Nat \ {0} /\ MaxBoots \in Nat \ {0}
BY CheckpointAssumption DEF ChainHead

(* The log decides what is in it, and whether a head is in it twice. *)
LEMMA LogKept ==
    ASSUME log' = log, boot' = boot
    PROVE  \A j, s : InLog(j, s)' <=> InLog(j, s)
BY DEF InLog

(* No head is anchored twice by a step that leaves the log alone.           *)
LEMMA OnceKept ==
    ASSUME AnchoredOnce, log' = log
    PROVE  AnchoredOnce'
BY DEF AnchoredOnce

(* What is appended is the last element, and the others stay. *)
LEMMA Appended ==
    ASSUME NEW S, NEW q \in Seq(S), NEW x \in S, NEW r, r = Append(q, x)
    PROVE  /\ r \in Seq(S) /\ Len(q) \in Nat /\ Len(r) = Len(q) + 1
           /\ \A i \in 1..Len(q) : i \in 1..Len(r) /\ i # Len(r) /\ r[i] = q[i]
           /\ \A i \in 1..Len(r) : i = Len(r) \/ i \in 1..Len(q)
           /\ Len(r) \in 1..Len(r) /\ r[Len(r)] = x
BY AppendProperties, LenProperties

(* The head of a queue is its first element, and the others move up. *)
LEMMA Taken ==
    ASSUME NEW S, NEW q \in Seq(S), q # <<>>, NEW r, r = Tail(q)
    PROVE  /\ r \in Seq(S) /\ Len(q) \in Nat /\ Len(r) = Len(q) - 1 /\ 1 \in 1..Len(q)
           /\ Head(q) = q[1] /\ Head(q) \in S
           /\ \A i \in 1..Len(r) : i + 1 \in 1..Len(q) /\ i + 1 # 1 /\ r[i] = q[i + 1]
           /\ \A i \in 1..Len(q) : i = 1 \/ (i - 1 \in 1..Len(r) /\ r[i - 1] = q[i])
BY HeadTailProperties, LenProperties, EmptySeq, Z3
-----------------------------------------------------------------------------
(* Type correctness. *)
LEMMA InitType == Init => TypeOK
<1>. SUFFICES ASSUME Init PROVE TypeOK
  OBVIOUS
<1>1. 0 \in 0..MaxSeq /\ 0 \in 0..(Cadence - 1) /\ 1 \in 1..MaxBoots
  BY JobRecord
<1>2. /\ <<>> \in Seq(ChainHead) /\ Len(<<>>) <= Depth
      /\ <<>> \in Seq([chain: Chain, seq: 1..MaxSeq, boot: 1..MaxBoots])
  BY JobRecord, EmptySeq
<1>. QED BY <1>1, <1>2, CheckpointAssumption DEF Init, TypeOK

(* What is counted as lost are heads and sinks. *)
LEMMA LostType ==
    ASSUME lost \subseteq ChainHead \X Sink, NEW j \in ChainHead, NEW S \in SUBSET Sink,
           Lose(j, S) \/ UNCHANGED lost
    PROVE  lost' \subseteq ChainHead \X Sink
BY DEF Lose

(* The types, for the commit of a frame,                                    *)
LEMMA TypeHandlers ==
    ASSUME TypeOK, NEW h \in Handler, NEW c \in Chain, HandleFrame(h, c)
    PROVE  TypeOK'
<1>. USE JobRecord DEF durable, handlerVars, markVars, workerVars, flushVars
<1>1. CASE UNCHANGED <<tail, handlerVars>>
  BY <1>1 DEF TypeOK, HandleFrame
<1>2. CASE /\ tail[c] < MaxSeq
           /\ tail' = [tail EXCEPT ![c] = @ + 1]
           /\ UNCHANGED handlerVars
  <2>1. tail' \in [Chain -> 0..MaxSeq]
    <3>1. tail \in [Chain -> 0..MaxSeq]
      BY DEF TypeOK
    <3>2. tail[c] + 1 \in 0..MaxSeq
      BY <1>2, <3>1
    <3>. QED BY <1>2, <3>1, <3>2
  <2>. QED BY <1>2, <2>1 DEF TypeOK, HandleFrame
<1>3. ASSUME NEW n \in {1, 2}, tail[c] + n <= MaxSeq,
             tail' = [tail EXCEPT ![c] = @ + n],
             job'  = [job EXCEPT ![h] = [chain |-> c, seq |-> tail[c] + n]],
             pc'   = [pc EXCEPT ![h] = "observe"]
      PROVE  TypeOK'
  <2>1. tail[c] + n \in 1..MaxSeq /\ [chain |-> c, seq |-> tail[c] + n] \in ChainHead
    BY <1>3 DEF TypeOK, ChainHead
  <2>2. tail' \in [Chain -> 0..MaxSeq]
    <3>1. tail \in [Chain -> 0..MaxSeq] /\ tail[c] + n \in 0..MaxSeq
      BY <2>1 DEF TypeOK
    <3>. QED BY <1>3, <3>1
  <2>3. job' \in [Handler -> ChainHead \union {None}]
    BY <1>3, <2>1 DEF TypeOK
  <2>4. pc' \in [Handler -> {"idle", "observe", "enqueue"}]
    BY <1>3 DEF TypeOK
  <2>. QED BY <2>2, <2>3, <2>4 DEF TypeOK, HandleFrame
<1>. QED BY <1>1, <1>2, <1>3 DEF HandleFrame

(* for the handler that counts towards the cadence,                         *)
LEMMA TypeObserve ==
    ASSUME TypeOK, NEW h \in Handler, Observe(h), job[h] \in ChainHead
    PROVE  TypeOK'
<1>. USE JobRecord DEF durable, handlerVars, markVars, workerVars, flushVars
<1>1. counts' \in [Chain -> 0..(Cadence - 1)]
  <2>1. counts \in [Chain -> 0..(Cadence - 1)]
    BY DEF TypeOK
  <2>2. job[h].chain \in Chain
    OBVIOUS
  <2>3. counts[job[h].chain] \in Nat /\ 0 \in 0..(Cadence - 1)
    BY <2>1, <2>2
  <2>. QED BY <2>1, <2>2, <2>3 DEF Observe
<1>2. pc' \in [Handler -> {"idle", "observe", "enqueue"}]
      /\ job' \in [Handler -> ChainHead \union {None}]
  BY DEF TypeOK, Observe, Idle
<1>3. lastSeq' \in [Chain -> 0..MaxSeq] /\ marked' \subseteq ChainHead
  <2>1. job[h].chain \in Chain /\ job[h].seq \in 0..MaxSeq
    BY DEF ChainHead
  <2>2. CASE Mark(job[h])
    BY <2>1, <2>2 DEF TypeOK, Mark
  <2>. QED BY <2>2 DEF TypeOK, Observe, NoMark
<1>. QED BY <1>1, <1>2, <1>3 DEF TypeOK, Observe

(* for the handler that puts its head in the queue or drops it,             *)
LEMMA TypeEnqueue ==
    ASSUME TypeOK, NEW h \in Handler, Enqueue(h), job[h] \in ChainHead
    PROVE  TypeOK'
<1>. USE JobRecord DEF durable, handlerVars, markVars, workerVars, flushVars
<1>1. pc' \in [Handler -> {"idle", "observe", "enqueue"}]
      /\ job' \in [Handler -> ChainHead \union {None}]
  BY DEF TypeOK, Enqueue, Idle
<1>2. queue' \in Seq(ChainHead) /\ Len(queue') <= Depth
  <2>1. CASE Refused
    BY <2>1 DEF TypeOK, Enqueue
  <2>2. CASE ~Refused
    <3>1. queue' = Append(queue, job[h]) /\ queue \in Seq(ChainHead) /\ ~(Len(queue) >= Depth)
      BY <2>2 DEF TypeOK, Enqueue, Refused
    <3>2. queue' \in Seq(ChainHead) /\ Len(queue) \in Nat /\ Len(queue') = Len(queue) + 1
      BY <3>1, Appended
    <3>. QED BY <3>1, <3>2
  <2>. QED BY <2>1, <2>2
<1>3. lost' \subseteq ChainHead \X Sink
  BY LostType DEF TypeOK, Enqueue
<1>. QED BY <1>1, <1>2, <1>3 DEF TypeOK, Enqueue

(* for the worker between the queue and the sinks,                          *)
LEMMA TypeWorker ==
    ASSUME TypeOK, \/ Take \/ SignFails
                   \/ (\E s \in Sink : WriteSink(s)) /\ busy # None
    PROVE  TypeOK'
<1>. USE JobRecord DEF durable, handlerVars, markVars, workerVars, flushVars
<1>1. CASE Take
  <2>1. /\ queue' \in Seq(ChainHead) /\ Len(queue) \in Nat /\ Len(queue') = Len(queue) - 1
        /\ Head(queue) \in ChainHead
    BY <1>1, Taken DEF TypeOK, Take
  <2>2. Len(queue') <= Depth
    BY <2>1 DEF TypeOK
  <2>. QED BY <1>1, <2>1, <2>2 DEF TypeOK, Take
<1>2. CASE SignFails
  BY <1>2 DEF TypeOK, SignFails, Lose
<1>3. ASSUME NEW s \in Sink, WriteSink(s), busy # None
      PROVE  TypeOK'
  <2>1. lost' \subseteq ChainHead \X Sink
    <3>1. lost \subseteq ChainHead \X Sink /\ busy \in ChainHead
      BY <1>3 DEF TypeOK
    <3>. QED BY <1>3, <3>1, LostType DEF WriteSink
  <2>3. busy' \in ChainHead \union {None} /\ left' \subseteq Sink
    BY <1>3 DEF TypeOK, WriteSink
  <2>2. log' \in [Sink -> Seq([chain: Chain, seq: 1..MaxSeq, boot: 1..MaxBoots])]
    <3>1. [chain |-> busy.chain, seq |-> busy.seq, boot |-> boot]
             \in [chain: Chain, seq: 1..MaxSeq, boot: 1..MaxBoots]
      BY <1>3 DEF TypeOK
    <3>2. CASE log' = log
      BY <3>2 DEF TypeOK
    <3>3. CASE log' = [log EXCEPT ![s] = Append(@, [chain |-> busy.chain, seq |-> busy.seq,
                                                    boot |-> boot])]
      BY <3>1, <3>3, AppendProperties DEF TypeOK
    <3>. QED BY <1>3, <3>2, <3>3 DEF WriteSink
  <2>. QED BY <1>3, <2>1, <2>2, <2>3 DEF TypeOK, WriteSink
<1>. QED BY <1>1, <1>2, <1>3

(* and for what begins and ends a run.                                      *)
LEMMA TypeRun ==
    ASSUME TypeOK, \/ Stop \/ EmitTerminator \/ FlushDone \/ Close \/ Crash \/ Boot
                   \/ (FlushSend /\ flush \in ChainHead)
                   \/ \E c \in Chain : SkipFlush(c) \/ Flush(c)
    PROVE  TypeOK'
<1>. USE JobRecord DEF durable, handlerVars, markVars, workerVars, flushVars
<1>1. CASE Stop \/ FlushDone \/ Close \/ Crash
  BY <1>1 DEF TypeOK, Stop, FlushDone, Close, Crash
<1>2. CASE EmitTerminator
  <2>1. tail' \in [Chain -> 0..MaxSeq] /\ ended' \in BOOLEAN
    <3>1. PICK S \in SUBSET {c \in open : tail[c] \in 1..(MaxSeq - 1)} :
             /\ tail' = [c \in Chain |-> IF c \in S THEN tail[c] + 1 ELSE tail[c]]
             /\ ended' = (Root \in S)
      BY <1>2 DEF EmitTerminator
    <3>2. \A c \in Chain : tail[c] \in 0..MaxSeq /\ (c \in S => tail[c] + 1 \in 0..MaxSeq)
      <4>1. tail \in [Chain -> 0..MaxSeq]
        BY DEF TypeOK
      <4>. QED BY <3>1, <4>1
    <3>. QED BY <3>1, <3>2
  <2>2. phase' \in {"flushing", "closing"} /\ toFlush' \subseteq Chain
    BY <1>2 DEF TypeOK, EmitTerminator
  <2>. QED BY <1>2, <2>1, <2>2 DEF TypeOK, EmitTerminator
<1>3. CASE Boot
  <2>1. boot' \in 1..MaxBoots /\ 0 \in 0..MaxSeq /\ 0 \in 0..(Cadence - 1)
    BY <1>3 DEF TypeOK, Boot
  <2>2. <<>> \in Seq(ChainHead) /\ Len(<<>>) <= Depth
    BY EmptySeq
  <2>. QED BY <1>3, <2>1, <2>2, CheckpointAssumption DEF TypeOK, Boot
<1>4. CASE FlushSend /\ flush \in ChainHead
  <2>1. queue' \in Seq(ChainHead) /\ Len(queue) \in Nat /\ Len(queue') = Len(queue) + 1
    BY <1>4, Appended DEF TypeOK, FlushSend
  <2>2. Len(queue') <= Depth
    BY <1>4, <2>1 DEF FlushSend
  <2>. QED BY <1>4, <2>1, <2>2 DEF TypeOK, FlushSend
<1>5. ASSUME NEW c \in Chain, SkipFlush(c) PROVE TypeOK'
  BY <1>5 DEF TypeOK, SkipFlush, Visit
<1>6. ASSUME NEW c \in Chain, Flush(c) PROVE TypeOK'
  <2>1. HeadOf(c) \in ChainHead /\ HeadOf(c).chain = c /\ HeadOf(c).seq = tail[c]
    BY <1>6, HeadRecord DEF Flush, TypeOK
  <2>2. counts' \in [Chain -> 0..(Cadence - 1)]
    <3>1. counts \in [Chain -> 0..(Cadence - 1)]
      BY DEF TypeOK
    <3>2. 0 \in 0..(Cadence - 1)
      OBVIOUS
    <3>. QED BY <1>6, <3>1, <3>2 DEF Flush
  <2>3. lastSeq' \in [Chain -> 0..MaxSeq]
    <3>1. lastSeq \in [Chain -> 0..MaxSeq] /\ tail[c] \in 0..MaxSeq
      BY DEF TypeOK
    <3>. QED BY <1>6, <2>1, <3>1 DEF Flush, Mark, NoMark
  <2>4. marked' \subseteq ChainHead
    BY <1>6, <2>1 DEF TypeOK, Flush, Mark, NoMark
  <2>5. flush' \in ChainHead \union {None} /\ phase' \in {"flushing", "sending"}
    BY <1>6, <2>1 DEF TypeOK, Flush, Visit
  <2>6. flushed' \subseteq Chain /\ toFlush' \subseteq Chain
    BY <1>6 DEF TypeOK, Flush, Visit
  <2>. QED BY <1>6, <2>2, <2>3, <2>4, <2>5, <2>6 DEF TypeOK, Flush, Visit
<1>. QED BY <1>1, <1>2, <1>3, <1>4, <1>5, <1>6
-----------------------------------------------------------------------------
(* What every step of the invariant uses of the types. *)
LEMMA Basics ==
    ASSUME CheckpointInv
    PROVE  /\ TypeOK /\ Heads /\ OnlyMarked /\ OnePlace /\ Drained /\ AnchoredOnce
           /\ NothingSwallowed /\ AnchoredIsStored
           /\ \A c \in Chain : tail[c] \in Nat /\ lastSeq[c] \in Nat
           /\ \A h \in Handler : pc[h] # "idle" => job[h] \in ChainHead
           /\ phase = "sending" => flush \in ChainHead
           /\ (\E s : s \in left) => busy # None
           /\ \A j \in marked : j \in ChainHead
           /\ \A i \in 1..Len(queue) : queue[i] \in ChainHead
<1>1. /\ TypeOK /\ Heads /\ OnlyMarked /\ OnePlace /\ Drained /\ AnchoredOnce
      /\ NothingSwallowed /\ AnchoredIsStored
  BY DEF CheckpointInv, Heads
<1>2. /\ tail \in [Chain -> 0..MaxSeq] /\ lastSeq \in [Chain -> 0..MaxSeq]
      /\ marked \subseteq ChainHead /\ queue \in Seq(ChainHead)
  BY <1>1 DEF TypeOK
<1>3. \A h \in Handler : pc[h] # "idle" => job[h] \in ChainHead
  BY <1>1 DEF Heads
<1>4. phase = "sending" => flush \in ChainHead
  BY <1>1, <1>2 DEF OnlyMarked
<1>5. (\E s : s \in left) => busy # None
  BY <1>1 DEF OnePlace
<1>6. \A i \in 1..Len(queue) : queue[i] \in ChainHead
  BY <1>2, ElementOfSeq
<1>. QED BY <1>1, <1>2, <1>3, <1>4, <1>5, <1>6, JobRecord

(* Stored receipts only get more, and the log and the marks stay. *)
LEMMA HeadsKept ==
    ASSUME CheckpointInv, UNCHANGED <<log, lastSeq, marked>>,
           \A c \in Chain : tail'[c] \in Nat /\ tail[c] <= tail'[c],
           \A h \in Handler : pc'[h] # "idle" =>
              \/ pc[h] # "idle" /\ job'[h] = job[h]
              \/ job'[h] \in ChainHead /\ job'[h].seq <= tail'[job'[h].chain]
    PROVE  Heads'
<1>. USE Basics, JobRecord
<1>1. \A h \in Handler : pc'[h] # "idle" =>
         job'[h] \in ChainHead /\ job'[h].seq <= tail'[job'[h].chain]
  <2>. SUFFICES ASSUME NEW h \in Handler, pc[h] # "idle"
                PROVE  job[h] \in ChainHead /\ job[h].seq <= tail'[job[h].chain]
    OBVIOUS
  <2>1. job[h] \in ChainHead /\ job[h].seq <= tail[job[h].chain]
    BY DEF Heads
  <2>. QED BY <2>1
<1>2. \A j \in marked : j.seq <= tail'[j.chain] /\ j.seq <= lastSeq[j.chain]
  <2>. SUFFICES ASSUME NEW j \in marked
                PROVE  j.seq <= tail'[j.chain] /\ j.seq <= lastSeq[j.chain]
    OBVIOUS
  <2>1. j.seq <= tail[j.chain] /\ j.seq <= lastSeq[j.chain] /\ j.chain \in Chain /\ j.seq \in Nat
    BY DEF Heads
  <2>. QED BY <2>1
<1>3. AnchoredIsStored'
  <2>. SUFFICES ASSUME NEW s \in Sink, NEW i \in 1..Len(log[s])
                PROVE  log[s][i].seq <= tail'[log[s][i].chain]
    BY DEF AnchoredIsStored
  <2>1. log[s][i].chain \in Chain /\ log[s][i].seq \in Nat
    <3>1. log[s] \in Seq([chain: Chain, seq: 1..MaxSeq, boot: 1..MaxBoots])
      BY DEF TypeOK
    <3>2. log[s][i] \in [chain: Chain, seq: 1..MaxSeq, boot: 1..MaxBoots]
      BY <3>1, ElementOfSeq
    <3>. QED BY <3>2
  <2>2. log[s][i].seq <= tail[log[s][i].chain]
    BY DEF AnchoredIsStored
  <2>. QED BY <2>1, <2>2
<1>. QED BY <1>1, <1>2, <1>3 DEF Heads

(* A step that moves no marked head: what is on its way stays there. *)
LEMMA Quiet ==
    ASSUME CheckpointInv, UNCHANGED <<log, boot, marked, workerVars, lost>>,
           \A g \in Handler : /\ pc'[g] = "enqueue" <=> pc[g] = "enqueue"
                              /\ pc[g] = "enqueue" => job'[g] = job[g],
           phase' = "sending" => phase = "sending" /\ flush' = flush,
           phase' \notin {"crashed", "off"} => Up /\ (phase = "sending" => phase' = "sending"),
           phase' = "off" => \/ phase = "off"
                             \/ Up /\ phase # "sending" /\ queue = <<>> /\ busy = None
                                   /\ \A h \in Handler : pc[h] = "idle"
    PROVE  OnlyMarked' /\ OnePlace' /\ AnchoredOnce' /\ NothingSwallowed'
<1>. USE Basics DEF workerVars
<1>1. OnlyMarked'
  BY DEF OnlyMarked
<1>2. \A j, s : InLog(j, s)' <=> InLog(j, s)
  BY LogKept
<1>3. OnePlace'
  <2>. HIDE DEF InLog
  <2>. QED BY <1>2 DEF OnePlace
<1>4. AnchoredOnce'
  BY OnceKept
<1>5. NothingSwallowed'
  <2>1. ASSUME Up', NEW j \in marked, NEW s \in Sink
        PROVE  (InLog(j, s) \/ InFlight(j, s)' \/ <<j, s>> \in lost)
    BY <2>1 DEF NothingSwallowed, InFlight, Up
  <2>2. ASSUME phase' = "off", NEW j \in marked, NEW s \in Sink
        PROVE  InLog(j, s) \/ <<j, s>> \in lost
    <3>1. CASE phase = "off"
      BY <3>1 DEF NothingSwallowed
    <3>2. CASE Up /\ phase # "sending" /\ queue = <<>> /\ busy = None
               /\ \A h \in Handler : pc[h] = "idle"
      <4>1. j # None
        BY JobRecord
      <4>2. ~InFlight(j, s)
        BY <3>2, <4>1 DEF InFlight
      <4>. QED BY <3>2, <4>2 DEF NothingSwallowed
    <3>. QED BY <2>2, <3>1, <3>2
  <2>. QED BY <1>2, <2>1, <2>2 DEF NothingSwallowed
<1>. QED BY <1>1, <1>3, <1>4, <1>5
-----------------------------------------------------------------------------
(* The callers of the emitter in the pipeline. *)
LEMMA FrameStep ==
    ASSUME CheckpointInv, NEW h \in Handler, NEW c \in Chain, HandleFrame(h, c)
    PROVE  CheckpointInv'
<1>. USE Basics, JobRecord DEF durable, handlerVars, markVars, workerVars, flushVars
<1>1. TypeOK'
  BY TypeHandlers
<1>2. /\ phase = "serving" /\ phase' = phase /\ pc[h] = "idle"
      /\ UNCHANGED <<log, boot, lastSeq, marked, queue, busy, left, lost, flushed, flush>>
  BY DEF HandleFrame
<1>3. PICK n \in 0..2 : tail[c] + n <= MaxSeq /\ tail' = [tail EXCEPT ![c] = tail[c] + n]
  <2>1. tail \in [Chain -> 0..MaxSeq]
    BY DEF TypeOK
  <2>2. CASE tail' = tail
    BY <2>1, <2>2
  <2>3. CASE \E n \in {1, 2} : tail[c] + n <= MaxSeq /\ tail' = [tail EXCEPT ![c] = tail[c] + n]
    <3>1. PICK n \in {1, 2} : tail[c] + n <= MaxSeq /\ tail' = [tail EXCEPT ![c] = tail[c] + n]
      BY <2>3
    <3>2. n \in 0..2
      OBVIOUS
    <3>. QED BY <3>1, <3>2
  <2>. QED BY <2>1, <2>2, <2>3 DEF HandleFrame
<1>4. tail \in [Chain -> 0..MaxSeq]
  BY DEF TypeOK
<1>5. \A d \in Chain : tail'[d] \in Nat /\ tail[d] <= tail'[d]
  BY <1>3, <1>4
<1>6. \A g \in Handler : \/ pc'[g] = pc[g] /\ job'[g] = job[g]
                         \/ /\ pc[g] = "idle" /\ pc'[g] = "observe"
                            /\ job'[g] \in ChainHead /\ job'[g].seq <= tail'[job'[g].chain]
  <2>1. CASE UNCHANGED handlerVars
    BY <2>1
  <2>2. ASSUME NEW m \in {1, 2}, tail[c] + m <= MaxSeq,
               tail' = [tail EXCEPT ![c] = @ + m],
               job' = [job EXCEPT ![h] = [chain |-> c, seq |-> tail[c] + m]],
               pc' = [pc EXCEPT ![h] = "observe"]
        PROVE  \A g \in Handler : \/ pc'[g] = pc[g] /\ job'[g] = job[g]
                         \/ /\ pc[g] = "idle" /\ pc'[g] = "observe"
                            /\ job'[g] \in ChainHead /\ job'[g].seq <= tail'[job'[g].chain]
    <3>1. pc \in [Handler -> {"idle", "observe", "enqueue"}]
          /\ job \in [Handler -> ChainHead \union {None}]
      BY DEF TypeOK
    <3>2. tail[c] + m \in 1..MaxSeq /\ tail'[c] = tail[c] + m
      BY <1>4, <2>2
    <3>3. job'[h] = [chain |-> c, seq |-> tail[c] + m] /\ job'[h] \in ChainHead
      BY <2>2, <3>1, <3>2 DEF ChainHead
    <3>. QED BY <1>2, <2>2, <3>1, <3>2, <3>3
  <2>. QED BY <2>1, <2>2 DEF HandleFrame
<1>7. Heads'
  BY <1>2, <1>5, <1>6, HeadsKept
<1>8. OnlyMarked' /\ OnePlace' /\ AnchoredOnce' /\ NothingSwallowed'
  BY <1>2, <1>6, Quiet DEF Up
<1>9. Drained'
  BY <1>2 DEF Drained
<1>. QED BY <1>1, <1>7, <1>8, <1>9 DEF CheckpointInv

(* Nothing that is on its way or anchored in this run is unmarked. *)
LEMMA Unmarked ==
    ASSUME CheckpointInv, NEW j \in ChainHead, MarkEmit(j)
    PROVE  /\ j \notin marked
           /\ \A h \in Handler : pc[h] = "enqueue" => job[h] # j
           /\ \A i \in 1..Len(queue) : queue[i] # j
           /\ busy # j
           /\ phase = "sending" => flush # j
           /\ \A s \in Sink : ~InLog(j, s)
<1>. USE Basics, JobRecord
<1>1. j \notin marked
  <2>. SUFFICES ASSUME j \in marked PROVE FALSE
    OBVIOUS
  <2>1. j.seq <= lastSeq[j.chain] /\ j.seq \in Nat /\ lastSeq[j.chain] \in Nat
    BY DEF Heads
  <2>. QED BY <2>1 DEF MarkEmit
<1>2. \A s \in Sink : ~InLog(j, s)
  <2>. SUFFICES ASSUME NEW s \in Sink, NEW i \in 1..Len(log[s]),
                       log[s][i] = [chain |-> j.chain, seq |-> j.seq, boot |-> boot]
                PROVE  FALSE
    BY DEF InLog
  <2>1. [chain |-> log[s][i].chain, seq |-> log[s][i].seq] \in marked
    BY DEF OnlyMarked
  <2>. QED BY <1>1, <2>1
<1>. QED BY <1>1, <1>2 DEF OnlyMarked

(* Marking a head keeps the heads in order. *)
LEMMA MarkHeads ==
    ASSUME CheckpointInv, NEW j \in ChainHead, j.seq <= tail[j.chain], MarkEmit(j), Mark(j),
           UNCHANGED <<tail, log>>,
           \A h \in Handler : pc'[h] # "idle" => pc[h] # "idle" /\ job'[h] = job[h]
    PROVE  Heads'
<1>. USE Basics, JobRecord
<1>1. \A h \in Handler : pc'[h] # "idle" =>
         job'[h] \in ChainHead /\ job'[h].seq <= tail[job'[h].chain]
  BY DEF Heads
<1>2. lastSeq \in [Chain -> 0..MaxSeq] /\ lastSeq[j.chain] < j.seq /\ j.seq \in Nat
      /\ j.chain \in Chain /\ lastSeq'[j.chain] = j.seq
      /\ \A c \in Chain : lastSeq[c] <= lastSeq'[c] /\ lastSeq'[c] \in Nat
  <2>1. lastSeq \in [Chain -> 0..MaxSeq] /\ lastSeq' = [lastSeq EXCEPT ![j.chain] = j.seq]
        /\ j.seq > lastSeq[j.chain] /\ j.chain \in Chain /\ j.seq \in Nat
    BY DEF TypeOK, Mark, MarkEmit
  <2>2. \A c \in Chain : lastSeq[c] \in Nat
    BY <2>1
  <2>. QED BY <2>1, <2>2
<1>3. \A i \in marked' : i.seq <= tail[i.chain] /\ i.seq <= lastSeq'[i.chain]
  <2>. SUFFICES ASSUME NEW i \in marked PROVE i.seq <= tail[i.chain] /\ i.seq <= lastSeq'[i.chain]
    BY <1>2 DEF Mark
  <2>1. i.seq <= tail[i.chain] /\ i.seq <= lastSeq[i.chain] /\ i.chain \in Chain /\ i.seq \in Nat
    BY DEF Heads
  <2>. QED BY <1>2, <2>1
<1>4. \A c \in Chain : lastSeq'[c] # 0 => [chain |-> c, seq |-> lastSeq'[c]] \in marked'
  <2>. TAKE c \in Chain
  <2>1. CASE c = j.chain
    BY <1>2, <2>1 DEF Mark
  <2>2. CASE c # j.chain
    BY <1>2, <2>2 DEF Mark, Heads
  <2>. QED BY <2>1, <2>2
<1>5. AnchoredIsStored'
  BY DEF AnchoredIsStored
<1>. QED BY <1>1, <1>3, <1>4, <1>5 DEF Heads

(* Counting: a head that is due is marked, and is at or below the tail of   *)
(* its chain.                                                               *)
LEMMA ObserveStep ==
    ASSUME CheckpointInv, NEW h \in Handler, Observe(h)
    PROVE  CheckpointInv'
<1>. DEFINE j == job[h]
<1>. USE Basics, JobRecord DEF durable, handlerVars, markVars, workerVars, flushVars
<1>1. /\ pc[h] = "observe" /\ j \in ChainHead /\ j.seq <= tail[j.chain]
      /\ phase' = phase /\ phase \notin {"flushing", "sending", "waiting", "closing", "off"}
      /\ UNCHANGED <<tail, log, boot, queue, busy, left, lost, flushed, flush>>
  BY DEF Observe, Heads, Drained
<1>2. TypeOK'
  BY <1>1, TypeObserve
<1>3. pc \in [Handler -> {"idle", "observe", "enqueue"}]
      /\ job \in [Handler -> ChainHead \union {None}]
  BY DEF TypeOK
<1>4. \A c \in Chain : tail'[c] \in Nat /\ tail[c] <= tail'[c]
  BY <1>1
<1>5. CASE NoMark /\ Idle(h)
  <2>1. \A g \in Handler : g # h => pc'[g] = pc[g] /\ job'[g] = job[g]
    BY <1>3, <1>5 DEF Idle
  <2>2. pc'[h] = "idle"
    BY <1>3, <1>5 DEF Idle
  <2>3. Heads'
    BY <1>1, <1>4, <1>5, <2>1, <2>2, HeadsKept DEF NoMark
  <2>4. OnlyMarked' /\ OnePlace' /\ AnchoredOnce' /\ NothingSwallowed'
    BY <1>1, <1>5, <2>1, <2>2, Quiet DEF NoMark, Up
  <2>5. Drained'
    BY <1>1, <1>5 DEF Drained, NoMark, HeadOf
  <2>. QED BY <1>2, <2>3, <2>4, <2>5 DEF CheckpointInv
<1>6. CASE MarkEmit(j) /\ Mark(j) /\ pc' = [pc EXCEPT ![h] = "enqueue"] /\ UNCHANGED job
  <2>1. /\ pc'[h] = "enqueue" /\ job' = job
        /\ \A g \in Handler : g # h => pc'[g] = pc[g]
        /\ marked' = marked \union {j}
    BY <1>3, <1>6 DEF Mark
  <2>2. Heads'
    BY <1>1, <1>6, <2>1, MarkHeads
  <2>3. /\ \A g \in Handler : pc[g] = "enqueue" => job[g] # j
        /\ \A i \in 1..Len(queue) : queue[i] # j
        /\ busy # j
        /\ \A s \in Sink : ~InLog(j, s)
    BY <1>1, <1>6, Unmarked
  <2>4. OnlyMarked'
    BY <1>1, <2>1 DEF OnlyMarked
  <2>5. \A i, s : InLog(i, s)' <=> InLog(i, s)
    BY <1>1, LogKept
  <2>6. OnePlace'
    <3>. HIDE DEF InLog
    <3>. QED BY <1>1, <2>1, <2>3, <2>5, ZenonT(30) DEF OnePlace
  <2>7. AnchoredOnce'
    BY <1>1, OnceKept
  <2>8. NothingSwallowed'
    <3>1. \A i \in marked, s \in Sink : InFlight(i, s) => InFlight(i, s)'
      BY <1>1, <2>1 DEF InFlight
    <3>2. \A s \in Sink : InFlight(j, s)'
      BY <2>1 DEF InFlight
    <3>. QED BY <1>1, <2>1, <2>5, <3>1, <3>2 DEF NothingSwallowed, Up
  <2>9. Drained'
    BY <1>1, <2>1 DEF Drained, HeadOf
  <2>. QED BY <1>2, <2>2, <2>4, <2>6, <2>7, <2>8, <2>9 DEF CheckpointInv
<1>. QED BY <1>5, <1>6 DEF Observe

(* A marked head goes to the queue, or is counted as lost at every sink.    *)
LEMMA EnqueueStep ==
    ASSUME CheckpointInv, NEW h \in Handler, Enqueue(h)
    PROVE  CheckpointInv'
<1>. DEFINE j == job[h]
<1>. USE Basics, JobRecord DEF durable, handlerVars, markVars, workerVars, flushVars
<1>1. /\ pc[h] = "enqueue" /\ j \in ChainHead /\ j \in marked
      /\ phase' = phase /\ phase \notin {"flushing", "sending", "waiting", "closing", "off"}
      /\ UNCHANGED <<tail, log, boot, busy, left, flushed, flush, lastSeq, marked>>
  BY DEF Enqueue, OnlyMarked, Drained
<1>2. TypeOK'
  BY <1>1, TypeEnqueue
<1>3. /\ pc'[h] = "idle"
      /\ \A g \in Handler : g # h => pc'[g] = pc[g] /\ job'[g] = job[g]
  BY DEF TypeOK, Enqueue, Idle
<1>4. Heads'
  BY <1>1, <1>3, HeadsKept
<1>5. \A i, s : InLog(i, s)' <=> InLog(i, s)
  BY <1>1, LogKept
<1>6. AnchoredOnce'
  BY <1>1, OnceKept
<1>7. Drained'
  BY <1>1 DEF Drained, HeadOf
<1>8. CASE Lose(j, Sink) /\ UNCHANGED queue
  <2>1. OnlyMarked'
    BY <1>1, <1>3, <1>8 DEF OnlyMarked
  <2>2. OnePlace'
    <3>. HIDE DEF InLog
    <3>. QED BY <1>1, <1>3, <1>5, <1>8, SMTT(30) DEF OnePlace
  <2>3. NothingSwallowed'
    <3>1. \A i \in marked, s \in Sink : i # j /\ InFlight(i, s) => InFlight(i, s)'
      BY <1>1, <1>3, <1>8 DEF InFlight
    <3>2. \A s \in Sink : <<j, s>> \in lost'
      BY <1>8 DEF Lose
    <3>3. lost \subseteq lost'
      BY <1>8 DEF Lose
    <3>. QED BY <1>1, <1>5, <3>1, <3>2, <3>3 DEF NothingSwallowed, Up
  <2>. QED BY <1>2, <1>4, <1>6, <1>7, <2>1, <2>2, <2>3 DEF CheckpointInv
<1>9. CASE queue' = Append(queue, j) /\ UNCHANGED lost
  <2>1. /\ Len(queue') = Len(queue) + 1 /\ Len(queue) \in Nat
        /\ \A i \in 1..Len(queue) : i \in 1..Len(queue') /\ i # Len(queue') /\ queue'[i] = queue[i]
        /\ \A i \in 1..Len(queue') : i = Len(queue') \/ i \in 1..Len(queue)
        /\ Len(queue') \in 1..Len(queue') /\ queue'[Len(queue')] = j
    <3>1. queue \in Seq(ChainHead)
      BY DEF TypeOK
    <3>. QED BY <1>1, <1>9, <3>1, Appended
  <2>2. OnlyMarked'
    BY <1>1, <1>3, <2>1 DEF OnlyMarked
  <2>3. OnePlace'
    <3>. HIDE DEF InLog
    <3>1. \A g \in Handler : pc'[g] = "enqueue" =>
            /\ \A f \in Handler \ {g} : pc'[f] = "enqueue" => job'[f] # job'[g]
            /\ \A i \in 1..Len(queue') : queue'[i] # job'[g]
            /\ busy # job'[g]
            /\ \A s \in Sink : ~InLog(job'[g], s)
      <4>. SUFFICES ASSUME NEW g \in Handler, g # h, pc[g] = "enqueue"
                    PROVE  /\ \A f \in Handler \ {g} : pc'[f] = "enqueue" => job'[f] # job[g]
                           /\ \A i \in 1..Len(queue') : queue'[i] # job[g]
                           /\ busy # job[g]
                           /\ \A s \in Sink : ~InLog(job[g], s)
        BY <1>3
      <4>1. job[h] # job[g] /\ busy # job[g] /\ \A s \in Sink : ~InLog(job[g], s)
        BY <1>1 DEF OnePlace
      <4>2. \A f \in Handler \ {g} : pc'[f] = "enqueue" => job'[f] # job[g]
        BY <1>3 DEF OnePlace
      <4>3. \A i \in 1..Len(queue) : queue[i] # job[g]
        BY DEF OnePlace
      <4>. QED BY <2>1, <4>1, <4>2, <4>3
    <3>2. \A i \in 1..Len(queue') :
            /\ \A k \in 1..Len(queue') : k # i => queue'[k] # queue'[i]
            /\ busy # queue'[i]
            /\ \A s \in Sink : ~InLog(queue'[i], s)
      BY <1>1, <2>1 DEF OnePlace
    <3>3. \A s \in left : busy # None /\ ~InLog(busy, s)
      BY DEF OnePlace
    <3>. QED BY <1>1, <1>5, <3>1, <3>2, <3>3 DEF OnePlace
  <2>4. NothingSwallowed'
    <3>1. \A i \in marked, s \in Sink : InFlight(i, s) => InFlight(i, s)'
      BY <1>1, <1>3, <2>1 DEF InFlight
    <3>. QED BY <1>1, <1>5, <1>9, <3>1 DEF NothingSwallowed, Up
  <2>. QED BY <1>2, <1>4, <1>6, <1>7, <2>2, <2>3, <2>4 DEF CheckpointInv
<1>. QED BY <1>8, <1>9 DEF Enqueue
-----------------------------------------------------------------------------
(* The worker goroutine. *)
LEMMA TakeStep ==
    ASSUME CheckpointInv, Take
    PROVE  CheckpointInv'
<1>. USE Basics, JobRecord DEF durable, handlerVars, markVars, workerVars, flushVars
<1>1. /\ busy = None /\ queue # <<>> /\ busy' = Head(queue) /\ queue' = Tail(queue) /\ left' = Sink
      /\ phase' = phase /\ Up
      /\ UNCHANGED <<tail, log, boot, flushed, flush, lastSeq, marked, pc, job, lost>>
  BY DEF Take
<1>2. TypeOK'
  BY TypeWorker
<1>3. /\ Len(queue') = Len(queue) - 1 /\ Len(queue) \in Nat /\ 1 \in 1..Len(queue)
      /\ busy' = queue[1] /\ busy' \in ChainHead
      /\ \A i \in 1..Len(queue') : i + 1 \in 1..Len(queue) /\ i + 1 # 1 /\ queue'[i] = queue[i + 1]
      /\ \A i \in 1..Len(queue) : i = 1 \/ (i - 1 \in 1..Len(queue') /\ queue'[i - 1] = queue[i])
  <2>1. queue \in Seq(ChainHead)
    BY DEF TypeOK
  <2>. QED BY <1>1, <2>1, Taken, SMTT(30)
<1>4. Heads'
  BY <1>1, HeadsKept
<1>5. \A i, s : InLog(i, s)' <=> InLog(i, s)
  BY <1>1, LogKept
<1>6. AnchoredOnce'
  BY <1>1, OnceKept
<1>7. Drained'
  BY <1>1 DEF Drained, HeadOf
<1>8. OnlyMarked'
  BY <1>1, <1>3 DEF OnlyMarked
<1>9. OnePlace'
  <2>. HIDE DEF InLog
  <2>1. \A h \in Handler : pc[h] = "enqueue" =>
          /\ \A g \in Handler \ {h} : pc[g] = "enqueue" => job[g] # job[h]
          /\ \A i \in 1..Len(queue') : queue'[i] # job[h]
          /\ busy' # job[h]
          /\ \A s \in Sink : ~InLog(job[h], s)
    BY <1>3 DEF OnePlace
  <2>2. \A i \in 1..Len(queue') :
          /\ \A k \in 1..Len(queue') : k # i => queue'[k] # queue'[i]
          /\ busy' # queue'[i]
          /\ \A s \in Sink : ~InLog(queue'[i], s)
    <3>. TAKE i \in 1..Len(queue')
    <3>1. i + 1 \in 1..Len(queue) /\ i + 1 # 1 /\ queue'[i] = queue[i + 1] /\ i \in Int
      BY <1>3
    <3>2. ASSUME NEW k \in 1..Len(queue'), k # i PROVE queue'[k] # queue'[i]
      <4>1. k + 1 \in 1..Len(queue) /\ k + 1 # i + 1 /\ queue'[k] = queue[k + 1]
        BY <1>3, <3>1, <3>2
      <4>. QED BY <3>1, <4>1 DEF OnePlace
    <3>3. busy' # queue'[i] /\ \A s \in Sink : ~InLog(queue'[i], s)
      BY <1>3, <3>1 DEF OnePlace
    <3>. QED BY <3>2, <3>3
  <2>3. phase = "sending" =>
          /\ \A i \in 1..Len(queue') : queue'[i] # flush
          /\ busy' # flush
          /\ \A s \in Sink : ~InLog(flush, s)
    BY <1>3 DEF OnePlace
  <2>4. \A s \in Sink : ~InLog(busy', s)
    BY <1>3 DEF OnePlace
  <2>. QED BY <1>1, <1>3, <1>5, <2>1, <2>2, <2>3, <2>4 DEF OnePlace
<1>10. NothingSwallowed'
  <2>1. \A i \in marked, s \in Sink : InFlight(i, s) => InFlight(i, s)'
    <3>. SUFFICES ASSUME NEW i \in marked, NEW s \in Sink, InFlight(i, s)
                  PROVE  InFlight(i, s)'
      OBVIOUS
    <3>1. CASE \E k \in 1..Len(queue) : queue[k] = i
      <4>1. busy' = i \/ \E k \in 1..Len(queue') : queue'[k] = i
        BY <1>3, <3>1
      <4>. QED BY <1>1, <4>1 DEF InFlight
    <3>2. CASE (\E h \in Handler : pc[h] = "enqueue" /\ job[h] = i)
               \/ (phase = "sending" /\ flush = i)
      BY <1>1, <3>2 DEF InFlight
    <3>3. busy # i
      BY <1>1
    <3>. QED BY <3>1, <3>2, <3>3 DEF InFlight
  <2>. QED BY <1>1, <1>5, <2>1 DEF NothingSwallowed, Up
<1>. QED BY <1>2, <1>4, <1>6, <1>7, <1>8, <1>9, <1>10 DEF CheckpointInv

(* A head that cannot be signed is lost at every sink, and so is not        *)
(* swallowed.                                                               *)
LEMMA SignFailsStep ==
    ASSUME CheckpointInv, SignFails
    PROVE  CheckpointInv'
<1>. USE Basics, JobRecord DEF durable, handlerVars, markVars, workerVars, flushVars
<1>1. /\ busy # None /\ busy' = None /\ left' = {} /\ lost' = lost \union ({busy} \X Sink)
      /\ phase' = phase /\ Up
      /\ UNCHANGED <<tail, log, boot, flushed, flush, lastSeq, marked, pc, job, queue>>
  BY DEF SignFails, Lose
<1>2. TypeOK'
  BY TypeWorker
<1>3. Heads'
  BY <1>1, HeadsKept
<1>4. \A i, s : InLog(i, s)' <=> InLog(i, s)
  BY <1>1, LogKept
<1>5. AnchoredOnce'
  BY <1>1, OnceKept
<1>6. Drained'
  BY <1>1 DEF Drained, HeadOf
<1>7. OnlyMarked'
  BY <1>1 DEF OnlyMarked
<1>8. OnePlace'
  <2>. HIDE DEF InLog
  <2>1. \A h \in Handler : pc[h] = "enqueue" => None # job[h]
    OBVIOUS
  <2>2. \A i \in 1..Len(queue) : None # queue[i]
    OBVIOUS
  <2>. QED BY <1>1, <1>4, <2>1, <2>2 DEF OnePlace
<1>9. NothingSwallowed'
  <2>1. \A i \in marked, s \in Sink : i # busy /\ InFlight(i, s) => InFlight(i, s)'
    BY <1>1 DEF InFlight
  <2>2. \A s \in Sink : <<busy, s>> \in lost'
    BY <1>1
  <2>. QED BY <1>1, <1>4, <2>1, <2>2 DEF NothingSwallowed, Up
<1>. QED BY <1>2, <1>3, <1>5, <1>6, <1>7, <1>8, <1>9 DEF CheckpointInv

(* What a sink that takes a record has in its log. *)
LEMMA Written ==
    ASSUME CheckpointInv, NEW s \in Sink, WriteSink(s)
    PROVE  /\ busy \in ChainHead /\ busy \in marked /\ ~InLog(busy, s)
           /\ \A t \in Sink : log[t] \in Seq([chain: Chain, seq: 1..MaxSeq, boot: 1..MaxBoots])
           /\ \A t \in Sink : t # s => log'[t] = log[t]
           /\ \/ log' = log
              \/ log'[s] = Append(log[s], [chain |-> busy.chain, seq |-> busy.seq, boot |-> boot])
           /\ [chain |-> busy.chain, seq |-> busy.seq, boot |-> boot]
                 \in [chain: Chain, seq: 1..MaxSeq, boot: 1..MaxBoots]
<1>. USE Basics, JobRecord
<1>1. s \in left /\ busy # None
  BY DEF WriteSink
<1>2. busy \in ChainHead /\ busy \in marked /\ ~InLog(busy, s)
  BY <1>1 DEF OnlyMarked, OnePlace
<1>3. log \in [Sink -> Seq([chain: Chain, seq: 1..MaxSeq, boot: 1..MaxBoots])]
      /\ boot \in 1..MaxBoots
  BY DEF TypeOK
<1>4. log' = log \/
      log' = [log EXCEPT ![s] = Append(@, [chain |-> busy.chain, seq |-> busy.seq, boot |-> boot])]
  BY DEF WriteSink
<1>5. [chain |-> busy.chain, seq |-> busy.seq, boot |-> boot]
         \in [chain: Chain, seq: 1..MaxSeq, boot: 1..MaxBoots]
  BY <1>2, <1>3
<1>6. log' = log
      \/ log'[s] = Append(log[s], [chain |-> busy.chain, seq |-> busy.seq, boot |-> boot])
  BY <1>3, <1>4
<1>7. \A t \in Sink : t # s => log'[t] = log[t]
  BY <1>3, <1>4
<1>. QED BY <1>2, <1>3, <1>5, <1>6, <1>7

(* A record in the log is of a head that the store holds and that no        *)
(* earlier record has; a write that fails is counted.                       *)
LEMMA WriteStep ==
    ASSUME CheckpointInv, NEW s \in Sink, WriteSink(s), NEW b, b = busy
    PROVE  CheckpointInv'
<1>. DEFINE rec == [chain |-> b.chain, seq |-> b.seq, boot |-> boot]
            Record == [chain: Chain, seq: 1..MaxSeq, boot: 1..MaxBoots]
<1>. USE Basics, JobRecord DEF durable, handlerVars, markVars, workerVars, flushVars
<1>1. /\ s \in left /\ left' = left \ {s} /\ busy' = (IF left' = {} THEN None ELSE b)
      /\ lost \subseteq lost' /\ (log' = log => <<b, s>> \in lost')
      /\ phase' = phase /\ Up
      /\ UNCHANGED <<tail, boot, flushed, flush, lastSeq, marked, pc, job, queue>>
  <2>1. PICK wrote \in BOOLEAN, err \in BOOLEAN :
           /\ wrote \/ err
           /\ ~wrote => log' = log
           /\ IF err THEN Lose(busy, {s}) ELSE UNCHANGED lost
           /\ wrote => log' = [log EXCEPT ![s] = Append(@, rec)]
    BY DEF WriteSink
  <2>2. lost \subseteq lost' /\ (err => <<b, s>> \in lost')
    BY <2>1 DEF Lose
  <2>3. wrote => log' # log
    <3>. HIDE DEF rec
    <3>. SUFFICES ASSUME log' = [log EXCEPT ![s] = Append(@, rec)], log' = log PROVE FALSE
      BY <2>1
    <3>1. log[s] \in Seq(Record) /\ rec \in Record /\ log[s] = Append(log[s], rec)
      BY Written DEF TypeOK, rec
    <3>. QED BY <3>1, Appended
  <2>. QED BY <2>1, <2>2, <2>3 DEF WriteSink
<1>3. /\ b \in ChainHead /\ b \in marked /\ ~InLog(b, s) /\ rec \in Record
      /\ \A t \in Sink : log[t] \in Seq(Record)
      /\ \A t \in Sink : t # s => log'[t] = log[t]
      /\ log' = log \/ log'[s] = Append(log[s], rec)
  BY Written
<1>2. TypeOK'
  BY <1>3, TypeWorker
<1>4. \A t \in Sink : /\ Len(log[t]) \in Nat
                      /\ \A i \in 1..Len(log[t]) : log[t][i] \in Record
  BY <1>3, ElementOfSeq, LenProperties
<1>5. \A t \in Sink :
         /\ \A i \in 1..Len(log[t]) : i \in 1..Len(log'[t]) /\ log'[t][i] = log[t][i]
         /\ \A i \in 1..Len(log'[t]) :
               \/ i \in 1..Len(log[t]) /\ log'[t][i] = log[t][i]
               \/ t = s /\ log'[t][i] = rec /\ i = Len(log[t]) + 1
  <2>. TAKE t \in Sink
  <2>1. CASE t # s \/ log' = log
    BY <1>3, <2>1
  <2>2. CASE t = s /\ log'[s] = Append(log[s], rec)
    <3>. HIDE DEF rec, Record
    <3>1. log[s] \in Seq(Record) /\ rec \in Record
      BY <1>3
    <3>. QED BY <2>2, <3>1, Appended
  <2>. QED BY <1>3, <2>1, <2>2
<1>. HIDE DEF Record
<1>6. rec.chain = b.chain /\ rec.seq = b.seq /\ rec.boot = boot
  OBVIOUS
<1>7. \A i, t : t \in Sink => (InLog(i, t) => InLog(i, t)')
  BY <1>1, <1>5 DEF InLog
<1>8. \A i \in ChainHead, t \in Sink : InLog(i, t)' => InLog(i, t) \/ (i = b /\ t = s)
  <2>. SUFFICES ASSUME NEW i \in ChainHead, NEW t \in Sink, NEW k \in 1..Len(log'[t]),
                       log'[t][k] = [chain |-> i.chain, seq |-> i.seq, boot |-> boot]
                PROVE  InLog(i, t) \/ (i = b /\ t = s)
    BY <1>1 DEF InLog
  <2>1. CASE k \in 1..Len(log[t]) /\ log'[t][k] = log[t][k]
    BY <2>1 DEF InLog
  <2>2. CASE t = s /\ log'[t][k] = rec
    <3>1. i.chain = b.chain /\ i.seq = b.seq
      BY <2>2
    <3>. QED BY <1>3, <2>2, <3>1
  <2>. QED BY <1>5, <2>1, <2>2
<1>9. Heads'
  <2>1. \A j \in marked : j.seq <= tail[j.chain] /\ j.seq <= lastSeq[j.chain]
    BY DEF Heads
  <2>2. AnchoredIsStored'
    <3>. SUFFICES ASSUME NEW t \in Sink, NEW i \in 1..Len(log'[t])
                  PROVE  log'[t][i].seq <= tail[log'[t][i].chain]
      BY <1>1 DEF AnchoredIsStored
    <3>1. CASE i \in 1..Len(log[t]) /\ log'[t][i] = log[t][i]
      BY <3>1 DEF AnchoredIsStored
    <3>2. CASE log'[t][i] = rec
      BY <1>3, <1>6, <2>1, <3>2
    <3>. QED BY <1>5, <3>1, <3>2
  <2>. QED BY <1>1, <2>2 DEF Heads
<1>10. OnlyMarked'
  <2>1. \A t \in Sink : \A i \in 1..Len(log'[t]) :
          /\ log'[t][i].boot <= boot
          /\ log'[t][i].boot = boot =>
                [chain |-> log'[t][i].chain, seq |-> log'[t][i].seq] \in marked
    <3>. TAKE t \in Sink
    <3>. TAKE i \in 1..Len(log'[t])
    <3>1. CASE i \in 1..Len(log[t]) /\ log'[t][i] = log[t][i]
      BY <3>1 DEF OnlyMarked
    <3>2. CASE log'[t][i] = rec
      <4>1. boot \in Nat
        BY DEF TypeOK
      <4>. QED BY <1>3, <1>6, <3>2, <4>1
    <3>. QED BY <1>5, <3>1, <3>2
  <2>. QED BY <1>1, <2>1 DEF OnlyMarked
<1>11. AnchoredOnce'
  <2>. SUFFICES ASSUME NEW t \in Sink, NEW i \in 1..Len(log'[t]), NEW k \in 1..Len(log'[t]), i # k,
                       log'[t][i].boot = log'[t][k].boot, log'[t][i].chain = log'[t][k].chain,
                       log'[t][i].seq = log'[t][k].seq
                PROVE  FALSE
    BY DEF AnchoredOnce
  <2>1. ASSUME NEW a \in 1..Len(log[s]), log[s][a].boot = rec.boot, log[s][a].chain = rec.chain,
               log[s][a].seq = rec.seq
        PROVE  FALSE
    <3>1. log[s][a] = [chain |-> log[s][a].chain, seq |-> log[s][a].seq, boot |-> log[s][a].boot]
      BY <1>4 DEF Record
    <3>2. InLog(b, s)
      BY <1>6, <2>1, <3>1 DEF InLog
    <3>. QED BY <1>3, <3>2
  <2>2. CASE i \in 1..Len(log[t]) /\ k \in 1..Len(log[t])
    <3>1. log'[t][i] = log[t][i] /\ log'[t][k] = log[t][k]
      BY <1>4, <1>5, <2>2
    <3>. QED BY <2>2, <3>1, SMTT(30) DEF AnchoredOnce
  <2>3. CASE i \in 1..Len(log[t]) /\ t = s /\ log'[t][k] = rec
    BY <1>5, <2>1, <2>3
  <2>4. CASE k \in 1..Len(log[t]) /\ t = s /\ log'[t][i] = rec
    BY <1>5, <2>1, <2>4
  <2>. QED BY <1>5, <2>2, <2>3, <2>4
<1>12. OnePlace'
  <2>. HIDE DEF InLog, rec
  <2>1. /\ \A h \in Handler : pc[h] = "enqueue" => job[h] \in ChainHead /\ b # job[h]
        /\ \A i \in 1..Len(queue) : queue[i] \in ChainHead /\ b # queue[i]
        /\ phase = "sending" => flush \in ChainHead /\ b # flush
    BY DEF OnePlace
  <2>2. \A h \in Handler : pc[h] = "enqueue" =>
          /\ \A g \in Handler \ {h} : pc[g] = "enqueue" => job[g] # job[h]
          /\ \A i \in 1..Len(queue) : queue[i] # job[h]
          /\ busy' # job[h]
          /\ \A t \in Sink : ~InLog(job[h], t)'
    BY <1>1, <1>8, <2>1 DEF OnePlace
  <2>3. \A i \in 1..Len(queue) :
          /\ \A k \in 1..Len(queue) : k # i => queue[k] # queue[i]
          /\ busy' # queue[i]
          /\ \A t \in Sink : ~InLog(queue[i], t)'
    BY <1>1, <1>8, <2>1 DEF OnePlace
  <2>4. phase = "sending" =>
          /\ \A i \in 1..Len(queue) : queue[i] # flush
          /\ busy' # flush
          /\ \A t \in Sink : ~InLog(flush, t)'
    BY <1>1, <1>8, <2>1 DEF OnePlace
  <2>5. \A t \in left' : busy' # None /\ busy' = b /\ ~InLog(b, t)'
    <3>. TAKE t \in left'
    <3>1. t \in left /\ t # s /\ t \in Sink /\ busy' = b /\ b # None
      BY <1>1, <1>3 DEF TypeOK
    <3>2. ~InLog(b, t)
      BY <3>1 DEF OnePlace
    <3>. QED BY <1>3, <1>8, <3>1, <3>2
  <2>. QED BY <1>1, <2>2, <2>3, <2>4, <2>5 DEF OnePlace
<1>13. Drained'
  BY <1>1 DEF Drained, HeadOf
<1>14. NothingSwallowed'
  <2>1. \A i \in marked, t \in Sink : InFlight(i, t) => InFlight(i, t)' \/ (i = b /\ t = s)
    BY <1>1 DEF InFlight
  <2>2. InLog(b, s)' \/ <<b, s>> \in lost'
    <3>1. CASE log' = log
      BY <1>1, <3>1
    <3>2. CASE log'[s] = Append(log[s], rec)
      <4>1. log'[s][Len(log'[s])] = rec /\ Len(log'[s]) \in 1..Len(log'[s])
        BY <1>3, <3>2, Appended
      <4>. QED BY <1>1, <4>1 DEF InLog
    <3>. QED BY <1>3, <3>1, <3>2
  <2>. QED BY <1>1, <1>7, <2>1, <2>2 DEF NothingSwallowed, Up
<1>. QED BY <1>2, <1>9, <1>10, <1>11, <1>12, <1>13, <1>14 DEF CheckpointInv
-----------------------------------------------------------------------------
(* Run: the stop, its terminators, the flush, Close, a crash and a start. *)
LEMMA RunStep ==
    ASSUME CheckpointInv, \/ Stop \/ EmitTerminator \/ FlushDone \/ Close \/ Crash
                          \/ \E c \in Chain : SkipFlush(c)
    PROVE  CheckpointInv'
<1>. USE Basics, JobRecord DEF durable, handlerVars, markVars, workerVars, flushVars
<1>1. TypeOK'
  BY TypeRun
<1>2. CASE Stop \/ FlushDone \/ Close \/ Crash \/ \E c \in Chain : SkipFlush(c)
  <2>1. /\ UNCHANGED <<tail, log, boot, lastSeq, marked, queue, busy, left, lost, flushed, pc, job>>
        /\ phase' = "sending" => phase = "sending" /\ flush' = flush
        /\ phase' \notin {"crashed", "off"} => Up /\ (phase = "sending" => phase' = "sending")
        /\ phase' \in {"flushing", "sending", "waiting", "closing"} =>
              phase \in {"flushing", "sending", "waiting", "closing"}
        /\ phase' = "off" => phase = "closing" /\ queue = <<>> /\ busy = None
        /\ phase' \in {"serving", "draining"} => phase \in {"serving", "draining"}
        /\ phase' # "crashed" => phase # "crashed"
    BY <1>2 DEF Stop, FlushDone, Close, Crash, SkipFlush, Visit, Up
  <2>2. Drained'
    BY <2>1 DEF Drained, HeadOf
  <2>3. phase' = "off" => Up /\ phase # "sending" /\ \A h \in Handler : pc[h] = "idle"
    BY <2>1 DEF Drained, Up
  <2>4. Heads'
    BY <2>1, HeadsKept
  <2>5. OnlyMarked' /\ OnePlace' /\ AnchoredOnce' /\ NothingSwallowed'
    BY <2>1, <2>3, Quiet
  <2>. QED BY <1>1, <2>2, <2>4, <2>5 DEF CheckpointInv
<1>3. CASE EmitTerminator
  <2>1. /\ phase = "draining" /\ phase' \in {"flushing", "closing"}
        /\ \A h \in Handler : pc[h] = "idle"
        /\ UNCHANGED <<log, boot, lastSeq, marked, queue, busy, left, lost, flushed, flush, pc, job>>
    BY <1>3 DEF EmitTerminator
  <2>2. \A c \in Chain : tail'[c] \in Nat /\ tail[c] <= tail'[c]
    <3>1. PICK S \in SUBSET Chain :
             tail' = [c \in Chain |-> IF c \in S THEN tail[c] + 1 ELSE tail[c]]
      BY <1>3 DEF EmitTerminator, TypeOK
    <3>. QED BY <3>1
  <2>3. Heads'
    BY <2>1, <2>2, HeadsKept
  <2>4. OnlyMarked' /\ OnePlace' /\ AnchoredOnce' /\ NothingSwallowed'
    BY <2>1, Quiet DEF Up
  <2>5. Drained'
    BY <2>1 DEF Drained
  <2>. QED BY <1>1, <2>3, <2>4, <2>5 DEF CheckpointInv
<1>. QED BY <1>2, <1>3

(* The flush takes the head of a chain as the store has it, once in a run.  *)
LEMMA FlushStep ==
    ASSUME CheckpointInv, NEW c \in Chain, Flush(c)
    PROVE  CheckpointInv'
<1>. DEFINE j == HeadOf(c)
<1>. USE Basics, JobRecord DEF durable, handlerVars, markVars, workerVars, flushVars
<1>1. /\ phase = "flushing" /\ tail[c] > 0 /\ flushed' = flushed \union {c}
      /\ j \in ChainHead /\ j.chain = c /\ j.seq = tail[c]
      /\ UNCHANGED <<tail, log, boot, queue, busy, left, lost, pc, job>>
  BY HeadRecord DEF Flush, Visit
<1>2. TypeOK'
  BY TypeRun
<1>3. \A h \in Handler : pc[h] = "idle"
  BY <1>1 DEF Drained
<1>4. \A d \in Chain : HeadOf(d)' = HeadOf(d)
  BY <1>1 DEF HeadOf
<1>7. flushed \subseteq Chain
  BY DEF TypeOK
<1>5. CASE ~MarkEmit(j) /\ NoMark /\ UNCHANGED <<flush, phase>>
  <2>1. j \in marked
    <3>1. lastSeq[c] \in Nat /\ lastSeq[c] >= tail[c] /\ lastSeq[c] # 0
      BY <1>1, <1>5 DEF MarkEmit
    <3>2. [chain |-> c, seq |-> lastSeq[c]] \in marked
      BY <3>1 DEF Heads
    <3>3. lastSeq[c] <= tail[c]
      BY <3>2 DEF Heads
    <3>. QED BY <3>1, <3>2, <3>3 DEF HeadOf
  <2>2. Heads'
    BY <1>1, <1>3, <1>5, HeadsKept DEF NoMark
  <2>3. OnlyMarked' /\ OnePlace' /\ AnchoredOnce' /\ NothingSwallowed'
    BY <1>1, <1>3, <1>5, Quiet DEF NoMark, Up
  <2>4. Drained'
    <3>1. \A d \in flushed' : HeadOf(d)' \in marked'
      BY <1>1, <1>4, <1>5, <1>7, <2>1 DEF Drained, NoMark
    <3>. QED BY <1>1, <1>3, <1>5, <3>1 DEF Drained
  <2>. QED BY <1>2, <2>2, <2>3, <2>4 DEF CheckpointInv
<1>6. CASE MarkEmit(j) /\ Mark(j) /\ flush' = j /\ phase' = "sending"
  <2>1. marked' = marked \union {j}
    BY <1>6 DEF Mark
  <2>2. /\ \A i \in 1..Len(queue) : queue[i] # j
        /\ busy # j
        /\ \A s \in Sink : ~InLog(j, s)
    BY <1>1, <1>6, Unmarked
  <2>3. \A i, s : InLog(i, s)' <=> InLog(i, s)
    BY <1>1, LogKept
  <2>4. Heads'
    BY <1>1, <1>3, <1>6, MarkHeads
  <2>5. OnlyMarked'
    BY <1>1, <1>3, <1>6, <2>1 DEF OnlyMarked
  <2>6. OnePlace'
    <3>. HIDE DEF InLog, j
    <3>. QED BY <1>1, <1>3, <1>6, <2>2, <2>3 DEF OnePlace
  <2>7. AnchoredOnce'
    BY <1>1, OnceKept
  <2>8. Drained'
    <3>1. \A d \in flushed' : HeadOf(d)' \in marked'
      BY <1>1, <1>4, <1>6, <1>7, <2>1 DEF Drained
    <3>. QED BY <1>1, <1>3, <1>6, <3>1 DEF Drained
  <2>9. NothingSwallowed'
    <3>1. \A i \in marked, s \in Sink : InFlight(i, s) => InFlight(i, s)'
      BY <1>1, <1>3 DEF InFlight
    <3>2. \A s \in Sink : InFlight(j, s)'
      <4>. HIDE DEF j
      <4>1. ASSUME NEW i, i = j, NEW s \in Sink PROVE InFlight(i, s)'
        BY <1>6, <4>1 DEF InFlight
      <4>. QED BY <1>4, <4>1 DEF j
    <3>3. ASSUME NEW i \in marked', NEW s \in Sink
          PROVE  InLog(i, s)' \/ InFlight(i, s)' \/ <<i, s>> \in lost'
      <4>1. CASE i = j
        BY <1>6, <4>1 DEF InFlight
      <4>2. CASE i \in marked
        BY <1>1, <2>3, <3>1, <4>2 DEF NothingSwallowed, Up
      <4>. QED BY <2>1, <4>1, <4>2
    <3>. QED BY <1>6, <3>3 DEF NothingSwallowed
  <2>. QED BY <1>2, <2>4, <2>5, <2>6, <2>7, <2>8, <2>9 DEF CheckpointInv
<1>. QED BY <1>5, <1>6 DEF Flush

(* The head that is flushed joins the queue behind all that were marked.    *)
LEMMA FlushSendStep ==
    ASSUME CheckpointInv, FlushSend
    PROVE  CheckpointInv'
<1>. USE Basics, JobRecord DEF durable, handlerVars, markVars, workerVars, flushVars
<1>1. /\ phase = "sending" /\ phase' = "waiting" /\ queue' = Append(queue, flush)
      /\ UNCHANGED <<tail, log, boot, busy, left, lost, flushed, flush, lastSeq, marked, pc, job>>
  BY DEF FlushSend
<1>2. TypeOK'
  BY <1>1, TypeRun
<1>3. \A h \in Handler : pc[h] = "idle"
  BY <1>1 DEF Drained
<1>4. /\ Len(queue') = Len(queue) + 1 /\ Len(queue) \in Nat
      /\ \A i \in 1..Len(queue) : i \in 1..Len(queue') /\ i # Len(queue') /\ queue'[i] = queue[i]
      /\ \A i \in 1..Len(queue') : i = Len(queue') \/ i \in 1..Len(queue)
      /\ Len(queue') \in 1..Len(queue') /\ queue'[Len(queue')] = flush
  <2>1. queue \in Seq(ChainHead) /\ flush \in ChainHead
    BY <1>1 DEF TypeOK
  <2>. QED BY <1>1, <2>1, Appended
<1>5. Heads'
  BY <1>1, HeadsKept
<1>6. OnlyMarked'
  BY <1>1, <1>3, <1>4 DEF OnlyMarked
<1>7. \A i, s : InLog(i, s)' <=> InLog(i, s)
  BY <1>1, LogKept
<1>8. OnePlace'
  <2>. HIDE DEF InLog
  <2>1. \A i \in 1..Len(queue') :
          /\ \A k \in 1..Len(queue') : k # i => queue'[k] # queue'[i]
          /\ busy # queue'[i]
          /\ \A s \in Sink : ~InLog(queue'[i], s)
    BY <1>1, <1>4 DEF OnePlace
  <2>. QED BY <1>1, <1>3, <1>7, <2>1 DEF OnePlace
<1>9. AnchoredOnce'
  BY <1>1, OnceKept
<1>10. Drained'
  BY <1>1 DEF Drained, HeadOf
<1>11. NothingSwallowed'
  <2>1. \A i \in marked, s \in Sink : InFlight(i, s) => InFlight(i, s)'
    BY <1>1, <1>4 DEF InFlight
  <2>. QED BY <1>1, <1>7, <2>1 DEF NothingSwallowed, Up
<1>. QED BY <1>2, <1>5, <1>6, <1>8, <1>9, <1>10, <1>11 DEF CheckpointInv

(* A start: the log of the new run is empty, whatever older runs left in it. *)
LEMMA BootStep ==
    ASSUME CheckpointInv, Boot
    PROVE  CheckpointInv'
<1>. USE Basics, JobRecord DEF durable
<1>1. TypeOK'
  BY TypeRun
<1>2. /\ boot' = boot + 1 /\ phase' = "serving" /\ queue' = <<>> /\ busy' = None /\ left' = {}
      /\ flush' = None /\ marked' = {} /\ flushed' = {} /\ tail' = tail /\ log' = log
      /\ pc' = [h \in Handler |-> "idle"] /\ lastSeq' = [c \in Chain |-> 0]
  BY DEF Boot
<1>3. \A h \in Handler : pc'[h] = "idle"
  BY <1>2
<1>4. Heads'
  BY <1>2, <1>3 DEF Heads, AnchoredIsStored
<1>5. OnlyMarked'
  <2>1. \A s \in Sink : \A i \in 1..Len(log[s]) : /\ log[s][i].boot <= boot + 1
                                                  /\ log[s][i].boot # boot + 1
    <3>. SUFFICES ASSUME NEW s \in Sink, NEW i \in 1..Len(log[s])
                  PROVE  log[s][i].boot <= boot + 1 /\ log[s][i].boot # boot + 1
      OBVIOUS
    <3>1. /\ log \in [Sink -> Seq([chain: Chain, seq: 1..MaxSeq, boot: 1..MaxBoots])]
          /\ boot \in 1..MaxBoots
      BY DEF TypeOK
    <3>2. log[s][i] \in [chain: Chain, seq: 1..MaxSeq, boot: 1..MaxBoots]
      BY <3>1, ElementOfSeq
    <3>3. log[s][i].boot \in Nat
      BY <3>2
    <3>4. log[s][i].boot <= boot
      BY DEF OnlyMarked
    <3>. QED BY <3>1, <3>3, <3>4
  <2>2. Len(<<>>) = 0
    BY EmptySeq
  <2>. QED BY <1>2, <1>3, <2>1, <2>2 DEF OnlyMarked
<1>6. OnePlace'
  BY <1>2, <1>3, EmptySeq DEF OnePlace
<1>7. AnchoredOnce'
  BY <1>2, OnceKept
<1>8. Drained' /\ NothingSwallowed'
  BY <1>2, <1>3 DEF Drained, NothingSwallowed
<1>. QED BY <1>1, <1>4, <1>5, <1>6, <1>7, <1>8 DEF CheckpointInv

(* Before the first frame nothing is marked, queued or anchored.            *)
LEMMA InitCheckpoint == Init => CheckpointInv
<1>. SUFFICES ASSUME Init PROVE CheckpointInv
  OBVIOUS
<1>1. TypeOK
  BY InitType
<1>2. /\ phase = "serving" /\ queue = <<>> /\ busy = None /\ left = {} /\ marked = {} /\ flushed = {}
      /\ \A h \in Handler : pc[h] = "idle"
      /\ \A c \in Chain : lastSeq[c] = 0
      /\ \A s \in Sink : log[s] = <<>>
      /\ Len(<<>>) = 0
  BY EmptySeq DEF Init
<1>3. Heads
  BY <1>2 DEF Heads, AnchoredIsStored
<1>4. OnlyMarked /\ OnePlace
  BY <1>2 DEF OnlyMarked, OnePlace
<1>5. Drained /\ NothingSwallowed /\ AnchoredOnce
  BY <1>2 DEF Drained, NothingSwallowed, AnchoredOnce
<1>. QED BY <1>1, <1>3, <1>4, <1>5 DEF CheckpointInv

(* Every step of the emitter, of the handlers and of the run keeps the      *)
(* invariant.                                                               *)
LEMMA CheckpointStep ==
    ASSUME CheckpointInv, [Next]_vars
    PROVE  CheckpointInv'
<1>1. CASE UNCHANGED vars
  <2>. USE <1>1 DEF vars, durable, handlerVars, markVars, workerVars, flushVars
  <2>1. TypeOK' /\ Heads' /\ OnlyMarked' /\ Drained'
    BY Basics DEF TypeOK, Heads, AnchoredIsStored, OnlyMarked, Drained, HeadOf
  <2>2. OnePlace' /\ AnchoredOnce' /\ NothingSwallowed'
    BY Basics DEF OnePlace, AnchoredOnce, NothingSwallowed, InLog, InFlight, Up
  <2>. QED BY <2>1, <2>2 DEF CheckpointInv
<1>2. ASSUME NEW h \in Handler, Observe(h) \/ Enqueue(h) \/ \E c \in Chain : HandleFrame(h, c)
      PROVE  CheckpointInv'
  BY <1>2, ObserveStep, EnqueueStep, FrameStep
<1>3. CASE Worker
  BY <1>3, TakeStep, SignFailsStep, WriteStep DEF Worker
<1>4. CASE Stop \/ Shutdown \/ Crash \/ Boot
  BY <1>4, RunStep, FlushStep, FlushSendStep, BootStep DEF Shutdown
<1>. QED BY <1>1, <1>2, <1>3, <1>4 DEF Next, Off

(* Every reachable state satisfies the invariant, whatever the handlers, the *)
(* chains, the sinks, the cadence, and the depth of the queue.               *)
THEOREM CheckpointInductive == Spec => []CheckpointInv
<1>1. Init => CheckpointInv
  BY InitCheckpoint
<1>2. CheckpointInv /\ [Next]_vars => CheckpointInv'
  BY CheckpointStep
<1>. QED BY <1>1, <1>2, PTL DEF Spec

(* A sink never holds a head that the store does not have (the emitter is    *)
(* told of a receipt only after its commit).                                 *)
THEOREM AnchorsAreStored == Spec => []AnchoredIsStored
<1>1. CheckpointInv => AnchoredIsStored
  BY DEF CheckpointInv, Heads
<1>. QED BY <1>1, CheckpointInductive, PTL

(* One run writes a head at most once to a sink: Observe and Flush, racing   *)
(* for the same head, cannot both mark it (markEmitLocked).                  *)
THEOREM AnchorsAreSingle == Spec => []AnchoredOnce
<1>1. CheckpointInv => AnchoredOnce
  BY DEF CheckpointInv
<1>. QED BY <1>1, CheckpointInductive, PTL

(* A marked head is on its way, in the log or counted, in every sink; after  *)
(* Close it is in the log or counted.                                        *)
THEOREM NoneSwallowed == Spec => []NothingSwallowed
<1>1. CheckpointInv => NothingSwallowed
  BY DEF CheckpointInv
<1>. QED BY <1>1, CheckpointInductive, PTL

(* After a graceful stop the final head of every chain that was flushed is   *)
(* in every sink, unless that checkpoint was counted as lost.                *)
THEOREM FinalHeadsAnchored == Spec => []FinalHeadAnchored
<1>1. CheckpointInv => FinalHeadAnchored
  BY DEF CheckpointInv, FinalHeadAnchored, Drained, NothingSwallowed
<1>. QED BY <1>1, CheckpointInductive, PTL
=============================================================================
