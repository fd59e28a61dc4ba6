------------------------------ MODULE Pipeline ------------------------------
(***************************************************************************)
(* The commit path of the daemon: internal/pipeline (Process and what it   *)
(* calls) over internal/chain (State, Allocation, PairAlloc) and the       *)
(* receipts table of sdk/go/store.                                         *)
(*                                                                         *)
(* One worker is one connection goroutine of the socket listener: it reads *)
(* a frame and runs Process to its end before it reads the next.  Workers  *)
(* interleave at every access to shared state: a mutex, the agentChains    *)
(* map, a store query or a store write.                                    *)
(*                                                                         *)
(* A chain id is <<g, k>>: the g-th root chain id (foo, foo-2, foo-3, ...) *)
(* and the key k, Root for the root chain itself and a for its sub-agent   *)
(* chain "/agent/a".  A receipt's id stands for its hash too: both are     *)
(* fixed when it is signed, and distinct receipts differ in both.          *)
(***************************************************************************)
EXTENDS Integers, FiniteSets

CONSTANTS Worker,   \* connection goroutines
          MaxFrames,\* bound on the frames read in a behaviour
          Agent,    \* agent ids that frames carry
          Root,     \* the key of the root chain (a frame without agent_id)
          Gen,      \* ordinals of root chain ids
          Past,     \* what caused the other receipts: frames of earlier
                    \* daemon runs, terminators
          Prior,    \* the receipts tables an earlier daemon run may have left
          Free,     \* no goroutine holds the mutex
          Nil       \* the nil pointer: no prev_hash, no delegation

Frame   == 1..MaxFrames   \* a frame is named by the order in which it is read
Key     == Agent \union {Root}
Chain   == Gen \X Key
Kind    == {"live", "drop", "terminal"}
Id      == (Frame \union Past) \X Kind
IdOrNil == Id \union {Nil}
Receipt == [chain: Chain, seq: Nat \ {0}, prev: IdOrNil, id: Id, parent: IdOrNil]
StateHead == [seq: Nat \ {0}, prev: IdOrNil]
Job     == [frame: Frame \union {Nil}, key: Key, drop: BOOLEAN, rootSeen: BOOLEAN]
PC      == {"idle", "lookup", "fast", "delegateFast", "load", "delegateSlow",
            "install", "raced", "allocate", "insertDrop", "commitFirst",
            "insertLive", "commit"}

VARIABLES
    rows,     \* the receipts table
    gen,      \* Pipeline.rootChainID, as the ordinal of the root chain id
    known,    \* the keys that have a chain.State: Root and those in agentChains
    head,     \* head[k]: nextSeq and prevHash of the State of k
    holder,   \* holder[k]: who holds the mutex of the State of k
    mapLock,  \* who holds agentChainsMu for writing
    read,     \* how many frames were read
    pc,       \* pc[w]: what worker w does next
    job,      \* job[w]: the frame being processed, and (history) whether the
              \* root chain had a receipt when a sub-agent's frame was read
    loaded,   \* loaded[w]: the chain tail the slow path read from the store
    alloc,    \* alloc[w]: Sequence and PrevHash of w's Allocation or PairAlloc
    del,      \* del[w]: the parent receipt of the delegation w would attach
    result    \* result[f]: what Process returned for f ("none" before it does)

storeVars  == <<rows, gen>>
stateVars  == <<known, head, holder, mapLock>>
workerVars == <<pc, job, loaded, alloc, del>>
vars == <<storeVars, stateVars, read, workerVars, result>>
-----------------------------------------------------------------------------
ChainOf(k) == <<gen, k>>
Rows(c)    == {r \in rows : r.chain = c}

(* GetChainTail: the row of c with the highest sequence, if c has rows. *)
Tails(c) == {r \in Rows(c) : \A q \in Rows(c) : q.seq <= r.seq}

FreshHead == [seq |-> 1, prev |-> Nil]
After(r)  == [seq |-> r.seq + 1, prev |-> r.id]

WrongTailHeads(c) == {FreshHead} \* New instead of LoadFromStore

(* LoadFromStore: where a State of chain c starts. *)
TailHeads(c) == IF Rows(c) = {} THEN {FreshHead} ELSE {After(r) : r \in Tails(c)}

(* The receipts' UNIQUE (chain_id, sequence) index and primary key. *)
Insertable(r) == \A q \in rows : /\ <<q.chain, q.seq>> # <<r.chain, r.seq>>
                                 /\ q.id # r.id

(* The receipt of the given kind that w signs for its allocated slot. *)
ReceiptOf(w, kind) == [chain  |-> ChainOf(job[w].key),
                       seq    |-> alloc[w].seq,
                       prev   |-> alloc[w].prev,
                       id     |-> <<job[w].frame, kind>>,
                       parent |-> del[w]]

NoJob == [frame |-> Nil, key |-> Root, drop |-> FALSE, rootSeen |-> FALSE]

(* S is a set of whole chains: sequences from 1 with no gap and no duplicate, *)
(* every receipt naming the one before it.                                    *)
Linked(S) ==
    /\ \A r, q \in S : (r.chain = q.chain /\ r.seq = q.seq) => r = q
    /\ \A r \in S : \/ r.seq = 1 /\ r.prev = Nil
                    \/ \E q \in S : /\ q.chain = r.chain
                                    /\ q.seq + 1 = r.seq
                                    /\ q.id = r.prev

ASSUME ConstantsAssumption ==
    /\ Root \notin Agent
    /\ Free \notin Worker
    /\ Nil \notin Id /\ Nil \notin Frame
    /\ MaxFrames \in Nat
    /\ Gen \subseteq Nat \ {0}
    /\ Frame \intersect Past = {}
    /\ \A S \in Prior : /\ S \subseteq Receipt /\ IsFiniteSet(S)
                        /\ Linked(S)
                        /\ \A r \in S : r.id[1] \notin Frame

InitWorkers ==
    /\ pc     = [w \in Worker |-> "idle"]
    /\ job    = [w \in Worker |-> NoJob]
    /\ loaded = [w \in Worker |-> FreshHead]
    /\ alloc  = [w \in Worker |-> FreshHead]
    /\ del    = [w \in Worker |-> Nil]

(* New: only the root chain has a State, resumed from the store's tail. *)
Init ==
    /\ rows \in Prior
    /\ gen \in Gen
    /\ known = {Root}
    /\ \E h \in TailHeads(ChainOf(Root)) : head = [k \in Key |-> IF k = Root THEN h ELSE FreshHead]
    /\ holder = [k \in Key |-> Free]
    /\ mapLock = Free
    /\ read = 0
    /\ InitWorkers
    /\ result = [f \in Frame |-> "none"]
-----------------------------------------------------------------------------
Goto(w, label) == pc' = [pc EXCEPT ![w] = label]
Delegate(w, i) == del' = [del EXCEPT ![w] = i]
Unlock(k)      == holder' = [holder EXCEPT ![k] = Free]

(* Process returns res for w's frame; w is back at the top of its read loop. *)
Return(w, res) ==
    /\ result' = [result EXCEPT ![job[w].frame] = res]
    /\ Goto(w, "idle")
    /\ job'    = [job EXCEPT ![w] = NoJob]
    /\ loaded' = [loaded EXCEPT ![w] = FreshHead]
    /\ alloc'  = [alloc EXCEPT ![w] = FreshHead]
    /\ Delegate(w, Nil)

(* readFrame, then Process: decoding and validateFrame either reject the     *)
(* frame, with no other effect, or route it by agent_id and drop_count.      *)
Receive(w) ==
    /\ pc[w] = "idle"
    /\ read < MaxFrames
    /\ read' = read + 1
    /\ \/ /\ result' = [result EXCEPT ![read'] = "err"]
          /\ UNCHANGED workerVars
       \/ /\ \E k \in Key, d \in BOOLEAN :
                job' = [job EXCEPT ![w] = [frame |-> read', key |-> k, drop |-> d,
                                           rootSeen |-> k # Root /\ Rows(ChainOf(Root)) # {}]]
          /\ Goto(w, "lookup")
          /\ UNCHANGED <<loaded, alloc, del, result>>
    /\ UNCHANGED <<storeVars, stateVars>>

-----------------------------------------------------------------------------
(* getOrCreateAgentState, up to the read-locked look at agentChains.         *)
Lookup(w) ==
    /\ pc[w] = "lookup"
    /\ job[w].key # Root => mapLock = Free
    /\ Goto(w, IF job[w].key = Root THEN "allocate"
               ELSE IF job[w].key \in known THEN "fast"
               ELSE "load")
    /\ UNCHANGED <<storeVars, stateVars, read, job, loaded, alloc, del, result>>

(* A known State is taken as it is, even when it has no receipt yet. *)
WrongFastPath(w) ==
    /\ pc[w] = "fast"
    /\ holder[job[w].key] = Free
    /\ Goto(w, "allocate")
    /\ UNCHANGED <<storeVars, stateVars, read, job, loaded, alloc, del, result>>

(* Fast path: NextSeq takes the chain mutex for a moment.                    *)
FastPath(w) ==
    /\ pc[w] = "fast"
    /\ holder[job[w].key] = Free
    /\ Goto(w, IF head[job[w].key].seq # 1 THEN "allocate" ELSE "delegateFast")
    /\ UNCHANGED <<storeVars, stateVars, read, job, loaded, alloc, del, result>>

(* Slow path: LoadFromStore, with no lock held.                              *)
LoadChain(w) ==
    /\ pc[w] = "load"
    /\ \E h \in TailHeads(ChainOf(job[w].key)) :
        /\ loaded' = [loaded EXCEPT ![w] = h]
        /\ Goto(w, IF h.seq = 1 THEN "delegateSlow" ELSE "install")
    /\ UNCHANGED <<storeVars, stateVars, read, job, alloc, del, result>>

(* buildDelegation: the root chain's tail becomes the parent receipt.        *)
BuildDelegation(w) ==
    /\ pc[w] \in {"delegateFast", "delegateSlow"}
    /\ IF Rows(ChainOf(Root)) = {}
       THEN Delegate(w, Nil)
       ELSE \E r \in Tails(ChainOf(Root)) : Delegate(w, r.id)
    /\ Goto(w, IF pc[w] = "delegateFast" THEN "allocate" ELSE "install")
    /\ UNCHANGED <<storeVars, stateVars, read, job, loaded, alloc, result>>

(* A store query of getOrCreateAgentState fails: no lock is held.            *)
StoreReadFails(w) ==
    /\ pc[w] \in {"load", "delegateFast", "delegateSlow"}
    /\ Return(w, "err")
    /\ UNCHANGED <<storeVars, stateVars, read>>

(* No second look at the map: the last creator wins. *)
WrongInstall(w) ==
    /\ pc[w] = "install"
    /\ mapLock = Free
    /\ known' = known \union {job[w].key}
    /\ head' = [head EXCEPT ![job[w].key] = loaded[w]]
    /\ Goto(w, "allocate")
    /\ UNCHANGED <<storeVars, mapLock, holder, read, job, loaded, alloc, del, result>>

(* The double check under the write lock.  A worker that lost the creation   *)
(* race keeps agentChainsMu while it waits for the winner's chain mutex.     *)
Install(w) ==
    /\ pc[w] = "install"
    /\ mapLock = Free
    /\ IF job[w].key \in known
       THEN /\ mapLock' = w
            /\ Goto(w, "raced")
            /\ UNCHANGED <<known, head>>
       ELSE /\ known' = known \union {job[w].key}
            /\ head' = [head EXCEPT ![job[w].key] = loaded[w]]
            /\ Goto(w, "allocate")
            /\ UNCHANGED mapLock
    /\ UNCHANGED <<storeVars, holder, read, job, loaded, alloc, del, result>>

LoseRace(w) ==
    /\ pc[w] = "raced"
    /\ holder[job[w].key] = Free
    /\ mapLock' = Free
    /\ Delegate(w, IF head[job[w].key].seq = 1 THEN del[w] ELSE Nil)
    /\ Goto(w, "allocate")
    /\ UNCHANGED <<storeVars, known, head, holder, read, job, loaded, alloc, result>>
-----------------------------------------------------------------------------
(* Allocate (or AllocatePair, for a frame with drops): take the mutex, copy  *)
(* the head, keep the delegation only for the chain's first receipt.         *)
Allocate(w) ==
    LET k == job[w].key IN
    /\ pc[w] = "allocate"
    /\ holder[k] = Free
    /\ holder' = [holder EXCEPT ![k] = w]
    /\ alloc' = [alloc EXCEPT ![w] = head[k]]
    /\ Delegate(w, IF head[k].seq # 1 THEN Nil ELSE del[w])
    /\ Goto(w, IF job[w].drop THEN "insertDrop" ELSE "insertLive")
    /\ UNCHANGED <<storeVars, known, head, mapLock, read, job, loaded, result>>

InsertDrop(w) ==
    /\ pc[w] = "insertDrop"
    /\ Insertable(ReceiptOf(w, "drop"))
    /\ rows' = rows \union {ReceiptOf(w, "drop")}
    /\ Goto(w, "commitFirst")
    /\ UNCHANGED <<gen, stateVars, read, job, loaded, alloc, del, result>>

(* The fallback starts over with the drops still to be reported. *)
WrongDropFails(w) ==
    /\ pc[w] = "insertDrop"
    /\ Unlock(job[w].key)
    /\ Delegate(w, Nil)
    /\ Goto(w, "lookup")
    /\ UNCHANGED <<storeVars, known, head, mapLock, read, job, loaded, alloc, result>>

(* Building or inserting the events_dropped receipt fails: roll the pair     *)
(* back and process the frame as one without drops.                          *)
DropFails(w) ==
    /\ pc[w] = "insertDrop"
    /\ Unlock(job[w].key)
    /\ job' = [job EXCEPT ![w].drop = FALSE]
    /\ Delegate(w, Nil)
    /\ Goto(w, "lookup")
    /\ UNCHANGED <<storeVars, known, head, mapLock, read, loaded, alloc, result>>

(* The two slots are two allocations: the mutex is free in between. *)
WrongCommitFirst(w) ==
    /\ pc[w] = "commitFirst"
    /\ head' = [head EXCEPT ![job[w].key] = After(ReceiptOf(w, "drop"))]
    /\ Unlock(job[w].key)
    /\ job' = [job EXCEPT ![w].drop = FALSE]
    /\ Goto(w, "allocate")
    /\ UNCHANGED <<storeVars, known, mapLock, read, loaded, alloc, del, result>>

(* The State moves past the first slot; the mutex stays locked.              *)
CommitFirst(w) ==
    LET h == After(ReceiptOf(w, "drop")) IN
    /\ pc[w] = "commitFirst"
    /\ head' = [head EXCEPT ![job[w].key] = h]
    /\ alloc' = [alloc EXCEPT ![w] = h]
    /\ Delegate(w, Nil)
    /\ Goto(w, "insertLive")
    /\ UNCHANGED <<storeVars, known, holder, mapLock, read, job, loaded, result>>

InsertLive(w) ==
    /\ pc[w] = "insertLive"
    /\ Insertable(ReceiptOf(w, "live"))
    /\ rows' = rows \union {ReceiptOf(w, "live")}
    /\ Goto(w, "commit")
    /\ UNCHANGED <<gen, stateVars, read, job, loaded, alloc, del, result>>

(* The sequence is used up although nothing was stored under it. *)
WrongLiveFails(w) ==
    /\ pc[w] = "insertLive"
    /\ head' = [head EXCEPT ![job[w].key] = After(ReceiptOf(w, "live"))]
    /\ Unlock(job[w].key)
    /\ Return(w, "err")
    /\ UNCHANGED <<storeVars, known, mapLock, read>>

(* Building or inserting the live receipt fails: Rollback, and the error.    *)
LiveFails(w) ==
    /\ pc[w] = "insertLive"
    /\ Unlock(job[w].key)
    /\ Return(w, "err")
    /\ UNCHANGED <<storeVars, known, head, mapLock, read>>

(* What comes after the commit (the checkpoint) can fail the frame. *)
WrongCommit(w) ==
    LET k == job[w].key IN
    /\ pc[w] = "commit"
    /\ head' = [head EXCEPT ![k] = After(ReceiptOf(w, "live"))]
    /\ Unlock(k)
    /\ Return(w, "err")
    /\ UNCHANGED <<storeVars, known, mapLock, read>>

Commit(w) ==
    LET k == job[w].key IN
    /\ pc[w] = "commit"
    /\ head' = [head EXCEPT ![k] = After(ReceiptOf(w, "live"))]
    /\ Unlock(k)
    /\ Return(w, "ok")
    /\ UNCHANGED <<storeVars, known, mapLock, read>>
-----------------------------------------------------------------------------
(* What w does once it has a frame. *)
Step(w) ==
    \/ Lookup(w) \/ FastPath(w) \/ LoadChain(w) \/ BuildDelegation(w)
    \/ StoreReadFails(w) \/ Install(w) \/ LoseRace(w)
    \/ Allocate(w) \/ InsertDrop(w) \/ DropFails(w) \/ CommitFirst(w)
    \/ InsertLive(w) \/ LiveFails(w) \/ Commit(w)

(* Every frame was read and answered: the daemon waits for more. *)
Quiet == read = MaxFrames /\ \A w \in Worker : pc[w] = "idle"

Next == (\E w \in Worker : Receive(w) \/ Step(w)) \/ (Quiet /\ UNCHANGED vars)

Spec == Init /\ [][Next]_vars

(* The Go scheduler runs every goroutine that can run, and a mutex that is  *)
(* free is handed to one of its waiters.                                    *)
FairSpec == Spec /\ \A w \in Worker : WF_vars(Step(w))
-----------------------------------------------------------------------------
(* Type correctness. *)
TypeOK ==
    /\ rows \subseteq Receipt
    /\ gen \in Gen
    /\ known \subseteq Key
    /\ head \in [Key -> StateHead]
    /\ holder \in [Key -> Worker \union {Free}]
    /\ mapLock \in Worker \union {Free}
    /\ read \in 0..MaxFrames
    /\ pc \in [Worker -> PC]
    /\ job \in [Worker -> Job]
    /\ \A w \in Worker : pc[w] # "idle" => job[w].frame \in Frame
    /\ loaded \in [Worker -> StateHead]
    /\ alloc \in [Worker -> StateHead]
    /\ del \in [Worker -> IdOrNil]
    /\ result \in [Frame -> {"none", "ok", "err"}]

(* Every chain in the store verifies: sequences from 1 with no gap and no    *)
(* duplicate, each receipt naming its predecessor (VerifyChain's link and    *)
(* sequence checks), whatever the interleaving of frames and failures.       *)
ChainLinked == Linked(rows)

(* h is where chain c ends in the table S. *)
HeadIn(S, h, c) ==
    /\ \A r \in S : r.chain = c => r.seq < h.seq
    /\ h = FreshHead \/ \E r \in S : r.chain = c /\ h = After(r)

IsHeadOf(h, k) == HeadIn(rows, h, ChainOf(k))

(* A State whose mutex is free agrees with the store: no committed receipt   *)
(* is forgotten, no failed one is counted (Commit, Rollback, the slow path). *)
HeadMatchesStore == \A k \in known : holder[k] = Free => IsHeadOf(head[k], k)

(* The UNIQUE index never rejects what the pipeline inserts: the slot a      *)
(* worker allocated stays its own until it commits or rolls back.            *)
SlotFree ==
    \A w \in Worker : pc[w] \in {"insertDrop", "insertLive"} =>
        ~ \E r \in Rows(ChainOf(job[w].key)) : r.seq = alloc[w].seq

(* When a frame leaves an events_dropped receipt and a live one, the live    *)
(* receipt comes right after the other, in the same chain, whatever other    *)
(* connections do in between (AllocatePair's promise).                       *)
DropAdjacent ==
    \A d, l \in rows :
        (d.id[1] \in Frame /\ l.id[1] = d.id[1] /\ d.id[2] = "drop" /\ l.id[2] = "live") =>
            l.chain = d.chain /\ l.seq = d.seq + 1

(* If the root chain had a receipt when a frame was read, and that frame     *)
(* opens its agent's chain, the first receipt carries a delegation: neither  *)
(* the creation race nor a rollback of an earlier first attempt loses it.    *)
(* No later receipt carries one.                                             *)
DelegationCarried ==
    \A w \in Worker : pc[w] \in {"insertDrop", "insertLive"} =>
        /\ alloc[w].seq # 1 => del[w] = Nil
        /\ (alloc[w].seq = 1 /\ job[w].rootSeen) => del[w] # Nil

Stored(f, kind) == \E r \in rows : r.id = <<f, kind>>

(* Process returns nil exactly when the live receipt is in the store: an     *)
(* error "always means the live receipt was NOT persisted".                  *)
AnswerMatchesStore ==
    \A f \in Frame : /\ result[f] = "ok" => Stored(f, "live")
                     /\ result[f] = "err" => ~Stored(f, "live")

(* Nobody waits forever on a chain mutex or on agentChainsMu, and the        *)
(* fallback of a failed drop receipt ends: Process returns.                  *)
ProcessReturns == \A w \in Worker : (pc[w] # "idle") ~> (pc[w] = "idle")

(* The store seen as one log per chain: the receipt at n is the row with     *)
(* sequence n.                                                               *)
LogOf(c) == [n \in {r.seq : r \in Rows(c)} |-> (CHOOSE r \in Rows(c) : r.seq = n).id]
Log == INSTANCE ReceiptLog WITH log <- [c \in Chain |-> LogOf(c)]

(* The commit path implements the receipt log: rows are only appended, at    *)
(* the end of their chain, each once.                                        *)
ImplementsLog == Log!Spec
-----------------------------------------------------------------------------
(* The inductive invariant behind the properties of the store.             *)

Holding == {"insertDrop", "commitFirst", "insertLive", "commit"}

(* Between Allocate and Commit or Rollback a worker holds its chain mutex.  *)
LockHeld == \A w \in Worker : pc[w] \in Holding => holder[job[w].key] = w

(* Past getOrCreateAgentState, the worker's chain has a State.              *)
StateKnown ==
    /\ Root \in known
    /\ \A w \in Worker :
        pc[w] \in {"fast", "delegateFast", "raced", "allocate"} \union Holding =>
            job[w].key \in known

(* The State of k agrees with the store unless a worker has inserted a      *)
(* receipt of k that it has not committed yet.                              *)
Uncommitted(k) == \E w \in Worker : /\ pc[w] \in {"commitFirst", "commit"}
                                    /\ job[w].key = k
                                    /\ holder[k] = w
HeadCurrent == \A k \in known : Uncommitted(k) \/ IsHeadOf(head[k], k)

(* What w is about to insert is the next receipt of its chain, and what it  *)
(* has inserted but not committed is the chain's head.                      *)
SlotOf(w) ==
    /\ pc[w] \in {"insertDrop", "insertLive"} => IsHeadOf(alloc[w], job[w].key)
    /\ pc[w] = "commitFirst" => IsHeadOf(After(ReceiptOf(w, "drop")), job[w].key)
    /\ pc[w] = "commit" => IsHeadOf(After(ReceiptOf(w, "live")), job[w].key)

(* While its chain has no State, the tail w read is not out of date.        *)
LoadOf(w) ==
    (pc[w] \in {"delegateSlow", "install"} /\ job[w].key \notin known) =>
        IsHeadOf(loaded[w], job[w].key)

IInv ==
    /\ TypeOK
    /\ ChainLinked
    /\ HeadCurrent
    /\ LockHeld
    /\ StateKnown
    /\ \A w \in Worker : SlotOf(w) /\ LoadOf(w)
-----------------------------------------------------------------------------
(* The inductive invariants behind the answers to frames and behind the     *)
(* delegations: what a worker knows of the receipts of its own frame.       *)

(* A frame was read before it is worked on, by one worker; its live receipt *)
(* is stored only between InsertLive and Commit, and a receipt of its drops *)
(* sits in the slot right before the one the worker holds.                  *)
FrameOf(w) ==
    pc[w] # "idle" =>
        /\ job[w].frame <= read
        /\ \A v \in Worker \ {w} : pc[v] # "idle" => job[v].frame # job[w].frame
        /\ result[job[w].frame] = "none"
        /\ Stored(job[w].frame, "live") <=> pc[w] = "commit"
        /\ \A d \in rows : d.id = <<job[w].frame, "drop">> =>
              /\ d.chain = ChainOf(job[w].key)
              /\ \/ pc[w] = "commitFirst" /\ alloc[w].seq = d.seq
                 \/ pc[w] \in {"insertLive", "commit"} /\ alloc[w].seq = d.seq + 1

(* A frame that was not read has no receipt and no answer.                  *)
Unread ==
    /\ \A r \in rows : r.id[1] \in Frame => r.id[1] <= read
    /\ \A f \in Frame : f > read => result[f] = "none"

FrameInv == Unread /\ AnswerMatchesStore /\ DropAdjacent /\ \A w \in Worker : FrameOf(w)

(* A frame that saw a root receipt reaches Allocate with a delegation       *)
(* unless the chain has grown past its first slot.                          *)
DelegationOf(w) ==
    /\ (pc[w] # "idle" /\ job[w].rootSeen) =>
          job[w].key # Root /\ Rows(ChainOf(Root)) # {}
    /\ pc[w] \in {"delegateSlow", "install", "raced"} =>
          loaded[w].seq = 1 \/ Rows(ChainOf(job[w].key)) # {}
    /\ (pc[w] \in {"install", "raced"} /\ job[w].rootSeen) => loaded[w].seq # 1 \/ del[w] # Nil
    /\ (pc[w] = "allocate" /\ job[w].rootSeen) => head[job[w].key].seq # 1 \/ del[w] # Nil
    /\ pc[w] \in {"insertDrop", "insertLive"} =>
          /\ alloc[w].seq # 1 => del[w] = Nil
          /\ (alloc[w].seq = 1 /\ job[w].rootSeen) => del[w] # Nil

DelegationInv == \A w \in Worker : DelegationOf(w)
=============================================================================
