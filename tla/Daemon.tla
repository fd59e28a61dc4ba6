------------------------------- MODULE Daemon -------------------------------
(***************************************************************************)
(* The life of the daemon process around Pipeline: Run in daemon.go starts *)
(* on the store an earlier run left, serves, and is stopped (SIGTERM), is  *)
(* broken off by a failing accept, or crashes.  On a graceful stop the     *)
(* listener drains and EmitTerminator closes the chains.                   *)
(*                                                                         *)
(* Everything but rows is memory of the process: a crash loses it.         *)
(***************************************************************************)
EXTENDS Pipeline

CONSTANTS MaxBoots,   \* bound on the starts of the daemon in a behaviour
          MaxAdvance  \* the cap of the loop that looks for an open root chain

VARIABLES
    phase,  \* how far Run is
    boots,  \* how many times the daemon was started
    todo,   \* the keys whose chain EmitTerminator has still to visit
    late,   \* the shutdown deadline has passed
    failed  \* (history) the keys whose terminator this stop failed to write

Phase      == {"serving", "draining", "aborting", "terminating", "stopped", "crashed"}
daemonVars == <<phase, boots, todo, late, failed>>
dvars      == <<vars, daemonVars>>

Terminal(r)     == r.id[2] = "terminal"

(* The stores to start on are stores that the daemon left: no root chain     *)
(* goes on past a terminal receipt, no chain is terminated twice in a row.   *)
ASSUME BootAssumption ==
    /\ MaxBoots \in Nat \ {0}
    /\ MaxAdvance \in Nat
    /\ Gen = 1..(MaxAdvance + 1)
    /\ \A S \in Prior : \A r, q \in S :
          (Terminal(r) /\ q.chain = r.chain) =>
              /\ r.chain[2] = Root => q.seq <= r.seq
              /\ Terminal(q) => q.seq # r.seq + 1

TerminalTail(c) == \E r \in Tails(c) : Terminal(r)

WrongResumed(g) == g = 1 \* no advance past a terminal root chain

(* The root chain id Run settles on: the first, from cfg.ChainID on, whose   *)
(* tail is not terminal.  Past MaxAdvance advances it refuses to start.      *)
Resumed(g) == /\ g \in Gen
              /\ ~TerminalTail(<<g, Root>>)
              /\ \A f \in 1..(g - 1) : TerminalTail(<<f, Root>>)

DInit ==
    /\ Init
    /\ Resumed(gen)
    /\ phase = "serving"
    /\ boots = 1
    /\ todo = {}
    /\ late = FALSE
    /\ failed = {}
-----------------------------------------------------------------------------
DReceive(w) == phase = "serving" /\ Receive(w) /\ UNCHANGED daemonVars

DStep(w) == /\ phase \in {"serving", "draining", "aborting"}
            /\ Step(w)
            /\ UNCHANGED daemonVars

(* The context is cancelled: Close shuts the listener and every connection,  *)
(* so no further frame is read; or accept fails, and the deferred Close does *)
(* the same.                                                                 *)
Stop ==
    /\ phase = "serving"
    /\ phase' \in {"draining", "aborting"}
    /\ UNCHANGED <<vars, boots, todo, late, failed>>

(* wg.Wait: every handler is back.  Run goes on to EmitTerminator, or, when  *)
(* accept failed, returns the error at once.                                 *)
Drain ==
    /\ phase \in {"draining", "aborting"}
    /\ \A w \in Worker : pc[w] = "idle"
    /\ IF phase = "draining"
       THEN phase' = "terminating" /\ todo' = known
       ELSE phase' = "crashed" /\ UNCHANGED todo
    /\ UNCHANGED <<vars, boots, late, failed>>

(* EmitTerminator's next chain: the agents' in map order, then the root's. *)
Visit(k) == /\ phase = "terminating"
            /\ k \in todo
            /\ k = Root => todo = {Root}
            /\ todo' = todo \ {k}
            /\ UNCHANGED <<gen, known, holder, mapLock, read, workerVars, result, phase, boots>>

(* The tail is not looked at. *)
WrongOpen(k) == head[k].seq # 1 /\ Rows(ChainOf(k)) # {}

Open(k) == head[k].seq # 1 /\ Rows(ChainOf(k)) # {} /\ ~TerminalTail(ChainOf(k))

(* Nothing to do: an empty chain, or one that ends in a terminal receipt.    *)
SkipTerminator(k) == Visit(k) /\ ~Open(k) /\ UNCHANGED <<rows, head, late, failed>>

(* The first failure ends the loop. *)
WrongTerminatorFails(k) ==
    /\ phase = "terminating"
    /\ k \in todo
    /\ head[k].seq # 1
    /\ todo' = {}
    /\ failed' = failed \union {k}
    /\ UNCHANGED <<vars, phase, boots, late>>

(* Reading the tail fails, or building or inserting the terminator does, or  *)
(* the deadline has passed: this chain is left as it is.                     *)
TerminatorFails(k) ==
    /\ Visit(k)
    /\ head[k].seq # 1
    /\ \/ UNCHANGED late
       \/ Open(k) /\ late' = TRUE
    /\ failed' = failed \union {k}
    /\ UNCHANGED <<rows, head>>

TerminatorOf(k, t) == [chain |-> ChainOf(k), seq |-> head[k].seq, prev |-> head[k].prev,
                       id |-> <<t, "terminal">>, parent |-> Nil]
Unused(t) == \A r \in rows : r.id[1] # t

EmitTerminator(k) ==
    LET r == TerminatorOf(k, CHOOSE t \in Past : Unused(t)) IN
    /\ Visit(k)
    /\ Open(k)
    /\ ~late
    /\ \E t \in Past : Unused(t)
    /\ Insertable(r)
    /\ rows' = rows \union {r}
    /\ head' = [head EXCEPT ![k] = After(r)]
    /\ UNCHANGED <<late, failed>>

(* Run returns. *)
Stopped ==
    /\ phase = "terminating"
    /\ todo = {}
    /\ phase' = "stopped"
    /\ UNCHANGED <<vars, boots, todo, late, failed>>

Up == phase \notin {"stopped", "crashed"}

(* The process dies; what its goroutines were doing is lost with them.       *)
Crash ==
    /\ Up
    /\ phase' = "crashed"
    /\ pc'      = [w \in Worker |-> "idle"]
    /\ job'     = [w \in Worker |-> NoJob]
    /\ loaded'  = [w \in Worker |-> FreshHead]
    /\ alloc'   = [w \in Worker |-> FreshHead]
    /\ del'     = [w \in Worker |-> Nil]
    /\ holder'  = [k \in Key |-> Free]
    /\ mapLock' = Free
    /\ UNCHANGED <<storeVars, known, head, read, result, boots, todo, late, failed>>

(* Run up to Serve: resume the first root chain that is not terminated.  No  *)
(* agent chain is loaded before a frame asks for it.                         *)
Boot ==
    /\ ~Up
    /\ boots < MaxBoots
    /\ boots' = boots + 1
    /\ \E g \in Gen : /\ Resumed(g)
                      /\ gen' = g
                      /\ \E h \in TailHeads(<<g, Root>>) :
                            head' = [k \in Key |-> IF k = Root THEN h ELSE FreshHead]
    /\ known' = {Root}
    /\ phase'  = "serving"
    /\ todo'   = {}
    /\ late'   = FALSE
    /\ failed' = {}
    /\ UNCHANGED <<rows, holder, mapLock, read, workerVars, result>>

(* No start is left, by the bound or because Run refuses. *)
Off == ~Up /\ (boots = MaxBoots \/ ~\E g \in Gen : Resumed(g)) /\ UNCHANGED dvars

Shutdown == Drain \/ Stopped
            \/ \E k \in Key : SkipTerminator(k) \/ TerminatorFails(k) \/ EmitTerminator(k)

DNext == \/ \E w \in Worker : DReceive(w) \/ DStep(w)
         \/ Stop \/ Shutdown \/ Crash \/ Boot \/ Off

DSpec == DInit /\ [][DNext]_dvars

(* Handlers run to their end, and so does the shutdown that waits for them. *)
FairDSpec == DSpec /\ WF_dvars(Shutdown) /\ \A w \in Worker : WF_dvars(DStep(w))
-----------------------------------------------------------------------------
(* The types of the process's own state. *)
DTypeOK ==
    /\ TypeOK
    /\ phase \in Phase
    /\ boots \in 1..MaxBoots
    /\ todo \subseteq Key
    /\ late \in BOOLEAN
    /\ failed \subseteq Key

(* No receipt of the chains in S follows a terminal receipt of its chain. *)
EndsInTerminal(S) ==
    \A r, q \in rows : (Terminal(r) /\ r.chain \in S /\ q.chain = r.chain) => q.seq <= r.seq

(* The root chain is never appended to after its terminal receipt, through   *)
(* any number of stops, crashes and restarts (the advance loop of Run).      *)
RootEndsInTerminal == EndsInTerminal(Gen \X {Root})

(* "refuse to start rather than appending after a terminal receipt (spec     *)
(* 7.3.2)", of any chain the daemon writes, a sub-agent's too.               *)
NoneAfterTerminal == EndsInTerminal(Chain)

(* One terminator is enough: an interrupted chain is not interrupted again   *)
(* by the next shutdown.                                                     *)
OneInterruption ==
    \A r, q \in rows : (Terminal(r) /\ Terminal(q) /\ q.chain = r.chain) => q.seq # r.seq + 1

(* A graceful stop leaves every chain this run opened with a terminal tail,  *)
(* except those whose own terminator failed: one chain's failure costs no    *)
(* other chain its terminator.                                               *)
StopTerminates ==
    phase = "stopped" =>
        \A k \in known \ failed : Rows(ChainOf(k)) # {} => TerminalTail(ChainOf(k))

(* While the process runs, a State whose mutex is free agrees with the store *)
(* it shares with every earlier run.                                         *)
RunningHeadMatchesStore == Up => HeadMatchesStore

(* A stop ends: handlers that hold or wait for a chain return, and no chain  *)
(* keeps EmitTerminator busy.                                                *)
StopCompletes == (phase = "draining") ~> (phase \in {"stopped", "crashed"})
-----------------------------------------------------------------------------
(* The inductive invariant behind the safety properties.                     *)

(* From EmitTerminator on no handler is at work.                             *)
Rested == phase \in {"terminating", "stopped", "crashed"} => \A w \in Worker : pc[w] = "idle"

(* The root chain that handlers append to has no terminal receipt.           *)
RootOpen == phase \in {"serving", "draining", "aborting"} =>
                \A r \in Rows(ChainOf(Root)) : ~Terminal(r)

(* EmitTerminator is done with the chains that it has visited.               *)
Visited ==
    phase \in {"terminating", "stopped"} =>
        /\ todo \subseteq IF phase = "stopped" THEN {} ELSE known
        /\ \A k \in known \ (todo \union failed) :
              Rows(ChainOf(k)) # {} => TerminalTail(ChainOf(k))

DaemonInv ==
    /\ DTypeOK
    /\ ChainLinked
    /\ Up => IInv
    /\ Rested
    /\ RootOpen
    /\ Visited
    /\ RootEndsInTerminal
    /\ OneInterruption
=============================================================================
