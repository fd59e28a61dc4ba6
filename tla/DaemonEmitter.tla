--------------------------- MODULE DaemonEmitter ---------------------------
(***************************************************************************)
(* The client side of the daemon's socket: DaemonEmitter of                *)
(* sdk/go/emitter, called by several goroutines at once, and its Close.    *)
(*                                                                         *)
(* e.mu guards conn and closed; dropCount is atomic and is not under e.mu; *)
(* a dial runs under no lock.  The daemon is what the emitter sees of it:  *)
(* it accepts, reads frames, hangs up, goes away and comes back.           *)
(***************************************************************************)
EXTENDS Integers, Sequences, FiniteSets, Functions, SequencesExt

CONSTANTS Caller,    \* goroutines that call Emit
          MaxEmits,  \* bound on the calls
          MaxOutages,\* bound on how often the daemon goes away
          None       \* no connection

Emission == 1..MaxEmits         \* a call of Emit, named by its order
Conn     == 1..MaxEmits         \* a connection, named by the call that dialled it
Frame    == [emission: Emission, drops: Nat]
PC       == {"idle", "ready", "dial", "install", "write", "restore", "logDrop", "close"}

ASSUME EmitterAssumption ==
    {MaxEmits, MaxOutages} \subseteq Nat /\ None \notin Conn /\ IsFiniteSet(Caller)

VARIABLES
    dropCount, \* DaemonEmitter.dropCount
    conn,      \* DaemonEmitter.conn
    closed,    \* DaemonEmitter.closed
    calls,     \* how often Emit was called
    pc,        \* per caller, what Emit does next
    call,      \* per caller, which call it is in
    pending,   \* pendingDrops
    holds,     \* per caller, the connections it has to install or to close
    answer,    \* what each call returned
    up,        \* the daemon accepts connections
    outages,   \* how often it went away
    fds,       \* connections the client has not closed
    peer,      \* connections the daemon has not closed
    wire,      \* frames written to a connection that the daemon has not read
    handled,   \* frames the daemon has read
    sent,      \* (history) the drop counts of all frames written, summed
    failed     \* (history) how many calls failed in transport

emitterVars == <<dropCount, conn, closed>>
callVars    == <<calls, pc, call, pending, holds, answer>>
daemonVars  == <<up, outages, peer, wire, handled>>
history     == <<sent, failed>>
vars == <<emitterVars, callVars, daemonVars, fds, history>>

Init ==
    /\ dropCount = 0
    /\ conn = None
    /\ closed = FALSE
    /\ calls = 0
    /\ pc = [c \in Caller |-> "idle"]
    /\ call = [c \in Caller |-> 0]
    /\ pending = [c \in Caller |-> 0]
    /\ holds = [c \in Caller |-> {}]
    /\ answer = [n \in Emission |-> "none"]
    /\ up \in BOOLEAN
    /\ outages = 0
    /\ fds = {}
    /\ peer = {}
    /\ wire = [k \in Conn |-> <<>>]
    /\ handled = {}
    /\ sent = 0
    /\ failed = 0
-----------------------------------------------------------------------------
Goto(c, label) == pc' = [pc EXCEPT ![c] = label]
Hold(c, S)     == holds' = [holds EXCEPT ![c] = S]
Answer(c, a)   == answer' = [answer EXCEPT ![call[c]] = a]

(* Emit will return an error: of transport ("dropped", which WithBestEffort  *)
(* turns into nil), or another ("error").                                    *)
Fail(c, a) ==
    /\ Answer(c, a)
    /\ Goto(c, "restore")
    /\ failed' = IF a = "dropped" THEN failed + 1 ELSE failed
    /\ UNCHANGED sent
Proceed(c, label) == Goto(c, label) /\ UNCHANGED <<answer, history>>

(* The counter is read, not swapped. *)
WrongEmit(c) ==
    /\ pc[c] = "idle"
    /\ calls < MaxEmits
    /\ calls' = calls + 1
    /\ call' = [call EXCEPT ![c] = calls']
    /\ pending' = [pending EXCEPT ![c] = dropCount]
    /\ Goto(c, "ready")
    /\ UNCHANGED <<emitterVars, holds, answer, daemonVars, fds, history>>

(* Emit up to the Swap of dropCount.  (An event rejected earlier leaves no   *)
(* trace.)                                                                   *)
Emit(c) ==
    /\ pc[c] = "idle"
    /\ calls < MaxEmits
    /\ calls' = calls + 1
    /\ call' = [call EXCEPT ![c] = calls']
    /\ pending' = [pending EXCEPT ![c] = dropCount]
    /\ dropCount' = 0
    /\ Goto(c, "ready")
    /\ UNCHANGED <<conn, closed, holds, answer, daemonVars, fds, history>>

(* The rest of the validation, and the first look at conn under e.mu.        *)
Check(c) ==
    /\ pc[c] = "ready"
    /\ \/ Fail(c, "error")
       \/ ~closed /\ Proceed(c, IF conn = None THEN "dial" ELSE "write")
    /\ UNCHANGED <<emitterVars, calls, call, pending, holds, daemonVars, fds>>

(* dial, outside e.mu: it fails, the context ends, or it connects.           *)
Dial(c) ==
    /\ pc[c] = "dial"
    /\ \/ /\ Fail(c, "error") \/ Fail(c, "dropped")
          /\ UNCHANGED <<holds, fds, peer>>
       \/ /\ up
          /\ Hold(c, {call[c]})
          /\ fds' = fds \union {call[c]}
          /\ peer' = peer \union {call[c]}
          /\ Proceed(c, "install")
    /\ UNCHANGED <<emitterVars, calls, call, pending, up, outages, wire, handled>>

(* Close during the dial goes unnoticed. *)
WrongInstall(c) ==
    /\ pc[c] = "install"
    /\ Proceed(c, "write")
    /\ IF conn = None
       THEN Hold(c, {}) /\ conn' \in holds[c]
       ELSE UNCHANGED <<conn, holds>>
    /\ UNCHANGED <<dropCount, closed, calls, call, pending, daemonVars, fds>>

(* The check-and-set of conn.  A caller that lost the dial race closes its   *)
(* connection when it returns, and so does one that finds the emitter closed.*)
Install(c) ==
    /\ pc[c] = "install"
    /\ IF closed THEN Fail(c, "error") ELSE Proceed(c, "write")
    /\ IF ~closed /\ conn = None
       THEN Hold(c, {}) /\ conn' \in holds[c]
       ELSE UNCHANGED <<conn, holds>>
    /\ UNCHANGED <<dropCount, closed, calls, call, pending, daemonVars, fds>>

(* The write under e.mu, when there is a connection to write to. *)
Writing(c) == pc[c] = "write" /\ ~closed /\ conn # None

WriteFrame(c) ==
    /\ Writing(c)
    /\ conn \in peer
    /\ wire' = [wire EXCEPT ![conn] = Append(@, [emission |-> call[c], drops |-> pending[c]])]
    /\ sent' = sent + pending[c]
    /\ pending' = [pending EXCEPT ![c] = 0]
    /\ Answer(c, "ok")
    /\ Goto(c, "close")
    /\ UNCHANGED <<emitterVars, calls, call, holds, up, outages, peer, handled, fds, failed>>

(* The error comes after the whole frame has been sent. *)
WrongWriteFailsLate(c) ==
    /\ Writing(c)
    /\ conn \in peer
    /\ wire' = [wire EXCEPT ![conn] = Append(@, [emission |-> call[c], drops |-> pending[c]])]
    /\ Fail(c, "dropped")
    /\ Hold(c, holds[c] \union {conn})
    /\ conn' = None
    /\ UNCHANGED <<dropCount, closed, calls, call, pending, up, outages, peer, handled, fds>>

(* The next call is left to write to the connection that failed. *)
WrongWriteFails(c) ==
    /\ Writing(c)
    /\ Fail(c, "dropped")
    /\ Hold(c, holds[c] \union {conn})
    /\ UNCHANGED <<emitterVars, calls, call, pending, daemonVars, fds>>

(* The daemon hung up, or the deadline passes: a part of the frame at most   *)
(* was sent, and nothing follows it on that connection.                      *)
WriteFails(c) ==
    /\ Writing(c)
    /\ Fail(c, "dropped")
    /\ Hold(c, holds[c] \union {conn})
    /\ conn' = None
    /\ UNCHANGED <<dropCount, closed, calls, call, pending, daemonVars, fds>>

(* Close, or a sibling's failed write, took the connection away.             *)
NoConn(c) ==
    /\ pc[c] = "write"
    /\ closed \/ conn = None
    /\ Fail(c, IF closed THEN "error" ELSE "dropped")
    /\ UNCHANGED <<emitterVars, calls, call, pending, holds, daemonVars, fds>>

(* A failed call puts back the drops it took, and then, if it failed in      *)
(* transport, counts its own.                                                *)
Restore(c) ==
    /\ pc[c] = "restore"
    /\ dropCount' = dropCount + pending[c]
    /\ pending' = [pending EXCEPT ![c] = 0]
    /\ Goto(c, IF answer[call[c]] = "dropped" THEN "logDrop" ELSE "close")
    /\ UNCHANGED <<conn, closed, calls, call, holds, answer, daemonVars, fds, history>>

LogDrop(c) ==
    /\ pc[c] = "logDrop"
    /\ dropCount' = dropCount + 1
    /\ Goto(c, "close")
    /\ UNCHANGED <<conn, closed, calls, call, pending, holds, answer, daemonVars, fds, history>>

(* The call closes what it holds and returns. *)
Return(c) ==
    /\ pc[c] = "close"
    /\ fds' = fds \ holds[c]
    /\ Hold(c, {})
    /\ Goto(c, "idle")
    /\ UNCHANGED <<emitterVars, calls, call, pending, answer, daemonVars, history>>

Close ==
    /\ ~closed
    /\ closed' = TRUE
    /\ conn' = None
    /\ fds' = fds \ {conn}
    /\ UNCHANGED <<dropCount, callVars, daemonVars, history>>
-----------------------------------------------------------------------------
(* serveConn reads the next frame, also one the client sent before it closed. *)
Handle(k) ==
    /\ k \in peer
    /\ wire[k] # <<>>
    /\ handled' = handled \union {Head(wire[k])}
    /\ wire' = [wire EXCEPT ![k] = Tail(@)]
    /\ UNCHANGED <<emitterVars, callVars, up, outages, peer, fds, history>>

(* The daemon stops or dies: what it has not read is gone. *)
GoDown ==
    /\ up
    /\ outages < MaxOutages
    /\ outages' = outages + 1
    /\ up' = FALSE
    /\ peer' = {}
    /\ wire' = [k \in Conn |-> <<>>]
    /\ UNCHANGED <<emitterVars, callVars, handled, fds, history>>

ComeUp ==
    /\ ~up
    /\ up' = TRUE
    /\ UNCHANGED <<emitterVars, callVars, outages, peer, wire, handled, fds, history>>

Step(c) == \/ Check(c) \/ Dial(c) \/ Install(c) \/ WriteFrame(c) \/ WriteFails(c)
           \/ NoConn(c) \/ Restore(c) \/ LogDrop(c) \/ Return(c)

Done == calls = MaxEmits /\ closed /\ (\A c \in Caller : pc[c] = "idle") /\ UNCHANGED vars

Next == \/ \E c \in Caller : Emit(c) \/ Step(c)
        \/ \E k \in Conn : Handle(k)
        \/ Close \/ GoDown \/ ComeUp \/ Done

Spec == Init /\ [][Next]_vars

-----------------------------------------------------------------------------
(* Type correctness. *)
TypeOK ==
    /\ dropCount \in 0..MaxEmits
    /\ conn \in Conn \union {None}
    /\ closed \in BOOLEAN
    /\ calls \in 0..MaxEmits
    /\ pc \in [Caller -> PC]
    /\ call \in [Caller -> 0..MaxEmits]
    /\ pending \in [Caller -> 0..MaxEmits]
    /\ holds \in [Caller -> SUBSET Conn]
    /\ answer \in [Emission -> {"none", "ok", "dropped", "error"}]
    /\ up \in BOOLEAN
    /\ outages \in 0..MaxOutages
    /\ fds \subseteq Conn /\ peer \subseteq Conn
    /\ wire \in [Conn -> Seq(Frame)]
    /\ handled \subseteq Frame
    /\ sent \in 0..MaxEmits /\ failed \in 0..MaxEmits

Total(f)    == FoldFunction(+, 0, f)
Counting(c) == pc[c] \in {"restore", "logDrop"} /\ answer[call[c]] = "dropped"

(* Every transport failure is counted exactly once, in the counter, in the   *)
(* hands of a call, or in one frame that was written: concurrent swaps,      *)
(* restores and increments neither lose a drop nor report one twice.         *)
DropsConserved ==
    dropCount + Total(pending) + Cardinality({c \in Caller : Counting(c)}) + sent
        = failed

(* Frames the daemon has read or will. *)
Delivered == handled \union UNION {Range(wire[k]) : k \in Conn}

(* What Emit returns is true: after an error the daemon never sees the event *)
(* (so a retry records it once); after a success it does, unless it went     *)
(* away with the frame unread.                                               *)
AnswerTrue ==
    \A n \in Emission :
        LET delivered == \E f \in Delivered : f.emission = n IN
        /\ answer[n] \in {"dropped", "error"} => ~delivered
        /\ answer[n] = "ok" /\ outages = 0 => delivered

(* No connection leaks: once no call is in progress, the only one open is    *)
(* the emitter's own, and after Close there is none, whatever raced with it. *)
NoLeak ==
    (\A c \in Caller : pc[c] = "idle") =>
        fds = {conn} \ {None} /\ (closed => fds = {})

(* A connection that failed or was closed is never used again, and e.conn is *)
(* never one that another call is about to close.                            *)
ConnOwned ==
    /\ conn # None => conn \in fds
    /\ \A c \in Caller : conn \notin holds[c]
-----------------------------------------------------------------------------
(* The inductive invariant behind TypeOK and the four properties above.      *)

(* The types, without the bounds that follow from what is counted.           *)
Shapes ==
    /\ dropCount \in Nat
    /\ conn \in Conn \union {None}
    /\ closed \in BOOLEAN
    /\ calls \in 0..MaxEmits
    /\ pc \in [Caller -> PC]
    /\ call \in [Caller -> 0..MaxEmits]
    /\ pending \in [Caller -> Nat]
    /\ holds \in [Caller -> SUBSET Conn]
    /\ answer \in [Emission -> {"none", "ok", "dropped", "error"}]
    /\ up \in BOOLEAN
    /\ outages \in 0..MaxOutages
    /\ fds \subseteq Conn /\ peer \subseteq Conn
    /\ wire \in [Conn -> Seq(Frame)]
    /\ handled \subseteq Frame
    /\ sent \in Nat /\ failed \in Nat

(* Calls in progress have numbers of their own, and no later one is taken.   *)
OwnCalls ==
    /\ \A c \in Caller : call[c] <= calls /\ (pc[c] # "idle" => call[c] # 0)
    /\ \A c, d \in Caller : c # d /\ pc[c] # "idle" /\ pc[d] # "idle" => call[c] # call[d]

(* An open connection belongs to the emitter or to one call that will close  *)
(* it; a call that has not dialled has none.                                 *)
OneOwner ==
    /\ \A k \in fds : k <= calls /\ (k = conn \/ \E c \in Caller : k \in holds[c])
    /\ \A c \in Caller : holds[c] \subseteq fds
    /\ \A c, d \in Caller : c # d => holds[c] \intersect holds[d] = {}
    /\ closed => conn = None
    /\ \A c \in Caller :
          /\ pc[c] \in {"idle", "ready", "dial"} => holds[c] = {}
          /\ pc[c] \in {"ready", "dial"} => call[c] \notin fds
          /\ pc[c] = "install" => holds[c] = {call[c]}

(* A frame is written exactly by the call that then answers "ok".            *)
OneAnswer ==
    /\ \A c \in Caller : pc[c] \in {"ready", "dial", "install", "write"} =>
                             answer[call[c]] = "none"
    /\ \A n \in Emission : n > calls => answer[n] = "none"
    /\ \A f \in Delivered : answer[f.emission] = "ok"

(* A call gives back or reports the drops it took before it returns, and     *)
(* failed counts the calls that answer "dropped".                            *)
OneCount ==
    /\ \A c \in Caller : /\ pc[c] \in {"idle", "logDrop", "close"} => pending[c] = 0
                         /\ pc[c] = "logDrop" => answer[call[c]] = "dropped"
    /\ failed = Cardinality({n \in Emission : answer[n] = "dropped"})

EmitterInv ==
    Shapes /\ OwnCalls /\ OneOwner /\ ConnOwned /\ OneAnswer /\ AnswerTrue /\ OneCount /\ DropsConserved
=============================================================================
