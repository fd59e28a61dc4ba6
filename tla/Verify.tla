------------------------------- MODULE Verify -------------------------------
(***************************************************************************)
(* What the verdicts of VerifyChain are worth.  A chain is written as the  *)
(* daemon writes it, with key rotations and checkpoints; then some of what *)
(* is handed to a verifier is lost, moved, altered or replaced.  Keys are  *)
(* numbered in the order in which the chain came to use them.              *)
(***************************************************************************)
EXTENDS VerifyChain

CONSTANTS This, Other,  \* this chain, and another one of the same daemon
          Stranger,     \* a key that is not the daemon's
          MaxWritten,   \* bound on the receipts of the chain
          MaxDamage     \* bound on what happens to them

VARIABLES
    written, \* the chain as its daemon wrote it
    key,     \* the key the daemon signs with
    log,     \* the checkpoints of the chain, in the anchor
    shown,   \* what the verifier is given
    damage   \* how often it was damaged

vars == <<written, key, log, shown, damage>>

ASSUME VerifyAssumption ==
    /\ This # Other
    /\ {None, Stranger} \intersect Nat = {}
    /\ {MaxWritten, MaxDamage} \subseteq Nat \ {0}

Init ==
    /\ written = <<>>
    /\ key = 1
    /\ log = <<>>
    /\ shown = <<>>
    /\ damage = 0

(* A receipt that says nothing but its place. *)
Draft(chain, seq, prev, id) ==
    [chain |-> chain, seq |-> seq, prev |-> prev, id |-> id, terminal |-> FALSE, status |-> "",
     rot |-> None, response |-> None, peer |-> "absent", version |-> "known"]

(* The next receipt of the chain. *)
Plain == LET n == Len(written) + 1 IN Draft(This, n, Previous(written, n), n)

Write(c) ==
    /\ damage = 0
    /\ Len(written) < MaxWritten
    /\ written' = Append(written, Seal(c, key))
    /\ shown' = written'
    /\ UNCHANGED <<log, damage>>

Ended == written # <<>> /\ LastOf(written).content.terminal

(* A frame's receipt: with the peer it came from and the hash of the answer, *)
(* or from a release that knew neither.                                      *)
Commit == /\ ~Ended
          /\ UNCHANGED key
          /\ \/ Write([Plain EXCEPT !.peer = "attested", !.response = "answer"])
             \/ Write([Plain EXCEPT !.version = "other"])

(* The terminator of a stop, or the end an SDK gives its chain. *)
Close == /\ written # <<>>
         /\ ~Ended
         /\ UNCHANGED key
         /\ \E s \in {"complete", "interrupted"} :
              Write([Plain EXCEPT !.terminal = TRUE, !.status = s])

(* RotateKey does not ask whether the chain has ended. *)
Rotate == /\ Write([Plain EXCEPT !.rot = Event(key, key + 1)])
          /\ key' = key + 1

(* A head is anchored once, and the heads in order. *)
Anchor == LET p == [chain |-> This, seq |-> Len(written), hash |-> Hash(LastOf(written)),
                    key |-> key] IN
          /\ damage = 0
          /\ written # <<>>
          /\ log # <<>> => LastOf(log).seq < p.seq
          /\ log' = Append(log, p)
          /\ UNCHANGED <<written, key, shown, damage>>
-----------------------------------------------------------------------------
Alterations(c) ==
    {[c EXCEPT !.id = 0], [c EXCEPT !.seq = @ + 1], [c EXCEPT !.prev = {}],
     [c EXCEPT !.status = "unknown"], [c EXCEPT !.terminal = ~@], [c EXCEPT !.chain = Other]}
    \union (IF c.rot = None THEN {} ELSE
              {[c EXCEPT !.rot.new = Stranger], [c EXCEPT !.rot.new = Undecodable],
               [c EXCEPT !.rot.old = Stranger], [c EXCEPT !.rot.wellFormed = FALSE]})

(* What can stand in the place of a receipt: altered content under the old   *)
(* proof, or content under a stranger's proof, or under none.                *)
Replacements(r) ==
    {[r EXCEPT !.content = c] : c \in Alterations(r.content)}
    \union {Seal(c, Stranger) : c \in {r.content, [r.content EXCEPT !.id = 0]}}
    \union {[r EXCEPT !.proof.key = None]}

(* A receipt of another chain, that began with its key. *)
Astray == Seal(Draft(Other, 1, {}, -1), 1)

Without(rs, i)   == Prefix(rs, i - 1) \o SubSeq(rs, i + 1, Len(rs))
With(rs, i, r)   == Prefix(rs, i - 1) \o <<r>> \o SubSeq(rs, i, Len(rs))
Swapped(rs, i)   == [rs EXCEPT ![i] = rs[i + 1], ![i + 1] = rs[i]]

Damaged ==
    {Without(shown, i) : i \in DOMAIN shown}
    \union {Swapped(shown, i) : i \in DOMAIN shown \ {Len(shown)}}
    \union {With(shown, i, Astray) : i \in DOMAIN shown}
    \union {With(shown, i, shown[i]) : i \in DOMAIN shown}
    \union (UNION {{[shown EXCEPT ![i] = r] : r \in Replacements(shown[i])} : i \in DOMAIN shown})

Damage == /\ damage < MaxDamage
          /\ damage' = damage + 1
          /\ shown' \in Damaged
          /\ UNCHANGED <<written, key, log>>

Next == Commit \/ Close \/ Rotate \/ Anchor \/ Damage

Spec == Init /\ [][Next]_vars
-----------------------------------------------------------------------------
(* What the reader of a chain may ask for besides: the length, the last hash *)
(* and the answers its daemon wrote, a terminal receipt.                     *)
Options ==
    LET answers == [i \in DOMAIN written |-> written[i].content.response] IN
    [bodies   : {<<>>, answers},
     length   : {None, Len(written)},
     final    : {None} \union {Hash(written[i]) : i \in DOMAIN written \ (1..Len(written) - 1)},
     terminal : BOOLEAN]

DaemonKeys == 1..key

(* VerifyChain is not told which chain to expect. *)
Ours == shown # <<>> => shown[1].content.chain = This

(* The content shown is what was written, up to the nth receipt. *)
IsHistory(rs, n) == n <= Len(written) /\ Contents(Prefix(rs, n)) = Contents(Prefix(written, n))
WasWritten(c)    == c \in {Hash(written[i]) : i \in DOMAIN written} \/ c = Hash(Astray)

(* VerifyChain, "brokenAt": the receipts before it verify as a chain of      *)
(* their own and no longer prefix does, so a report points at the first      *)
(* defect.  Only a foreign chain id moves it, and then forwards.             *)
FirstDefect ==
    LET at == BrokenAt(shown, 1, NoOptions) IN
    /\ OtherChain(shown) = {} =>
          \A n \in DOMAIN shown :
              Valid(Prefix(shown, n), 1, NoOptions) <=> (at = 0 \/ n < at)
    /\ at # 0 => ~Valid(Prefix(shown, at), 1, NoOptions)

(* A chain that verifies from its genesis key, whatever the options, is what *)
(* the daemon wrote, from the first receipt on, and not past its end; one    *)
(* receipt that verifies is one a daemon's key signed.                       *)
OnlyHistory ==
    /\ \A opt \in Options : Ours /\ Valid(shown, 1, opt) =>
          IsHistory(shown, Len(shown)) /\ AfterTerminal(shown) = {}
    /\ \A i \in DOMAIN shown, k \in DaemonKeys :
          WebSingle(shown[i], k, None, None) # "fail" => WasWritten(Hash(shown[i]))

(* "To detect truncation": a chain that verifies and has the length, or ends *)
(* in the receipt or the checkpoint, that a witness kept is whole up to      *)
(* there.  (Of an empty chain only the length is looked at.)                 *)
WitnessedWhole ==
    LET whole(n) == Len(shown) = n /\ IsHistory(shown, n) IN
    /\ \A opt \in Options : Ours /\ Valid(shown, 1, opt) =>
          /\ opt.length # None => whole(Len(written))
          /\ opt.final # None => whole(Len(written)) \/ shown = <<>>
          /\ opt.terminal => \/ whole(Len(written))
                             \/ shown = <<>>
                             \/ AfterTerminal(written) # {}
    /\ \A k \in DaemonKeys : VerifyAccepts(log, This, k, DaemonKeys, shown) => whole(LastOf(log).seq)
    /\ \A i \in DOMAIN log, k \in DaemonKeys :
          WebChain(shown, 1, log[i], k) = "full" => whole(log[i].seq)

(* A receipt verify-event confirms, or finds without provenance, is one the  *)
(* daemon wrote, and so is everything before it, although other receipts of  *)
(* the chain may fail; a batch is confirmed only if each of it is.           *)
ConfirmedIsHistory ==
    \A i \in DOMAIN shown, k \in DaemonKeys :
        /\ Ours /\ EventVerdict(shown, k, i) # "failed" => IsHistory(shown, i)
        /\ EventExit(shown, k, 1..i) = 0 =>
              /\ \A j \in 1..i : shown[j].content.peer = "attested"
              /\ DoctorHead(Prefix(shown, i), k) # "fail"
-----------------------------------------------------------------------------
(* What a peer is attested for neither ends the chain nor rotates its key.   *)
AttestedIsCall(c) == c.peer = "attested" => ~c.terminal /\ c.status = "" /\ c.rot = None

(* The chain is written one receipt behind the other, and the keys hand over *)
(* to their successors.                                                      *)
WellWritten ==
    \A i \in DOMAIN written :
        LET c == written[i].content
            k == written[i].proof.key
        IN /\ written[i] = Seal(c, k)
           /\ k \in 1..key
           /\ c.chain = This /\ c.seq = i /\ c.prev = Previous(written, i)
           /\ c.rot # None => k < key /\ c.rot = Event(k, k + 1)
           /\ AttestedIsCall(c)

(* The anchor has receipts of the chain. *)
Logged == \A i \in DOMAIN log : /\ log[i].chain = This
                                /\ log[i].seq \in DOMAIN written
                                /\ log[i].hash = Hash(written[log[i].seq])

(* Whatever is done to the receipts shown, a proof by a key of the daemon is *)
(* one the daemon made.                                                      *)
Genuine ==
    \A i \in DOMAIN shown :
        LET r == shown[i] IN
        /\ r = [content |-> r.content, proof |-> [key |-> r.proof.key, over |-> r.proof.over]]
        /\ r.proof.key \in 1..key =>
              r.proof = Astray.proof \/ \E j \in DOMAIN written : r.proof = written[j].proof

(* What the theorems about the verdicts rest on. *)
VerifyInv ==
    /\ written \in Seq(Range(written)) /\ shown \in Seq(Range(shown)) /\ log \in Seq(Range(log))
    /\ key \in Nat \ {0}
    /\ damage \in Nat
    /\ damage = 0 => shown = written
    /\ WellWritten
    /\ Logged
    /\ Genuine
=============================================================================
