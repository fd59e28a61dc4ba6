---------------------------- MODULE VerifyChain ----------------------------
(***************************************************************************)
(* Verification of a chain: receipt.VerifyChain of the Go SDK and the      *)
(* tools that are built on it (receipt verify with its anchor check,       *)
(* receipt verify-event, doctor, the web verifier).                        *)
(*                                                                         *)
(* A receipt is its content and a proof.  The hash of a receipt covers the *)
(* content and not the proof, and stands here as the content itself: equal *)
(* hashes are equal contents.  A proof names the key that made it and what *)
(* it was made over.  Keys and their fingerprints are the same thing.      *)
(***************************************************************************)
EXTENDS Integers, Sequences, FiniteSetsExt

CONSTANTS None,       \* an absent field, an absent file, the key of an unreadable proof
          Undecodable \* a new_public_key that is not a key

Hash(r)         == r.content
Seal(c, key)    == [content |-> c, proof |-> [key |-> key, over |-> c]]
Prefix(rs, n)   == SubSeq(rs, 1, n)
Contents(rs)    == [i \in DOMAIN rs |-> Hash(rs[i])]
LastOf(rs)      == rs[Len(rs)]

WrongVerified(r, key) == r.proof.key = key \* any signature of the key

(* receipt.Verify: the proof was made by this key over this content.         *)
Verified(r, key) == r.proof = [key |-> key, over |-> r.content]

(* The key_rotation event of a receipt. *)
Event(old, new) == [wellFormed |-> TRUE, old |-> old, new |-> new, named |-> new]

(* verifyRotationEvent: constant fields and algorithms, the outgoing key is  *)
(* the one in force, the incoming key is readable and is the one named.      *)
RotationValid(rot, key) ==
    /\ rot.wellFormed
    /\ rot.old = key
    /\ rot.new # Undecodable
    /\ rot.named = rot.new

WrongActiveKey(rs, genesis) == [i \in 1..Len(rs) |-> genesis] \* no traversal

(* The key in force after receipt r, where k is before it: a rotation takes  *)
(* effect only if its event is valid and its own signature is.               *)
NextKey(r, k) ==
    LET rot == r.content.rot IN
    IF rot # None /\ RotationValid(rot, k) /\ Verified(r, k) THEN rot.new ELSE k

(* The key in force at each receipt. *)
ActiveKey(rs, genesis) ==
    LET key[i \in 1..Len(rs)] == IF i = 1 THEN genesis ELSE NextKey(rs[i - 1], key[i - 1])
    IN key

(* The previous receipt's hash that receipt i has to name: none or one. *)
Previous(rs, i)  == IF i = 1 THEN {} ELSE {Hash(rs[i - 1])}
LinkValid(rs, i) == rs[i].content.prev = Previous(rs, i)

SequenceValid(rs, i) ==
    IF i = 1 THEN rs[i].content.seq >= 1
             ELSE rs[i].content.seq = rs[i - 1].content.seq + 1

(* chain.status is absent, or a wire value on a terminal receipt.            *)
StatusValid(c) == c.status = "" \/ (c.status \in {"complete", "interrupted"} /\ c.terminal)

(* The flags of the result, one per receipt. *)
Flags(rs, genesis) ==
    LET key == ActiveKey(rs, genesis) IN
    [i \in DOMAIN rs |-> [signature |-> Verified(rs[i], key[i]),
                          link      |-> LinkValid(rs, i),
                          sequence  |-> SequenceValid(rs, i)]]
FlagsOK(f) == f.signature /\ f.link /\ f.sequence

(* What makes the loop set brokenAt: a flag, the status, the rotation event. *)
LoopBreaks(rs, genesis) ==
    LET key   == ActiveKey(rs, genesis)
        flags == Flags(rs, genesis)
    IN {i \in DOMAIN rs :
          LET c == rs[i].content IN
          \/ ~FlagsOK(flags[i])
          \/ ~StatusValid(c)
          \/ c.rot # None /\ ~RotationValid(c.rot, key[i])}

OtherChain(rs)    == {i \in DOMAIN rs : rs[i].content.chain # rs[1].content.chain}
AfterTerminal(rs) == {i \in DOMAIN rs : i > 1 /\ rs[i - 1].content.terminal}

WrongChainBreak(rs, genesis) ==
    IF OtherChain(rs) # {} THEN Min(OtherChain(rs))
    ELSE IF AfterTerminal(rs) # {} THEN Min(AfterTerminal(rs)) \* hides an earlier break
    ELSE IF LoopBreaks(rs, genesis) # {} THEN Min(LoopBreaks(rs, genesis)) ELSE 0

(* BrokenAt before the checks that need something from outside; 0 is none.   *)
(* A second chain id is reported at its place whatever is broken before it.  *)
ChainBreak(rs, genesis) ==
    LET breaks == LoopBreaks(rs, genesis) \union AfterTerminal(rs) IN
    IF OtherChain(rs) # {} THEN Min(OtherChain(rs))
    ELSE IF breaks # {} THEN Min(breaks) ELSE 0

(* The response bodies supplied, by receipt id: the first that is not what   *)
(* its receipt promised.                                                     *)
BodyBreaks(rs, bodies) ==
    {i \in DOMAIN rs : LET c == rs[i].content IN
        c.response # None /\ c.id \in DOMAIN bodies /\ bodies[c.id] # c.response}

(* ExpectedLength, ExpectedFinalHash, RequireTerminal, on a chain that is    *)
(* valid and not empty.                                                      *)
ExpectationsMet(rs, opt) ==
    /\ opt.length # None => Len(rs) = opt.length
    /\ opt.final # None => Hash(LastOf(rs)) = opt.final
    /\ opt.terminal => LastOf(rs).content.terminal

NoOptions == [bodies |-> <<>>, length |-> None, final |-> None, terminal |-> FALSE]

(* VerifyChain's BrokenAt, counted from 1; 0 is a valid chain.  Of the       *)
(* options an empty chain is held against the length only.                   *)
BrokenAt(rs, genesis, opt) ==
    LET at == ChainBreak(rs, genesis)
        bodyBreaks == BodyBreaks(rs, opt.bodies)
    IN IF rs = <<>> THEN IF opt.length \in {None, 0} THEN 0 ELSE 1
       ELSE IF at # 0 THEN at
       ELSE IF bodyBreaks # {} THEN Min(bodyBreaks)
       ELSE IF ExpectationsMet(rs, opt) THEN 0 ELSE Len(rs)

Valid(rs, genesis, opt) == BrokenAt(rs, genesis, opt) = 0

(* classifyTerminationStatus: what the chain says of its own end.            *)
Termination(rs) ==
    IF rs = <<>> \/ ~LastOf(rs).content.terminal THEN "unknown"
    ELSE IF LastOf(rs).content.status = "interrupted" THEN "interrupted" ELSE "complete"
-----------------------------------------------------------------------------
(* receipt verify: the chain is verified from the key that signed its first  *)
(* receipt, sought in the published key and then in the archives beside it.  *)
GenesisKey(rs, published, archives) ==
    LET signers == {k \in archives : Verified(rs[1], k)} IN
    IF rs = <<>> \/ Verified(rs[1], published) \/ signers = {} THEN published
    ELSE CHOOSE k \in signers : TRUE

(* currentChainKeyFingerprint: the key the last rotation names. *)
CurrentKey(rs) ==
    LET rotations == {i \in DOMAIN rs : rs[i].content.rot # None} IN
    IF rotations = {} THEN None ELSE rs[Max(rotations)].content.rot.named

(* A chain that starts from an archived key has to lead to the published one. *)
Pinned(rs, published, archives) ==
    GenesisKey(rs, published, archives) # published => CurrentKey(rs) = published

ChainAccepted(rs, published, archives) ==
    /\ Valid(rs, GenesisKey(rs, published, archives), NoOptions)
    /\ Pinned(rs, published, archives)

(* ReadLatestVerifiedCheckpoint: the places of the chain's checkpoints in    *)
(* the log, each signed by the published key, in strictly increasing order.  *)
CheckpointsOf(log, chain)        == {i \in DOMAIN log : log[i].chain = chain}
LogReadable(log, cps, published) ==
    \A i \in cps : /\ log[i].key = published
                  /\ \A j \in cps : j < i => log[j].seq < log[i].seq

WrongAnchorAccepts(log, chain, published, rs) ==
    LET cps == CheckpointsOf(log, chain) IN
    /\ LogReadable(log, cps, published)
    /\ cps # {} /\ rs # <<>>
    /\ log[Max(cps)].seq <= LastOf(rs).content.seq \* the store may have run ahead

(* verifyAgainstAnchor: the newest checkpoint is the head of the store. *)
AnchorAccepts(log, chain, published, rs) ==
    LET cps == CheckpointsOf(log, chain) IN
    /\ LogReadable(log, cps, published)
    /\ cps # {} /\ rs # <<>>
    /\ log[Max(cps)].seq = LastOf(rs).content.seq
    /\ log[Max(cps)].hash = Hash(LastOf(rs))

VerifyAccepts(log, chain, published, archives, rs) ==
    ChainAccepted(rs, published, archives) /\ AnchorAccepts(log, chain, published, rs)
-----------------------------------------------------------------------------
(* receipt verify-event judges one receipt of a chain.  It starts from the   *)
(* published key; archives are not consulted.                                *)
WrongLinkageHolds(flags, i) == \A j \in DOMAIN flags : j < i => flags[j].link \* off by one

LinkageHolds(flags, i) == \A j \in DOMAIN flags : flags[j].link

(* structuralErr: the chain is rejected for what no flag of a receipt shows. *)
StructuralError(rs, published) ==
    LET flags == Flags(rs, published) IN
    ChainBreak(rs, published) # 0 /\ \A i \in DOMAIN rs : FlagsOK(flags[i])

InContext(rs, published, i) ==
    LET flags == Flags(rs, published) IN
    /\ flags[i].sequence
    /\ i < Len(rs) => flags[i + 1].sequence
    /\ ~StructuralError(rs, published)

(* The checks that can fail.  checkPeerPresent: "absent" or "foreign"        *)
(* evidence is none, "malformed" evidence fails.                             *)
ChecksPass(rs, published, i) ==
    LET c == rs[i].content
        flags == Flags(rs, published)
    IN /\ flags[i].signature
       /\ LinkageHolds(flags, i)
       /\ c.peer # "malformed"
       /\ c.version = "known"
       /\ InContext(rs, published, i)

(* deriveVerdict. *)
EventVerdict(rs, published, i) ==
    IF ~ChecksPass(rs, published, i) THEN "failed"
    ELSE IF rs[i].content.peer = "attested" THEN "confirmed" ELSE "noProvenance"

(* exitCode of a batch: the worst verdict. *)
EventExit(rs, published, targets) ==
    LET verdicts == {EventVerdict(rs, published, i) : i \in targets} IN
    IF "failed" \in verdicts THEN 1 ELSE IF "noProvenance" \in verdicts THEN 3 ELSE 0

(* doctor's check of the chain head: VerifyStoredChain with the published    *)
(* key; an open chain is a warning.                                          *)
DoctorHead(rs, published) ==
    IF ~Valid(rs, published, NoOptions) THEN "fail"
    ELSE IF rs = <<>> \/ Termination(rs) = "unknown" THEN "warn" ELSE "ok"
-----------------------------------------------------------------------------
(* The web verifier: two rings, the chain under a key and a checkpoint under *)
(* an anchor key; a single receipt has a signature and no chain.             *)
AnchorTrusted(rs, p, anchorKey) ==
    /\ p # None /\ rs # <<>>
    /\ p.key = anchorKey
    /\ p.chain = LastOf(rs).content.chain
    /\ p.seq   = LastOf(rs).content.seq
    /\ p.hash  = Hash(LastOf(rs))

WebVerdict(consistent, trusted) ==
    IF ~consistent THEN "fail" ELSE IF trusted THEN "full" ELSE "qualified"

WebChain(rs, key, p, anchorKey) ==
    IF rs = <<>> THEN "error"
    ELSE WebVerdict(Valid(rs, key, NoOptions), AnchorTrusted(rs, p, anchorKey))

WebSingle(r, key, p, anchorKey) ==
    WebVerdict(Verified(r, key), AnchorTrusted(<<r>>, p, anchorKey))
=============================================================================
