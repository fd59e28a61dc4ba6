------------------------------ MODULE Rotation ------------------------------
(***************************************************************************)
(* The rotation of the signing key (RotateKey in daemon/rotate.go) between *)
(* the runs of a daemon, over the key files, the archive of public keys,   *)
(* the anchor and the store; and what the verifiers say of the chains      *)
(* afterwards.  A rotation and a start of the daemon are separate          *)
(* processes: each step of one can come between two of the other, and each *)
(* can fail or be the last.  Keys are numbered as they are generated.      *)
(***************************************************************************)
EXTENDS VerifyChain

CONSTANTS Root, Agent, \* the two chains a run of the daemon writes
          MaxDay,      \* bound on the days, which name the root chains
          MaxAdvance,  \* bound on the root chains of a day
          MaxKey,      \* bound on the keys generated
          MaxReceipts, \* bound on the receipts in the store
          MaxStarts    \* bound on the starts of the daemon

VARIABLES
    rows,    \* rows[c]: the receipts of chain c in the store
    day,     \* today
    files,   \* the key files: private, public and the backups of the two
    archive, \* the archived public keys, under the key that names the file
    anchor,  \* the keys whose installation the anchor has witnessed
    daemon,  \* the daemon: how far it is, its key, its root chain and that chain's head
    starts,  \* how often it was started
    rot,     \* the rotation in progress
    newest,  \* the newest key generated
    torn,    \* (history) a rotation ended between the key files and the receipt
    overlap  \* (history) a rotation and a daemon ran at the same time

storeVars == <<rows, day>>
diskVars  == <<files, archive, anchor>>
histVars  == <<torn, overlap>>
vars == <<storeVars, diskVars, daemon, starts, rot, newest, histVars>>

RootChain == (1..MaxDay) \X (1..MaxAdvance) \X {Root}
Chain     == (1..MaxDay) \X (1..MaxAdvance) \X {Root, Agent}

ASSUME RotationAssumption ==
    /\ Root # Agent
    /\ {MaxDay, MaxAdvance, MaxKey, MaxReceipts, MaxStarts} \subseteq Nat \ {0}
    /\ None \notin 1..MaxKey /\ Undecodable \notin 1..MaxKey
    /\ \A old, new \in 1..MaxKey : Event(old, new) # None

Down    == [phase |-> "down", key |-> 0, root |-> None, length |-> 0, agent |-> FALSE]
NoRun   == [step |-> "none"]

Init ==
    /\ rows = [c \in Chain |-> <<>>]
    /\ day = 1
    /\ files = [private |-> 1, public |-> 1, backup |-> None] \* GenerateKey
    /\ archive = {}
    /\ anchor = {}
    /\ daemon = Down
    /\ starts = 0
    /\ rot = NoRun
    /\ newest = 1
    /\ torn = FALSE
    /\ overlap = FALSE

Written == {e \in Chain \X (1..MaxReceipts) : e[2] \in DOMAIN rows[e[1]]}
Room    == Cardinality(Written) < MaxReceipts
Ended(c) == rows[c] # <<>> /\ LastOf(rows[c]).content.terminal

(* The receipt at the end of chain c. *)
NextReceipt(c) == [chain |-> c, seq |-> Len(rows[c]) + 1,
             prev |-> Previous(rows[c], Len(rows[c]) + 1),
             id |-> <<c, Len(rows[c]) + 1>>, terminal |-> FALSE, status |-> "", rot |-> None,
             response |-> None, peer |-> "attested", version |-> "known"]
Terminator(c) == [NextReceipt(c) EXCEPT !.terminal = TRUE, !.status = "interrupted", !.peer = "absent"]
-----------------------------------------------------------------------------
(* Run up to Listen.  The private key is read first; *)
LoadKey ==
    /\ daemon.phase = "down"
    /\ starts < MaxStarts
    /\ starts' = starts + 1
    /\ daemon' = [Down EXCEPT !.phase = "loaded", !.key = files.private]
    /\ overlap' = (overlap \/ rot # NoRun)
    /\ UNCHANGED <<storeVars, diskVars, rot, newest, torn>>

(* publishPublicKey: an existing file has to hold this key. *)
Published(k) == files.public \in {None, k}

Publish ==
    /\ daemon.phase = "loaded"
    /\ IF Published(daemon.key)
       THEN /\ files' = [files EXCEPT !.public = daemon.key]
            /\ daemon' = [daemon EXCEPT !.phase = "published"]
       ELSE daemon' = Down /\ UNCHANGED files
    /\ UNCHANGED <<storeVars, archive, anchor, starts, rot, newest, histVars>>

(* the head of the first root chain of the day that has not ended is loaded, *)
Resume ==
    /\ daemon.phase = "published"
    /\ LET open == {n \in 1..MaxAdvance : ~Ended(<<day, n, Root>>)} IN
       IF open = {} THEN daemon' = Down
       ELSE LET c == <<day, Min(open), Root>> IN
            daemon' = [daemon EXCEPT !.phase = "resumed", !.root = c, !.length = Len(rows[c])]
    /\ UNCHANGED <<storeVars, diskVars, starts, rot, newest, histVars>>

(* and the socket can be reached.                                            *)
Listen ==
    /\ daemon.phase = "resumed"
    /\ daemon' = [daemon EXCEPT !.phase = "serving"]
    /\ UNCHANGED <<storeVars, diskVars, starts, rot, newest, histVars>>

AgentChain == <<daemon.root[1], daemon.root[2], Agent>>

(* A frame is committed under the key in memory: on the root chain if the    *)
(* head in memory is the store's (the store refuses a second receipt of one  *)
(* sequence), or on the agent's chain, which no one else writes to.          *)
Commit ==
    /\ daemon.phase = "serving"
    /\ Room
    /\ \/ /\ daemon.length = Len(rows[daemon.root])
          /\ rows' = [rows EXCEPT ![daemon.root] =
                        Append(@, Seal(NextReceipt(daemon.root), daemon.key))]
          /\ daemon' = [daemon EXCEPT !.length = @ + 1]
       \/ /\ rows' = [rows EXCEPT ![AgentChain] = Append(@, Seal(NextReceipt(AgentChain), daemon.key))]
          /\ daemon' = [daemon EXCEPT !.agent = TRUE]
    /\ UNCHANGED <<day, diskVars, starts, rot, newest, histVars>>

(* EmitTerminator, for the chains this run has a State of. *)
ToTerminate ==
    {c \in {daemon.root, AgentChain} :
        /\ rows[c] # <<>>
        /\ ~Ended(c)
        /\ IF c = daemon.root THEN daemon.length = Len(rows[c]) ELSE daemon.agent}

(* A graceful stop. *)
Stop ==
    /\ daemon.phase = "serving"
    /\ Cardinality(Written) + Cardinality(ToTerminate) <= MaxReceipts
    /\ rows' = [c \in Chain |-> IF c \in ToTerminate
                                THEN Append(rows[c], Seal(Terminator(c), daemon.key)) ELSE rows[c]]
    /\ daemon' = Down
    /\ UNCHANGED <<day, diskVars, starts, rot, newest, histVars>>

Kill == /\ daemon.phase # "down"
        /\ daemon' = Down
        /\ UNCHANGED <<storeVars, diskVars, starts, rot, newest, histVars>>

(* The default chain id is the date on which a process starts. *)
Midnight == /\ day < MaxDay
            /\ day' = day + 1
            /\ UNCHANGED <<rows, diskVars, daemon, starts, rot, newest, histVars>>
-----------------------------------------------------------------------------
Running(step) == rot.step = step
Go(step)      == rot' = [rot EXCEPT !.step = step]

(* RotateKey up to the signed receipt: no daemon answers on the socket; the  *)
(* outgoing key and the tail of today's root chain are read, whatever that   *)
(* chain is and however it ends.                                             *)
BeginRotation ==
    LET c == <<day, 1, Root>> IN
    /\ Running("none")
    /\ daemon.phase # "serving"
    /\ newest < MaxKey
    /\ newest' = newest + 1
    /\ rot' = [step |-> "anchor", old |-> files.private, new |-> newest + 1, chain |-> c,
               content |-> [NextReceipt(c) EXCEPT
                              !.peer = "absent",
                              !.rot = Event(files.private, newest + 1)]]
    /\ overlap' = (overlap \/ daemon.phase # "down")
    /\ UNCHANGED <<storeVars, diskVars, daemon, starts, torn>>

WrongWitness == \* aborted by an error, but carries on
    /\ Running("anchor")
    /\ anchor' \in {anchor, anchor \union {rot.new}}
    /\ Go("archive")
    /\ UNCHANGED <<storeVars, files, archive, daemon, starts, newest, histVars>>

(* anchorRotationEvent: before any local change.  An error ends the rotation *)
(* although the record may have been written.                                *)
Witness ==
    /\ Running("anchor")
    /\ \/ anchor' = anchor \union {rot.new} /\ Go("archive")
       \/ anchor' \in {anchor, anchor \union {rot.new}} /\ rot' = NoRun
    /\ UNCHANGED <<storeVars, files, archive, daemon, starts, newest, histVars>>

Archived(name) == {a \in archive : a.name = name}

WrongArchiveKey == \* the key that is coming
    /\ Running("archive")
    /\ archive' = archive \union {[name |-> rot.old, key |-> rot.new]}
    /\ Go("backup")
    /\ UNCHANGED <<storeVars, files, anchor, daemon, starts, newest, histVars>>

(* archiveOldPublicKey: a copy of the public key file, under the name of the *)
(* outgoing private key; an existing file is not overwritten.                *)
Archive ==
    /\ Running("archive")
    /\ \/ /\ files.public # None
          /\ Archived(rot.old) = {}
          /\ archive' = archive \union {[name |-> rot.old, key |-> files.public]}
          /\ Go("backup")
       \/ rot' = NoRun /\ UNCHANGED archive
    /\ UNCHANGED <<storeVars, files, anchor, daemon, starts, newest, histVars>>

(* An orderly failure: the archive made by this run is removed again. *)
GiveUp == /\ archive' = archive \ Archived(rot.old)
          /\ rot' = NoRun

(* swapKeyFiles: both files are backed up, over no older backup, *)
Backup ==
    /\ Running("backup")
    /\ \/ /\ files.backup = None
          /\ files' = [files EXCEPT !.backup = [private |-> files.private, public |-> files.public]]
          /\ Go("private")
          /\ UNCHANGED archive
       \/ GiveUp /\ UNCHANGED files
    /\ UNCHANGED <<storeVars, anchor, daemon, starts, newest, histVars>>

(* the private key is replaced, *)
SwapPrivate ==
    /\ Running("private")
    /\ \/ /\ files' = [files EXCEPT !.private = rot.new]
          /\ Go("public")
          /\ UNCHANGED archive
       \/ /\ files' = [files EXCEPT !.backup = None]
          /\ GiveUp
    /\ UNCHANGED <<storeVars, anchor, daemon, starts, newest, histVars>>

WrongSwapPublic == \* the private key is not rolled back
    /\ Running("public")
    /\ \/ /\ files' = [files EXCEPT !.public = rot.new]
          /\ Go("drop")
          /\ UNCHANGED archive
       \/ /\ files' = [files EXCEPT !.backup = None]
          /\ GiveUp
    /\ UNCHANGED <<storeVars, anchor, daemon, starts, newest, histVars>>

(* and the public key.  If that fails the private key is put back; whether   *)
(* that worked is not looked at, and the backup goes all the same.           *)
SwapPublic ==
    /\ Running("public")
    /\ \/ /\ files' = [files EXCEPT !.public = rot.new]
          /\ Go("drop")
          /\ UNCHANGED <<archive, torn>>
       \/ /\ \/ files' = [files EXCEPT !.private = rot.old, !.backup = None] /\ UNCHANGED torn
             \/ files' = [files EXCEPT !.backup = None] /\ torn' = TRUE
          /\ GiveUp
    /\ UNCHANGED <<storeVars, anchor, daemon, starts, newest, overlap>>

(* The backups are removed, if that works. *)
DropBackup ==
    /\ Running("drop")
    /\ files' \in {files, [files EXCEPT !.backup = None]}
    /\ rot' = [step |-> "insert", old |-> rot.old, new |-> rot.new, chain |-> rot.chain,
               content |-> rot.content, public |-> files.backup.public]
    /\ UNCHANGED <<storeVars, archive, anchor, daemon, starts, newest, histVars>>

(* The receipt is inserted under the outgoing key, unless it cannot be or    *)
(* its place in the chain was taken.                                         *)
InsertReceipt ==
    /\ Running("insert")
    /\ Room
    /\ \/ /\ Len(rows[rot.chain]) + 1 = rot.content.seq
          /\ rows' = [rows EXCEPT ![rot.chain] = Append(@, Seal(rot.content, rot.old))]
          /\ rot' = NoRun
       \/ Go("restorePrivate") /\ UNCHANGED rows
    /\ UNCHANGED <<day, diskVars, daemon, starts, newest, histVars>>

(* restore puts both files back; if it cannot, the archive stays.            *)
RestorePrivate ==
    /\ Running("restorePrivate")
    /\ \/ files' = [files EXCEPT !.private = rot.old] /\ Go("restorePublic") /\ UNCHANGED torn
       \/ rot' = NoRun /\ torn' = TRUE /\ UNCHANGED files
    /\ UNCHANGED <<storeVars, archive, anchor, daemon, starts, newest, overlap>>

RestorePublic ==
    /\ Running("restorePublic")
    /\ \/ /\ files' = [files EXCEPT !.public = rot.public, !.backup = None]
          /\ GiveUp
          /\ UNCHANGED torn
       \/ rot' = NoRun /\ torn' = TRUE /\ UNCHANGED <<files, archive>>
    /\ UNCHANGED <<storeVars, anchor, daemon, starts, newest, overlap>>

(* The process dies.  From the first replaced file on, what it leaves is not *)
(* what the chain says.                                                      *)
Die == /\ ~Running("none")
       /\ rot' = NoRun
       /\ torn' = (torn \/ rot.step \notin {"anchor", "archive", "backup", "private"})
       /\ UNCHANGED <<storeVars, diskVars, daemon, starts, newest, overlap>>

RotateStep == \/ Witness \/ Archive \/ Backup \/ SwapPrivate \/ SwapPublic \/ DropBackup
              \/ InsertReceipt \/ RestorePrivate \/ RestorePublic

(* The operator follows the error of publishPublicKey. *)
RemovePublic == /\ daemon.phase = "down"
                /\ Running("none")
                /\ files.public \notin {None, files.private}
                /\ files' = [files EXCEPT !.public = None]
                /\ UNCHANGED <<storeVars, archive, anchor, daemon, starts, rot, newest, histVars>>

Next == \/ LoadKey \/ Publish \/ Resume \/ Listen \/ Commit \/ Stop \/ Kill \/ Midnight
        \/ BeginRotation \/ RotateStep \/ Die \/ RemovePublic

Spec == Init /\ [][Next]_vars
-----------------------------------------------------------------------------
Handovers(c) == {rows[c][i].content.rot.new :
                    i \in {j \in DOMAIN rows[c] : rows[c][j].content.rot # None}}
Installed    == {1} \union UNION {Handovers(c) : c \in Chain}

(* "a committed rotation receipt always matches the on-disk key": between    *)
(* rotations both key files are those of the last receipt that handed over,  *)
(* whatever failed, unless a rotation died, or could not undo its changes,   *)
(* between the key files and the receipt.                                    *)
KeysAgree ==
    Running("none") /\ ~torn => files.private = Max(Installed) /\ files.public = files.private

(* The key under which a chain begins is in the public key file or in an     *)
(* archive beside it at every moment, also in the middle of a rotation and   *)
(* after one that failed, until an operator removes the public key file or   *)
(* a daemon starts during a rotation.                                        *)
GenesisResolvable ==
    files.public # None /\ ~torn /\ ~overlap =>
        \A c \in Chain : rows[c] # <<>> =>
            rows[c][1].proof.key \in {files.public} \union {a.key : a \in archive}

(* Anchor first: no receipt is signed with, and no key file holds, a key     *)
(* other than the first whose installation the anchor has not recorded, not  *)
(* even after a crash in the window.                                         *)
Witnessed ==
    /\ files.private \in {1} \union anchor
    /\ \A c \in Chain : \A i \in DOMAIN rows[c] : rows[c][i].proof.key \in {1} \union anchor

ArchivedKeys == {a.key : a \in archive}

(* A chain verifies after any number of rotations exactly if nothing follows *)
(* its terminal receipt and it records every rotation since its own first    *)
(* receipt; verify-event and doctor, which start from the published key,     *)
(* accept it exactly if there was none.  (Not said of stores on which a      *)
(* rotation was torn or ran alongside a daemon.)                             *)
HandoverVerdict ==
    Running("none") /\ ~torn /\ ~overlap =>
        \A c \in {d \in Chain : rows[d] # <<>>} :
            LET since == {k \in Installed : k > rows[c][1].proof.key}
                whole == AfterTerminal(rows[c]) = {}
            IN /\ ChainAccepted(rows[c], files.public, ArchivedKeys) <=> whole /\ Handovers(c) = since
               /\ DoctorHead(rows[c], files.public) # "fail" <=> whole /\ since = {}
               /\ EventVerdict(rows[c], files.public, 1) # "failed" <=> whole /\ since = {}

(* "a rotated chain reports VALID": the chain that a daemon resumes after a  *)
(* rotation that succeeded verifies against the published key.               *)
ResumedVerifies ==
    daemon.phase = "serving" /\ Running("none") /\ ~torn /\ ~overlap =>
        ChainAccepted(rows[daemon.root], files.public, ArchivedKeys)
-----------------------------------------------------------------------------
(* The inductive invariant behind Witnessed, KeysAgree and GenesisResolvable. *)

AKey   == 1..MaxKey
Before == {"anchor", "archive", "backup", "private"} \* no key file is replaced
After  == {"insert", "restorePrivate", "restorePublic"}

RotOK ==
    \/ rot = NoRun
    \/ rot \in [step : Before \union {"public", "drop"}, old : AKey, new : AKey,
                chain : RootChain, content : {rot.content}]
    \/ rot \in [step : After, old : AKey, new : AKey, chain : RootChain, content : {rot.content},
                public : AKey \union {None}]

TypeOK ==
    /\ DOMAIN rows = Chain
    /\ \A c \in Chain : rows[c] \in Seq({rows[c][i] : i \in DOMAIN rows[c]})
    /\ day \in 1..MaxDay
    /\ files \in [private : AKey, public : AKey \union {None},
                  backup : [private : AKey, public : AKey \union {None}] \union {None}]
    /\ archive \subseteq [name : AKey, key : AKey]
    /\ anchor \subseteq AKey
    /\ daemon \in [phase : {"down", "loaded", "published", "resumed", "serving"}, key : AKey \union {0},
                   root : RootChain \union {None}, length : Nat, agent : BOOLEAN]
    /\ daemon.phase # "down" => daemon.key \in AKey
    /\ newest \in AKey
    /\ torn \in BOOLEAN /\ overlap \in BOOLEAN
    /\ RotOK

(* Keys are handed over in the order in which they are generated; the newest *)
(* is the one a rotation in progress is about to install.                    *)
InOrder ==
    /\ Installed \subseteq 1..newest
    /\ ~Running("none") => /\ rot.new = newest /\ newest \notin Installed
                           /\ rot.content.rot = Event(rot.old, rot.new)

(* No key is in use before the anchor has it. *)
Anchored ==
    /\ daemon.phase # "down" => daemon.key \in {1} \union anchor
    /\ ~Running("none") => rot.old \in {1} \union anchor
    /\ rot.step \notin {"none", "anchor"} => rot.new \in anchor

(* How far the key files are at each step: the last key the chains hand over *)
(* to is the outgoing one until the receipt is in the store.                 *)
Last(k) == k \in Installed /\ \A j \in Installed : j <= k

InStep ==
    LET private == files.private
        public  == files.public
    IN
    /\ rot.step \in {"private", "public", "drop"} =>
          files.backup \in [private : AKey, public : AKey \union {None}]
    /\ ~torn =>
          /\ Running("none") => Last(private) /\ public = private
          /\ ~Running("none") => Last(rot.old)
          /\ rot.step \in Before => private = rot.old /\ public = rot.old
          /\ Running("public") => private = rot.new /\ public = rot.old
          /\ rot.step \in {"private", "public", "drop"} => files.backup.public = rot.old
          /\ rot.step \in {"drop", "insert", "restorePrivate"} => private = rot.new /\ public = rot.new
          /\ Running("restorePublic") => private = rot.old /\ public = rot.new
          /\ rot.step \in After => rot.public = rot.old

(* Every key that was in force is archived under its own name.               *)
InArchive ==
    ~torn => /\ \A a \in archive : a.name = a.key
             /\ \A k \in Installed : Last(k) \/ k \in ArchivedKeys
             /\ rot.step \notin {"none", "anchor", "archive"} => rot.old \in ArchivedKeys

(* Without a daemon beside a rotation every receipt is signed by a key that  *)
(* was in force.                                                             *)
Alone ==
    ~overlap =>
        /\ daemon.phase = "down" \/ rot = NoRun
        /\ daemon.phase # "down" => daemon.key = files.private
        /\ ~torn => \A c \in Chain : \A i \in DOMAIN rows[c] : rows[c][i].proof.key \in Installed

RotationInv == TypeOK /\ InOrder /\ Anchored /\ InStep /\ InArchive /\ Alone /\ Witnessed

(* And behind HandoverVerdict: every receipt is sealed at its place, linked  *)
(* to the one before it, and has nothing a verifier objects to;              *)
Sound(d) == /\ StatusValid(d) /\ d.response = None
            /\ d.peer \in {"attested", "absent"} /\ d.version = "known"

Formed(rs, c) ==
    \A i \in DOMAIN rs :
        LET d   == rs[i].content
            key == rs[i].proof.key
        IN /\ d.chain = c /\ d.seq = i /\ LinkValid(rs, i) /\ Sound(d) /\ Verified(rs[i], key)
           /\ d.rot # None => d.rot = Event(key, d.rot.new)

(* the receipt of a rotation in progress fits the chain as it was;           *)
Prepared ==
    ~Running("none") =>
        LET d == rot.content IN
        /\ d.chain = rot.chain /\ d.seq \in 1..(Len(rows[rot.chain]) + 1)
        /\ d.prev = Previous(rows[rot.chain], d.seq) /\ Sound(d)

(* along a chain the keys never go back, not behind a handover either, and a *)
(* handover leaves no installed key out.                                     *)
Ascending(rs, installed) ==
    \A i \in DOMAIN rs :
        LET event == rs[i].content.rot
            key   == rs[i].proof.key
            later == {j \in DOMAIN rs : j > i}
        IN /\ \A j \in later : key <= rs[j].proof.key
           /\ event # None => /\ key < event.new
                              /\ \A j \in later : event.new <= rs[j].proof.key
                              /\ \A k \in installed : k <= key \/ event.new <= k

ChainsInv ==
    /\ \A c \in Chain : Formed(rows[c], c)
    /\ Prepared
    /\ ~torn /\ ~overlap => \A c \in Chain : Ascending(rows[c], Installed)
=============================================================================
