--------------------------- MODULE RotationProofs ---------------------------
(***************************************************************************)
(* Proofs about Rotation: whatever fails or dies, and whenever, the anchor *)
(* knows every key before it is used, the key files end where the chains   *)
(* say they do, the key under which a chain begins can be found, and what  *)
(* the verifiers say of a chain depends on the handovers it records.       *)
(***************************************************************************)
EXTENDS Rotation, SequenceTheorems, WellFoundedInduction, TLAPS

(* Of the numbers at which something fails, one is the least.                *)
LEMMA LeastOf ==
    ASSUME NEW S, S \subseteq Nat, S # {}
    PROVE  \E n \in S : \A m \in S : n <= m
<1>1. PICK n \in S : \A m \in S : <<m, n>> \notin OpToRel(<, Nat)
  BY NatLessThanWellFounded, WFMin, Zenon
<1>2. n \in Nat /\ \A m \in S : m \in Nat
  BY <1>1
<1>3. \A m \in S : ~(m < n)
  BY <1>1, <1>2 DEF OpToRel
<1>4. \A m \in S : n <= m
  BY <1>2, <1>3
<1>. QED BY <1>1, <1>4

(* Min is that number.                                                       *)
LEMMA MinIsLeast ==
    ASSUME NEW S, S \subseteq Nat, S # {}
    PROVE  Min(S) \in S
<1>1. \E n \in S : \A m \in S : n <= m
  BY LeastOf
<1>. QED BY <1>1 DEF Min

(* A record with another step, and key files with one file replaced.         *)
LEMMA GoIs ==
    ASSUME NEW A, NEW s, NEW C,
           NEW r \in [step : A, old : AKey, new : AKey, chain : RootChain, content : C]
    PROVE  [r EXCEPT !.step = s] =
              [step |-> s, old |-> r.old, new |-> r.new, chain |-> r.chain, content |-> r.content]
OBVIOUS

(* The same after the receipt has been refused.                             *)
LEMMA GoOnIs ==
    ASSUME NEW A, NEW s, NEW C, NEW P,
           NEW r \in [step : A, old : AKey, new : AKey, chain : RootChain, content : C, public : P]
    PROVE  [r EXCEPT !.step = s] =
              [step |-> s, old |-> r.old, new |-> r.new, chain |-> r.chain, content |-> r.content,
               public |-> r.public]
OBVIOUS

(* The key files with one file replaced,                                    *)
LEMMA FilesExcept ==
    ASSUME NEW A, NEW B, NEW C, NEW f \in [private : A, public : B, backup : C], NEW x
    PROVE  /\ [f EXCEPT !.private = x] = [private |-> x, public |-> f.public, backup |-> f.backup]
           /\ [f EXCEPT !.public = x] = [private |-> f.private, public |-> x, backup |-> f.backup]
           /\ [f EXCEPT !.backup = x] = [private |-> f.private, public |-> f.public, backup |-> x]
<1>1. [f EXCEPT !.private = x] = [private |-> x, public |-> f.public, backup |-> f.backup]
  OBVIOUS
<1>2. [f EXCEPT !.public = x] = [private |-> f.private, public |-> x, backup |-> f.backup]
  OBVIOUS
<1>3. [f EXCEPT !.backup = x] = [private |-> f.private, public |-> f.public, backup |-> x]
  OBVIOUS
<1>. QED BY <1>1, <1>2, <1>3

(* and with a backup that goes at the same time.                            *)
LEMMA FilesExceptTwo ==
    ASSUME NEW A, NEW B, NEW C, NEW f \in [private : A, public : B, backup : C], NEW x, NEW y
    PROVE  /\ [f EXCEPT !.private = x, !.backup = y] = [private |-> x, public |-> f.public, backup |-> y]
           /\ [f EXCEPT !.public = x, !.backup = y] = [private |-> f.private, public |-> x, backup |-> y]
<1>1. [f EXCEPT !.private = x, !.backup = y] = [private |-> x, public |-> f.public, backup |-> y]
  <2>. DEFINE g == [f EXCEPT !.private = x]
  <2>1. g = [private |-> x, public |-> f.public, backup |-> f.backup]
    OBVIOUS
  <2>2. g \in [private : {x}, public : B, backup : C] /\ g.public = f.public
    BY <2>1
  <2>. HIDE DEF g
  <2>3. [g EXCEPT !.backup = y] = [private |-> x, public |-> f.public, backup |-> y]
    BY <2>2
  <2>. QED BY <2>3, Zenon DEF g
<1>2. [f EXCEPT !.public = x, !.backup = y] = [private |-> f.private, public |-> x, backup |-> y]
  <2>. DEFINE g == [f EXCEPT !.public = x]
  <2>1. g = [private |-> f.private, public |-> x, backup |-> f.backup]
    OBVIOUS
  <2>2. g \in [private : A, public : {x}, backup : C] /\ g.private = f.private
    BY <2>1
  <2>. HIDE DEF g
  <2>3. [g EXCEPT !.backup = y] = [private |-> f.private, public |-> x, backup |-> y]
    BY <2>2
  <2>. QED BY <2>3, Zenon DEF g
<1>. QED BY <1>1, <1>2

-----------------------------------------------------------------------------
(* What a key that is installed means, without the sets.                     *)
LEMMA InstalledIs ==
    \A k : k \in Installed <=>
              \/ k = 1
              \/ \E c \in Chain : \E i \in DOMAIN rows[c] :
                    rows[c][i].content.rot # None /\ k = rows[c][i].content.rot.new
BY DEF Installed, Handovers

(* Chains that grow by receipts of R, at most one each.                      *)
Grow(R) == /\ DOMAIN rows' = Chain
           /\ \A c \in Chain : rows'[c] = rows[c] \/ \E r \in R : rows'[c] = Append(rows[c], r)

(* What was in a chain stays at its place, and what is new is of R.         *)
LEMMA RowsGrow ==
    ASSUME TypeOK, NEW R, Grow(R)
    PROVE  \A c \in Chain :
              /\ rows'[c] \in Seq({rows'[c][i] : i \in DOMAIN rows'[c]})
              /\ \A i \in DOMAIN rows[c] : i \in DOMAIN rows'[c] /\ rows'[c][i] = rows[c][i]
              /\ \A i \in DOMAIN rows'[c] : \/ i \in DOMAIN rows[c] /\ rows'[c][i] = rows[c][i]
                                            \/ rows'[c][i] \in R /\ rows'[c] # rows[c]
<1>. SUFFICES ASSUME NEW c \in Chain
              PROVE  /\ rows'[c] \in Seq({rows'[c][i] : i \in DOMAIN rows'[c]})
                     /\ \A i \in DOMAIN rows[c] : i \in DOMAIN rows'[c] /\ rows'[c][i] = rows[c][i]
                     /\ \A i \in DOMAIN rows'[c] : \/ i \in DOMAIN rows[c] /\ rows'[c][i] = rows[c][i]
                                                   \/ rows'[c][i] \in R /\ rows'[c] # rows[c]
  OBVIOUS
<1>. DEFINE s == rows[c]
            S == {s[i] : i \in DOMAIN s}
<1>1. s \in Seq(S)
  BY DEF TypeOK
<1>2. CASE rows'[c] = s
  BY <1>1, <1>2
<1>3. ASSUME NEW r \in R, rows'[c] = Append(s, r)
      PROVE  /\ rows'[c] \in Seq({rows'[c][i] : i \in DOMAIN rows'[c]})
             /\ \A i \in DOMAIN s : i \in DOMAIN rows'[c] /\ rows'[c][i] = s[i]
             /\ \A i \in DOMAIN rows'[c] : (i \in DOMAIN s /\ rows'[c][i] = s[i]) \/ rows'[c][i] \in R
             /\ rows'[c] # s
  <2>. DEFINE t == rows'[c]
              T == {t[i] : i \in DOMAIN t}
  <2>1. s \in Seq(S \cup {r})
    BY <1>1, SeqMonotonic
  <2>. HIDE DEF s, S
  <2>2. /\ t \in Seq(S \cup {r}) /\ Len(t) = Len(s) + 1 /\ Len(s) \in Nat
        /\ DOMAIN s = 1..Len(s) /\ DOMAIN t = 1..(Len(s) + 1)
        /\ \A i \in 1..Len(s) : t[i] = s[i]
        /\ t[Len(s) + 1] = r
    BY <1>3, <2>1, AppendProperties, LenProperties
  <2>. HIDE DEF t
  <2>3. t \in [1..Len(t) -> T]
    BY <2>2, LenProperties
  <2>4. t \in Seq(T)
    BY <2>2, <2>3
  <2>5. \A i \in DOMAIN t : i \in DOMAIN s \/ i = Len(s) + 1
    BY <2>2
  <2>6. t # s
    BY <2>2
  <2>. QED BY <2>2, <2>4, <2>5, <2>6 DEF t
<1>. QED BY <1>2, <1>3 DEF Grow

(* A receipt without a rotation event hands nothing over.                    *)
LEMMA InstalledGrow ==
    ASSUME TypeOK, NEW R, Grow(R), NEW K,
           \A r \in R : r.content.rot # None => r.content.rot.new \in K
    PROVE  Installed \subseteq Installed' /\ Installed' \subseteq Installed \cup K
<1>1. \A k : k \in Installed' <=>
              \/ k = 1
              \/ \E c \in Chain : \E i \in DOMAIN rows'[c] :
                    rows'[c][i].content.rot # None /\ k = rows'[c][i].content.rot.new
  BY DEF Installed, Handovers
<1>2. ASSUME NEW k \in Installed
      PROVE  k \in Installed'
  <2>1. CASE k = 1
    BY <1>1, <2>1
  <2>2. ASSUME NEW c \in Chain, NEW i \in DOMAIN rows[c],
               rows[c][i].content.rot # None, k = rows[c][i].content.rot.new
        PROVE  k \in Installed'
    <3>1. i \in DOMAIN rows'[c] /\ rows'[c][i] = rows[c][i]
      BY RowsGrow
    <3>. QED BY <1>1, <2>2, <3>1
  <2>. QED BY <1>2, <2>1, <2>2, InstalledIs
<1>3. ASSUME NEW k \in Installed'
      PROVE  k \in Installed \cup K
  <2>1. CASE k = 1
    BY <2>1, InstalledIs
  <2>2. ASSUME NEW c \in Chain, NEW i \in DOMAIN rows'[c],
               rows'[c][i].content.rot # None, k = rows'[c][i].content.rot.new
        PROVE  k \in Installed \cup K
    <3>1. CASE i \in DOMAIN rows[c] /\ rows'[c][i] = rows[c][i]
      BY <2>2, <3>1, InstalledIs
    <3>2. CASE rows'[c][i] \in R
      BY <2>2, <3>2
    <3>. QED BY <3>1, <3>2, RowsGrow
  <2>. QED BY <1>1, <1>3, <2>1, <2>2
<1>. QED BY <1>2, <1>3

-----------------------------------------------------------------------------
(* A rotation in progress, field by field.                                   *)
LEMMA RotShape ==
    ASSUME RotOK
    PROVE  /\ Running("none") <=> rot = NoRun
           /\ rot.step \in {"none", "public", "drop"} \cup Before \cup After
           /\ ~Running("none") => rot.old \in AKey /\ rot.new \in AKey
           /\ rot.step \in After => rot.public \in AKey \cup {None}
           /\ rot.step \in Before \cup {"public", "drop"} =>
                 rot \in [step : Before \cup {"public", "drop"}, old : AKey, new : AKey,
                         chain : RootChain, content : {rot.content}]
           /\ rot.step \in After =>
                 rot \in [step : After, old : AKey, new : AKey, chain : RootChain,
                         content : {rot.content}, public : AKey \cup {None}]
<1>1. CASE rot = NoRun
  BY <1>1 DEF NoRun, Running, Before, After
<1>2. CASE rot \in [step : Before \cup {"public", "drop"}, old : AKey, new : AKey,
                    chain : RootChain, content : {rot.content}]
  <2>1. rot.step \in Before \cup {"public", "drop"} /\ rot.old \in AKey /\ rot.new \in AKey
    BY <1>2
  <2>2. rot # NoRun
    BY <2>1 DEF NoRun, Before
  <2>. QED BY <1>2, <2>1, <2>2 DEF Running, Before, After
<1>3. CASE rot \in [step : After, old : AKey, new : AKey, chain : RootChain,
                    content : {rot.content}, public : AKey \cup {None}]
  <2>1. /\ rot.step \in After /\ rot.old \in AKey /\ rot.new \in AKey
        /\ rot.public \in AKey \cup {None}
    BY <1>3
  <2>2. rot # NoRun
    BY <2>1 DEF NoRun, After
  <2>. QED BY <1>3, <2>1, <2>2 DEF Running, Before, After
<1>. QED BY <1>1, <1>2, <1>3 DEF RotOK

(* A rotation that goes on changes its step and nothing else.                *)
LEMMA GoesOn ==
    ASSUME RotOK, ~Running("none"), NEW s, Go(s),
           rot.step \in After <=> s \in After,
           s \in {"public", "drop"} \cup Before \cup After
    PROVE  /\ RotOK' /\ rot'.step = s /\ rot'.old = rot.old /\ rot'.new = rot.new
           /\ rot'.content = rot.content
           /\ rot.step \in After => rot'.public = rot.public
<1>1. CASE rot.step \in After
  <2>1. rot \in [step : After, old : AKey, new : AKey, chain : RootChain,
                 content : {rot.content}, public : AKey \cup {None}]
    BY <1>1, RotShape
  <2>2. rot' = [step |-> s, old |-> rot.old, new |-> rot.new, chain |-> rot.chain,
                content |-> rot.content, public |-> rot.public]
    BY <2>1, GoOnIs DEF Go
  <2>3. /\ rot.old \in AKey /\ rot.new \in AKey /\ rot.chain \in RootChain
        /\ rot.public \in AKey \cup {None}
    BY <2>1
  <2>4. /\ rot'.step = s /\ rot'.old = rot.old /\ rot'.new = rot.new
        /\ rot'.content = rot.content /\ rot'.public = rot.public
    BY <2>2
  <2>5. rot' \in [step : After, old : AKey, new : AKey, chain : RootChain,
                  content : {rot'.content}, public : AKey \cup {None}]
    BY <1>1, <2>2, <2>3, <2>4
  <2>6. RotOK'
    BY <2>5 DEF RotOK, AKey, RootChain, After
  <2>. QED BY <2>4, <2>6
<1>2. CASE rot.step \notin After
  <2>1. rot \in [step : Before \cup {"public", "drop"}, old : AKey, new : AKey,
                 chain : RootChain, content : {rot.content}]
    BY <1>2, RotShape DEF Running
  <2>2. rot' = [step |-> s, old |-> rot.old, new |-> rot.new, chain |-> rot.chain,
                content |-> rot.content]
    BY <2>1, GoIs DEF Go
  <2>3. rot.old \in AKey /\ rot.new \in AKey /\ rot.chain \in RootChain
    BY <2>1
  <2>4. /\ rot'.step = s /\ rot'.old = rot.old /\ rot'.new = rot.new
        /\ rot'.content = rot.content
    BY <2>2
  <2>5. s \in Before \cup {"public", "drop"}
    BY <1>2
  <2>6. rot' \in [step : Before \cup {"public", "drop"}, old : AKey, new : AKey,
                  chain : RootChain, content : {rot'.content}]
    BY <2>2, <2>3, <2>4, <2>5
  <2>7. RotOK'
    BY <2>6 DEF RotOK, AKey, RootChain, Before
  <2>. QED BY <1>2, <2>4, <2>7
<1>. QED BY <1>1, <1>2

-----------------------------------------------------------------------------
(* What the invariant says while no rotation ended halfway.                  *)
LEMMA LastIsOne ==
    ASSUME Installed \subseteq Nat, NEW j, NEW k, Last(j), Last(k)
    PROVE  j = k
<1>1. j \in Nat /\ k \in Nat /\ j <= k /\ k <= j
  BY DEF Last
<1>. QED BY <1>1

(* Without new receipts no key is installed.                                 *)
LEMMA SameRows ==
    ASSUME rows' = rows
    PROVE  Installed' = Installed /\ \A k : Last(k)' <=> Last(k)
<1>1. Installed' = Installed
  BY DEF Installed, Handovers, Chain
<1>. QED BY <1>1 DEF Last

(* A step of the daemon that writes no receipt, and the operator's.          *)
LEMMA DaemonMoves ==
    ASSUME RotationInv, UNCHANGED <<rows, archive, anchor, rot, newest, torn>>,
           day' \in 1..MaxDay, overlap' \in BOOLEAN, overlap => overlap',
           daemon' \in [phase : {"down", "loaded", "published", "resumed", "serving"}, key : AKey \cup {0},
                        root : RootChain \cup {None}, length : Nat, agent : BOOLEAN],
           daemon'.phase # "down" => daemon'.key \in AKey /\ daemon'.key \in {1} \cup anchor,
           ~overlap' => /\ daemon'.phase = "down" \/ rot = NoRun
                        /\ daemon'.phase # "down" => daemon'.key = files'.private,
           ~torn => files' = files,
           files' \in [private : {files.private}, public : AKey \cup {None}, backup : {files.backup}]
    PROVE  RotationInv'
<1>1. Installed' = Installed /\ \A k : Last(k)' <=> Last(k)
  BY SameRows
<1>2. files'.private = files.private /\ files'.backup = files.backup
  OBVIOUS
<1>3. TypeOK'
  <2>1. files' \in [private : AKey, public : AKey \cup {None},
                    backup : [private : AKey, public : AKey \cup {None}] \cup {None}]
    <3>1. files \in [private : AKey, public : AKey \cup {None},
                     backup : [private : AKey, public : AKey \cup {None}] \cup {None}]
      BY DEF RotationInv, TypeOK
    <3>2. /\ files.private \in AKey
          /\ files.backup \in [private : AKey, public : AKey \cup {None}] \cup {None}
      BY <3>1
    <3>. QED BY <3>2
  <2>2. RotOK'
    BY DEF RotationInv, TypeOK, RotOK
  <2>3. DOMAIN rows' = Chain /\ \A c \in Chain : rows'[c] \in Seq({rows'[c][i] : i \in DOMAIN rows'[c]})
    BY DEF RotationInv, TypeOK
  <2>4. /\ archive' \subseteq [name : AKey, key : AKey] /\ anchor' \subseteq AKey /\ newest' \in AKey
        /\ torn' \in BOOLEAN
    BY DEF RotationInv, TypeOK
  <2>. HIDE DEF RotOK
  <2>. QED BY <2>1, <2>2, <2>3, <2>4, Zenon DEF TypeOK, Chain, AKey, RootChain
<1>4. InOrder'
  BY <1>1 DEF RotationInv, InOrder, Running
<1>5. Anchored'
  BY DEF RotationInv, Anchored, Running
<1>6. InStep'
  BY <1>1, <1>2 DEF RotationInv, InStep, Running, AKey, Before, After
<1>7. InArchive'
  BY <1>1 DEF RotationInv, InArchive, ArchivedKeys
<1>8. Alone'
  BY <1>1 DEF RotationInv, Alone, Chain
<1>9. Witnessed'
  BY <1>2 DEF RotationInv, Witnessed, Chain
<1>. QED BY <1>3, <1>4, <1>5, <1>6, <1>7, <1>8, <1>9 DEF RotationInv

(* The daemon with one field replaced.                                       *)
Daemons(A, B, C, D, E) == [phase : A, key : B, root : C, length : D, agent : E]
Phases == {"down", "loaded", "published", "resumed", "serving"}

(* Each field of the daemon, replaced.                                      *)
LEMMA DaemonExcept ==
    ASSUME NEW A, NEW B, NEW C, NEW D, NEW E, NEW d \in Daemons(A, B, C, D, E), NEW x
    PROVE  /\ [d EXCEPT !.phase = x] \in Daemons({x}, {d.key}, {d.root}, {d.length}, {d.agent})
           /\ [d EXCEPT !.key = x] \in Daemons({d.phase}, {x}, {d.root}, {d.length}, {d.agent})
           /\ [d EXCEPT !.root = x] \in Daemons({d.phase}, {d.key}, {x}, {d.length}, {d.agent})
           /\ [d EXCEPT !.length = x] \in Daemons({d.phase}, {d.key}, {d.root}, {x}, {d.agent})
           /\ [d EXCEPT !.agent = x] \in Daemons({d.phase}, {d.key}, {d.root}, {d.length}, {x})
<1>1. [d EXCEPT !.phase = x] \in Daemons({x}, {d.key}, {d.root}, {d.length}, {d.agent})
  BY DEF Daemons
<1>2. [d EXCEPT !.key = x] \in Daemons({d.phase}, {x}, {d.root}, {d.length}, {d.agent})
  BY DEF Daemons
<1>3. [d EXCEPT !.root = x] \in Daemons({d.phase}, {d.key}, {x}, {d.length}, {d.agent})
  BY DEF Daemons
<1>4. [d EXCEPT !.length = x] \in Daemons({d.phase}, {d.key}, {d.root}, {x}, {d.agent})
  BY DEF Daemons
<1>5. [d EXCEPT !.agent = x] \in Daemons({d.phase}, {d.key}, {d.root}, {d.length}, {x})
  BY DEF Daemons
<1>. QED BY <1>1, <1>2, <1>3, <1>4, <1>5

(* Down with a key, and a daemon with the head of a chain.                   *)
LEMMA LoadedIs ==
    ASSUME NEW k
    PROVE  [Down EXCEPT !.phase = "loaded", !.key = k] \in
              Daemons({"loaded"}, {k}, {None}, {0}, {FALSE})
<1>. DEFINE d == [Down EXCEPT !.phase = "loaded"]
<1>1. Down \in Daemons({"down"}, {0}, {None}, {0}, {FALSE})
  BY DEF Down, Daemons
<1>2. /\ d \in Daemons({"loaded"}, {Down.key}, {Down.root}, {Down.length}, {Down.agent})
      /\ Down.key = 0 /\ Down.root = None /\ Down.length = 0 /\ Down.agent = FALSE
  BY <1>1, DaemonExcept DEF Down
<1>3. /\ d \in Daemons({"loaded"}, {0}, {None}, {0}, {FALSE})
      /\ d.phase = "loaded" /\ d.root = None /\ d.length = 0 /\ d.agent = FALSE
  BY <1>2 DEF Daemons
<1>. HIDE DEF d
<1>4. [d EXCEPT !.key = k] \in Daemons({"loaded"}, {k}, {None}, {0}, {FALSE})
  BY <1>3, DaemonExcept
<1>. QED BY <1>4, Zenon DEF d

(* A daemon that has the head of chain c.                                   *)
LEMMA ResumedIs ==
    ASSUME NEW B, NEW C, NEW D, NEW E, NEW A, NEW d \in Daemons(A, B, C, D, E), NEW c, NEW n
    PROVE  [d EXCEPT !.phase = "resumed", !.root = c, !.length = n] \in
              Daemons({"resumed"}, {d.key}, {c}, {n}, {d.agent})
<1>. DEFINE e == [d EXCEPT !.phase = "resumed"]
            f == [e EXCEPT !.root = c]
<1>1. e \in Daemons({"resumed"}, {d.key}, {d.root}, {d.length}, {d.agent})
  BY DaemonExcept
<1>2. e.phase = "resumed" /\ e.key = d.key /\ e.length = d.length /\ e.agent = d.agent
  BY <1>1 DEF Daemons
<1>. HIDE DEF e
<1>3. f \in Daemons({e.phase}, {e.key}, {c}, {e.length}, {e.agent})
  BY <1>1, DaemonExcept
<1>4. f.phase = "resumed" /\ f.key = d.key /\ f.root = c /\ f.agent = d.agent
  BY <1>2, <1>3 DEF Daemons
<1>. HIDE DEF f
<1>5. [f EXCEPT !.length = n] \in Daemons({f.phase}, {f.key}, {f.root}, {n}, {f.agent})
  BY <1>3, DaemonExcept
<1>6. [f EXCEPT !.length = n] \in Daemons({"resumed"}, {d.key}, {c}, {n}, {d.agent})
  BY <1>4, <1>5
<1>. QED BY <1>6, Zenon DEF e, f

-----------------------------------------------------------------------------
(* What the steps below use of the types.                                    *)
LEMMA Typed ==
    ASSUME RotationInv
    PROVE  /\ RotOK /\ MaxDay \in Nat /\ MaxAdvance \in Nat /\ None \notin AKey
           /\ day \in 1..MaxDay /\ newest \in AKey /\ AKey \subseteq Nat
           /\ files.private \in AKey /\ files.public \in AKey \cup {None}
           /\ files \in [private : {files.private}, public : {files.public}, backup : {files.backup}]
           /\ daemon \in Daemons(Phases, AKey \cup {0}, RootChain \cup {None}, Nat, BOOLEAN)
           /\ daemon.phase # "down" => daemon.key \in AKey /\ daemon.key \in {1} \cup anchor
           /\ torn \in BOOLEAN /\ overlap \in BOOLEAN
           /\ Installed \subseteq Nat
<1>1. MaxDay \in Nat /\ MaxAdvance \in Nat /\ MaxKey \in Nat /\ None \notin AKey
  BY RotationAssumption DEF AKey
<1>2. files \in [private : AKey, public : AKey \cup {None},
                 backup : [private : AKey, public : AKey \cup {None}] \cup {None}]
  BY DEF RotationInv, TypeOK
<1>3. daemon \in Daemons(Phases, AKey \cup {0}, RootChain \cup {None}, Nat, BOOLEAN)
  BY DEF RotationInv, TypeOK, Daemons, Phases
<1>4. /\ RotOK /\ day \in 1..MaxDay /\ newest \in AKey
      /\ daemon.phase # "down" => daemon.key \in AKey /\ daemon.key \in {1} \cup anchor
      /\ torn \in BOOLEAN /\ overlap \in BOOLEAN
  BY DEF RotationInv, TypeOK, Anchored
<1>5. AKey \subseteq Nat /\ Installed \subseteq Nat
  BY <1>1, <1>4 DEF RotationInv, InOrder, AKey
<1>6. /\ files.private \in AKey /\ files.public \in AKey \cup {None}
      /\ files \in [private : {files.private}, public : {files.public}, backup : {files.backup}]
  BY <1>2
<1>. QED BY <1>1, <1>3, <1>4, <1>5, <1>6

(* Between and during rotations that went well the public key file holds a   *)
(* key.                                                                      *)
LEMMA PublicIsKey ==
    ASSUME RotationInv, ~torn
    PROVE  files.public \in AKey
<1>. USE Typed, RotShape
<1>1. CASE Running("none")
  BY <1>1 DEF RotationInv, InStep
<1>2. CASE ~Running("none")
  BY <1>2 DEF RotationInv, InStep, Running, Before, After
<1>. QED BY <1>1, <1>2

(* No daemon, and a daemon that has read the key.                            *)
LEMMA DownStep ==
    ASSUME RotationInv, UNCHANGED <<rows, files, archive, anchor, rot, newest, torn, overlap>>,
           day' \in 1..MaxDay, daemon' \in {daemon, Down}
    PROVE  RotationInv'
<1>. USE Typed
<1>1. daemon' \in Daemons(Phases, AKey \cup {0}, RootChain \cup {None}, Nat, BOOLEAN)
  <2>1. "down" \in Phases
    BY DEF Phases
  <2>2. Down \in Daemons(Phases, AKey \cup {0}, RootChain \cup {None}, Nat, BOOLEAN)
    BY ONLY <2>1 DEF Down, Daemons
  <2>. QED BY <2>2
<1>2. ~overlap => /\ daemon.phase = "down" \/ rot = NoRun
                  /\ daemon.phase # "down" => daemon.key = files.private
  BY DEF RotationInv, Alone
<1>3. Down.phase = "down"
  BY DEF Down
<1>4. /\ daemon'.phase # "down" => daemon'.key \in AKey /\ daemon'.key \in {1} \cup anchor
      /\ ~overlap => /\ daemon'.phase = "down" \/ rot = NoRun
                     /\ daemon'.phase # "down" => daemon'.key = files.private
  BY <1>2, <1>3
<1>5. files' \in [private : {files.private}, public : AKey \cup {None}, backup : {files.backup}]
  OBVIOUS
<1>. HIDE DEF RotationInv
<1>. QED BY <1>1, <1>4, <1>5, DaemonMoves DEF Daemons, Phases

(* A daemon that starts reads a key that the anchor knows.                  *)
LEMMA LoadKeyStep ==
    ASSUME RotationInv, LoadKey
    PROVE  RotationInv'
<1>. USE Typed
<1>1. /\ UNCHANGED <<rows, day, files, archive, anchor, rot, newest, torn>>
      /\ overlap' = (overlap \/ rot # NoRun)
      /\ daemon' \in Daemons({"loaded"}, {files.private}, {None}, {0}, {FALSE})
  BY LoadedIs DEF LoadKey, storeVars, diskVars
<1>2. daemon' \in Daemons(Phases, AKey \cup {0}, RootChain \cup {None}, Nat, BOOLEAN)
  <2>1. "loaded" \in Phases
    BY DEF Phases
  <2>2. files.private \in AKey
    OBVIOUS
  <2>3. daemon' = [phase |-> "loaded", key |-> files.private, root |-> None, length |-> 0, agent |-> FALSE]
    BY <1>1 DEF Daemons
  <2>. QED BY ONLY <2>1, <2>2, <2>3 DEF Daemons
<1>3. daemon'.key = files.private /\ daemon'.key \in AKey /\ files.private \in {1} \cup anchor
  BY <1>1 DEF Daemons, RotationInv, Witnessed
<1>4. files' \in [private : {files.private}, public : AKey \cup {None}, backup : {files.backup}]
  BY <1>1
<1>. QED BY <1>1, <1>2, <1>3, <1>4, DaemonMoves DEF Daemons, Phases

(* A daemon that goes on with its key.                                       *)
LEMMA KeepsKey ==
    ASSUME RotationInv, UNCHANGED <<rows, day, archive, anchor, rot, newest, torn, overlap>>,
           daemon.phase # "down", NEW p \in Phases \ {"down"},
           daemon' \in Daemons({p}, {daemon.key}, RootChain \cup {None}, Nat, BOOLEAN),
           ~torn => files' = files,
           files' \in [private : {files.private}, public : AKey \cup {None}, backup : {files.backup}]
    PROVE  RotationInv'
<1>. USE Typed
<1>1. daemon'.phase = p /\ daemon'.key = daemon.key
  BY DEF Daemons
<1>2. daemon' \in Daemons(Phases, AKey \cup {0}, RootChain \cup {None}, Nat, BOOLEAN)
  BY DEF Daemons, Phases
<1>3. ~overlap => rot = NoRun /\ daemon.key = files.private
  BY DEF RotationInv, Alone
<1>4. files'.private = files.private
  OBVIOUS
<1>. HIDE DEF RotationInv
<1>. QED BY <1>1, <1>2, <1>3, <1>4, DaemonMoves DEF Daemons, Phases

(* The daemon publishes its key only where that changes nothing, unless a   *)
(* rotation ended halfway.                                                  *)
LEMMA PublishStep ==
    ASSUME RotationInv, Publish
    PROVE  RotationInv'
<1>. USE Typed
<1>1. UNCHANGED <<rows, day, archive, anchor, rot, newest, torn, overlap>> /\ daemon.phase = "loaded"
  BY DEF Publish, storeVars, histVars
<1>2. CASE Published(daemon.key)
  <2>1. files' = [files EXCEPT !.public = daemon.key] /\ daemon' = [daemon EXCEPT !.phase = "published"]
    BY <1>2 DEF Publish
  <2>2. files' = [private |-> files.private, public |-> daemon.key, backup |-> files.backup]
    BY <2>1, FilesExcept
  <2>3. ~torn => daemon.key = files.public
    BY <1>2, PublicIsKey DEF Published
  <2>4. files = [private |-> files.private, public |-> files.public, backup |-> files.backup]
    OBVIOUS
  <2>5. ~torn => files' = files
    BY <2>2, <2>3, <2>4
  <2>6. daemon.key \in AKey
    BY <1>1
  <2>7. files' \in [private : {files.private}, public : AKey \cup {None}, backup : {files.backup}]
    BY <2>2, <2>6
  <2>8. daemon' \in Daemons({"published"}, {daemon.key}, {daemon.root}, {daemon.length}, {daemon.agent})
    BY <2>1, DaemonExcept
  <2>9. daemon' \in Daemons({"published"}, {daemon.key}, RootChain \cup {None}, Nat, BOOLEAN)
    BY <2>8 DEF Daemons
  <2>10. "published" \in Phases \ {"down"} /\ daemon.phase # "down"
    BY <1>1 DEF Phases
  <2>. QED BY <1>1, <2>5, <2>7, <2>9, <2>10, KeepsKey
<1>3. CASE ~Published(daemon.key)
  <2>1. daemon' = Down /\ UNCHANGED files
    BY <1>3 DEF Publish
  <2>. QED BY <1>1, <2>1, DownStep
<1>. QED BY <1>2, <1>3

(* The daemon resumes a root chain of today that is open, or gives up.      *)
LEMMA ResumeStep ==
    ASSUME RotationInv, Resume
    PROVE  RotationInv'
<1>. USE Typed
<1>. DEFINE open == {n \in 1..MaxAdvance : ~Ended(<<day, n, Root>>)}
            c == <<day, Min(open), Root>>
<1>1. /\ UNCHANGED <<rows, day, files, archive, anchor, rot, newest, torn, overlap>>
      /\ daemon.phase = "published"
  BY DEF Resume, storeVars, diskVars, histVars
<1>2. CASE open = {}
  <2>1. daemon' = Down
    BY <1>2 DEF Resume
  <2>. QED BY <1>1, <2>1, DownStep
<1>3. CASE open # {}
  <2>1. daemon' = [daemon EXCEPT !.phase = "resumed", !.root = c, !.length = Len(rows[c])]
    BY <1>3 DEF Resume
  <2>2. open \subseteq Nat /\ open \subseteq 1..MaxAdvance
    OBVIOUS
  <2>. HIDE DEF open
  <2>3. Min(open) \in 1..MaxAdvance
    BY <1>3, <2>2, MinIsLeast
  <2>4. c \in RootChain /\ c \in Chain
    BY <2>3 DEF RootChain, Chain
  <2>. HIDE DEF c
  <2>5. Len(rows[c]) \in Nat
    BY <2>4, LenProperties DEF RotationInv, TypeOK
  <2>6. daemon' \in Daemons({"resumed"}, {daemon.key}, {c}, {Len(rows[c])}, {daemon.agent})
    BY <2>1, ResumedIs
  <2>7. daemon' \in Daemons({"resumed"}, {daemon.key}, RootChain \cup {None}, Nat, BOOLEAN)
    BY <2>4, <2>5, <2>6 DEF Daemons
  <2>8. files' \in [private : {files.private}, public : AKey \cup {None}, backup : {files.backup}]
    BY <1>1
  <2>9. "resumed" \in Phases \ {"down"} /\ daemon.phase # "down"
    BY <1>1 DEF Phases
  <2>. QED BY <1>1, <2>7, <2>8, <2>9, KeepsKey
<1>. QED BY <1>2, <1>3

(* The daemon serves with the key that it has.                              *)
LEMMA ListenStep ==
    ASSUME RotationInv, Listen
    PROVE  RotationInv'
<1>. USE Typed
<1>1. /\ UNCHANGED <<rows, day, files, archive, anchor, rot, newest, torn, overlap>>
      /\ daemon.phase = "resumed" /\ daemon' = [daemon EXCEPT !.phase = "serving"]
  BY DEF Listen, storeVars, diskVars, histVars
<1>2. daemon' \in Daemons({"serving"}, {daemon.key}, {daemon.root}, {daemon.length}, {daemon.agent})
  BY <1>1, DaemonExcept
<1>3. daemon' \in Daemons({"serving"}, {daemon.key}, RootChain \cup {None}, Nat, BOOLEAN)
  BY <1>2 DEF Daemons
<1>4. files' \in [private : {files.private}, public : AKey \cup {None}, backup : {files.backup}]
  BY <1>1
<1>5. "serving" \in Phases \ {"down"} /\ daemon.phase # "down"
  BY <1>1 DEF Phases
<1>. QED BY <1>1, <1>3, <1>4, <1>5, KeepsKey

(* A kill of the daemon, and midnight, leave the disk alone.                *)
LEMMA QuietSteps ==
    ASSUME RotationInv, Kill \/ Midnight
    PROVE  RotationInv'
<1>1. day' \in 1..MaxDay
  BY Typed DEF Kill, Midnight, storeVars
<1>. QED BY <1>1, DownStep DEF Kill, Midnight, storeVars, diskVars, histVars

(* The operator removes a public key only after a rotation that ended        *)
(* halfway: otherwise it is the private key's.                               *)
LEMMA RemovePublicStep ==
    ASSUME RotationInv, RemovePublic
    PROVE  RotationInv'
<1>. USE Typed
<1>1. /\ UNCHANGED <<rows, day, archive, anchor, daemon, rot, newest, torn, overlap>>
      /\ daemon.phase = "down" /\ Running("none") /\ files.public # files.private
      /\ files' = [files EXCEPT !.public = None]
  BY DEF RemovePublic, storeVars, histVars
<1>2. torn
  BY <1>1 DEF RotationInv, InStep
<1>3. files' = [private |-> files.private, public |-> None, backup |-> files.backup]
  BY <1>1, FilesExcept
<1>4. files' \in [private : {files.private}, public : AKey \cup {None}, backup : {files.backup}]
  BY <1>3
<1>. QED BY <1>1, <1>2, <1>4, DaemonMoves DEF Daemons, Phases

-----------------------------------------------------------------------------
(* The steps of a rotation: what each of them has to show beside its own     *)
(* effect on the key files and the archive.                                  *)
LEMMA RotationMoves ==
    ASSUME RotationInv, UNCHANGED <<rows, day, daemon, newest, overlap>>, ~Running("none"),
           RotOK', torn' \in BOOLEAN, torn => torn',
           files' \in [private : AKey, public : AKey \cup {None},
                      backup : [private : AKey, public : AKey \cup {None}] \cup {None}],
           archive' \subseteq [name : AKey, key : AKey],
           anchor \subseteq anchor', anchor' \subseteq AKey,
           rot' # NoRun => rot'.old = rot.old /\ rot'.new = rot.new /\ rot'.content = rot.content,
           rot'.step \notin {"none", "anchor"} => rot.new \in anchor',
           \/ files'.private \in {files.private, rot.old}
           \/ files'.private = rot.new /\ rot.new \in anchor',
           InStep', InArchive'
    PROVE  RotationInv'
<1>. USE Typed, RotShape
<1>1. Installed' = Installed /\ \A k : Last(k)' <=> Last(k)
  BY SameRows
<1>2. Running("none")' <=> rot' = NoRun
  <2>1. RotOK'
    OBVIOUS
  <2>2. (Running("none") <=> rot = NoRun)'
    BY <2>1, RotShape, PTL
  <2>. QED BY <2>2
<1>3. TypeOK'
  <2>1. DOMAIN rows' = Chain /\ \A c \in Chain : rows'[c] \in Seq({rows'[c][i] : i \in DOMAIN rows'[c]})
    BY DEF RotationInv, TypeOK
  <2>2. /\ daemon \in [phase : {"down", "loaded", "published", "resumed", "serving"}, key : AKey \cup {0},
                        root : RootChain \cup {None}, length : Nat, agent : BOOLEAN]
        /\ daemon.phase # "down" => daemon.key \in AKey
    BY DEF RotationInv, TypeOK
  <2>. QED BY <2>1, <2>2, Zenon DEF TypeOK, Chain, AKey, RootChain
<1>4. InOrder'
  BY <1>1, <1>2 DEF RotationInv, InOrder
<1>5. Anchored'
  <2>1. daemon'.phase # "down" => daemon'.key \in {1} \cup anchor'
    OBVIOUS
  <2>2. ~Running("none")' => rot'.old \in {1} \cup anchor'
    BY <1>2 DEF RotationInv, Anchored
  <2>3. rot'.step \notin {"none", "anchor"} => rot' # NoRun
    BY <1>2 DEF Running
  <2>4. rot'.step \notin {"none", "anchor"} => rot'.new \in anchor'
    BY <2>3
  <2>. QED BY <2>1, <2>2, <2>4 DEF Anchored
<1>6. Alone'
  BY <1>1 DEF RotationInv, Alone, Chain
<1>7. Witnessed'
  <2>1. files'.private \in {1} \cup anchor'
    BY DEF RotationInv, Anchored, Witnessed
  <2>. QED BY <2>1 DEF RotationInv, Witnessed, Chain
<1>. QED BY <1>3, <1>4, <1>5, <1>6, <1>7 DEF RotationInv

(* No rotation is a well-formed state of it.                                 *)
LEMMA NoRunIs ==
    ASSUME rot' = NoRun
    PROVE  RotOK' /\ rot'.step = "none"
BY DEF NoRun, RotOK

(* RotateKey begins: the outgoing key is the one in the file.                *)
LEMMA BeginStep ==
    ASSUME RotationInv, BeginRotation
    PROVE  RotationInv'
<1>. USE Typed, RotShape
<1>. DEFINE c == <<day, 1, Root>>
            new == newest + 1
<1>1. /\ UNCHANGED <<rows, day, files, archive, anchor, daemon, torn>>
      /\ Running("none") /\ newest < MaxKey /\ newest' = new
      /\ overlap' = (overlap \/ daemon.phase # "down")
      /\ rot' = [step |-> "anchor", old |-> files.private, new |-> new, chain |-> c,
                 content |-> [NextReceipt(c) EXCEPT !.peer = "absent", !.rot = Event(files.private, new)]]
  BY DEF BeginRotation, storeVars, diskVars
<1>2. /\ rot'.step = "anchor" /\ rot'.old = files.private /\ rot'.new = new
      /\ rot'.chain = c
      /\ rot'.content = [NextReceipt(c) EXCEPT !.peer = "absent", !.rot = Event(files.private, new)]
  BY <1>1
<1>3. rot'.content.rot = Event(files.private, new)
  BY <1>2 DEF NextReceipt
<1>4. new \in AKey /\ new \notin Installed /\ Installed \subseteq 1..new
  BY <1>1, RotationAssumption DEF RotationInv, InOrder, AKey
<1>5. Installed' = Installed /\ \A k : Last(k)' <=> Last(k)
  BY <1>1, SameRows
<1>6. RotOK'
  <2>1. c \in RootChain
    BY RotationAssumption DEF RootChain
  <2>2. rot' \in [step : Before \cup {"public", "drop"}, old : AKey, new : AKey,
                  chain : RootChain, content : {rot'.content}]
    <3>1. "anchor" \in Before
      BY DEF Before
    <3>. HIDE DEF c, new
    <3>. QED BY <1>1, <1>4, <2>1, <3>1
  <2>. QED BY <2>2 DEF RotOK, AKey, RootChain, Before
<1>. HIDE DEF c, new
<1>7. TypeOK'
  <2>1. DOMAIN rows' = Chain /\ \A d \in Chain : rows'[d] \in Seq({rows'[d][i] : i \in DOMAIN rows'[d]})
    BY <1>1 DEF RotationInv, TypeOK
  <2>2. /\ daemon \in [phase : {"down", "loaded", "published", "resumed", "serving"}, key : AKey \cup {0},
                        root : RootChain \cup {None}, length : Nat, agent : BOOLEAN]
        /\ daemon.phase # "down" => daemon.key \in AKey
        /\ files \in [private : AKey, public : AKey \cup {None},
                      backup : [private : AKey, public : AKey \cup {None}] \cup {None}]
        /\ archive \subseteq [name : AKey, key : AKey] /\ anchor \subseteq AKey
    BY DEF RotationInv, TypeOK
  <2>3. newest' \in AKey /\ overlap' \in BOOLEAN /\ torn' \in BOOLEAN /\ day' \in 1..MaxDay
    BY <1>1, <1>4
  <2>. QED BY <1>1, <1>6, <2>1, <2>2, <2>3, Zenon DEF TypeOK, Chain, AKey, RootChain
<1>8. InOrder'
  BY <1>1, <1>2, <1>3, <1>4, <1>5 DEF InOrder
<1>9. ~Running("none")'
  BY <1>2 DEF Running
<1>10. Anchored'
  BY <1>1, <1>2, <1>9 DEF RotationInv, Witnessed, Anchored
<1>11. InStep'
  BY <1>1, <1>2, <1>5 DEF RotationInv, InStep, Running, Before, After, AKey
<1>12. InArchive'
  BY <1>1, <1>2, <1>5 DEF RotationInv, InArchive, ArchivedKeys
<1>13. Alone'
  BY <1>1, <1>5 DEF RotationInv, Alone, Chain
<1>14. Witnessed'
  BY <1>1 DEF RotationInv, Witnessed, Chain
<1>. QED BY <1>7, <1>8, <1>10, <1>11, <1>12, <1>13, <1>14 DEF RotationInv

(* The types of what is on disk, and of a rotation that ended.               *)
Files == [private : AKey, public : AKey \cup {None},
          backup : [private : AKey, public : AKey \cup {None}] \cup {None}]

(* What is on disk, by its types.                                           *)
LEMMA TypedDisk ==
    ASSUME RotationInv
    PROVE  /\ files \in Files /\ archive \subseteq [name : AKey, key : AKey] /\ anchor \subseteq AKey
           /\ files.backup \in [private : AKey, public : AKey \cup {None}] \cup {None}
BY DEF RotationInv, TypeOK, Files

(* A rotation that ends before it touched a key file, or after it put both   *)
(* back, ends as it began; the archive may lose what this run put in.        *)
LEMMA RotationEnds ==
    ASSUME RotationInv, UNCHANGED <<rows, day, daemon, newest, overlap>>, ~Running("none"),
           rot' = NoRun, torn' \in BOOLEAN, torn => torn',
           files' \in Files, anchor \subseteq anchor', anchor' \subseteq AKey,
           files'.private \in {files.private, rot.old},
           archive' = archive \/ archive' = archive \ Archived(rot.old),
           ~torn' => files'.private = rot.old /\ files'.public = rot.old
    PROVE  RotationInv'
<1>. USE Typed, TypedDisk, RotShape
<1>1. Installed' = Installed /\ \A k : Last(k)' <=> Last(k)
  BY SameRows
<1>2. RotOK' /\ rot'.step = "none"
  BY NoRunIs
<1>3. ~torn' => Last(rot.old)
  BY DEF RotationInv, InStep
<1>4. InStep'
  BY <1>1, <1>2, <1>3 DEF InStep, Running, Before, After
<1>5. InArchive'
  <2>1. SUFFICES ASSUME ~torn'
                 PROVE  /\ \A a \in archive' : a.name = a.key
                        /\ \A k \in Installed : Last(k) \/ k \in ArchivedKeys'
    BY <1>1, <1>2 DEF InArchive
  <2>2. \A a \in archive : a.name = a.key
    BY <2>1 DEF RotationInv, InArchive
  <2>3. ASSUME NEW k \in Installed, ~Last(k)
        PROVE  k \in ArchivedKeys'
    <3>1. PICK a \in archive : a.key = k
      BY <2>1, <2>3 DEF RotationInv, InArchive, ArchivedKeys
    <3>2. k # rot.old /\ a.name = k
      BY <1>3, <2>1, <2>2, <2>3, <3>1
    <3>3. a \in archive'
      BY <3>1, <3>2 DEF Archived
    <3>. QED BY <3>1, <3>3 DEF ArchivedKeys
  <2>. QED BY <2>2, <2>3
<1>6. archive' \subseteq [name : AKey, key : AKey]
  OBVIOUS
<1>7. rot'.step \notin {"none", "anchor"} => rot.new \in anchor'
  BY <1>2
<1>8. /\ RotationInv /\ UNCHANGED <<rows, day, daemon, newest, overlap>> /\ ~Running("none")
      /\ torn' \in BOOLEAN /\ (torn => torn') /\ anchor \subseteq anchor' /\ anchor' \subseteq AKey
      /\ rot' # NoRun => rot'.old = rot.old /\ rot'.new = rot.new /\ rot'.content = rot.content
      /\ \/ files'.private \in {files.private, rot.old}
         \/ files'.private = rot.new /\ rot.new \in anchor'
  OBVIOUS
<1>9. files' \in [private : AKey, public : AKey \cup {None},
                 backup : [private : AKey, public : AKey \cup {None}] \cup {None}]
  BY DEF Files
<1>. QED BY ONLY <1>2, <1>4, <1>5, <1>6, <1>7, <1>8, <1>9, RotationMoves

(* A rotation that dies before the key files are touched leaves both as     *)
(* they were.                                                               *)
LEMMA DieStep ==
    ASSUME RotationInv, Die
    PROVE  RotationInv'
<1>. USE Typed, TypedDisk, RotShape
<1>1. /\ UNCHANGED <<rows, day, files, archive, anchor, daemon, newest, overlap>>
      /\ ~Running("none") /\ rot' = NoRun /\ torn' = (torn \/ rot.step \notin Before)
  BY DEF Die, storeVars, diskVars, Before
<1>2. ~torn' => files.private = rot.old /\ files.public = rot.old
  BY <1>1 DEF RotationInv, InStep
<1>. QED BY <1>1, <1>2, RotationEnds

(* The anchor has the new key before the rotation goes on, and may have it  *)
(* if it does not.                                                          *)
LEMMA WitnessStep ==
    ASSUME RotationInv, Witness
    PROVE  RotationInv'
<1>. USE Typed, TypedDisk, RotShape
<1>1. /\ UNCHANGED <<rows, day, files, archive, daemon, newest, torn, overlap>>
      /\ Running("anchor") /\ rot.step = "anchor" /\ rot.step \in Before /\ ~Running("none")
      /\ anchor' \in {anchor, anchor \cup {rot.new}}
  BY DEF Witness, storeVars, histVars, Running, Before
<1>2. anchor \subseteq anchor' /\ anchor' \subseteq AKey
  BY <1>1
<1>3. CASE rot' = NoRun
  <2>1. ~torn => files.private = rot.old /\ files.public = rot.old
    BY <1>1 DEF RotationInv, InStep
  <2>. QED BY <1>1, <1>2, <1>3, <2>1, RotationEnds
<1>4. CASE anchor' = anchor \cup {rot.new} /\ Go("archive")
  <2>1. "archive" \in Before /\ "archive" \notin After /\ rot.step \notin After
    BY <1>1 DEF Before, After
  <2>2. /\ RotOK' /\ rot'.step = "archive" /\ rot'.old = rot.old /\ rot'.new = rot.new
        /\ rot'.content = rot.content
    BY <1>1, <1>4, <2>1, GoesOn
  <2>3. Installed' = Installed /\ \A k : Last(k)' <=> Last(k)
    BY <1>1, SameRows
  <2>4. InStep'
    BY <1>1, <2>1, <2>2, <2>3 DEF RotationInv, InStep, Running, Before, After
  <2>5. InArchive'
    BY <1>1, <2>2, <2>3 DEF RotationInv, InArchive, ArchivedKeys
  <2>. QED BY <1>1, <1>2, <1>4, <2>2, <2>4, <2>5, RotationMoves DEF Files
<1>. QED BY <1>3, <1>4 DEF Witness

(* The archive gets the outgoing key under its own name.                     *)
LEMMA ArchiveStep ==
    ASSUME RotationInv, Archive
    PROVE  RotationInv'
<1>. USE Typed, TypedDisk, RotShape
<1>1. /\ UNCHANGED <<rows, day, files, anchor, daemon, newest, torn, overlap>>
      /\ Running("archive") /\ rot.step = "archive" /\ rot.step \in Before /\ ~Running("none")
      /\ rot.step \notin After /\ "backup" \in Before /\ "backup" \notin After
  BY DEF Archive, storeVars, histVars, Running, Before, After
<1>2. ~torn => files.private = rot.old /\ files.public = rot.old
  BY <1>1 DEF RotationInv, InStep
<1>3. CASE rot' = NoRun /\ UNCHANGED archive
  BY <1>1, <1>2, <1>3, RotationEnds
<1>4. CASE /\ files.public # None
           /\ archive' = archive \cup {[name |-> rot.old, key |-> files.public]}
           /\ Go("backup")
  <2>1. /\ RotOK' /\ rot'.step = "backup" /\ rot'.old = rot.old /\ rot'.new = rot.new
        /\ rot'.content = rot.content
    BY <1>1, <1>4, GoesOn
  <2>2. Installed' = Installed /\ \A k : Last(k)' <=> Last(k)
    BY <1>1, SameRows
  <2>3. InStep'
    BY <1>1, <2>1, <2>2 DEF RotationInv, InStep, Running, Before, After
  <2>4. archive' \subseteq [name : AKey, key : AKey]
    BY <1>1, <1>4
  <2>5. InArchive'
    <3>1. SUFFICES ASSUME ~torn
                   PROVE  /\ \A a \in archive' : a.name = a.key
                          /\ \A k \in Installed : Last(k) \/ k \in ArchivedKeys'
                          /\ rot.old \in ArchivedKeys'
      BY <1>1, <2>1, <2>2 DEF InArchive
    <3>2. archive' = archive \cup {[name |-> rot.old, key |-> rot.old]}
      BY <1>2, <1>4, <3>1
    <3>3. ArchivedKeys \subseteq ArchivedKeys' /\ rot.old \in ArchivedKeys'
      <4>. DEFINE new == [name |-> rot.old, key |-> rot.old]
      <4>1. new.key = rot.old /\ new \in archive' /\ archive \subseteq archive'
        BY <3>2
      <4>. HIDE DEF new
      <4>. QED BY <4>1 DEF ArchivedKeys
    <3>. QED BY <3>1, <3>2, <3>3 DEF RotationInv, InArchive
  <2>6. rot.new \in anchor
    BY <1>1 DEF RotationInv, Anchored
  <2>. QED BY <1>1, <2>1, <2>3, <2>4, <2>5, <2>6, RotationMoves DEF Files
<1>. QED BY <1>3, <1>4 DEF Archive

(* A step between the key files that leaves the archive alone.               *)
LEMMA SwapMoves ==
    ASSUME RotationInv, UNCHANGED <<rows, day, daemon, newest, overlap, archive, anchor>>,
           rot.step \notin {"none", "anchor", "archive"},
           RotOK', rot'.step \notin {"none", "anchor", "archive"},
           rot'.old = rot.old, rot'.new = rot.new, rot'.content = rot.content,
           torn' = torn, files' \in Files, files'.private \in {files.private, rot.old, rot.new},
           InStep'
    PROVE  RotationInv'
<1>. USE Typed, TypedDisk, RotShape
<1>1. ~Running("none") /\ rot.new \in anchor
  BY DEF RotationInv, Anchored, Running
<1>2. Installed' = Installed /\ \A k : Last(k)' <=> Last(k)
  BY SameRows
<1>3. InArchive'
  BY <1>2 DEF RotationInv, InArchive, ArchivedKeys
<1>4. files' \in [private : AKey, public : AKey \cup {None},
                 backup : [private : AKey, public : AKey \cup {None}] \cup {None}]
  BY DEF Files
<1>. QED BY <1>1, <1>3, <1>4, RotationMoves

(* The backup holds the outgoing public key.                                *)
LEMMA BackupStep ==
    ASSUME RotationInv, Backup
    PROVE  RotationInv'
<1>. USE Typed, TypedDisk, RotShape
<1>1. /\ UNCHANGED <<rows, day, anchor, daemon, newest, torn, overlap>>
      /\ Running("backup") /\ rot.step = "backup" /\ rot.step \in Before /\ ~Running("none")
      /\ rot.step \notin After /\ "private" \in Before /\ "private" \notin After
  BY DEF Backup, storeVars, histVars, Running, Before, After
<1>2. ~torn => files.private = rot.old /\ files.public = rot.old
  BY <1>1 DEF RotationInv, InStep
<1>3. CASE GiveUp /\ UNCHANGED files
  BY <1>1, <1>2, <1>3, RotationEnds DEF GiveUp
<1>4. CASE /\ files' = [files EXCEPT !.backup = [private |-> files.private, public |-> files.public]]
           /\ Go("private")
           /\ UNCHANGED archive
  <2>1. /\ RotOK' /\ rot'.step = "private" /\ rot'.old = rot.old /\ rot'.new = rot.new
        /\ rot'.content = rot.content
    BY <1>1, <1>4, GoesOn
  <2>2. Installed' = Installed /\ \A k : Last(k)' <=> Last(k)
    BY <1>1, SameRows
  <2>3. files' = [private |-> files.private, public |-> files.public,
                  backup |-> [private |-> files.private, public |-> files.public]]
    BY <1>4, FilesExcept
  <2>4. /\ files' \in Files /\ files'.private = files.private /\ files'.public = files.public
        /\ files'.backup \in [private : AKey, public : AKey \cup {None}]
        /\ files'.backup.public = files.public
    BY <2>3 DEF Files
  <2>5. InStep'
    <3>1. ~torn => Last(rot.old)
      BY <1>1 DEF RotationInv, InStep
    <3>. QED BY <1>1, <1>2, <2>1, <2>2, <2>4, <3>1 DEF InStep, Running, Before, After, AKey
  <2>. QED BY <1>1, <1>4, <2>1, <2>4, <2>5, SwapMoves
<1>. QED BY <1>3, <1>4 DEF Backup

(* The new private key is one that the anchor has.                          *)
LEMMA SwapPrivateStep ==
    ASSUME RotationInv, SwapPrivate
    PROVE  RotationInv'
<1>. USE Typed, TypedDisk, RotShape
<1>1. /\ UNCHANGED <<rows, day, anchor, daemon, newest, torn, overlap>>
      /\ Running("private") /\ rot.step = "private" /\ rot.step \in Before /\ ~Running("none")
      /\ rot.step \notin After /\ "public" \notin After
  BY DEF SwapPrivate, storeVars, histVars, Running, Before, After
<1>2. ~torn => files.private = rot.old /\ files.public = rot.old
  BY <1>1 DEF RotationInv, InStep
<1>3. CASE files' = [files EXCEPT !.backup = None] /\ GiveUp
  <2>1. files' = [private |-> files.private, public |-> files.public, backup |-> None]
    BY <1>3, FilesExcept
  <2>2. files' \in Files /\ files'.private = files.private /\ files'.public = files.public
    BY <2>1 DEF Files
  <2>. QED BY <1>1, <1>2, <1>3, <2>2, RotationEnds DEF GiveUp
<1>4. CASE /\ files' = [files EXCEPT !.private = rot.new]
           /\ Go("public")
           /\ UNCHANGED archive
  <2>1. /\ RotOK' /\ rot'.step = "public" /\ rot'.old = rot.old /\ rot'.new = rot.new
        /\ rot'.content = rot.content
    BY <1>1, <1>4, GoesOn
  <2>2. Installed' = Installed /\ \A k : Last(k)' <=> Last(k)
    BY <1>1, SameRows
  <2>3. files' = [private |-> rot.new, public |-> files.public, backup |-> files.backup]
    BY <1>4, FilesExcept
  <2>4. /\ files' \in Files /\ files'.private = rot.new /\ files'.public = files.public
        /\ files'.backup = files.backup
    BY <1>1, <2>3 DEF Files
  <2>5. InStep'
    <3>1. /\ ~torn => Last(rot.old) /\ files.backup.public = rot.old
          /\ files.backup \in [private : AKey, public : AKey \cup {None}]
      BY <1>1 DEF RotationInv, InStep, Running
    <3>. QED BY <1>1, <1>2, <2>1, <2>2, <2>4, <3>1 DEF InStep, Running, Before, After, AKey
  <2>. QED BY <1>1, <1>4, <2>1, <2>4, <2>5, SwapMoves
<1>. QED BY <1>3, <1>4 DEF SwapPrivate

(* If the public key cannot be replaced the private key is put back, or the  *)
(* rotation has ended halfway.                                               *)
LEMMA SwapPublicStep ==
    ASSUME RotationInv, SwapPublic
    PROVE  RotationInv'
<1>. USE Typed, TypedDisk, RotShape
<1>1. /\ UNCHANGED <<rows, day, anchor, daemon, newest, overlap>>
      /\ Running("public") /\ rot.step = "public" /\ rot.step \notin Before /\ ~Running("none")
      /\ rot.step \notin After /\ "drop" \notin Before /\ "drop" \notin After
  BY DEF SwapPublic, storeVars, Running, Before, After
<1>2. ~torn => files.private = rot.new /\ files.public = rot.old
  BY <1>1 DEF RotationInv, InStep
<1>3. CASE GiveUp /\ files' = [files EXCEPT !.private = rot.old, !.backup = None] /\ UNCHANGED torn
  <2>1. files' = [private |-> rot.old, public |-> files.public, backup |-> None]
    BY <1>3, FilesExceptTwo
  <2>2. files' \in Files /\ files'.private = rot.old /\ files'.public = files.public
    BY <1>1, <2>1 DEF Files
  <2>. QED BY <1>1, <1>2, <1>3, <2>2, RotationEnds DEF GiveUp
<1>4. CASE GiveUp /\ files' = [files EXCEPT !.backup = None] /\ torn' = TRUE
  <2>1. files' = [private |-> files.private, public |-> files.public, backup |-> None]
    BY <1>4, FilesExcept
  <2>2. files' \in Files /\ files'.private = files.private
    BY <2>1 DEF Files
  <2>. QED BY <1>1, <1>4, <2>2, RotationEnds DEF GiveUp
<1>5. CASE /\ files' = [files EXCEPT !.public = rot.new]
           /\ Go("drop")
           /\ UNCHANGED <<archive, torn>>
  <2>1. /\ RotOK' /\ rot'.step = "drop" /\ rot'.old = rot.old /\ rot'.new = rot.new
        /\ rot'.content = rot.content
    BY <1>1, <1>5, GoesOn
  <2>2. Installed' = Installed /\ \A k : Last(k)' <=> Last(k)
    BY <1>1, SameRows
  <2>3. files' = [private |-> files.private, public |-> rot.new, backup |-> files.backup]
    BY <1>5, FilesExcept
  <2>4. /\ files' \in Files /\ files'.private = files.private /\ files'.public = rot.new
        /\ files'.backup = files.backup
    BY <1>1, <2>3 DEF Files
  <2>5. InStep'
    <3>1. /\ ~torn => Last(rot.old) /\ files.backup.public = rot.old
          /\ files.backup \in [private : AKey, public : AKey \cup {None}]
      BY <1>1 DEF RotationInv, InStep, Running
    <3>. QED BY <1>1, <1>2, <1>5, <2>1, <2>2, <2>4, <3>1 DEF InStep, Running, Before, After, AKey
  <2>. QED BY <1>1, <1>5, <2>1, <2>4, <2>5, SwapMoves
<1>. QED BY <1>3, <1>4, <1>5 DEF SwapPublic

(* The public key of the backup is kept in memory for a restore.             *)
LEMMA DropBackupStep ==
    ASSUME RotationInv, DropBackup
    PROVE  RotationInv'
<1>. USE Typed, TypedDisk, RotShape
<1>1. /\ UNCHANGED <<rows, day, archive, anchor, daemon, newest, torn, overlap>>
      /\ Running("drop") /\ rot.step = "drop" /\ rot.step \notin Before /\ ~Running("none")
      /\ rot.step \notin After /\ "insert" \notin Before /\ "insert" \in After
      /\ files' \in {files, [files EXCEPT !.backup = None]}
      /\ rot' = [step |-> "insert", old |-> rot.old, new |-> rot.new, chain |-> rot.chain,
                 content |-> rot.content, public |-> files.backup.public]
  BY DEF DropBackup, storeVars, histVars, Running, Before, After
<1>2. ~torn => /\ files.private = rot.new /\ files.public = rot.new /\ files.backup.public = rot.old
               /\ Last(rot.old)
  BY <1>1 DEF RotationInv, InStep, Running
<1>3. files.backup \in [private : AKey, public : AKey \cup {None}]
  BY <1>1 DEF RotationInv, InStep
<1>4. files.backup.public \in AKey \cup {None}
  BY <1>3
<1>5. rot.chain \in RootChain
  BY <1>1 DEF RotOK, NoRun
<1>6. /\ rot'.step = "insert" /\ rot'.old = rot.old /\ rot'.new = rot.new
      /\ rot'.content = rot.content /\ rot'.public = files.backup.public
  BY <1>1
<1>7. RotOK'
  <2>1. rot' \in [step : After, old : AKey, new : AKey, chain : RootChain, content : {rot'.content},
                  public : AKey \cup {None}]
    BY <1>1, <1>4, <1>5, <1>6
  <2>. QED BY <2>1 DEF RotOK, AKey, RootChain, After
<1>8. Installed' = Installed /\ \A k : Last(k)' <=> Last(k)
  BY <1>1, SameRows
<1>9. files' \in Files /\ files'.private = files.private /\ files'.public = files.public
  <2>1. CASE files' = files
    BY <2>1
  <2>2. CASE files' = [files EXCEPT !.backup = None]
    <3>1. files' = [private |-> files.private, public |-> files.public, backup |-> None]
      BY <2>2, FilesExcept
    <3>. QED BY <3>1 DEF Files
  <2>. QED BY <1>1, <2>1, <2>2
<1>10. InStep'
  BY <1>1, <1>2, <1>6, <1>8, <1>9 DEF InStep, Running, Before, After
<1>. QED BY <1>1, <1>6, <1>7, <1>9, <1>10, SwapMoves

(* What puts the key files back.                                             *)
LEMMA RestorePrivateStep ==
    ASSUME RotationInv, RestorePrivate
    PROVE  RotationInv'
<1>. USE Typed, TypedDisk, RotShape
<1>1. /\ UNCHANGED <<rows, day, archive, anchor, daemon, newest, overlap>>
      /\ Running("restorePrivate") /\ rot.step = "restorePrivate" /\ ~Running("none")
      /\ rot.step \in After /\ "restorePublic" \notin Before /\ "restorePublic" \in After
  BY DEF RestorePrivate, storeVars, Running, Before, After
<1>2. ~torn => /\ files.private = rot.new /\ files.public = rot.new /\ rot.public = rot.old
               /\ Last(rot.old)
  BY <1>1 DEF RotationInv, InStep, Running
<1>3. CASE rot' = NoRun /\ torn' = TRUE /\ UNCHANGED files
  BY <1>1, <1>3, RotationEnds
<1>4. CASE files' = [files EXCEPT !.private = rot.old] /\ Go("restorePublic") /\ UNCHANGED torn
  <2>1. /\ RotOK' /\ rot'.step = "restorePublic" /\ rot'.old = rot.old /\ rot'.new = rot.new
        /\ rot'.content = rot.content /\ rot'.public = rot.public
    BY <1>1, <1>4, GoesOn
  <2>2. Installed' = Installed /\ \A k : Last(k)' <=> Last(k)
    BY <1>1, SameRows
  <2>3. files' = [private |-> rot.old, public |-> files.public, backup |-> files.backup]
    BY <1>4, FilesExcept
  <2>4. files' \in Files /\ files'.private = rot.old /\ files'.public = files.public
    BY <1>1, <2>3 DEF Files
  <2>5. InStep'
    BY <1>1, <1>2, <1>4, <2>1, <2>2, <2>4 DEF InStep, Running, Before, After
  <2>. QED BY <1>1, <1>4, <2>1, <2>4, <2>5, SwapMoves
<1>. QED BY <1>3, <1>4 DEF RestorePrivate

(* With the public key back the rotation has ended as it began.             *)
LEMMA RestorePublicStep ==
    ASSUME RotationInv, RestorePublic
    PROVE  RotationInv'
<1>. USE Typed, TypedDisk, RotShape
<1>1. /\ UNCHANGED <<rows, day, anchor, daemon, newest, overlap>>
      /\ Running("restorePublic") /\ rot.step = "restorePublic" /\ ~Running("none")
      /\ rot.step \in After
  BY DEF RestorePublic, storeVars, Running, After
<1>2. ~torn => files.private = rot.old /\ rot.public = rot.old
  BY <1>1 DEF RotationInv, InStep, Running
<1>3. CASE rot' = NoRun /\ torn' = TRUE /\ UNCHANGED <<files, archive>>
  BY <1>1, <1>3, RotationEnds
<1>4. CASE files' = [files EXCEPT !.public = rot.public, !.backup = None] /\ GiveUp /\ UNCHANGED torn
  <2>1. files' = [private |-> files.private, public |-> rot.public, backup |-> None]
    BY <1>4, FilesExceptTwo
  <2>2. files' \in Files /\ files'.private = files.private /\ files'.public = rot.public
    BY <1>1, <2>1 DEF Files
  <2>. QED BY <1>1, <1>2, <1>4, <2>2, RotationEnds DEF GiveUp
<1>. QED BY <1>3, <1>4 DEF RestorePublic

-----------------------------------------------------------------------------
(* Receipts of a daemon, signed with the key that it holds.                  *)
LEMMA DaemonWrites ==
    ASSUME RotationInv, UNCHANGED <<day, files, archive, anchor, rot, newest, torn, overlap>>,
           daemon.phase = "serving", NEW R, Grow(R),
           \A r \in R : r.proof.key = daemon.key /\ r.content.rot = None,
           daemon' \in Daemons(Phases, AKey \cup {0}, RootChain \cup {None}, Nat, BOOLEAN),
           daemon'.phase = "down" \/ (daemon'.phase = daemon.phase /\ daemon'.key = daemon.key)
    PROVE  RotationInv'
<1>. USE Typed, RotShape
<1>1. TypeOK
  BY DEF RotationInv
<1>2. Installed' = Installed
  <2>1. \A r \in R : r.content.rot # None => r.content.rot.new \in {}
    OBVIOUS
  <2>2. Installed \subseteq Installed' /\ Installed' \subseteq Installed \cup {}
    BY <1>1, <2>1, InstalledGrow
  <2>. QED BY <2>2
<1>3. \A k : Last(k)' <=> Last(k)
  BY <1>2 DEF Last
<1>4. \A c \in Chain : \A i \in DOMAIN rows'[c] :
         \/ i \in DOMAIN rows[c] /\ rows'[c][i] = rows[c][i]
         \/ rows'[c][i] \in R
  BY <1>1, RowsGrow
<1>5. TypeOK'
  <2>1. DOMAIN rows' = Chain /\ \A c \in Chain : rows'[c] \in Seq({rows'[c][i] : i \in DOMAIN rows'[c]})
    <3>1. DOMAIN rows' = Chain
      BY DEF Grow
    <3>2. Grow(R)
      OBVIOUS
    <3>3. \A c \in Chain : rows'[c] \in Seq({rows'[c][i] : i \in DOMAIN rows'[c]})
      BY ONLY <1>1, <3>2, RowsGrow
    <3>. QED BY <3>1, <3>3
  <2>2. /\ files \in [private : AKey, public : AKey \cup {None},
                      backup : [private : AKey, public : AKey \cup {None}] \cup {None}]
        /\ archive \subseteq [name : AKey, key : AKey] /\ anchor \subseteq AKey
    BY DEF RotationInv, TypeOK
  <2>3. RotOK'
    BY DEF RotOK
  <2>4. daemon' \in [phase : {"down", "loaded", "published", "resumed", "serving"}, key : AKey \cup {0},
                     root : RootChain \cup {None}, length : Nat, agent : BOOLEAN]
    BY DEF Daemons, Phases
  <2>5. daemon'.phase # "down" => daemon'.key \in AKey
    OBVIOUS
  <2>6. day' \in 1..MaxDay /\ newest' \in AKey /\ torn' \in BOOLEAN /\ overlap' \in BOOLEAN
    OBVIOUS
  <2>. QED BY <2>1, <2>2, <2>3, <2>4, <2>5, <2>6, Zenon DEF TypeOK, Chain, AKey, RootChain
<1>6. InOrder'
  BY <1>2 DEF RotationInv, InOrder, Running
<1>7. Anchored'
  BY DEF RotationInv, Anchored, Running
<1>8. InStep'
  BY <1>3 DEF RotationInv, InStep, Running, Before, After, AKey
<1>9. InArchive'
  BY <1>2, <1>3 DEF RotationInv, InArchive, ArchivedKeys
<1>10. Alone'
  <2>1. SUFFICES ASSUME ~overlap
                 PROVE  /\ daemon'.phase = "down" \/ rot = NoRun
                        /\ daemon'.phase # "down" => daemon'.key = files.private
                        /\ ~torn => \A c \in Chain : \A i \in DOMAIN rows'[c] :
                                      rows'[c][i].proof.key \in Installed
    BY <1>2 DEF Alone, Chain
  <2>2. rot = NoRun /\ daemon.key = files.private
    BY <2>1 DEF RotationInv, Alone
  <2>3. ~torn => daemon.key \in Installed
    BY <2>2 DEF RotationInv, InStep, Last
  <2>4. ~torn => \A c \in Chain : \A i \in DOMAIN rows[c] : rows[c][i].proof.key \in Installed
    BY <2>1 DEF RotationInv, Alone
  <2>. QED BY <1>4, <2>2, <2>3, <2>4
<1>11. Witnessed'
  <2>1. \A c \in Chain : \A i \in DOMAIN rows'[c] : rows'[c][i].proof.key \in {1} \cup anchor
    BY <1>4 DEF RotationInv, Witnessed
  <2>. QED BY <2>1 DEF RotationInv, Witnessed, Chain
<1>. QED BY <1>5, <1>6, <1>7, <1>8, <1>9, <1>10, <1>11 DEF RotationInv

(* A frame is committed under the key of the daemon, on the root or on an   *)
(* agent chain.                                                             *)
LEMMA CommitStep ==
    ASSUME RotationInv, Commit
    PROVE  RotationInv'
<1>. USE Typed
<1>1. /\ UNCHANGED <<day, files, archive, anchor, rot, newest, torn, overlap>>
      /\ daemon.phase = "serving" /\ DOMAIN rows = Chain
  BY DEF Commit, diskVars, histVars, RotationInv, TypeOK
<1>2. ASSUME NEW c,
             rows' = [rows EXCEPT ![c] = Append(@, Seal(NextReceipt(c), daemon.key))],
             daemon' \in Daemons({daemon.phase}, {daemon.key}, {daemon.root}, Nat, BOOLEAN)
      PROVE  RotationInv'
  <2>. DEFINE r == Seal(NextReceipt(c), daemon.key)
  <2>1. r.proof.key = daemon.key /\ r.content.rot = None
    BY DEF Seal, NextReceipt
  <2>. HIDE DEF r
  <2>2. Grow({r})
    BY <1>1, <1>2 DEF Grow, r
  <2>3. /\ daemon' \in Daemons(Phases, AKey \cup {0}, RootChain \cup {None}, Nat, BOOLEAN)
        /\ daemon'.phase = daemon.phase /\ daemon'.key = daemon.key
    BY <1>2 DEF Daemons
  <2>. QED BY <1>1, <2>1, <2>2, <2>3, DaemonWrites
<1>3. CASE /\ rows' = [rows EXCEPT ![daemon.root] =
                          Append(@, Seal(NextReceipt(daemon.root), daemon.key))]
           /\ daemon' = [daemon EXCEPT !.length = @ + 1]
  <2>1. daemon.length + 1 \in Nat /\ daemon.agent \in BOOLEAN
    BY DEF Daemons
  <2>2. daemon' \in Daemons({daemon.phase}, {daemon.key}, {daemon.root}, {daemon.length + 1}, {daemon.agent})
    BY <1>3, DaemonExcept
  <2>3. daemon' \in Daemons({daemon.phase}, {daemon.key}, {daemon.root}, Nat, BOOLEAN)
    BY <2>1, <2>2 DEF Daemons
  <2>. QED BY <1>2, <1>3, <2>3
<1>4. CASE /\ rows' = [rows EXCEPT ![AgentChain] =
                          Append(@, Seal(NextReceipt(AgentChain), daemon.key))]
           /\ daemon' = [daemon EXCEPT !.agent = TRUE]
  <2>1. daemon.length \in Nat
    BY DEF Daemons
  <2>2. daemon' \in Daemons({daemon.phase}, {daemon.key}, {daemon.root}, {daemon.length}, {TRUE})
    BY <1>4, DaemonExcept
  <2>3. daemon' \in Daemons({daemon.phase}, {daemon.key}, {daemon.root}, Nat, BOOLEAN)
    BY <2>1, <2>2 DEF Daemons
  <2>. QED BY <1>2, <1>4, <2>3
<1>. QED BY <1>3, <1>4 DEF Commit

(* So are the terminators of a graceful stop.                               *)
LEMMA StopStep ==
    ASSUME RotationInv, Stop
    PROVE  RotationInv'
<1>. USE Typed
<1>1. /\ UNCHANGED <<day, files, archive, anchor, rot, newest, torn, overlap>>
      /\ daemon.phase = "serving" /\ daemon' = Down
      /\ rows' = [c \in Chain |-> IF c \in ToTerminate
                                  THEN Append(rows[c], Seal(Terminator(c), daemon.key)) ELSE rows[c]]
  BY DEF Stop, diskVars, histVars
<1>. DEFINE R == {Seal(Terminator(c), daemon.key) : c \in Chain}
<1>2. Grow(R)
  BY <1>1 DEF Grow
<1>3. \A c : Terminator(c).rot = None
  BY DEF Terminator, NextReceipt
<1>4. \A r \in R : r.proof.key = daemon.key /\ r.content.rot = None
  BY <1>3 DEF Seal
<1>. HIDE DEF R
<1>5. "down" \in Phases
  BY DEF Phases
<1>6. daemon' \in Daemons(Phases, AKey \cup {0}, RootChain \cup {None}, Nat, BOOLEAN) /\ daemon'.phase = "down"
  BY ONLY <1>1, <1>5 DEF Down, Daemons
<1>7. daemon'.phase = "down" \/ (daemon'.phase = daemon.phase /\ daemon'.key = daemon.key)
  BY <1>6
<1>8. RotationInv
  OBVIOUS
<1>. QED BY ONLY <1>1, <1>2, <1>4, <1>6, <1>7, <1>8, DaemonWrites

(* The receipt is in the store: the key files and the chains agree again.    *)
LEMMA InsertStep ==
    ASSUME RotationInv, InsertReceipt
    PROVE  RotationInv'
<1>. USE Typed, TypedDisk, RotShape
<1>1. /\ UNCHANGED <<day, files, archive, anchor, daemon, newest, torn, overlap>>
      /\ Running("insert") /\ rot.step = "insert" /\ ~Running("none") /\ rot # NoRun
      /\ rot.step \in After /\ "restorePrivate" \notin Before /\ "restorePrivate" \in After
  BY DEF InsertReceipt, diskVars, histVars, Running, Before, After
<1>2. ~torn => /\ files.private = rot.new /\ files.public = rot.new /\ rot.public = rot.old
               /\ Last(rot.old)
  BY <1>1 DEF RotationInv, InStep, Running
<1>3. CASE Go("restorePrivate") /\ UNCHANGED rows
  <2>1. /\ RotOK' /\ rot'.step = "restorePrivate" /\ rot'.old = rot.old /\ rot'.new = rot.new
        /\ rot'.content = rot.content /\ rot'.public = rot.public
    BY <1>1, <1>3, GoesOn
  <2>2. Installed' = Installed /\ \A k : Last(k)' <=> Last(k)
    BY <1>3, SameRows
  <2>3. InStep'
    BY <1>1, <1>2, <1>3, <2>1, <2>2 DEF InStep, Running, Before, After
  <2>. QED BY <1>1, <1>3, <2>1, <2>3, SwapMoves
<1>4. CASE rows' = [rows EXCEPT ![rot.chain] = Append(@, Seal(rot.content, rot.old))] /\ rot' = NoRun
  <2>. DEFINE r == Seal(rot.content, rot.old)
              d == rot.chain
  <2>1. /\ r.proof.key = rot.old /\ r.content.rot = Event(rot.old, rot.new)
        /\ rot.new = newest /\ newest \notin Installed /\ Installed \subseteq 1..newest
        /\ r.content.rot # None /\ r.content.rot.new = newest
    BY <1>1, RotationAssumption DEF RotationInv, InOrder, Seal, Event, AKey
  <2>2. d \in Chain
    <3>1. d \in RootChain
      BY <1>1
    <3>. QED BY <3>1 DEF RootChain, Chain
  <2>3. TypeOK /\ DOMAIN rows = Chain
    BY DEF RotationInv, TypeOK
  <2>. HIDE DEF r, d
  <2>. DEFINE R == {r}
  <2>4. Grow(R) /\ rows'[d] = Append(rows[d], r) /\ \A x : x \in R <=> x = r
    BY <1>4, <2>2, <2>3 DEF Grow, r, d
  <2>. HIDE DEF R
  <2>5. \A c \in Chain : \A i \in DOMAIN rows'[c] :
           \/ i \in DOMAIN rows[c] /\ rows'[c][i] = rows[c][i]
           \/ rows'[c][i] = r
    BY <2>3, <2>4, RowsGrow
  <2>6. \E i \in DOMAIN rows'[d] : rows'[d][i] = r
    <3>. DEFINE s == rows[d]
                S == {s[i] : i \in DOMAIN s}
    <3>1. s \in Seq(S)
      BY <2>2, <2>3 DEF TypeOK
    <3>2. s \in Seq(S \cup {r})
      BY <3>1, SeqMonotonic
    <3>. HIDE DEF s, S
    <3>3. /\ Len(Append(s, r)) = Len(s) + 1 /\ Len(s) \in Nat /\ Append(s, r)[Len(s) + 1] = r
          /\ DOMAIN Append(s, r) = 1..(Len(s) + 1)
      BY <3>2, AppendProperties, LenProperties
    <3>. QED BY <2>4, <3>3 DEF s
  <2>7. Installed' = Installed \cup {newest}
    <3>1. Installed \subseteq Installed' /\ Installed' \subseteq Installed \cup {newest}
      <4>. DEFINE K == {newest}
      <4>1. \A x \in R : x.content.rot # None => x.content.rot.new \in K
        BY <2>1, <2>4
      <4>. HIDE DEF K
      <4>2. Installed \subseteq Installed' /\ Installed' \subseteq Installed \cup K
        BY <2>3, <2>4, <4>1, InstalledGrow
      <4>. QED BY <4>2 DEF K
    <3>2. (\A k : k \in Installed <=>
              \/ k = 1
              \/ \E c \in Chain : \E i \in DOMAIN rows[c] :
                    rows[c][i].content.rot # None /\ k = rows[c][i].content.rot.new)'
      BY InstalledIs, PTL
    <3>3. newest \in Installed'
      BY <2>1, <2>2, <2>6, <3>2
    <3>. QED BY <3>1, <3>3
  <2>8. \A k : k = newest => Last(k)'
    BY <2>1, <2>7 DEF Last, AKey
  <2>9. RotOK' /\ rot'.step = "none" /\ Running("none")'
    BY <1>4, NoRunIs DEF Running
  <2>10. TypeOK'
    <3>1. DOMAIN rows' = Chain /\ \A c \in Chain : rows'[c] \in Seq({rows'[c][i] : i \in DOMAIN rows'[c]})
      <4>1. DOMAIN rows' = Chain
        BY <2>4 DEF Grow
      <4>2. \A c \in Chain : rows'[c] \in Seq({rows'[c][i] : i \in DOMAIN rows'[c]})
        BY ONLY <2>3, <2>4, RowsGrow
      <4>. QED BY <4>1, <4>2
    <3>2. /\ daemon \in [phase : {"down", "loaded", "published", "resumed", "serving"}, key : AKey \cup {0},
                          root : RootChain \cup {None}, length : Nat, agent : BOOLEAN]
          /\ daemon.phase # "down" => daemon.key \in AKey
          /\ files \in [private : AKey, public : AKey \cup {None},
                        backup : [private : AKey, public : AKey \cup {None}] \cup {None}]
      BY DEF RotationInv, TypeOK
    <3>3. /\ archive' \subseteq [name : AKey, key : AKey] /\ anchor' \subseteq AKey
          /\ day' \in 1..MaxDay /\ newest' \in AKey /\ torn' \in BOOLEAN /\ overlap' \in BOOLEAN
      BY <1>1
    <3>. QED BY <1>1, <2>9, <3>1, <3>2, <3>3, Zenon DEF TypeOK, Chain, AKey, RootChain
  <2>11. InOrder'
    BY <1>1, <2>1, <2>7, <2>9 DEF InOrder, AKey
  <2>12. Anchored'
    BY <1>1, <2>9 DEF RotationInv, Anchored
  <2>13. InStep'
    BY <1>1, <1>2, <2>1, <2>8, <2>9 DEF InStep, Running, Before, After
  <2>14. InArchive'
    <3>1. SUFFICES ASSUME ~torn
                   PROVE  /\ \A a \in archive : a.name = a.key
                          /\ \A k \in Installed' : Last(k)' \/ k \in ArchivedKeys
      BY <1>1, <2>9 DEF InArchive, ArchivedKeys
    <3>2. /\ \A a \in archive : a.name = a.key
          /\ \A k \in Installed : Last(k) \/ k \in ArchivedKeys
          /\ rot.old \in ArchivedKeys
      BY <1>1, <3>1 DEF RotationInv, InArchive
    <3>3. \A k : Last(k) => k = rot.old
      BY <1>2, <3>1, LastIsOne
    <3>. QED BY <2>7, <2>8, <3>2, <3>3
  <2>15. Alone'
    <3>1. SUFFICES ASSUME ~overlap
                   PROVE  /\ daemon.phase = "down"
                          /\ ~torn => \A c \in Chain : \A i \in DOMAIN rows'[c] :
                                        rows'[c][i].proof.key \in Installed'
      BY <1>1 DEF Alone, Chain
    <3>2. daemon.phase = "down"
      BY <1>1, <3>1 DEF RotationInv, Alone
    <3>3. ~torn => \A c \in Chain : \A i \in DOMAIN rows[c] : rows[c][i].proof.key \in Installed
      BY <3>1 DEF RotationInv, Alone
    <3>4. ~torn => rot.old \in Installed
      BY <1>2 DEF Last
    <3>. QED BY <2>1, <2>5, <2>7, <3>2, <3>3, <3>4
  <2>16. Witnessed'
    <3>1. rot.old \in {1} \cup anchor
      BY <1>1 DEF RotationInv, Anchored
    <3>2. \A c \in Chain : \A i \in DOMAIN rows'[c] : rows'[c][i].proof.key \in {1} \cup anchor
      BY <2>1, <2>5, <3>1 DEF RotationInv, Witnessed
    <3>. QED BY <1>1, <3>2 DEF RotationInv, Witnessed, Chain
  <2>. QED BY <2>10, <2>11, <2>12, <2>13, <2>14, <2>15, <2>16 DEF RotationInv
<1>. QED BY <1>3, <1>4 DEF InsertReceipt

-----------------------------------------------------------------------------
(* The invariant holds of every reachable state.                             *)
LEMMA InitRotation ==
    Init => RotationInv
<1>. SUFFICES ASSUME Init
              PROVE  RotationInv
  OBVIOUS
<1>1. /\ rows = [c \in Chain |-> <<>>] /\ day = 1
      /\ files = [private |-> 1, public |-> 1, backup |-> None]
      /\ archive = {} /\ anchor = {} /\ daemon = Down /\ rot = NoRun /\ newest = 1
      /\ torn = FALSE /\ overlap = FALSE
  BY DEF Init
<1>2. 1 \in AKey /\ 1 \in 1..MaxDay
  BY RotationAssumption DEF AKey
<1>3. rot.step = "none" /\ RotOK /\ daemon.phase = "down"
  BY <1>1 DEF NoRun, RotOK, Down
<1>4. \A k : k \in Installed <=> k = 1
  BY <1>1, InstalledIs
<1>5. \A k : Last(k) <=> k = 1
  BY <1>4 DEF Last
<1>6. TypeOK
  <2>1. /\ daemon \in [phase : {"down", "loaded", "published", "resumed", "serving"}, key : AKey \cup {0},
                        root : RootChain \cup {None}, length : Nat, agent : BOOLEAN]
    BY <1>1 DEF Down
  <2>2. files \in [private : AKey, public : AKey \cup {None},
                   backup : [private : AKey, public : AKey \cup {None}] \cup {None}]
    BY <1>1, <1>2
  <2>3. DOMAIN rows = Chain /\ \A c \in Chain : rows[c] \in Seq({rows[c][i] : i \in DOMAIN rows[c]})
    BY <1>1
  <2>. QED BY <1>1, <1>2, <1>3, <2>1, <2>2, <2>3, Zenon DEF TypeOK
<1>7. InOrder
  BY <1>1, <1>3, <1>4 DEF InOrder, Running
<1>8. Anchored
  BY <1>1, <1>3 DEF Anchored, Running
<1>9. InStep
  BY <1>1, <1>3, <1>5 DEF InStep, Running, Before, After
<1>10. InArchive
  BY <1>1, <1>3, <1>4, <1>5 DEF InArchive
<1>11. Alone
  BY <1>1, <1>3 DEF Alone
<1>12. Witnessed
  BY <1>1 DEF Witnessed
<1>. QED BY <1>6, <1>7, <1>8, <1>9, <1>10, <1>11, <1>12 DEF RotationInv

(* Every step of the daemon, of a rotation and of the operator keeps the    *)
(* invariant.                                                               *)
LEMMA RotationStep ==
    RotationInv /\ [Next]_vars => RotationInv'
<1>. SUFFICES ASSUME RotationInv, [Next]_vars
              PROVE  RotationInv'
  OBVIOUS
<1>1. CASE LoadKey
  BY <1>1, LoadKeyStep
<1>2. CASE Publish
  BY <1>2, PublishStep
<1>3. CASE Resume
  BY <1>3, ResumeStep
<1>4. CASE Listen
  BY <1>4, ListenStep
<1>5. CASE Commit
  BY <1>5, CommitStep
<1>6. CASE Stop
  BY <1>6, StopStep
<1>7. CASE Kill \/ Midnight
  BY <1>7, QuietSteps
<1>8. CASE BeginRotation
  BY <1>8, BeginStep
<1>9. CASE RotateStep
  BY <1>9, WitnessStep, ArchiveStep, BackupStep, SwapPrivateStep, SwapPublicStep, DropBackupStep,
     InsertStep, RestorePrivateStep, RestorePublicStep DEF RotateStep
<1>10. CASE Die
  BY <1>10, DieStep
<1>11. CASE RemovePublic
  BY <1>11, RemovePublicStep
<1>12. CASE UNCHANGED vars
  <2>1. /\ UNCHANGED <<rows, day, files, archive, anchor, rot, newest, torn, overlap, daemon>>
    BY <1>12 DEF vars, storeVars, diskVars, histVars
  <2>2. day' \in 1..MaxDay
    BY <2>1, Typed
  <2>. QED BY <2>1, <2>2, DownStep
<1>. QED BY <1>1, <1>2, <1>3, <1>4, <1>5, <1>6, <1>7, <1>8, <1>9, <1>10, <1>11, <1>12 DEF Next

(* The inductive invariant: where a rotation is, what the key files and the *)
(* archive hold, and which keys the chains have handed over to.             *)
THEOREM RotationInductive == Spec => []RotationInv
BY InitRotation, RotationStep, PTL DEF Spec

(* No receipt is signed with a key, and no key file holds one, whose         *)
(* installation the anchor has not recorded: anchorRotationEvent is before   *)
(* every local change of RotateKey, whatever dies after it.                  *)
THEOREM KeysAreWitnessed == Spec => []Witnessed
<1>1. RotationInv => Witnessed
  BY DEF RotationInv
<1>. QED BY <1>1, RotationInductive, PTL

(* Between rotations both key files hold the key that the last receipt of a  *)
(* rotation handed over to, unless a rotation died, or could not undo its    *)
(* changes, between the key files and its receipt.                           *)
THEOREM FilesAndChainsAgree == Spec => []KeysAgree
<1>1. ASSUME RotationInv
      PROVE  KeysAgree
  <2>. SUFFICES ASSUME Running("none"), ~torn
                PROVE  files.private = Max(Installed) /\ files.public = files.private
    BY DEF KeysAgree
  <2>1. Last(files.private) /\ files.public = files.private /\ Installed \subseteq Nat
    BY <1>1, Typed DEF RotationInv, InStep
  <2>2. \E k \in Installed : \A j \in Installed : k >= j
    BY <2>1 DEF Last
  <2>3. Max(Installed) \in Installed /\ \A j \in Installed : Max(Installed) >= j
    BY <2>2 DEF Max
  <2>4. Last(Max(Installed))
    BY <2>1, <2>3 DEF Last
  <2>. QED BY <2>1, <2>4, LastIsOne
<1>. QED BY <1>1, RotationInductive, PTL

(* The key under which a chain begins is in the public key file or in the    *)
(* archive at every moment of every rotation, until an operator removes the  *)
(* file or a daemon starts beside a rotation.                                *)
THEOREM GenesisIsResolvable == Spec => []GenesisResolvable
<1>1. ASSUME RotationInv
      PROVE  GenesisResolvable
  <2>. USE Typed, RotShape, <1>1
  <2>. SUFFICES ASSUME ~torn, ~overlap, NEW c \in Chain, rows[c] # <<>>
                PROVE  rows[c][1].proof.key \in {files.public} \cup ArchivedKeys
    BY DEF GenesisResolvable, ArchivedKeys
  <2>. DEFINE k == rows[c][1].proof.key
  <2>1. 1 \in DOMAIN rows[c]
    <3>1. /\ rows[c] \in Seq({rows[c][i] : i \in DOMAIN rows[c]})
      BY DEF RotationInv, TypeOK
    <3>2. Len(rows[c]) \in Nat /\ DOMAIN rows[c] = 1..Len(rows[c]) /\ Len(rows[c]) # 0
      BY <3>1, LenProperties, EmptySeq
    <3>. QED BY <3>2
  <2>2. k \in Installed
    BY <2>1 DEF RotationInv, Alone
  <2>. HIDE DEF k
  <2>3. Last(k) \/ k \in ArchivedKeys
    BY <2>2 DEF RotationInv, InArchive
  <2>4. ASSUME Last(k)
        PROVE  k \in {files.public} \cup ArchivedKeys
    <3>1. CASE Running("none")
      <4>1. Last(files.private) /\ files.public = files.private
        BY <3>1 DEF RotationInv, InStep
      <4>. QED BY <2>4, <4>1, LastIsOne
    <3>2. CASE ~Running("none")
      <4>1. k = rot.old
        <5>1. Last(rot.old)
          BY <3>2 DEF RotationInv, InStep
        <5>. QED BY <2>4, <5>1, LastIsOne
      <4>2. CASE rot.step \in Before
        BY <4>1, <4>2 DEF RotationInv, InStep
      <4>3. CASE rot.step \notin Before
        BY <3>2, <4>1, <4>3 DEF RotationInv, InArchive, Running, Before
      <4>. QED BY <4>2, <4>3
    <3>. QED BY <3>1, <3>2
  <2>. QED BY <2>3, <2>4 DEF k
<1>. QED BY <1>1, RotationInductive, PTL

-----------------------------------------------------------------------------
(* What is proved of a chain that a verifier reads: it is formed, its keys   *)
(* ascend, and all of them are installed.                                    *)
HandedOver(rs) == {rs[i].content.rot.new : i \in {j \in DOMAIN rs : rs[j].content.rot # None}}

Orderly(rs, c, installed) ==
    /\ Len(rs) \in Nat \ {0} /\ DOMAIN rs = 1..Len(rs)
    /\ Formed(rs, c) /\ Ascending(rs, installed)
    /\ installed \subseteq Nat /\ Undecodable \notin installed /\ None \notin installed
    /\ \A i \in DOMAIN rs : rs[i].proof.key \in installed
    /\ HandedOver(rs) \subseteq installed

(* The key in force at receipt i, where f is what it was before.             *)
KeyStep(rs, genesis, f, i) == IF i = 1 THEN genesis ELSE NextKey(rs[i - 1], f[i - 1])

(* The traversal of a chain defines a key for each of its receipts: of the   *)
(* lengths up to which it does not, none is the least.                       *)
LEMMA ActiveKeyIs ==
    ASSUME NEW rs, Len(rs) \in Nat, NEW genesis
    PROVE  \A i \in 1..Len(rs) :
              ActiveKey(rs, genesis)[i] = KeyStep(rs, genesis, ActiveKey(rs, genesis), i)
<1>. DEFINE Keyed(n) == \E f : f = [i \in 1..n |-> KeyStep(rs, genesis, f, i)]
            Bad == {n \in Nat : ~Keyed(n)}
<1>1. ASSUME Bad # {} PROVE FALSE
  <2>1. PICK n \in Bad : \A m \in Bad : n <= m
    BY <1>1, LeastOf
  <2>2. n # 0
    <3>. DEFINE f == [i \in 1..0 |-> genesis]
    <3>1. f = [i \in 1..0 |-> KeyStep(rs, genesis, f, i)]
      OBVIOUS
    <3>2. Keyed(0)
      BY <3>1
    <3>. QED BY <2>1, <3>2
  <2>3. n - 1 \in Nat /\ Keyed(n - 1)
    BY <2>1, <2>2
  <2>4. PICK f : f = [i \in 1..n - 1 |-> KeyStep(rs, genesis, f, i)]
    BY <2>3
  <2>. DEFINE g == [i \in 1..n |-> KeyStep(rs, genesis, f, i)]
  <2>5. \A i \in 1..n - 1 : g[i] = f[i]
    BY <2>1, <2>4
  <2>. HIDE DEF g
  <2>6. \A i \in 1..n : KeyStep(rs, genesis, g, i) = KeyStep(rs, genesis, f, i)
    <3>1. SUFFICES ASSUME NEW i \in 1..n, i # 1 PROVE g[i - 1] = f[i - 1]
      BY DEF KeyStep
    <3>. QED BY <2>1, <2>5, <3>1
  <2>7. g = [i \in 1..n |-> KeyStep(rs, genesis, g, i)]
    BY <2>6 DEF g
  <2>8. Keyed(n)
    BY <2>7
  <2>. QED BY <2>1, <2>8
<1>2. Keyed(Len(rs))
  BY <1>1
<1>. DEFINE f == ActiveKey(rs, genesis)
<1>3. f = CHOOSE g : g = [i \in 1..Len(rs) |-> KeyStep(rs, genesis, g, i)]
  BY DEF ActiveKey, KeyStep
<1>4. f = [i \in 1..Len(rs) |-> KeyStep(rs, genesis, f, i)]
  BY <1>2, <1>3
<1>. HIDE DEF f
<1>5. \A i \in 1..Len(rs) : f[i] = KeyStep(rs, genesis, f, i)
  BY <1>4, Zenon
<1>. QED BY <1>5 DEF f

(* VerifyChain without options accepts a chain exactly if the loop, the      *)
(* chain ids and the terminal receipts have nothing against it.              *)
LEMMA ValidIs ==
    ASSUME NEW rs, Len(rs) \in Nat \ {0}, DOMAIN rs = 1..Len(rs), NEW genesis
    PROVE  /\ Valid(rs, genesis, NoOptions) <=> ChainBreak(rs, genesis) = 0
           /\ ChainBreak(rs, genesis) = 0 <=> /\ OtherChain(rs) = {} /\ LoopBreaks(rs, genesis) = {}
                                              /\ AfterTerminal(rs) = {}
<1>. DEFINE breaks == LoopBreaks(rs, genesis) \union AfterTerminal(rs)
<1>1. OtherChain(rs) \subseteq 1..Len(rs) /\ breaks \subseteq 1..Len(rs)
  BY DEF OtherChain, LoopBreaks, AfterTerminal
<1>2. \A S : S \subseteq 1..Len(rs) /\ S # {} => Min(S) # 0
  <2>1. SUFFICES ASSUME NEW S, S \subseteq 1..Len(rs), S # {} PROVE Min(S) # 0
    OBVIOUS
  <2>2. S \subseteq Nat /\ 0 \notin S
    BY <2>1
  <2>. QED BY <2>1, <2>2, MinIsLeast
<1>3. rs # <<>>
  BY EmptySeq
<1>4. NoOptions.bodies = <<>> /\ DOMAIN (<<>>) = {} /\ NoOptions.length = None /\ NoOptions.final = None
      /\ NoOptions.terminal = FALSE
  BY DEF NoOptions
<1>5. BodyBreaks(rs, NoOptions.bodies) = {} /\ ExpectationsMet(rs, NoOptions)
  BY <1>4 DEF BodyBreaks, ExpectationsMet
<1>6. ChainBreak(rs, genesis) = IF OtherChain(rs) # {} THEN Min(OtherChain(rs))
                                ELSE IF breaks # {} THEN Min(breaks) ELSE 0
  BY DEF ChainBreak
<1>7. BrokenAt(rs, genesis, NoOptions) = ChainBreak(rs, genesis)
  BY <1>3, <1>5, Zenon DEF BrokenAt
<1>8. breaks = {} <=> LoopBreaks(rs, genesis) = {} /\ AfterTerminal(rs) = {}
  OBVIOUS
<1>. HIDE DEF breaks
<1>. QED BY <1>1, <1>2, <1>6, <1>7, <1>8, Zenon DEF Valid

(* The key of a receipt, and the one it hands over to, if it does.           *)
KeyOf(rs, i)   == rs[i].proof.key
HandsOn(rs, i) == rs[i].content.rot # None
NewOf(rs, i)   == rs[i].content.rot.new

(* What an orderly chain is, by its keys.                                    *)
Keyed(rs, installed, n) ==
    /\ n \in Nat \ {0} /\ installed \subseteq Nat
    /\ \A i \in 1..n : KeyOf(rs, i) \in installed
    /\ \A i \in 1..n : HandsOn(rs, i) => /\ NewOf(rs, i) \in installed /\ KeyOf(rs, i) < NewOf(rs, i)
                                         /\ \A k \in installed : k <= KeyOf(rs, i) \/ NewOf(rs, i) <= k
    /\ \A i, j \in 1..n : i < j => /\ KeyOf(rs, i) <= KeyOf(rs, j)
                                   /\ HandsOn(rs, i) => NewOf(rs, i) <= KeyOf(rs, j)

(* An orderly chain is.                                                     *)
LEMMA KeysOf ==
    ASSUME NEW rs, NEW c, NEW installed, Orderly(rs, c, installed)
    PROVE  Keyed(rs, installed, Len(rs))
<1>1. /\ Len(rs) \in Nat \ {0} /\ DOMAIN rs = 1..Len(rs) /\ installed \subseteq Nat
      /\ \A i \in 1..Len(rs) : KeyOf(rs, i) \in installed
  BY DEF Orderly, KeyOf
<1>2. ASSUME NEW i \in 1..Len(rs), HandsOn(rs, i)
      PROVE  NewOf(rs, i) \in installed
  BY <1>1, <1>2 DEF Orderly, HandedOver, HandsOn, NewOf
<1>3. ASSUME NEW i \in 1..Len(rs)
      PROVE  /\ \A j \in 1..Len(rs) : j > i => KeyOf(rs, i) <= KeyOf(rs, j)
             /\ HandsOn(rs, i) => /\ KeyOf(rs, i) < NewOf(rs, i)
                                  /\ \A j \in 1..Len(rs) : j > i => NewOf(rs, i) <= KeyOf(rs, j)
                                  /\ \A k \in installed : k <= KeyOf(rs, i) \/ NewOf(rs, i) <= k
  <2>1. Ascending(rs, installed)
    BY DEF Orderly
  <2>. QED BY <1>1, <2>1 DEF Ascending, HandsOn, NewOf, KeyOf
<1>4. ASSUME NEW i \in 1..Len(rs), NEW j \in 1..Len(rs), i < j
      PROVE  KeyOf(rs, i) <= KeyOf(rs, j) /\ (HandsOn(rs, i) => NewOf(rs, i) <= KeyOf(rs, j))
  <2>1. j > i
    BY <1>1, <1>4
  <2>. QED BY <1>3, <2>1, Zenon
<1>. QED BY <1>1, <1>2, <1>3, <1>4 DEF Keyed

(* The same of two of its receipts.                                          *)
LEMMA KeysOfTwo ==
    ASSUME NEW rs, NEW installed, NEW n, Keyed(rs, installed, n), NEW i \in 1..n, NEW j \in 1..n
    PROVE  /\ KeyOf(rs, i) \in Nat /\ KeyOf(rs, j) \in Nat
           /\ i < j => KeyOf(rs, i) <= KeyOf(rs, j)
           /\ HandsOn(rs, i) => NewOf(rs, i) \in Nat /\ KeyOf(rs, i) < NewOf(rs, i)
           /\ i < j /\ HandsOn(rs, i) => NewOf(rs, i) <= KeyOf(rs, j)
<1>1. /\ installed \subseteq Nat
      /\ KeyOf(rs, i) \in installed /\ KeyOf(rs, j) \in installed
      /\ i < j => KeyOf(rs, i) <= KeyOf(rs, j)
      /\ HandsOn(rs, i) => NewOf(rs, i) \in installed /\ KeyOf(rs, i) < NewOf(rs, i)
      /\ i < j /\ HandsOn(rs, i) => NewOf(rs, i) <= KeyOf(rs, j)
  BY DEF Keyed
<1>. QED BY <1>1

(* What a receipt of an orderly chain does to the key in force.              *)
LEMMA StepIs ==
    ASSUME NEW rs, NEW c, NEW installed, Orderly(rs, c, installed), NEW i \in 1..Len(rs), NEW k
    PROVE  /\ Verified(rs[i], k) <=> k = KeyOf(rs, i)
           /\ HandsOn(rs, i) => (RotationValid(rs[i].content.rot, k) <=> k = KeyOf(rs, i))
           /\ NextKey(rs[i], k) = IF HandsOn(rs, i) /\ k = KeyOf(rs, i) THEN NewOf(rs, i) ELSE k
<1>. DEFINE d == rs[i].content
            key == rs[i].proof.key
<1>1. DOMAIN rs = 1..Len(rs)
  BY DEF Orderly
<1>2. Verified(rs[i], key) /\ (d.rot # None => d.rot = Event(key, d.rot.new))
  BY <1>1 DEF Orderly, Formed
<1>3. rs[i].proof = [key |-> key, over |-> d]
  BY <1>2 DEF Verified
<1>. HIDE DEF d, key
<1>4. Verified(rs[i], k) <=> k = key
  <2>1. Verified(rs[i], k) <=> [key |-> key, over |-> d] = [key |-> k, over |-> d]
    BY <1>3 DEF Verified, d
  <2>. QED BY <2>1
<1>5. ASSUME d.rot # None PROVE RotationValid(d.rot, k) <=> k = key
  <2>1. d.rot.new \in installed
    BY <1>1, <1>5 DEF Orderly, HandedOver, d
  <2>2. d.rot.new # Undecodable
    BY <2>1 DEF Orderly
  <2>3. d.rot = [wellFormed |-> TRUE, old |-> key, new |-> d.rot.new, named |-> d.rot.new]
    BY <1>2, <1>5 DEF Event
  <2>4. d.rot.wellFormed = TRUE /\ d.rot.old = key /\ d.rot.named = d.rot.new
    BY <2>3
  <2>. QED BY <2>2, <2>4, Zenon DEF RotationValid
<1>6. NextKey(rs[i], k) = IF d.rot # None /\ RotationValid(d.rot, k) /\ Verified(rs[i], k) THEN d.rot.new ELSE k
  BY Zenon DEF NextKey, d
<1>. QED BY <1>4, <1>5, <1>6, Zenon DEF KeyOf, HandsOn, NewOf, d, key

(* The key in force is the first receipt's, or one that a receipt before     *)
(* handed over to.                                                           *)
LEMMA KeyWasHandedOn ==
    ASSUME NEW rs, NEW c, NEW installed, Orderly(rs, c, installed), NEW genesis, NEW i \in 1..Len(rs)
    PROVE  LET k == ActiveKey(rs, genesis)[i]
           IN k = genesis \/ \E j \in 1..Len(rs) : j < i /\ HandsOn(rs, j) /\ NewOf(rs, j) = k
<1>. DEFINE key == ActiveKey(rs, genesis)
            n == Len(rs)
            Good(m) == key[m] = genesis \/ \E j \in 1..n : j < m /\ HandsOn(rs, j) /\ NewOf(rs, j) = key[m]
            Bad == {m \in 1..n : ~Good(m)}
<1>1. n \in Nat
  BY DEF Orderly
<1>2. \A m \in 1..n : key[m] = IF m = 1 THEN genesis ELSE NextKey(rs[m - 1], key[m - 1])
  BY <1>1, ActiveKeyIs DEF KeyStep
<1>. HIDE DEF key, n
<1>3. ASSUME NEW m \in 1..n, m # 1, Good(m - 1) PROVE Good(m)
  <2>1. m - 1 \in 1..n /\ m - 1 < m /\ \A j \in 1..n : j < m - 1 => j < m
    BY <1>1, <1>3
  <2>2. key[m] = NextKey(rs[m - 1], key[m - 1])
    BY <1>2, <1>3
  <2>3. NextKey(rs[m - 1], key[m - 1]) =
          IF HandsOn(rs, m - 1) /\ key[m - 1] = KeyOf(rs, m - 1) THEN NewOf(rs, m - 1) ELSE key[m - 1]
    BY <2>1, StepIs DEF n
  <2>. QED BY <1>3, <2>1, <2>2, <2>3
<1>4. Bad = {}
  <2>1. SUFFICES ASSUME Bad # {} PROVE FALSE
    OBVIOUS
  <2>2. Bad \subseteq Nat
    BY <1>1
  <2>3. PICK m \in Bad : \A x \in Bad : m <= x
    BY <2>1, <2>2, LeastOf
  <2>4. m \in 1..n /\ ~Good(m)
    BY <2>3
  <2>5. CASE m = 1
    BY <1>2, <2>4, <2>5
  <2>6. CASE m # 1
    <3>1. m - 1 \in 1..n /\ ~(m <= m - 1)
      BY <1>1, <2>4, <2>6
    <3>2. Good(m - 1)
      BY <2>3, <3>1
    <3>. QED BY <1>3, <2>4, <2>6, <3>2
  <2>. QED BY <2>5, <2>6
<1>. QED BY <1>4 DEF key, n

(* If a chain holds every handover since it began, the keys in force are     *)
(* those that signed it.                                                     *)
LEMMA KeysFollow ==
    ASSUME NEW rs, NEW c, NEW installed, Orderly(rs, c, installed),
           \A k \in installed : k > KeyOf(rs, 1) => k \in HandedOver(rs)
    PROVE  \A i \in 1..Len(rs) : ActiveKey(rs, KeyOf(rs, 1))[i] = KeyOf(rs, i)
<1>. DEFINE g == KeyOf(rs, 1)
            key == ActiveKey(rs, g)
            n == Len(rs)
            Bad == {m \in 1..n : key[m] # KeyOf(rs, m)}
<1>1. Keyed(rs, installed, n)
  BY KeysOf
<1>2. n \in Nat \ {0} /\ DOMAIN rs = 1..n
  BY DEF Orderly
<1>3. \A m \in 1..n : key[m] = IF m = 1 THEN g ELSE NextKey(rs[m - 1], key[m - 1])
  BY <1>2, ActiveKeyIs DEF KeyStep
<1>4. \A k \in installed : k > g => \E j \in 1..n : HandsOn(rs, j) /\ NewOf(rs, j) = k
  BY <1>2 DEF HandedOver, HandsOn, NewOf
<1>. HIDE DEF key, n
<1>5. ASSUME NEW m \in 1..n, m # 1, key[m - 1] = KeyOf(rs, m - 1) PROVE key[m] = KeyOf(rs, m)
  <2>1. m - 1 \in 1..n /\ 1 \in 1..n
    BY <1>2, <1>5
  <2>2. key[m] = IF HandsOn(rs, m - 1) THEN NewOf(rs, m - 1) ELSE KeyOf(rs, m - 1)
    <3>1. NextKey(rs[m - 1], key[m - 1]) =
            IF HandsOn(rs, m - 1) /\ key[m - 1] = KeyOf(rs, m - 1) THEN NewOf(rs, m - 1) ELSE key[m - 1]
      BY <2>1, StepIs DEF n
    <3>2. key[m] = NextKey(rs[m - 1], key[m - 1])
      BY <1>3, <1>5
    <3>. QED BY <1>5, <3>1, <3>2, Zenon
  <2>3. /\ key[m] \in Nat /\ key[m] <= KeyOf(rs, m) /\ KeyOf(rs, m) \in Nat
        /\ KeyOf(rs, m - 1) \in Nat /\ KeyOf(rs, m - 1) <= key[m]
    <3>1. m - 1 < m
      BY <1>2, <1>5
    <3>2. /\ KeyOf(rs, m - 1) \in Nat /\ KeyOf(rs, m) \in Nat /\ KeyOf(rs, m - 1) <= KeyOf(rs, m)
          /\ HandsOn(rs, m - 1) => /\ NewOf(rs, m - 1) \in Nat /\ KeyOf(rs, m - 1) < NewOf(rs, m - 1)
                                   /\ NewOf(rs, m - 1) <= KeyOf(rs, m)
      BY <1>1, <1>5, <2>1, <3>1, KeysOfTwo, Zenon
    <3>. HIDE DEF KeyOf, HandsOn, NewOf
    <3>. QED BY <2>2, <3>2
  <2>4. g <= key[m] /\ g \in Nat
    <3>1. 1 = m - 1 \/ 1 < m - 1
      BY <1>2, <2>1
    <3>2. g \in Nat /\ (1 < m - 1 => g <= KeyOf(rs, m - 1))
      BY <1>1, <2>1, KeysOfTwo, Zenon
    <3>. QED BY <2>3, <3>1, <3>2
  <2>5. ASSUME key[m] # KeyOf(rs, m) PROVE FALSE
    <3>1. KeyOf(rs, m) > key[m] /\ KeyOf(rs, m) > g
      BY <2>3, <2>4, <2>5
    <3>2. PICK j \in 1..n : HandsOn(rs, j) /\ NewOf(rs, j) = KeyOf(rs, m)
      <4>1. KeyOf(rs, m) \in installed
        BY <1>1, <1>5, Zenon DEF Keyed
      <4>. QED BY <1>4, <3>1, <4>1
    <3>3. KeyOf(rs, j) < KeyOf(rs, m) /\ KeyOf(rs, j) \in Nat /\ (m < j => KeyOf(rs, m) <= KeyOf(rs, j))
      BY <1>1, <1>5, <3>2, KeysOfTwo, Zenon
    <3>4. ~(m < j) /\ m # j
      BY <2>3, <3>3
    <3>5. j <= m - 1
      BY <1>2, <3>4
    <3>6. CASE j = m - 1
      BY <2>2, <2>3, <3>1, <3>2, <3>6
    <3>7. CASE j < m - 1
      <4>1. NewOf(rs, j) <= KeyOf(rs, m - 1)
        BY <1>1, <2>1, <3>2, <3>7, KeysOfTwo, Zenon
      <4>. QED BY <2>3, <3>1, <3>2, <4>1
    <3>. QED BY <2>1, <3>5, <3>6, <3>7
  <2>. QED BY <2>5
<1>6. Bad = {}
  <2>1. SUFFICES ASSUME Bad # {} PROVE FALSE
    OBVIOUS
  <2>2. Bad \subseteq Nat
    BY <1>2
  <2>3. PICK m \in Bad : \A x \in Bad : m <= x
    BY <2>1, <2>2, LeastOf
  <2>4. m \in 1..n /\ key[m] # KeyOf(rs, m)
    BY <2>3
  <2>5. CASE m = 1
    BY <1>3, <2>4, <2>5
  <2>6. CASE m # 1
    <3>1. m - 1 \in 1..n /\ ~(m <= m - 1)
      BY <1>2, <2>4, <2>6
    <3>2. key[m - 1] = KeyOf(rs, m - 1)
      BY <2>3, <3>1
    <3>. QED BY <1>5, <2>4, <2>6, <3>2
  <2>. QED BY <2>5, <2>6
<1>. QED BY <1>6 DEF key, n

(* The flags of a receipt of an orderly chain.                               *)
LEMMA FlagsAre ==
    ASSUME NEW rs, NEW c, NEW installed, Orderly(rs, c, installed), NEW genesis, NEW i \in 1..Len(rs)
    PROVE  LET f == Flags(rs, genesis)[i]
           IN /\ f.signature <=> ActiveKey(rs, genesis)[i] = KeyOf(rs, i)
              /\ f.link /\ f.sequence
<1>. DEFINE f == Flags(rs, genesis)[i]
            k == ActiveKey(rs, genesis)[i]
<1>1. Len(rs) \in Nat \ {0} /\ DOMAIN rs = 1..Len(rs) /\ Formed(rs, c)
  BY DEF Orderly
<1>2. f = [signature |-> Verified(rs[i], k), link |-> LinkValid(rs, i), sequence |-> SequenceValid(rs, i)]
  BY <1>1 DEF Flags
<1>3. f.signature = Verified(rs[i], k) /\ f.link = LinkValid(rs, i) /\ f.sequence = SequenceValid(rs, i)
  BY <1>2
<1>4. LinkValid(rs, i)
  BY <1>1 DEF Formed
<1>5. SequenceValid(rs, i)
  <2>1. \A j \in 1..Len(rs) : rs[j].content.seq = j
    BY <1>1 DEF Formed
  <2>2. i = 1 \/ i - 1 \in 1..Len(rs)
    BY <1>1
  <2>3. i - 1 \in 1..Len(rs) => rs[i].content.seq = rs[i - 1].content.seq + 1
    <3>1. rs[i].content.seq = i /\ (i - 1 \in 1..Len(rs) => rs[i - 1].content.seq = i - 1)
      BY <2>1, Zenon
    <3>2. i = (i - 1) + 1
      BY <1>1
    <3>. QED BY <3>1, <3>2, Zenon
  <2>4. i >= 1 /\ rs[i].content.seq = i
    BY <1>1, <2>1
  <2>. QED BY <2>2, <2>3, <2>4, Zenon DEF SequenceValid
<1>6. Verified(rs[i], k) <=> k = KeyOf(rs, i)
  BY StepIs
<1>. QED BY <1>3, <1>4, <1>5, <1>6, Zenon

(* The loop breaks an orderly chain just where a receipt is not signed by    *)
(* the key in force.                                                         *)
LEMMA BreaksAre ==
    ASSUME NEW rs, NEW c, NEW installed, Orderly(rs, c, installed), NEW genesis
    PROVE  /\ OtherChain(rs) = {}
           /\ LoopBreaks(rs, genesis) = {i \in 1..Len(rs) : ActiveKey(rs, genesis)[i] # KeyOf(rs, i)}
<1>1. Len(rs) \in Nat \ {0} /\ DOMAIN rs = 1..Len(rs) /\ Formed(rs, c)
  BY DEF Orderly
<1>2. \A i \in 1..Len(rs) : rs[i].content.chain = c /\ StatusValid(rs[i].content)
  BY <1>1 DEF Formed, Sound
<1>3. OtherChain(rs) = {}
  BY <1>1, <1>2 DEF OtherChain
<1>4. ASSUME NEW i \in 1..Len(rs)
      PROVE  i \in LoopBreaks(rs, genesis) <=> ActiveKey(rs, genesis)[i] # KeyOf(rs, i)
  <2>. DEFINE k == ActiveKey(rs, genesis)[i]
              event == rs[i].content.rot
  <2>1. FlagsOK(Flags(rs, genesis)[i]) <=> k = KeyOf(rs, i)
    BY FlagsAre, Zenon DEF FlagsOK
  <2>2. event # None => (RotationValid(event, k) <=> k = KeyOf(rs, i))
    BY StepIs, Zenon DEF HandsOn
  <2>3. i \in LoopBreaks(rs, genesis) <=>
           ~FlagsOK(Flags(rs, genesis)[i]) \/ (event # None /\ ~RotationValid(event, k))
    BY <1>1, <1>2, Zenon DEF LoopBreaks
  <2>. QED BY <2>1, <2>2, <2>3, Zenon
<1>5. LoopBreaks(rs, genesis) \subseteq 1..Len(rs)
  BY <1>1 DEF LoopBreaks
<1>. QED BY <1>3, <1>4, <1>5

(* If every receipt is signed by the key in force and the chain hands over   *)
(* to the newest key, then it holds every handover since it began: the first *)
(* one beyond a missing key would be signed by a key that is not in force.   *)
LEMMA NoneIsMissing ==
    ASSUME NEW rs, NEW c, NEW installed, Orderly(rs, c, installed),
           \A i \in 1..Len(rs) : ActiveKey(rs, KeyOf(rs, 1))[i] = KeyOf(rs, i),
           NEW top \in HandedOver(rs), \A k \in installed : k <= top,
           NEW k \in installed, k > KeyOf(rs, 1)
    PROVE  k \in HandedOver(rs)
<1>. DEFINE n == Len(rs)
            Beyond == {i \in 1..n : HandsOn(rs, i) /\ NewOf(rs, i) > k}
<1>1. n \in Nat \ {0} /\ DOMAIN rs = 1..n /\ installed \subseteq Nat
  BY DEF Orderly
<1>2. \A x : x \in HandedOver(rs) <=> \E i \in 1..n : HandsOn(rs, i) /\ NewOf(rs, i) = x
  BY <1>1 DEF HandedOver, HandsOn, NewOf
<1>3. Keyed(rs, installed, n)
  BY KeysOf
<1>4. SUFFICES ASSUME k \notin HandedOver(rs) PROVE FALSE
  OBVIOUS
<1>5. top \in installed /\ k \in Nat /\ top \in Nat /\ k <= top /\ k # top
  BY <1>1, <1>4 DEF Orderly
<1>6. Beyond # {} /\ Beyond \subseteq Nat
  BY <1>1, <1>2, <1>5
<1>7. PICK i \in Beyond : \A j \in Beyond : i <= j
  BY <1>6, LeastOf
<1>8. i \in 1..n /\ HandsOn(rs, i) /\ NewOf(rs, i) > k
  BY <1>7
<1>9. k <= KeyOf(rs, i) \/ NewOf(rs, i) <= k
  BY <1>3, <1>8, Zenon DEF Keyed
<1>10. NewOf(rs, i) \in Nat /\ KeyOf(rs, i) \in Nat /\ KeyOf(rs, 1) \in Nat
  <2>1. 1 \in 1..n
    BY <1>1
  <2>. QED BY <1>3, <1>8, <2>1, KeysOfTwo, Zenon
<1>11. k <= KeyOf(rs, i)
  BY <1>5, <1>8, <1>9, <1>10
<1>12. KeyOf(rs, i) # KeyOf(rs, 1)
  BY <1>5, <1>10, <1>11
<1>13. PICK j \in 1..n : j < i /\ HandsOn(rs, j) /\ NewOf(rs, j) = KeyOf(rs, i)
  <2>1. ActiveKey(rs, KeyOf(rs, 1))[i] = KeyOf(rs, i)
    BY <1>8
  <2>. QED BY <1>8, <1>12, <2>1, KeyWasHandedOn
<1>14. NewOf(rs, j) # k
  BY <1>2, <1>4, <1>13
<1>15. NewOf(rs, j) > k
  BY <1>5, <1>10, <1>11, <1>13, <1>14
<1>16. j \in Beyond
  BY <1>13, <1>15
<1>. QED BY <1>7, <1>8, <1>13, <1>16, <1>1

(* A chain whose handovers are those since it began verifies from the key it *)
(* began with, but for what follows a terminal receipt; and the other way.   *)
LEMMA ValidFromFirst ==
    ASSUME NEW rs, NEW c, NEW installed, Orderly(rs, c, installed), NEW genesis
    PROVE  /\ Valid(rs, genesis, NoOptions) <=> ChainBreak(rs, genesis) = 0
           /\ ChainBreak(rs, genesis) = 0 <=>
                 /\ AfterTerminal(rs) = {}
                 /\ \A i \in 1..Len(rs) : ActiveKey(rs, genesis)[i] = KeyOf(rs, i)
           /\ ChainBreak(rs, genesis) = 0 => KeyOf(rs, 1) = genesis
<1>1. Len(rs) \in Nat \ {0} /\ DOMAIN rs = 1..Len(rs)
  BY DEF Orderly
<1>2. /\ Valid(rs, genesis, NoOptions) <=> ChainBreak(rs, genesis) = 0
      /\ ChainBreak(rs, genesis) = 0 <=> /\ OtherChain(rs) = {} /\ LoopBreaks(rs, genesis) = {}
                                         /\ AfterTerminal(rs) = {}
  BY <1>1, ValidIs
<1>3. LoopBreaks(rs, genesis) = {} <=> \A i \in 1..Len(rs) : ActiveKey(rs, genesis)[i] = KeyOf(rs, i)
  BY BreaksAre
<1>4. OtherChain(rs) = {}
  BY BreaksAre
<1>5. ActiveKey(rs, genesis)[1] = genesis /\ 1 \in 1..Len(rs)
  BY <1>1, ActiveKeyIs DEF KeyStep
<1>6. ChainBreak(rs, genesis) = 0 <=>
         AfterTerminal(rs) = {} /\ \A i \in 1..Len(rs) : ActiveKey(rs, genesis)[i] = KeyOf(rs, i)
  BY <1>2, <1>3, <1>4, Zenon
<1>. QED BY <1>2, <1>5, <1>6, Zenon

(* The keys installed since a chain began.                                   *)
Since(rs, installed) == {k \in installed : k > KeyOf(rs, 1)}

(* The newest key is published, and the first is to be found.                *)
InReach(rs, installed, public, archives) ==
    /\ public \in installed /\ \A k \in installed : k <= public
    /\ KeyOf(rs, 1) = public \/ KeyOf(rs, 1) \in archives

(* receipt verify finds the key that signed the first receipt.               *)
LEMMA GenesisIs ==
    ASSUME NEW rs, NEW c, NEW installed, Orderly(rs, c, installed), NEW public, NEW archives,
           KeyOf(rs, 1) = public \/ KeyOf(rs, 1) \in archives
    PROVE  GenesisKey(rs, public, archives) = KeyOf(rs, 1)
<1>. DEFINE signers == {k \in archives : Verified(rs[1], k)}
<1>1. 1 \in 1..Len(rs) /\ rs # <<>>
  BY EmptySeq DEF Orderly
<1>2. \A k : Verified(rs[1], k) <=> k = KeyOf(rs, 1)
  BY <1>1, StepIs
<1>3. GenesisKey(rs, public, archives) =
         IF rs = <<>> \/ Verified(rs[1], public) \/ signers = {} THEN public ELSE CHOOSE k \in signers : TRUE
  BY DEF GenesisKey
<1>4. CASE KeyOf(rs, 1) = public
  BY <1>2, <1>3, <1>4
<1>5. CASE KeyOf(rs, 1) # public
  <2>1. signers = {KeyOf(rs, 1)}
    BY <1>2, <1>5
  <2>. HIDE DEF signers
  <2>2. (CHOOSE k \in signers : TRUE) = KeyOf(rs, 1)
    BY <2>1
  <2>. QED BY <1>1, <1>2, <1>3, <1>5, <2>1, <2>2
<1>. QED BY <1>4, <1>5

(* The keys that a chain has handed over to were installed since it began.   *)
LEMMA HandedSince ==
    ASSUME NEW rs, NEW c, NEW installed, Orderly(rs, c, installed)
    PROVE  HandedOver(rs) \subseteq Since(rs, installed)
<1>1. Len(rs) \in Nat \ {0} /\ DOMAIN rs = 1..Len(rs) /\ Keyed(rs, installed, Len(rs))
  BY KeysOf DEF Orderly
<1>2. SUFFICES ASSUME NEW i \in 1..Len(rs), HandsOn(rs, i)
               PROVE  NewOf(rs, i) \in installed /\ NewOf(rs, i) > KeyOf(rs, 1)
  BY <1>1 DEF HandedOver, Since, HandsOn, NewOf
<1>3. 1 \in 1..Len(rs) /\ (i = 1 \/ 1 < i)
  BY <1>1
<1>4. /\ KeyOf(rs, 1) \in Nat /\ KeyOf(rs, i) \in Nat /\ (1 < i => KeyOf(rs, 1) <= KeyOf(rs, i))
      /\ NewOf(rs, i) \in Nat /\ KeyOf(rs, i) < NewOf(rs, i)
  BY <1>1, <1>2, <1>3, KeysOfTwo, Zenon
<1>5. NewOf(rs, i) \in installed
  BY <1>1, <1>2, Zenon DEF Keyed
<1>. QED BY <1>3, <1>4, <1>5

(* The last handover of a chain that holds the newest is to the newest.      *)
LEMMA CurrentIsNewest ==
    ASSUME NEW rs, NEW c, NEW installed, Orderly(rs, c, installed),
           NEW top \in HandedOver(rs), \A k \in installed : k <= top
    PROVE  CurrentKey(rs) = top
<1>. DEFINE rotations == {i \in DOMAIN rs : rs[i].content.rot # None}
            n == Len(rs)
<1>1. n \in Nat \ {0} /\ DOMAIN rs = 1..n /\ Keyed(rs, installed, n) /\ installed \subseteq Nat
  BY KeysOf DEF Orderly
<1>2. PICK i \in 1..n : HandsOn(rs, i) /\ NewOf(rs, i) = top
  BY <1>1 DEF HandedOver, HandsOn, NewOf
<1>3. ASSUME NEW j \in rotations PROVE j <= i
  <2>1. j \in 1..n /\ HandsOn(rs, j)
    BY <1>1 DEF HandsOn
  <2>2. /\ i < j => top <= KeyOf(rs, j)
        /\ KeyOf(rs, j) \in Nat /\ NewOf(rs, j) \in Nat /\ KeyOf(rs, j) < NewOf(rs, j) /\ top \in Nat
    BY <1>1, <1>2, <2>1, KeysOfTwo, Zenon
  <2>3. NewOf(rs, j) <= top
    BY <1>1, <2>1 DEF Keyed
  <2>. QED BY <1>2, <2>1, <2>2, <2>3
<1>4. i \in rotations /\ \A j \in rotations : j \in Nat
  BY <1>1, <1>2 DEF HandsOn
<1>5. Max(rotations) = i
  <2>. HIDE DEF rotations
  <2>1. Max(rotations) \in rotations /\ \A j \in rotations : Max(rotations) >= j
    BY <1>3, <1>4 DEF Max
  <2>2. Max(rotations) <= i /\ Max(rotations) >= i /\ Max(rotations) \in Nat /\ i \in Nat
    BY <1>3, <1>4, <2>1
  <2>. QED BY <2>2
<1>6. rs[i].content.rot = Event(KeyOf(rs, i), NewOf(rs, i))
  BY <1>1, <1>2 DEF Orderly, Formed, HandsOn, NewOf, KeyOf
<1>7. CurrentKey(rs) = rs[i].content.rot.named
  BY <1>4, <1>5, Zenon DEF CurrentKey
<1>. QED BY <1>2, <1>6, <1>7 DEF Event

(* The key that a chain names last is one that it hands over to, if any.     *)
LEMMA CurrentIsHanded ==
    ASSUME NEW rs, NEW c, NEW installed, Orderly(rs, c, installed), CurrentKey(rs) # None
    PROVE  CurrentKey(rs) \in HandedOver(rs)
<1>. DEFINE rotations == {i \in DOMAIN rs : rs[i].content.rot # None}
            n == Len(rs)
            Bounds == {m \in Nat : \A j \in rotations : j <= m}
<1>1. n \in Nat \ {0} /\ DOMAIN rs = 1..n
  BY DEF Orderly
<1>2. CurrentKey(rs) = IF rotations = {} THEN None ELSE rs[Max(rotations)].content.rot.named
  BY DEF CurrentKey
<1>3. rotations # {} /\ rotations \subseteq 1..n
  BY <1>1, <1>2
<1>4. Max(rotations) \in rotations
  <2>. HIDE DEF rotations
  <2>1. n \in Bounds /\ Bounds \subseteq Nat
    BY <1>1, <1>3
  <2>. HIDE DEF Bounds
  <2>2. PICK m \in Bounds : \A x \in Bounds : m <= x
    BY <2>1, LeastOf
  <2>. USE DEF Bounds
  <2>3. m \in Nat /\ \A j \in rotations : j <= m
    BY <2>2
  <2>4. m \in rotations
    <3>1. SUFFICES ASSUME m \notin rotations PROVE FALSE
      OBVIOUS
    <3>2. \A j \in rotations : j <= m - 1 /\ 1 <= j
      BY <1>1, <1>3, <2>3, <3>1
    <3>3. m - 1 \in Nat
      <4>1. PICK j : j \in rotations
        BY <1>3, Zenon
      <4>2. j \in 1..n /\ j <= m
        BY <1>3, <2>3, <4>1
      <4>. QED BY <1>1, <2>3, <4>2
    <3>4. m - 1 \in Bounds
      BY <3>2, <3>3
    <3>. QED BY <2>2, <2>3, <3>4
  <2>5. \A j \in rotations : m >= j
    BY <1>1, <1>3, <2>3
  <2>. HIDE DEF Bounds
  <2>. QED BY <2>4, <2>5 DEF Max
<1>5. PICK i \in rotations : Max(rotations) = i
  BY <1>4
<1>6. rs[i].content.rot = Event(KeyOf(rs, i), NewOf(rs, i)) /\ HandsOn(rs, i) /\ i \in 1..n
  BY <1>1, <1>5 DEF Orderly, Formed, HandsOn, NewOf, KeyOf
<1>7. rs[i].content.rot.named = NewOf(rs, i)
  BY <1>6 DEF Event
<1>8. CurrentKey(rs) = NewOf(rs, i)
  BY <1>2, <1>3, <1>5, <1>7, Zenon
<1>. QED BY <1>1, <1>6, <1>8 DEF HandedOver, HandsOn, NewOf

(* receipt verify accepts a chain exactly if it is whole and holds every     *)
(* handover since it began.                                                  *)
LEMMA AcceptedIs ==
    ASSUME NEW rs, NEW c, NEW installed, Orderly(rs, c, installed), NEW public, NEW archives,
           InReach(rs, installed, public, archives)
    PROVE  ChainAccepted(rs, public, archives) <=>
              AfterTerminal(rs) = {} /\ HandedOver(rs) = Since(rs, installed)
<1>. DEFINE g == KeyOf(rs, 1)
<1>1. GenesisKey(rs, public, archives) = g
  BY GenesisIs DEF InReach
<1>2. Valid(rs, g, NoOptions) <=>
         AfterTerminal(rs) = {} /\ \A i \in 1..Len(rs) : ActiveKey(rs, g)[i] = KeyOf(rs, i)
  BY ValidFromFirst, Zenon
<1>3. HandedOver(rs) \subseteq Since(rs, installed)
  BY HandedSince
<1>4. installed \subseteq Nat /\ g \in installed /\ public \in installed /\ \A k \in installed : k <= public
  BY DEF Orderly, InReach, KeyOf
<1>5. ASSUME HandedOver(rs) = Since(rs, installed)
      PROVE  \A i \in 1..Len(rs) : ActiveKey(rs, g)[i] = KeyOf(rs, i)
  BY <1>5, KeysFollow DEF Since
<1>6. ASSUME HandedOver(rs) = Since(rs, installed), g # public
      PROVE  CurrentKey(rs) = public
  <2>1. public \in HandedOver(rs)
    <3>1. public \in Nat /\ g \in Nat /\ g <= public
      BY <1>4
    <3>2. public > g
      BY <1>6, <3>1
    <3>. QED BY <1>4, <1>6, <3>2, Zenon DEF Since
  <2>. QED BY <1>4, <2>1, CurrentIsNewest
<1>7. ASSUME \A i \in 1..Len(rs) : ActiveKey(rs, g)[i] = KeyOf(rs, i), g # public => CurrentKey(rs) = public
      PROVE  HandedOver(rs) = Since(rs, installed)
  <2>1. SUFFICES ASSUME NEW k \in installed, k > g PROVE k \in HandedOver(rs)
    BY <1>3 DEF Since
  <2>2. g # public
    BY <1>4, <2>1
  <2>3. public \in HandedOver(rs)
    <3>1. public # None /\ CurrentKey(rs) = public
      BY <1>4, <1>7, <2>2 DEF Orderly
    <3>. QED BY <3>1, CurrentIsHanded
  <2>. QED BY <1>4, <1>7, <2>1, <2>3, NoneIsMissing
<1>. HIDE DEF g
<1>. QED BY <1>1, <1>2, <1>5, <1>6, <1>7, Zenon DEF ChainAccepted, Pinned

(* What starts from the published key accepts a chain only if no key was     *)
(* installed since it began,                                                 *)
LEMMA PublishedIsFirst ==
    ASSUME NEW rs, NEW c, NEW installed, Orderly(rs, c, installed), NEW public, NEW archives,
           InReach(rs, installed, public, archives)
    PROVE  /\ KeyOf(rs, 1) = public <=> Since(rs, installed) = {}
           /\ KeyOf(rs, 1) = public =>
                 \A i \in 1..Len(rs) : ActiveKey(rs, public)[i] = KeyOf(rs, i)
<1>. DEFINE g == KeyOf(rs, 1)
<1>1. installed \subseteq Nat /\ g \in installed /\ public \in installed /\ \A k \in installed : k <= public
  BY DEF Orderly, InReach, KeyOf
<1>2. \A k : k \in Since(rs, installed) <=> k \in installed /\ k > g
  BY DEF Since
<1>. HIDE DEF g
<1>3. g = public => Since(rs, installed) = {}
  <2>1. SUFFICES ASSUME g = public, NEW k \in Since(rs, installed) PROVE FALSE
    OBVIOUS
  <2>2. k \in Nat /\ public \in Nat /\ k <= public /\ k > public
    BY <1>1, <1>2, <2>1
  <2>. QED BY <2>2
<1>4. g # public => Since(rs, installed) # {}
  <2>1. SUFFICES ASSUME g # public PROVE public > g
    BY <1>1, <1>2
  <2>2. g <= public /\ g \in Nat /\ public \in Nat
    BY <1>1
  <2>. QED BY <2>1, <2>2
<1>5. ASSUME g = public
      PROVE  \A i \in 1..Len(rs) : ActiveKey(rs, public)[i] = KeyOf(rs, i)
  <2>1. \A k \in installed : ~(k > g)
    BY <1>2, <1>3, <1>5
  <2>. QED BY <1>5, <2>1, KeysFollow DEF g
<1>. QED BY <1>3, <1>4, <1>5 DEF g

(* doctor only if it is whole besides,                                       *)
LEMMA DoctorIs ==
    ASSUME NEW rs, NEW c, NEW installed, Orderly(rs, c, installed), NEW public, NEW archives,
           InReach(rs, installed, public, archives)
    PROVE  DoctorHead(rs, public) # "fail" <=> AfterTerminal(rs) = {} /\ Since(rs, installed) = {}
<1>1. DoctorHead(rs, public) # "fail" <=> Valid(rs, public, NoOptions)
  BY DEF DoctorHead
<1>2. Valid(rs, public, NoOptions) <=>
         /\ AfterTerminal(rs) = {}
         /\ \A i \in 1..Len(rs) : ActiveKey(rs, public)[i] = KeyOf(rs, i)
  BY ValidFromFirst, Zenon
<1>3. Valid(rs, public, NoOptions) => KeyOf(rs, 1) = public
  BY ValidFromFirst, Zenon
<1>. DEFINE follow == \A i \in 1..Len(rs) : ActiveKey(rs, public)[i] = KeyOf(rs, i)
<1>4. /\ KeyOf(rs, 1) = public <=> Since(rs, installed) = {}
      /\ KeyOf(rs, 1) = public => follow
  BY PublishedIsFirst, Zenon
<1>5. Valid(rs, public, NoOptions) <=> AfterTerminal(rs) = {} /\ follow
  BY <1>2
<1>. HIDE DEF follow
<1>. QED BY <1>1, <1>3, <1>4, <1>5, Zenon

(* and verify-event its first receipt likewise: what follows a terminal      *)
(* receipt is an error of the structure, which no flag shows.                *)
LEMMA FirstEventIs ==
    ASSUME NEW rs, NEW c, NEW installed, Orderly(rs, c, installed), NEW public, NEW archives,
           InReach(rs, installed, public, archives)
    PROVE  EventVerdict(rs, public, 1) # "failed" <=> AfterTerminal(rs) = {} /\ Since(rs, installed) = {}
<1>. DEFINE n == Len(rs)
            flags == Flags(rs, public)
            d == rs[1].content
            follow == \A i \in 1..n : ActiveKey(rs, public)[i] = KeyOf(rs, i)
<1>1. n \in Nat \ {0} /\ DOMAIN rs = 1..n /\ 1 \in 1..n /\ (1 < n => 1 + 1 \in 1..n) /\ rs # <<>>
  BY EmptySeq DEF Orderly
<1>2. DOMAIN flags = 1..n
  BY <1>1 DEF Flags
<1>3. \A i \in 1..n : /\ flags[i].signature <=> ActiveKey(rs, public)[i] = KeyOf(rs, i)
                      /\ flags[i].link /\ flags[i].sequence
  BY FlagsAre
<1>4. d.peer # "malformed" /\ d.version = "known"
  BY <1>1 DEF Orderly, Formed, Sound
<1>5. EventVerdict(rs, public, 1) # "failed" <=> ChecksPass(rs, public, 1)
  BY DEF EventVerdict
<1>6. ChecksPass(rs, public, 1) <=> flags[1].signature /\ ~StructuralError(rs, public)
  <2>1. LinkageHolds(flags, 1)
    BY <1>2, <1>3 DEF LinkageHolds
  <2>2. InContext(rs, public, 1) <=> ~StructuralError(rs, public)
    BY <1>1, <1>3, Zenon DEF InContext
  <2>. QED BY <1>4, <2>1, <2>2, Zenon DEF ChecksPass
<1>7. StructuralError(rs, public) <=>
         ChainBreak(rs, public) # 0 /\ \A i \in 1..n : FlagsOK(flags[i])
  BY <1>1, Zenon DEF StructuralError
<1>8. (\A i \in 1..n : FlagsOK(flags[i])) <=> follow
  BY <1>3, Zenon DEF FlagsOK
<1>9. flags[1].signature <=> KeyOf(rs, 1) = public
  <2>1. ActiveKey(rs, public)[1] = public
    BY <1>1, ActiveKeyIs DEF KeyStep
  <2>. QED BY <1>1, <1>3, <2>1
<1>10. ChainBreak(rs, public) = 0 <=> AfterTerminal(rs) = {} /\ follow
  BY ValidFromFirst, Zenon
<1>11. /\ KeyOf(rs, 1) = public <=> Since(rs, installed) = {}
       /\ KeyOf(rs, 1) = public => follow
  BY PublishedIsFirst, Zenon
<1>. HIDE DEF follow, flags
<1>. QED BY <1>5, <1>6, <1>7, <1>8, <1>9, <1>10, <1>11, Zenon

-----------------------------------------------------------------------------
(* A chain with one more receipt.                                            *)
Longer(rs, r, t) ==
    /\ Len(rs) \in Nat /\ DOMAIN rs = 1..Len(rs)
    /\ Len(t) = Len(rs) + 1 /\ DOMAIN t = 1..Len(t)
    /\ \A i \in 1..Len(rs) : t[i] = rs[i]
    /\ t[Len(t)] = r

(* Append makes it.                                                          *)
LEMMA AppendIsLonger ==
    ASSUME NEW rs, rs \in Seq({rs[i] : i \in DOMAIN rs}), NEW r
    PROVE  Longer(rs, r, Append(rs, r))
<1>. DEFINE S == {rs[i] : i \in DOMAIN rs}
            t == Append(rs, r)
<1>1. rs \in Seq(S \cup {r})
  BY SeqMonotonic
<1>. HIDE DEF S
<1>2. /\ Len(t) = Len(rs) + 1 /\ Len(rs) \in Nat
      /\ DOMAIN rs = 1..Len(rs) /\ DOMAIN t = 1..(Len(rs) + 1)
      /\ \A i \in 1..Len(rs) : t[i] = rs[i]
      /\ t[Len(rs) + 1] = r
  BY <1>1, AppendProperties, LenProperties
<1>. QED BY <1>2 DEF Longer

(* What each receipt has to name as its predecessor is as it was.            *)
LEMMA PreviousKept ==
    ASSUME NEW rs, NEW r, NEW t, Longer(rs, r, t), NEW i \in 1..(Len(rs) + 1)
    PROVE  Previous(t, i) = Previous(rs, i)
<1>1. i = 1 \/ i - 1 \in 1..Len(rs)
  BY DEF Longer
<1>2. i - 1 \in 1..Len(rs) => t[i - 1] = rs[i - 1]
  BY DEF Longer
<1>. QED BY <1>1, <1>2, Zenon DEF Previous

(* A receipt that fits at the end of a chain.                                *)
Fits(rs, c, r) ==
    LET d == r.content IN
    /\ d.chain = c /\ d.seq = Len(rs) + 1 /\ d.prev = Previous(rs, Len(rs) + 1)
    /\ Sound(d) /\ Verified(r, r.proof.key)
    /\ d.rot # None => d.rot = Event(r.proof.key, d.rot.new)

(* With it the chain is formed again.                                        *)
LEMMA FormedGrows ==
    ASSUME NEW rs, NEW r, NEW t, Longer(rs, r, t), NEW c, Formed(rs, c), Fits(rs, c, r)
    PROVE  Formed(t, c)
<1>. DEFINE OK(i, x, prev) == /\ x.content.chain = c /\ x.content.seq = i /\ x.content.prev = prev
                              /\ Sound(x.content) /\ Verified(x, x.proof.key)
                              /\ x.content.rot # None =>
                                    x.content.rot = Event(x.proof.key, x.content.rot.new)
<1>1. /\ Len(rs) \in Nat /\ DOMAIN rs = 1..Len(rs) /\ DOMAIN t = 1..(Len(rs) + 1)
      /\ t[Len(rs) + 1] = r /\ \A i \in 1..Len(rs) : t[i] = rs[i]
  BY DEF Longer
<1>2. \A i \in 1..(Len(rs) + 1) : Previous(t, i) = Previous(rs, i)
  BY PreviousKept
<1>3. \A i \in 1..Len(rs) : OK(i, rs[i], Previous(rs, i))
  BY <1>1, Zenon DEF Formed, LinkValid
<1>4. OK(Len(rs) + 1, r, Previous(rs, Len(rs) + 1))
  BY Zenon DEF Fits
<1>5. ASSUME NEW i \in 1..(Len(rs) + 1) PROVE OK(i, t[i], Previous(t, i))
  <2>. HIDE DEF OK
  <2>1. CASE i \in 1..Len(rs)
    BY <1>1, <1>2, <1>3, <1>5, <2>1, Zenon
  <2>2. CASE i = Len(rs) + 1
    BY <1>1, <1>2, <1>4, <1>5, <2>2, Zenon
  <2>3. i \in 1..Len(rs) \/ i = Len(rs) + 1
    BY <1>1, <1>5
  <2>. QED BY <2>1, <2>2, <2>3
<1>. QED BY <1>1, <1>5, Zenon DEF Formed, LinkValid

(* Keys that ascend, receipt by receipt.                                     *)
KeysBehind(rs, i) == \A j \in DOMAIN rs : j > i => KeyOf(rs, i) <= KeyOf(rs, j)
NewsBehind(rs, i) == \A j \in DOMAIN rs : j > i => NewOf(rs, i) <= KeyOf(rs, j)
LeavesNone(rs, i, I) == \A k \in I : k <= KeyOf(rs, i) \/ NewOf(rs, i) <= k

AscendingAt(rs, i, I) ==
    /\ KeysBehind(rs, i)
    /\ HandsOn(rs, i) => KeyOf(rs, i) < NewOf(rs, i) /\ NewsBehind(rs, i) /\ LeavesNone(rs, i, I)

(* What is said of all is said of each.                                      *)
LEMMA AscendingIs ==
    ASSUME NEW rs, NEW I
    PROVE  Ascending(rs, I) <=> \A i \in DOMAIN rs : AscendingAt(rs, i, I)
<1>1. \A i : \A j : j \in {m \in DOMAIN rs : m > i} <=> j \in DOMAIN rs /\ j > i
  OBVIOUS
<1>. QED BY <1>1, Zenon DEF Ascending, AscendingAt, KeysBehind, NewsBehind, LeavesNone, KeyOf, HandsOn, NewOf

(* No handover leaves out a key that is generated later.                     *)
LEMMA AscendingKept ==
    ASSUME NEW rs, NEW I, NEW J, NEW new \in Nat, Ascending(rs, I), J \subseteq I \cup {new},
           \A i \in DOMAIN rs : HandsOn(rs, i) => NewOf(rs, i) <= new
    PROVE  Ascending(rs, J)
<1>1. ASSUME NEW i \in DOMAIN rs
      PROVE  AscendingAt(rs, i, J)
  <2>1. AscendingAt(rs, i, I)
    BY AscendingIs
  <2>2. ASSUME HandsOn(rs, i), NEW k \in J PROVE k <= KeyOf(rs, i) \/ NewOf(rs, i) <= k
    <3>1. k \in I \/ (k = new /\ NewOf(rs, i) <= k)
      BY <2>2
    <3>. QED BY <2>1, <2>2, <3>1, Zenon DEF AscendingAt, LeavesNone
  <2>. QED BY <2>1, <2>2, Zenon DEF AscendingAt, LeavesNone
<1>. QED BY <1>1, AscendingIs

(* A receipt signed with the newest installed key goes to the end of a       *)
(* chain, where it may hand over to one that is newer still.                 *)
LEMMA AscendingGrows ==
    ASSUME NEW rs, NEW r, NEW t, Longer(rs, r, t), NEW I, NEW J, NEW new \in Nat, Ascending(rs, I),
           J \subseteq I \cup {new}, I \subseteq Nat, r.proof.key \in I,
           \A k \in I : k <= r.proof.key /\ k <= new,
           \A i \in DOMAIN rs : KeyOf(rs, i) \in I /\ (HandsOn(rs, i) => NewOf(rs, i) \in I),
           r.content.rot # None => r.content.rot.new = new /\ new \notin I
    PROVE  Ascending(t, J)
<1>. DEFINE n == Len(rs)
<1>1. /\ n \in Nat /\ DOMAIN rs = 1..n /\ DOMAIN t = 1..(n + 1)
      /\ t[n + 1] = r /\ \A i \in 1..n : t[i] = rs[i]
  BY DEF Longer
<1>. HIDE DEF n
<1>2. \A i \in 1..n : /\ KeyOf(t, i) = KeyOf(rs, i) /\ HandsOn(t, i) = HandsOn(rs, i)
                      /\ NewOf(t, i) = NewOf(rs, i)
  BY <1>1, Zenon DEF KeyOf, HandsOn, NewOf
<1>3. /\ KeyOf(t, n + 1) = r.proof.key
      /\ HandsOn(t, n + 1) => NewOf(t, n + 1) = new /\ new \notin I
  BY <1>1 DEF KeyOf, HandsOn, NewOf
<1>4. /\ n + 1 \in 1..(n + 1)
      /\ \A i \in 1..(n + 1) : i \in 1..n \/ i = n + 1
      /\ \A i \in 1..(n + 1) : ~(i > n + 1)
  BY <1>1
<1>5. Ascending(rs, J)
  <2>1. \A i \in DOMAIN rs : HandsOn(rs, i) => NewOf(rs, i) <= new
    OBVIOUS
  <2>. QED BY <2>1, AscendingKept
<1>6. ASSUME NEW i \in 1..n
      PROVE  AscendingAt(t, i, J)
  <2>1. AscendingAt(rs, i, J)
    BY <1>1, <1>5, AscendingIs
  <2>2. KeyOf(rs, i) <= r.proof.key /\ (HandsOn(rs, i) => NewOf(rs, i) <= r.proof.key)
    BY <1>1
  <2>3. KeysBehind(t, i)
    <3>1. SUFFICES ASSUME NEW j \in 1..(n + 1), j > i PROVE KeyOf(rs, i) <= KeyOf(t, j)
      BY <1>1, <1>2, Zenon DEF KeysBehind
    <3>2. CASE j \in 1..n
      BY <1>1, <1>2, <2>1, <3>1, <3>2, Zenon DEF AscendingAt, KeysBehind
    <3>. QED BY <1>3, <1>4, <2>2, <3>2, Zenon
  <2>4. ASSUME HandsOn(t, i) PROVE NewsBehind(t, i)
    <3>1. HandsOn(rs, i)
      BY <1>2, <2>4
    <3>2. SUFFICES ASSUME NEW j \in 1..(n + 1), j > i PROVE NewOf(rs, i) <= KeyOf(t, j)
      BY <1>1, <1>2, Zenon DEF NewsBehind
    <3>3. CASE j \in 1..n
      BY <1>1, <1>2, <2>1, <3>1, <3>2, <3>3, Zenon DEF AscendingAt, NewsBehind
    <3>. QED BY <1>3, <1>4, <2>2, <3>1, <3>3, Zenon
  <2>5. HandsOn(t, i) => KeyOf(t, i) < NewOf(t, i) /\ LeavesNone(t, i, J)
    BY <1>2, <2>1, Zenon DEF AscendingAt, LeavesNone
  <2>. QED BY <2>3, <2>4, <2>5, Zenon DEF AscendingAt
<1>7. AscendingAt(t, n + 1, J)
  <2>1. KeysBehind(t, n + 1) /\ NewsBehind(t, n + 1)
    BY <1>1, <1>4, Zenon DEF KeysBehind, NewsBehind
  <2>2. ASSUME HandsOn(t, n + 1)
        PROVE  KeyOf(t, n + 1) < NewOf(t, n + 1) /\ LeavesNone(t, n + 1, J)
    <3>1. r.proof.key <= new /\ r.proof.key # new /\ r.proof.key \in Nat
      BY <1>3, <2>2
    <3>2. r.proof.key < new
      BY <3>1
    <3>3. \A k \in J : k <= r.proof.key \/ new <= k
      OBVIOUS
    <3>. QED BY <1>3, <2>2, <3>2, <3>3, Zenon DEF LeavesNone
  <2>. QED BY <2>1, <2>2, Zenon DEF AscendingAt
<1>. QED BY <1>1, <1>4, <1>6, <1>7, AscendingIs, Zenon

-----------------------------------------------------------------------------
(* A chain in the store.                                                     *)
LEMMA ChainIs ==
    ASSUME RotationInv, NEW c \in Chain
    PROVE  /\ rows[c] \in Seq({rows[c][i] : i \in DOMAIN rows[c]})
           /\ Len(rows[c]) \in Nat /\ DOMAIN rows[c] = 1..Len(rows[c])
<1>1. rows[c] \in Seq({rows[c][i] : i \in DOMAIN rows[c]})
  BY DEF RotationInv, TypeOK
<1>. QED BY <1>1, LenProperties

(* The keys of a chain, and those it hands over to, are installed.           *)
LEMMA KeysInstalled ==
    ASSUME RotationInv, ~torn, ~overlap, NEW c \in Chain, NEW i \in DOMAIN rows[c]
    PROVE  /\ KeyOf(rows[c], i) \in Installed
           /\ HandsOn(rows[c], i) => NewOf(rows[c], i) \in Installed
<1>1. KeyOf(rows[c], i) \in Installed
  BY DEF RotationInv, Alone, KeyOf
<1>2. HandsOn(rows[c], i) => NewOf(rows[c], i) \in Installed
  BY InstalledIs, Zenon DEF HandsOn, NewOf
<1>. QED BY <1>1, <1>2

(* The chain on which a rotation is recorded.                                *)
LEMMA RotationChain ==
    ASSUME RotationInv, ~Running("none")
    PROVE  rot.chain \in Chain
<1>1. \/ rot \in [step : Before \cup {"public", "drop"}, old : AKey, new : AKey,
                 chain : RootChain, content : {rot.content}]
      \/ rot \in [step : After, old : AKey, new : AKey, chain : RootChain,
                 content : {rot.content}, public : AKey \cup {None}]
  BY RotShape, Typed, Zenon DEF RotOK
<1>2. rot.chain \in RootChain
  BY <1>1
<1>. QED BY <1>2 DEF RootChain, Chain

(* The parts of the invariant after a step.                                  *)
LEMMA ChainsNext ==
    ASSUME \A c \in Chain : Formed(rows'[c], c), Prepared',
           ~torn' /\ ~overlap' => \A c \in Chain : Ascending(rows'[c], Installed')
    PROVE  ChainsInv'
<1>1. Chain' = Chain
  BY DEF Chain
<1>. QED BY <1>1, Zenon DEF ChainsInv

(* A step that writes no receipt.                                            *)
LEMMA ChainsStay ==
    ASSUME RotationInv, ChainsInv, rows' = rows, torn => torn', overlap => overlap', Prepared'
    PROVE  ChainsInv'
<1>1. \A c \in Chain : Formed(rows'[c], c)
  BY DEF ChainsInv
<1>2. Installed' = Installed
  BY SameRows
<1>3. ~torn' /\ ~overlap' => \A c \in Chain : Ascending(rows'[c], Installed')
  BY <1>2 DEF ChainsInv
<1>. QED BY <1>1, <1>3, ChainsNext

(* The receipt of a rotation still fits if the chains did not change, or     *)
(* only at their ends.                                                       *)
LEMMA StillPrepared ==
    ASSUME RotationInv, ChainsInv,
           \A c \in Chain : rows'[c] = rows[c] \/ \E r : Longer(rows[c], r, rows'[c]),
           \/ rot'.step = "none"
           \/ ~Running("none") /\ rot'.content = rot.content /\ rot'.chain = rot.chain
    PROVE  Prepared'
<1>1. CASE rot'.step = "none"
  BY <1>1 DEF Prepared, Running
<1>2. CASE ~Running("none") /\ rot'.content = rot.content /\ rot'.chain = rot.chain
  <2>. DEFINE c == rot.chain
              d == rot.content
  <2>1. c \in Chain /\ Len(rows[c]) \in Nat
    BY <1>2, RotationChain, ChainIs
  <2>2. /\ d.chain = c /\ d.seq \in 1..(Len(rows[c]) + 1)
        /\ d.prev = Previous(rows[c], d.seq) /\ Sound(d)
    BY <1>2, Zenon DEF ChainsInv, Prepared
  <2>. HIDE DEF c, d
  <2>3. d.seq \in 1..(Len(rows'[c]) + 1) /\ d.prev = Previous(rows'[c], d.seq)
    <3>1. CASE rows'[c] = rows[c]
      BY <2>2, <3>1
    <3>2. ASSUME NEW r, Longer(rows[c], r, rows'[c])
          PROVE  d.seq \in 1..(Len(rows'[c]) + 1) /\ d.prev = Previous(rows'[c], d.seq)
      <4>1. Len(rows'[c]) = Len(rows[c]) + 1
        BY <3>2 DEF Longer
      <4>2. d.seq \in 1..(Len(rows'[c]) + 1)
        BY <2>1, <2>2, <4>1
      <4>3. Previous(rows'[c], d.seq) = Previous(rows[c], d.seq)
        BY <2>2, <3>2, PreviousKept
      <4>. QED BY <2>2, <4>2, <4>3
    <3>. QED BY <2>1, <3>1, <3>2
  <2>. QED BY <1>2, <2>2, <2>3, Zenon DEF Prepared, c, d
<1>. QED BY <1>1, <1>2

(* A step that writes receipts at the ends of chains: each fits, and is      *)
(* signed with the newest key that is installed.                             *)
LEMMA ChainsGrow ==
    ASSUME RotationInv, ChainsInv, torn' = torn, overlap' = overlap,
           NEW k, NEW R, \A r \in R : r.proof.key = k,
           \A c \in Chain : \/ rows'[c] = rows[c]
                            \/ \E r \in R : rows'[c] = Append(rows[c], r) /\ Fits(rows[c], c, r),
           \/ rot'.step = "none"
           \/ ~Running("none") /\ rot'.content = rot.content /\ rot'.chain = rot.chain,
           Installed' \subseteq Installed \cup {newest},
           ~torn /\ ~overlap => Last(k),
           \A r \in R : r.content.rot # None => r.content.rot.new = newest /\ newest \notin Installed
    PROVE  ChainsInv'
<1>1. ASSUME NEW c \in Chain
      PROVE  \/ rows'[c] = rows[c]
             \/ \E r \in R : Longer(rows[c], r, rows'[c]) /\ Fits(rows[c], c, r)
  <2>1. rows[c] \in Seq({rows[c][i] : i \in DOMAIN rows[c]})
    BY ChainIs
  <2>2. \A r : Longer(rows[c], r, Append(rows[c], r))
    BY <2>1, AppendIsLonger
  <2>. QED BY <2>2
<1>2. ASSUME NEW c \in Chain PROVE Formed(rows'[c], c)
  <2>1. Formed(rows[c], c)
    BY DEF ChainsInv
  <2>. QED BY <1>1, <2>1, FormedGrows
<1>3. Prepared'
  <2>1. \A c \in Chain : rows'[c] = rows[c] \/ \E r : Longer(rows[c], r, rows'[c])
    BY <1>1
  <2>. QED BY <2>1, StillPrepared
<1>4. ASSUME ~torn', ~overlap', NEW c \in Chain
      PROVE  Ascending(rows'[c], Installed')
  <2>1. ~torn /\ ~overlap /\ Ascending(rows[c], Installed) /\ Last(k)
    BY <1>4 DEF ChainsInv
  <2>2. /\ Installed \subseteq Nat /\ newest \in Nat /\ \A j \in Installed : j <= newest
        /\ k \in Installed /\ \A j \in Installed : j <= k
    BY <2>1, Typed DEF RotationInv, InOrder, Last
  <2>3. \A i \in DOMAIN rows[c] :
           KeyOf(rows[c], i) \in Installed /\ (HandsOn(rows[c], i) => NewOf(rows[c], i) \in Installed)
    BY <2>1, KeysInstalled
  <2>4. CASE rows'[c] = rows[c]
    <3>1. \A i \in DOMAIN rows[c] : HandsOn(rows[c], i) => NewOf(rows[c], i) <= newest
      BY <2>2, <2>3
    <3>. DEFINE J == Installed'
                rs == rows[c]
    <3>2. J \subseteq Installed \cup {newest} /\ Ascending(rs, Installed)
      BY <2>1
    <3>. HIDE DEF J, rs
    <3>3. Ascending(rs, J)
      BY <2>2, <3>1, <3>2, AscendingKept DEF rs
    <3>. QED BY <2>4, <3>3 DEF J, rs
  <2>5. ASSUME NEW r \in R, Longer(rows[c], r, rows'[c])
        PROVE  Ascending(rows'[c], Installed')
    <3>. DEFINE J == Installed'
                t == rows'[c]
                rs == rows[c]
                I == Installed
    <3>1. /\ Longer(rs, r, t) /\ Ascending(rs, I) /\ J \subseteq I \cup {newest} /\ I \subseteq Nat
          /\ r.proof.key \in I /\ \A j \in I : j <= r.proof.key /\ j <= newest
          /\ \A i \in DOMAIN rs : KeyOf(rs, i) \in I /\ (HandsOn(rs, i) => NewOf(rs, i) \in I)
          /\ r.content.rot # None => r.content.rot.new = newest /\ newest \notin I
          /\ newest \in Nat
      BY <2>1, <2>2, <2>3, <2>5, Zenon
    <3>. HIDE DEF J, t, rs, I
    <3>2. Ascending(t, J)
      BY ONLY <3>1, AscendingGrows
    <3>. QED BY <3>2 DEF J, t
  <2>. QED BY <1>1, <2>4, <2>5
<1>. QED BY <1>2, <1>3, <1>4, ChainsNext

(* A rotation that goes on keeps its receipt.                                *)
LEMMA ReceiptKept ==
    ASSUME RotationInv, ~Running("none"), NEW s, Go(s)
    PROVE  rot'.content = rot.content /\ rot'.chain = rot.chain
<1>1. \/ rot \in [step : Before \cup {"public", "drop"}, old : AKey, new : AKey,
                 chain : RootChain, content : {rot.content}]
      \/ rot \in [step : After, old : AKey, new : AKey, chain : RootChain,
                 content : {rot.content}, public : AKey \cup {None}]
  BY RotShape, Typed, Zenon DEF RotOK
<1>2. \/ rot' = [step |-> s, old |-> rot.old, new |-> rot.new, chain |-> rot.chain,
                content |-> rot.content]
      \/ rot' = [step |-> s, old |-> rot.old, new |-> rot.new, chain |-> rot.chain,
                content |-> rot.content, public |-> rot.public]
  BY <1>1, GoIs, GoOnIs, Zenon DEF Go
<1>. QED BY <1>2

(* Every step that writes no receipt, but for the one that prepares one.     *)
LEMMA QuietChains ==
    ASSUME RotationInv, ChainsInv, UNCHANGED rows, torn => torn', overlap => overlap',
           \/ rot' = rot \/ rot' = NoRun
           \/ ~Running("none") /\ rot'.content = rot.content /\ rot'.chain = rot.chain
    PROVE  ChainsInv'
<1>1. \/ rot'.step = "none"
      \/ ~Running("none") /\ rot'.content = rot.content /\ rot'.chain = rot.chain
  <2>1. CASE rot' = rot
    BY <2>1 DEF Running
  <2>2. CASE rot' = NoRun
    BY <2>2 DEF NoRun
  <2>. QED BY <2>1, <2>2
<1>2. Prepared'
  BY <1>1, StillPrepared
<1>. QED BY <1>2, ChainsStay

(* The steps of the daemon and of the operator that write none,              *)
LEMMA DaemonQuiet ==
    ASSUME RotationInv, ChainsInv,
           \/ LoadKey \/ Publish \/ Resume \/ Listen \/ Kill \/ Midnight \/ RemovePublic
           \/ UNCHANGED vars
    PROVE  ChainsInv'
<1>1. UNCHANGED <<rows, rot, torn>> /\ (overlap => overlap')
  <2>1. CASE LoadKey
    BY <2>1 DEF LoadKey, storeVars
  <2>2. CASE Publish
    BY <2>2 DEF Publish, storeVars, histVars
  <2>3. CASE Resume
    BY <2>3 DEF Resume, storeVars, histVars
  <2>4. CASE Listen \/ Kill \/ Midnight
    BY <2>4 DEF Listen, Kill, Midnight, storeVars, histVars
  <2>5. CASE RemovePublic
    BY <2>5 DEF RemovePublic, storeVars, histVars
  <2>6. CASE UNCHANGED vars
    BY <2>6 DEF vars, storeVars, histVars
  <2>. QED BY <2>1, <2>2, <2>3, <2>4, <2>5, <2>6
<1>. QED BY <1>1, QuietChains

(* and those of a rotation.                                                  *)
LEMMA RotationQuiet ==
    ASSUME RotationInv, ChainsInv,
           \/ Witness \/ Archive \/ Backup \/ SwapPrivate \/ SwapPublic \/ DropBackup
           \/ RestorePrivate \/ RestorePublic \/ Die
    PROVE  ChainsInv'
<1>. USE DEF storeVars, histVars
<1>1. UNCHANGED rows /\ (torn => torn') /\ (overlap => overlap') /\ ~Running("none")
  <2>1. CASE Witness
    BY <2>1 DEF Witness, Running
  <2>2. CASE Archive
    BY <2>2 DEF Archive, Running
  <2>3. CASE Backup
    BY <2>3 DEF Backup, Running
  <2>4. CASE SwapPrivate
    BY <2>4 DEF SwapPrivate, Running
  <2>5. CASE SwapPublic
    BY <2>5 DEF SwapPublic, Running
  <2>6. CASE DropBackup
    BY <2>6 DEF DropBackup, Running
  <2>7. CASE RestorePrivate
    BY <2>7 DEF RestorePrivate, Running
  <2>8. CASE RestorePublic
    BY <2>8 DEF RestorePublic, Running
  <2>9. CASE Die
    BY <2>9 DEF Die
  <2>. QED BY <2>1, <2>2, <2>3, <2>4, <2>5, <2>6, <2>7, <2>8, <2>9
<1>2. \/ rot' = NoRun \/ \E s : Go(s)
      \/ rot' = [step |-> "insert", old |-> rot.old, new |-> rot.new, chain |-> rot.chain,
                content |-> rot.content, public |-> files.backup.public]
  BY Zenon DEF Witness, Archive, Backup, SwapPrivate, SwapPublic, DropBackup, RestorePrivate,
     RestorePublic, Die, GiveUp
<1>3. rot' = NoRun \/ (rot'.content = rot.content /\ rot'.chain = rot.chain)
  BY <1>1, <1>2, ReceiptKept
<1>. QED BY <1>1, <1>3, QuietChains

(* A rotation begins with a receipt that fits at the end of its chain.       *)
LEMMA BeginChains ==
    ASSUME RotationInv, ChainsInv, BeginRotation
    PROVE  ChainsInv'
<1>. DEFINE c == <<day, 1, Root>>
            e == Event(files.private, newest + 1)
            d == [NextReceipt(c) EXCEPT !.peer = "absent", !.rot = e]
<1>1. /\ UNCHANGED <<rows, torn>> /\ (overlap => overlap')
      /\ rot' = [step |-> "anchor", old |-> files.private, new |-> newest + 1, chain |-> c, content |-> d]
  BY DEF BeginRotation, storeVars
<1>2. c \in Chain
  BY Typed, RotationAssumption DEF Chain
<1>. HIDE DEF c, e
<1>3. /\ d.chain = c /\ d.seq = Len(rows[c]) + 1 /\ d.prev = Previous(rows[c], Len(rows[c]) + 1)
      /\ d.status = "" /\ d.response = None /\ d.peer = "absent" /\ d.version = "known"
  BY DEF NextReceipt
<1>. HIDE DEF d
<1>4. Sound(d)
  BY <1>3 DEF Sound, StatusValid
<1>5. rot'.chain = c /\ rot'.content = d
  BY <1>1
<1>6. Len(rows[c]) \in Nat
  BY <1>2, ChainIs
<1>7. Prepared'
  <2>1. d.seq \in 1..(Len(rows[c]) + 1) /\ d.prev = Previous(rows[c], d.seq)
    <3>1. d.seq \in 1..(Len(rows[c]) + 1)
      <4>1. d.seq = Len(rows[c]) + 1
        BY <1>3, Zenon
      <4>. QED BY <1>6, <4>1
    <3>. QED BY <1>3, <3>1, Zenon
  <2>. QED BY <1>1, <1>3, <1>4, <1>5, <2>1 DEF Prepared
<1>. QED BY <1>1, <1>7, ChainsStay

(* The next receipt of a chain, and a terminator, fit at its end.            *)
LEMMA NextFits ==
    ASSUME NEW c, NEW k
    PROVE  /\ Fits(rows[c], c, Seal(NextReceipt(c), k)) /\ Fits(rows[c], c, Seal(Terminator(c), k))
           /\ Seal(NextReceipt(c), k).proof.key = k /\ Seal(Terminator(c), k).proof.key = k
           /\ Seal(NextReceipt(c), k).content.rot = None /\ Seal(Terminator(c), k).content.rot = None
<1>1. ASSUME NEW d, d \in {NextReceipt(c), Terminator(c)}
      PROVE  Fits(rows[c], c, Seal(d, k)) /\ Seal(d, k).proof.key = k /\ Seal(d, k).content.rot = None
  <2>1. /\ d.chain = c /\ d.seq = Len(rows[c]) + 1 /\ d.prev = Previous(rows[c], Len(rows[c]) + 1)
        /\ d.rot = None /\ Sound(d)
    <3>1. CASE d = NextReceipt(c)
      BY <3>1 DEF NextReceipt, Sound, StatusValid
    <3>2. CASE d = Terminator(c)
      BY <3>2 DEF Terminator, NextReceipt, Sound, StatusValid
    <3>. QED BY <1>1, <3>1, <3>2
  <2>2. /\ Seal(d, k).content = d /\ Seal(d, k).proof = [key |-> k, over |-> d]
        /\ Seal(d, k).proof.key = k
    BY DEF Seal
  <2>. QED BY <2>1, <2>2, Zenon DEF Fits, Verified
<1>. QED BY <1>1

(* So every receipt of the daemon fits, and is signed with the newest key,   *)
(* unless a rotation ran beside it or ended halfway.                         *)
LEMMA DaemonChains ==
    ASSUME RotationInv, ChainsInv, RotationInv', Commit \/ Stop
    PROVE  ChainsInv'
<1>. DEFINE k == daemon.key
            R == {Seal(NextReceipt(c), k) : c \in Chain} \cup {Seal(Terminator(c), k) : c \in Chain}
<1>1. UNCHANGED <<rot, torn, overlap, newest>> /\ daemon.phase = "serving"
  BY DEF Commit, Stop, diskVars, histVars
<1>2. ASSUME NEW c \in Chain
      PROVE  \/ rows'[c] = rows[c]
             \/ rows'[c] = Append(rows[c], Seal(NextReceipt(c), k))
             \/ rows'[c] = Append(rows[c], Seal(Terminator(c), k))
  <2>1. DOMAIN rows = Chain
    BY DEF RotationInv, TypeOK
  <2>2. CASE Commit
    <3>1. ASSUME NEW b, rows' = [rows EXCEPT ![b] = Append(@, Seal(NextReceipt(b), k))]
          PROVE  rows'[c] = rows[c] \/ rows'[c] = Append(rows[c], Seal(NextReceipt(c), k))
      BY <2>1, <3>1
    <3>. QED BY <2>2, <3>1, Zenon DEF Commit
  <2>3. CASE Stop
    BY <2>3 DEF Stop
  <2>. QED BY <2>2, <2>3
<1>3. \A r \in R : r.proof.key = k /\ r.content.rot = None
  BY NextFits
<1>4. ASSUME NEW c \in Chain
      PROVE  \/ rows'[c] = rows[c]
             \/ \E r \in R : rows'[c] = Append(rows[c], r) /\ Fits(rows[c], c, r)
  <2>1. Seal(NextReceipt(c), k) \in R /\ Seal(Terminator(c), k) \in R
    OBVIOUS
  <2>. QED BY <1>2, <2>1, NextFits, Zenon
<1>. HIDE DEF R
<1>5. ~torn /\ ~overlap => Last(k)
  <2>1. SUFFICES ASSUME ~torn, ~overlap PROVE Last(k)
    OBVIOUS
  <2>2. rot = NoRun /\ k = files.private
    BY <1>1, <2>1 DEF RotationInv, Alone
  <2>. QED BY <2>1, <2>2 DEF RotationInv, InStep, Running, NoRun
<1>6. Grow(R)
  BY <1>4 DEF Grow, RotationInv, TypeOK, Chain
<1>7. Installed' \subseteq Installed \cup {newest}
  <2>1. \A r \in R : r.content.rot # None => r.content.rot.new \in {newest}
    BY <1>3
  <2>. DEFINE K == {newest}
  <2>2. \A r \in R : r.content.rot # None => r.content.rot.new \in K
    BY <2>1
  <2>. HIDE DEF K
  <2>3. Installed' \subseteq Installed \cup K
    BY <1>6, <2>2, InstalledGrow DEF RotationInv
  <2>. QED BY <2>3 DEF K
<1>8. \/ rot'.step = "none"
      \/ ~Running("none") /\ rot'.content = rot.content /\ rot'.chain = rot.chain
  BY <1>1 DEF Running
<1>. HIDE DEF k
<1>. QED BY <1>1, <1>3, <1>4, <1>5, <1>7, <1>8, ChainsGrow

(* The receipt of a rotation fits if its place in the chain is free.         *)
LEMMA InsertChains ==
    ASSUME RotationInv, ChainsInv, InsertReceipt
    PROVE  ChainsInv'
<1>. DEFINE c == rot.chain
            d == rot.content
            r == Seal(d, rot.old)
            R == {r}
<1>1. UNCHANGED <<torn, overlap, newest>> /\ ~Running("none") /\ Running("insert")
  BY DEF InsertReceipt, diskVars, histVars, Running
<1>2. CASE Go("restorePrivate") /\ UNCHANGED rows
  <2>1. rot'.content = rot.content /\ rot'.chain = rot.chain
    BY <1>1, <1>2, ReceiptKept
  <2>. QED BY <1>1, <1>2, <2>1, QuietChains
<1>3. CASE /\ Len(rows[rot.chain]) + 1 = rot.content.seq
           /\ rows' = [rows EXCEPT ![rot.chain] = Append(@, Seal(rot.content, rot.old))]
           /\ rot' = NoRun
  <2>1. c \in Chain /\ DOMAIN rows = Chain
    BY <1>1, RotationChain DEF RotationInv, TypeOK
  <2>2. d.rot = Event(rot.old, newest) /\ newest \notin Installed
    BY <1>1 DEF RotationInv, InOrder
  <2>3. d.chain = c /\ d.prev = Previous(rows[c], d.seq) /\ Sound(d) /\ d.seq = Len(rows[c]) + 1
    BY <1>1, <1>3 DEF ChainsInv, Prepared
  <2>4. rows'[c] = Append(rows[c], r) /\ \A b \in Chain : b # c => rows'[b] = rows[b]
    BY <1>3, <2>1
  <2>. HIDE DEF c, d
  <2>5. r.content = d /\ r.proof = [key |-> rot.old, over |-> d] /\ r.proof.key = rot.old
    BY DEF Seal
  <2>6. d.rot.new = newest
    BY <2>2 DEF Event
  <2>. HIDE DEF r
  <2>7. Fits(rows[c], c, r)
    BY <2>2, <2>3, <2>5, <2>6, Zenon DEF Fits, Verified
  <2>8. \A b \in Chain : \/ rows'[b] = rows[b]
                         \/ \E x \in R : rows'[b] = Append(rows[b], x) /\ Fits(rows[b], b, x)
    BY <2>4, <2>7
  <2>9. /\ \A x \in R : x.proof.key = rot.old
        /\ \A x \in R : x.content.rot # None => x.content.rot.new = newest /\ newest \notin Installed
    BY <2>2, <2>5, <2>6
  <2>10. ~torn /\ ~overlap => Last(rot.old)
    BY <1>1 DEF RotationInv, InStep
  <2>. HIDE DEF R
  <2>11. Installed' \subseteq Installed \cup {newest}
    <3>1. Grow(R)
      BY <1>3, <2>1, <2>8 DEF Grow
    <3>. DEFINE K == {newest}
    <3>2. \A x \in R : x.content.rot # None => x.content.rot.new \in K
      BY <2>9
    <3>. HIDE DEF K
    <3>3. Installed' \subseteq Installed \cup K
      BY <3>1, <3>2, InstalledGrow DEF RotationInv
    <3>. QED BY <3>3 DEF K
  <2>12. rot'.step = "none"
    BY <1>3 DEF NoRun
  <2>13. torn' = torn /\ overlap' = overlap
    BY <1>1
  <2>. DEFINE k == rot.old
  <2>14. (\A x \in R : x.proof.key = k) /\ (~torn /\ ~overlap => Last(k))
    BY <2>9, <2>10
  <2>15. \A x \in R : x.content.rot # None => x.content.rot.new = newest /\ newest \notin Installed
    BY <2>9, Zenon
  <2>. HIDE DEF k
  <2>. QED BY <2>8, <2>11, <2>12, <2>13, <2>14, <2>15, ChainsGrow
<1>. QED BY <1>2, <1>3 DEF InsertReceipt

(* Nothing is in the store at first, and nothing is prepared.                *)
LEMMA InitChains ==
    Init => ChainsInv
<1>. SUFFICES ASSUME Init PROVE ChainsInv
  OBVIOUS
<1>1. rows = [c \in Chain |-> <<>>] /\ rot.step = "none"
  BY DEF Init, NoRun
<1>2. \A c \in Chain : DOMAIN rows[c] = {}
  BY <1>1
<1>3. \A c \in Chain : Formed(rows[c], c) /\ Ascending(rows[c], Installed)
  BY <1>2 DEF Formed, Ascending
<1>. QED BY <1>1, <1>3 DEF ChainsInv, Prepared, Running

(* Every step keeps the chains what a verifier expects.                      *)
LEMMA ChainsStep ==
    RotationInv /\ ChainsInv /\ [Next]_vars => ChainsInv'
<1>. SUFFICES ASSUME RotationInv, ChainsInv, [Next]_vars
              PROVE  ChainsInv'
  OBVIOUS
<1>1. RotationInv'
  BY RotationStep
<1>2. CASE Commit \/ Stop
  BY <1>1, <1>2, DaemonChains
<1>3. CASE BeginRotation
  BY <1>3, BeginChains
<1>4. CASE InsertReceipt
  BY <1>4, InsertChains
<1>5. CASE \/ Witness \/ Archive \/ Backup \/ SwapPrivate \/ SwapPublic \/ DropBackup
           \/ RestorePrivate \/ RestorePublic \/ Die
  BY <1>5, RotationQuiet
<1>6. CASE \/ LoadKey \/ Publish \/ Resume \/ Listen \/ Kill \/ Midnight \/ RemovePublic
           \/ UNCHANGED vars
  BY <1>6, DaemonQuiet
<1>. QED BY <1>2, <1>3, <1>4, <1>5, <1>6 DEF Next, RotateStep

(* The chains in the store: every receipt is sealed at its place, and while  *)
(* no rotation was torn or ran beside a daemon their keys ascend and no      *)
(* handover leaves one out.                                                  *)
THEOREM ChainsAreOrderly == Spec => []ChainsInv
BY InitRotation, RotationStep, InitChains, ChainsStep, PTL DEF Spec

(* A chain that is not empty is orderly, and its first key is to be found.   *)
LEMMA StoredIsOrderly ==
    ASSUME RotationInv, ChainsInv, Running("none"), ~torn, ~overlap, NEW c \in Chain, rows[c] # <<>>
    PROVE  /\ Orderly(rows[c], c, Installed)
           /\ InReach(rows[c], Installed, files.public, ArchivedKeys)
           /\ Handovers(c) = HandedOver(rows[c])
<1>1. Handovers(c) = HandedOver(rows[c])
  BY DEF Handovers, HandedOver
<1>2. Orderly(rows[c], c, Installed)
  <2>1. Len(rows[c]) \in Nat \ {0} /\ DOMAIN rows[c] = 1..Len(rows[c])
    BY ChainIs, EmptySeq
  <2>2. Formed(rows[c], c) /\ Ascending(rows[c], Installed)
    BY DEF ChainsInv
  <2>3. Installed \subseteq Nat /\ Undecodable \notin Installed /\ None \notin Installed
    <3>1. Installed \subseteq AKey
      BY Typed, RotationAssumption DEF RotationInv, InOrder, AKey
    <3>. QED BY <3>1, Typed, RotationAssumption DEF AKey
  <2>4. \A i \in DOMAIN rows[c] : rows[c][i].proof.key \in Installed
    BY DEF RotationInv, Alone
  <2>5. HandedOver(rows[c]) \subseteq Installed
    BY <1>1 DEF Installed
  <2>. QED BY <2>1, <2>2, <2>3, <2>4, <2>5 DEF Orderly
<1>3. Last(files.private) /\ files.public = files.private
  BY DEF RotationInv, InStep
<1>4. KeyOf(rows[c], 1) = files.public \/ KeyOf(rows[c], 1) \in ArchivedKeys
  <2>1. KeyOf(rows[c], 1) \in Installed
    BY <1>2 DEF Orderly, KeyOf
  <2>2. Last(KeyOf(rows[c], 1)) \/ KeyOf(rows[c], 1) \in ArchivedKeys
    BY <2>1 DEF RotationInv, InArchive
  <2>3. Last(KeyOf(rows[c], 1)) => KeyOf(rows[c], 1) = files.private
    BY <1>3, Typed, LastIsOne
  <2>. QED BY <1>3, <2>2, <2>3
<1>. QED BY <1>1, <1>2, <1>3, <1>4 DEF InReach, Last

(* A chain verifies after any number of rotations exactly if nothing follows *)
(* its terminal receipt and it records every rotation since its own first    *)
(* receipt; verify-event and doctor, which start from the published key,     *)
(* accept it exactly if there was none: VerifyChain under the keys that      *)
(* RotateKey leaves behind.                                                  *)
THEOREM HandoversAreJudged == Spec => []HandoverVerdict
<1>1. ASSUME RotationInv, ChainsInv
      PROVE  HandoverVerdict
  <2>. SUFFICES ASSUME Running("none"), ~torn, ~overlap, NEW c \in Chain, rows[c] # <<>>
                PROVE  LET since == {k \in Installed : k > rows[c][1].proof.key}
                           whole == AfterTerminal(rows[c]) = {}
                       IN /\ ChainAccepted(rows[c], files.public, ArchivedKeys) <=> whole /\ Handovers(c) = since
                          /\ DoctorHead(rows[c], files.public) # "fail" <=> whole /\ since = {}
                          /\ EventVerdict(rows[c], files.public, 1) # "failed" <=> whole /\ since = {}
    BY DEF HandoverVerdict
  <2>1. /\ Orderly(rows[c], c, Installed)
        /\ InReach(rows[c], Installed, files.public, ArchivedKeys)
        /\ Handovers(c) = HandedOver(rows[c])
    BY <1>1, StoredIsOrderly
  <2>2. Since(rows[c], Installed) = {k \in Installed : k > rows[c][1].proof.key}
    BY DEF Since, KeyOf
  <2>3. ChainAccepted(rows[c], files.public, ArchivedKeys) <=>
           AfterTerminal(rows[c]) = {} /\ HandedOver(rows[c]) = Since(rows[c], Installed)
    BY <2>1, AcceptedIs
  <2>4. DoctorHead(rows[c], files.public) # "fail" <=>
           AfterTerminal(rows[c]) = {} /\ Since(rows[c], Installed) = {}
    BY <2>1, DoctorIs
  <2>5. EventVerdict(rows[c], files.public, 1) # "failed" <=>
           AfterTerminal(rows[c]) = {} /\ Since(rows[c], Installed) = {}
    BY <2>1, FirstEventIs
  <2>. QED BY <2>1, <2>2, <2>3, <2>4, <2>5, Zenon
<1>. QED BY <1>1, RotationInductive, ChainsAreOrderly, PTL
=============================================================================
