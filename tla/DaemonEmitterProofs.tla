------------------------- MODULE DaemonEmitterProofs -------------------------
(***************************************************************************)
(* Proofs about DaemonEmitter: who owns a connection, what an answer of    *)
(* Emit says of the frame, and that no drop is lost or reported twice, for *)
(* any number of callers, calls and outages.                               *)
(***************************************************************************)
EXTENDS DaemonEmitter, FiniteSetTheorems, SequenceTheorems, WellFoundedInduction,
        NaturalsInduction, TLAPS

(* How FoldFunction adds up f over the subsets of a set.                     *)
Pick(s)       == CHOOSE x \in s : TRUE
Adds(g, f, s) == IF s = {} THEN 0 ELSE f[Pick(s)] + g[s \ {Pick(s)}]
Sums(f, S)    == CHOOSE g : g = [s \in SUBSET S |-> Adds(g, f, s)]

(* The total is the sum over the whole domain.                              *)
LEMMA TotalIsSum ==
    ASSUME NEW S, NEW f \in [S -> Nat]
    PROVE  Total(f) = Sums(f, S)[S]
BY DEF Total, FoldFunction, FoldFunctionOnSet, MapThenFoldSet, Sums, Adds, Pick

(* Of the finite subsets of a set that are bad, one has no bad proper subset.*)
LEMMA SmallestBad ==
    ASSUME NEW S, IsFiniteSet(S), NEW Bad, Bad \subseteq SUBSET S, Bad # {}
    PROVE  \E s \in Bad : \A t \in Bad : t \subseteq s => t = s
<1>1. Bad \subseteq FiniteSubsetsOf(S)
  BY FS_Subset DEF FiniteSubsetsOf
<1>2. PICK s \in Bad : \A t \in Bad : <<t, s>> \notin StrictSubsetOrdering(S)
  BY <1>1, FS_StrictSubsetOrderingWellFounded, WFMin, Zenon
<1>3. ASSUME NEW t \in Bad, t \subseteq s
      PROVE  t = s
  <2>1. <<t, s>> \notin StrictSubsetOrdering(S)
    BY <1>2
  <2>. QED BY <1>2, <1>3, <2>1 DEF StrictSubsetOrdering
<1>. QED BY <1>2, <1>3

(* The sums up to a size exist for every size. *)
SumsTo(f, S, n) == {g \in [{s \in SUBSET S : Cardinality(s) <= n} -> Nat] :
                       \A s \in SUBSET S : Cardinality(s) <= n => g[s] = Adds(g, f, s)}

(* The sums over subsets of one more element, from those over smaller ones. *)
LEMMA SumsGrow ==
    ASSUME NEW S, IsFiniteSet(S), NEW f \in [S -> Nat], NEW n \in Nat, NEW g \in SumsTo(f, S, n)
    PROVE  SumsTo(f, S, n + 1) # {}
<1>. DEFINE D == {s \in SUBSET S : Cardinality(s) <= n + 1}
            h == [s \in D |-> IF Cardinality(s) <= n THEN g[s] ELSE Adds(g, f, s)]
<1>1. \A s \in D : s # {} => /\ Pick(s) \in s /\ s \ {Pick(s)} \in SUBSET S
                             /\ Cardinality(s) \in Nat
                             /\ Cardinality(s \ {Pick(s)}) = Cardinality(s) - 1
  BY FS_Subset, FS_RemoveElement, FS_CardinalityType DEF Pick
<1>2. \A s \in D : Cardinality(s \ {Pick(s)}) \in Nat /\ Cardinality(s) \in Nat
  BY FS_Subset, FS_CardinalityType
<1>3. ASSUME NEW s \in D
      PROVE  h[s] = Adds(g, f, s) /\ Adds(h, f, s) = Adds(g, f, s) /\ h[s] \in Nat
  <2>1. CASE s = {}
    BY <2>1, FS_EmptySet DEF Adds, SumsTo
  <2>2. CASE s # {}
    <3>1. g[s \ {Pick(s)}] \in Nat /\ s \ {Pick(s)} \in D /\ h[s \ {Pick(s)}] = g[s \ {Pick(s)}]
      BY <1>1, <2>2 DEF SumsTo
    <3>2. f[Pick(s)] \in Nat
      BY <1>1, <2>2
    <3>3. h[s] = Adds(g, f, s)
      BY DEF SumsTo
    <3>. QED BY <2>2, <3>1, <3>2, <3>3 DEF Adds
  <2>. QED BY <2>1, <2>2
<1>4. h \in SumsTo(f, S, n + 1)
  BY <1>3 DEF SumsTo
<1>. QED BY <1>4

(* The recursive sums are a function on the subsets of a finite set: of the *)
(* sizes at which they are not, none is the least.                          *)
LEMMA SumsExist ==
    ASSUME NEW S, IsFiniteSet(S), NEW f \in [S -> Nat]
    PROVE  /\ Sums(f, S) \in [SUBSET S -> Nat]
           /\ \A s \in SUBSET S : Sums(f, S)[s] = Adds(Sums(f, S), f, s)
<1>1. \A n \in Nat : SumsTo(f, S, n) # {}
  <2>. DEFINE Bad == {n \in Nat : SumsTo(f, S, n) = {}}
  <2>1. 0 \notin Bad
    <3>1. \A s \in SUBSET S : Cardinality(s) <= 0 <=> s = {}
      BY FS_Subset, FS_EmptySet, FS_CardinalityType
    <3>2. [s \in {{}} |-> 0] \in SumsTo(f, S, 0)
      BY <3>1 DEF SumsTo, Adds
    <3>. QED BY <3>2
  <2>2. SUFFICES ASSUME Bad # {} PROVE FALSE
    OBVIOUS
  <2>3. PICK n \in Bad : \A m \in Bad : <<m, n>> \notin OpToRel(<, Nat)
    BY <2>2, NatLessThanWellFounded, WFMin, Zenon
  <2>4. Bad \subseteq Nat /\ n \in Nat
    BY <2>3
  <2>5. \A m \in Bad : ~(m < n)
    BY <2>3 DEF OpToRel
  <2>6. n - 1 \in Nat => SumsTo(f, S, n - 1) = {}
    <3>1. CASE SumsTo(f, S, n - 1) # {}
      <4>1. CASE n - 1 \in Nat
        <5>1. PICK g : g \in SumsTo(f, S, n - 1)
          BY <3>1
        <5>2. SumsTo(f, S, (n - 1) + 1) # {}
          BY <4>1, <5>1, SumsGrow
        <5>3. (n - 1) + 1 = n
          BY <2>4
        <5>. QED BY <2>3, <5>2, <5>3, Zenon
      <4>. QED BY <4>1
    <3>. QED BY <3>1
  <2>7. n - 1 \in Nat => n - 1 \in Bad
    BY <2>6, Zenon
  <2>. HIDE DEF Bad
  <2>8. n # 0
    BY <2>1, <2>3, Zenon
  <2>9. n - 1 \in Nat /\ n - 1 < n
    BY <2>4, <2>8
  <2>. QED BY <2>7, <2>5, <2>9, Zenon
<1>2. PICK g : g \in SumsTo(f, S, Cardinality(S))
  BY <1>1, FS_CardinalityType
<1>3. {s \in SUBSET S : Cardinality(s) <= Cardinality(S)} = SUBSET S
  BY FS_Subset
<1>4. g = [s \in SUBSET S |-> Adds(g, f, s)] /\ g \in [SUBSET S -> Nat]
  BY <1>2, <1>3 DEF SumsTo
<1>5. Sums(f, S) = [s \in SUBSET S |-> Adds(Sums(f, S), f, s)]
  BY <1>4 DEF Sums
<1>6. \A s \in SUBSET S : Sums(f, S)[s] = Adds(Sums(f, S), f, s)
  BY <1>5
<1>7. \A s \in SUBSET S : Sums(f, S)[s] \in Nat
  <2>. DEFINE Bad == {s \in SUBSET S : Sums(f, S)[s] \notin Nat}
  <2>1. SUFFICES ASSUME Bad # {} PROVE FALSE
    OBVIOUS
  <2>2. PICK s \in Bad : \A t \in Bad : t \subseteq s => t = s
    <3>1. Bad \subseteq SUBSET S
      OBVIOUS
    <3>. HIDE DEF Bad
    <3>. QED BY <2>1, <3>1, SmallestBad
  <2>3. s # {}
    BY <1>6, <2>2 DEF Adds
  <2>4. Pick(s) \in s /\ s \ {Pick(s)} \notin Bad /\ s \ {Pick(s)} \in SUBSET S
    BY <2>2, <2>3 DEF Pick
  <2>5. f[Pick(s)] \in Nat /\ Sums(f, S)[s \ {Pick(s)}] \in Nat
    BY <2>2, <2>4
  <2>. QED BY <1>6, <2>2, <2>3, <2>5 DEF Adds
<1>. QED BY <1>5, <1>6, <1>7

(* The total of zeros is zero. *)
LEMMA TotalOfZeros ==
    ASSUME NEW S, IsFiniteSet(S), NEW f \in [S -> Nat], \A x \in S : f[x] = 0
    PROVE  Total(f) = 0
<1>. DEFINE G == Sums(f, S)
            Bad == {s \in SUBSET S : G[s] # 0}
<1>1. SUFFICES ASSUME Bad # {} PROVE FALSE
  BY TotalIsSum
<1>2. PICK s \in Bad : \A t \in Bad : t \subseteq s => t = s
  <2>1. Bad \subseteq SUBSET S
    OBVIOUS
  <2>. HIDE DEF Bad
  <2>. QED BY <1>1, <2>1, SmallestBad
<1>3. G[s] = Adds(G, f, s)
  BY <1>2, SumsExist
<1>4. s # {}
  BY <1>2, <1>3 DEF Adds
<1>5. Pick(s) \in s /\ s \ {Pick(s)} \notin Bad /\ s \ {Pick(s)} \in SUBSET S
  BY <1>2, <1>4 DEF Pick
<1>6. f[Pick(s)] = 0 /\ G[s \ {Pick(s)}] = 0
  BY <1>2, <1>5
<1>. QED BY <1>2, <1>3, <1>4, <1>6 DEF Adds

(* To change one value shifts the total by the difference. *)
LEMMA TotalShifts ==
    ASSUME NEW S, IsFiniteSet(S), NEW f \in [S -> Nat], NEW x \in S, NEW v \in Nat
    PROVE  /\ Total([f EXCEPT ![x] = v]) = Total(f) + v - f[x]
           /\ Total(f) \in Nat /\ f[x] <= Total(f)
<1>1. ASSUME NEW w \in Nat
      PROVE  Total([f EXCEPT ![x] = w]) = Total(f) + w - f[x] /\ Total([f EXCEPT ![x] = w]) \in Nat
  <2>1. PICK h \in [S -> Nat] : h = [f EXCEPT ![x] = w]
    OBVIOUS
  <2>2. h[x] = w /\ \A y \in S : y # x => h[y] = f[y]
    BY <2>1
  <2>. DEFINE G == Sums(f, S)
              H == Sums(h, S)
              Right(s) == H[s] = IF x \in s THEN G[s] + w - f[x] ELSE G[s]
              Bad == {s \in SUBSET S : ~Right(s)}
  <2>3. /\ G \in [SUBSET S -> Nat] /\ \A s \in SUBSET S : G[s] = Adds(G, f, s)
        /\ H \in [SUBSET S -> Nat] /\ \A s \in SUBSET S : H[s] = Adds(H, h, s)
    BY SumsExist
  <2>. HIDE DEF G, H
  <2>4. Bad = {}
    <3>1. SUFFICES ASSUME Bad # {} PROVE FALSE
      OBVIOUS
    <3>2. PICK s \in Bad : \A t \in Bad : t \subseteq s => t = s
      <4>1. Bad \subseteq SUBSET S
        OBVIOUS
      <4>. HIDE DEF Bad
      <4>. QED BY <3>1, <4>1, SmallestBad
    <3>3. s # {}
      BY <2>3, <3>2 DEF Adds
    <3>. DEFINE p == Pick(s)
                t == s \ {p}
    <3>4. p \in s /\ p \in S /\ t \in SUBSET S /\ Right(t)
      BY <3>2, <3>3 DEF Pick
    <3>5. G[s] = f[p] + G[t] /\ H[s] = h[p] + H[t]
      BY <2>3, <3>2, <3>3 DEF Adds
    <3>6. G[t] \in Nat /\ H[t] \in Nat /\ f[p] \in Nat /\ h[p] \in Nat /\ f[x] \in Nat
      BY <2>1, <2>3, <3>4
    <3>7. ~Right(s)
      BY <3>2
    <3>8. CASE p = x
      BY <2>2, <3>4, <3>5, <3>6, <3>7, <3>8
    <3>9. CASE p # x
      <4>1. x \in t <=> x \in s
        BY <3>9
      <4>. QED BY <2>2, <3>4, <3>5, <3>6, <3>7, <3>9, <4>1
    <3>. QED BY <3>8, <3>9
  <2>5. Right(S) /\ G[S] \in Nat /\ H[S] \in Nat
    BY <2>3, <2>4
  <2>. QED BY <2>1, <2>5, TotalIsSum DEF G, H
<1>2. [f EXCEPT ![x] = f[x]] = f /\ f[x] \in Nat
  OBVIOUS
<1>3. Total(f) \in Nat
  BY <1>1, <1>2
<1>4. Total(f) + 0 - f[x] \in Nat
  BY <1>1
<1>5. f[x] <= Total(f)
  BY <1>2, <1>3, <1>4
<1>. QED BY <1>1, <1>3, <1>5
-----------------------------------------------------------------------------
(* The constants. *)
LEMMA Bounds ==
    /\ MaxEmits \in Nat /\ MaxOutages \in Nat /\ None \notin Conn /\ IsFiniteSet(Caller)
    /\ Conn = 1..MaxEmits /\ Emission = 1..MaxEmits
BY EmitterAssumption DEF Conn, Emission

(* A call that has not answered yet. *)
Early   == {"ready", "dial", "install", "write"}
Waiting == {c \in Caller : Counting(c)}

(* DropsConserved in the terms of these proofs. *)
LEMMA Conserved ==
    /\ DropsConserved <=> dropCount + Total(pending) + Cardinality(Waiting) + sent = failed
    /\ DropsConserved' <=> dropCount' + Total(pending') + Cardinality(Waiting') + sent' = failed'
BY Zenon DEF DropsConserved, Waiting

(* What every step uses of the types. *)
LEMMA Typed ==
    ASSUME EmitterInv
    PROVE  /\ dropCount \in Nat /\ calls \in Nat /\ calls <= MaxEmits
           /\ sent \in Nat /\ failed \in Nat
           /\ pc \in [Caller -> PC] /\ call \in [Caller -> 0..MaxEmits]
           /\ pending \in [Caller -> Nat] /\ holds \in [Caller -> SUBSET Conn]
           /\ answer \in [Emission -> {"none", "ok", "dropped", "error"}]
           /\ \A c \in Caller : pc[c] # "idle" => call[c] \in Emission /\ call[c] \in Conn
BY Bounds DEF EmitterInv, Shapes, OwnCalls

(* The frames that the daemon has read or will. *)
LEMMA IsDelivered ==
    /\ \A f : f \in Delivered <=> f \in handled \/ \E k \in Conn : f \in Range(wire[k])
    /\ \A f : f \in Delivered' <=> f \in handled' \/ \E k \in Conn : f \in Range(wire'[k])
BY Zenon DEF Delivered

(* What the daemon has or will read are emissions of calls.                 *)
LEMMA EmissionOf ==
    ASSUME EmitterInv
    PROVE  \A f \in Delivered : f.emission \in Emission
<1>1. \A f \in Delivered : f \in Frame
  BY DEF EmitterInv, Shapes, Delivered, Range
<1>. QED BY <1>1 DEF Frame

(* The calls in progress that failed in transport, when one of them moves.   *)
LEMMA WaitingMoves ==
    ASSUME EmitterInv, NEW c \in Caller,
           \A d \in Caller : d # c => (Counting(d)' <=> Counting(d))
    PROVE  /\ Cardinality(Waiting) \in Nat /\ Cardinality(Waiting') \in Nat
           /\ Counting(c)' /\ ~Counting(c) => Cardinality(Waiting') = Cardinality(Waiting) + 1
           /\ ~Counting(c)' /\ Counting(c) => Cardinality(Waiting') = Cardinality(Waiting) - 1
           /\ (Counting(c)' <=> Counting(c)) => Cardinality(Waiting') = Cardinality(Waiting)
<1>1. IsFiniteSet(Waiting) /\ IsFiniteSet(Waiting')
  BY Bounds, FS_Subset DEF Waiting
<1>2. Counting(c)' /\ ~Counting(c) => Waiting' = Waiting \union {c} /\ c \notin Waiting
  BY DEF Waiting
<1>3. ~Counting(c)' /\ Counting(c) => Waiting' = Waiting \ {c} /\ c \in Waiting
  BY DEF Waiting
<1>4. (Counting(c)' <=> Counting(c)) => Waiting' = Waiting
  BY DEF Waiting
<1>5. Cardinality(Waiting) \in Nat /\ Cardinality(Waiting') \in Nat
  BY <1>1, FS_CardinalityType
<1>. QED BY <1>1, <1>2, <1>3, <1>4, <1>5, FS_AddElement, FS_RemoveElement

(* A step of one call changes nothing of the others. *)
LEMMA OthersKept ==
    ASSUME EmitterInv, NEW c \in Caller, NEW label \in PC, pc[c] # "idle",
           Goto(c, label), call' = call, calls' = calls
    PROVE  /\ pc' \in [Caller -> PC] /\ pc'[c] = label
           /\ \A d \in Caller : d # c => pc'[d] = pc[d]
           /\ OwnCalls'
<1>1. pc' \in [Caller -> PC] /\ pc'[c] = label /\ \A d \in Caller : d # c => pc'[d] = pc[d]
  BY Typed DEF Goto
<1>2. OwnCalls'
  BY <1>1 DEF EmitterInv, OwnCalls
<1>. QED BY <1>1, <1>2

(* A call that goes on before it has answered. *)
LEMMA Proceeds ==
    ASSUME EmitterInv, NEW c \in Caller, NEW label \in Early, pc[c] \in Early,
           Proceed(c, label),
           UNCHANGED <<dropCount, calls, call, pending, outages, wire, handled>>
    PROVE  /\ pc' \in [Caller -> PC] /\ pc'[c] = label
           /\ \A d \in Caller : d # c => pc'[d] = pc[d]
           /\ OwnCalls' /\ OneAnswer' /\ AnswerTrue' /\ OneCount' /\ DropsConserved'
<1>1. /\ pc' \in [Caller -> PC] /\ pc'[c] = label
      /\ \A d \in Caller : d # c => pc'[d] = pc[d]
      /\ OwnCalls'
  BY OthersKept DEF Proceed, Early, PC
<1>2. answer' = answer /\ sent' = sent /\ failed' = failed /\ Delivered' = Delivered
  BY DEF Proceed, history, Delivered
<1>3. OneAnswer' /\ AnswerTrue'
  BY <1>1, <1>2 DEF EmitterInv, OneAnswer, AnswerTrue, Early
<1>4. OneCount'
  BY <1>1, <1>2 DEF EmitterInv, OneCount, Early
<1>5. Waiting' = Waiting
  BY <1>1, <1>2 DEF Waiting, Counting, Early
<1>6. DropsConserved'
  BY <1>2, <1>5, Conserved DEF EmitterInv
<1>. QED BY <1>1, <1>3, <1>4, <1>6

(* A call that fails. *)
LEMMA Fails ==
    ASSUME EmitterInv, NEW c \in Caller, NEW a \in {"dropped", "error"}, pc[c] \in Early,
           Fail(c, a),
           UNCHANGED <<dropCount, calls, call, pending, outages, wire, handled>>
    PROVE  /\ pc' \in [Caller -> PC] /\ pc'[c] = "restore"
           /\ \A d \in Caller : d # c => pc'[d] = pc[d]
           /\ answer' \in [Emission -> {"none", "ok", "dropped", "error"}]
           /\ sent' \in Nat /\ failed' \in Nat
           /\ OwnCalls' /\ OneAnswer' /\ AnswerTrue' /\ OneCount' /\ DropsConserved'
<1>. DEFINE n == call[c]
<1>1. /\ pc' \in [Caller -> PC] /\ pc'[c] = "restore"
      /\ \A d \in Caller : d # c => pc'[d] = pc[d]
      /\ OwnCalls'
  BY OthersKept DEF Fail, Early, PC
<1>2. n \in Emission /\ answer[n] = "none" /\ Delivered' = Delivered
  BY Typed DEF EmitterInv, OneAnswer, Early, Delivered
<1>3. /\ answer' \in [Emission -> {"none", "ok", "dropped", "error"}]
      /\ answer'[n] = a /\ \A m \in Emission : m # n => answer'[m] = answer[m]
  BY <1>2, Typed DEF Fail, Answer
<1>4. sent' = sent /\ failed' = (IF a = "dropped" THEN failed + 1 ELSE failed) /\ failed' \in Nat
  BY Typed DEF Fail
<1>5. \A d \in Caller : d # c /\ pc[d] # "idle" => call[d] \in Emission /\ answer'[call[d]] = answer[call[d]]
  <2>1. \A d \in Caller : d # c /\ pc[d] # "idle" => call[d] # n
    BY DEF EmitterInv, OwnCalls, Early
  <2>. QED BY <1>3, <2>1, Typed
<1>6. \A f \in Delivered : f.emission \in Emission /\ f.emission # n
  <2>. QED BY <1>2, EmissionOf DEF EmitterInv, OneAnswer
<1>7. n <= calls
  BY DEF EmitterInv, OwnCalls
<1>. HIDE DEF n
<1>8. OneAnswer'
  <2>1. \A d \in Caller : pc'[d] \in Early => answer'[call'[d]] = "none"
    BY <1>1, <1>5 DEF EmitterInv, OneAnswer, Early
  <2>2. \A m \in Emission : m > calls => m # n
    BY <1>2, <1>7, Bounds, Typed
  <2>3. \A m \in Emission : m > calls' => answer'[m] = "none"
    BY <1>3, <2>2 DEF EmitterInv, OneAnswer
  <2>4. \A f \in Delivered' : answer'[f.emission] = "ok"
    BY <1>2, <1>3, <1>6 DEF EmitterInv, OneAnswer
  <2>. QED BY <2>1, <2>3, <2>4 DEF OneAnswer, Early
<1>9. AnswerTrue'
  BY <1>2, <1>3, <1>6 DEF EmitterInv, AnswerTrue
<1>10. OneCount'
  <2>. DEFINE D == {m \in Emission : answer[m] = "dropped"}
  <2>1. \A d \in Caller : /\ pc'[d] \in {"idle", "logDrop", "close"} => pending'[d] = 0
                          /\ pc'[d] = "logDrop" => answer'[call'[d]] = "dropped"
    BY <1>1, <1>5 DEF EmitterInv, OneCount
  <2>2. D' = IF a = "dropped" THEN D \union {n} ELSE D
    BY <1>2, <1>3
  <2>3. IsFiniteSet(D) /\ n \notin D
    BY <1>2, Bounds, FS_Interval, FS_Subset, SMTT(30)
  <2>4. Cardinality(D \union {n}) = Cardinality(D) + 1
    BY <2>3, FS_AddElement
  <2>5. failed' = Cardinality(D')
    BY <1>4, <2>2, <2>4 DEF EmitterInv, OneCount
  <2>. QED BY <2>1, <2>5 DEF OneCount
<1>11. DropsConserved'
  <2>1. \A d \in Caller : d # c => (Counting(d)' <=> Counting(d))
    BY <1>1, <1>5 DEF Counting
  <2>2. ~Counting(c) /\ (Counting(c)' <=> a = "dropped")
    BY <1>1, <1>3 DEF Counting, Early, n
  <2>3. Cardinality(Waiting) \in Nat
        /\ Cardinality(Waiting') = IF a = "dropped" THEN Cardinality(Waiting) + 1 ELSE Cardinality(Waiting)
    BY <2>1, <2>2, WaitingMoves
  <2>4. Total(pending) \in Nat
    BY Bounds, Typed, TotalShifts
  <2>5. dropCount + Total(pending) + Cardinality(Waiting) + sent = failed
    BY Conserved DEF EmitterInv
  <2>6. dropCount' + Total(pending') + Cardinality(Waiting') + sent' = failed'
    BY <1>4, <2>3, <2>4, <2>5, Typed
  <2>. QED BY <2>6, Conserved
<1>12. sent' \in Nat
  BY <1>4, Typed
<1>. QED BY <1>1, <1>3, <1>4, <1>8, <1>9, <1>10, <1>11, <1>12
-----------------------------------------------------------------------------
(* The connections when one call moves. *)
OnlyMoves(c) ==
    /\ pc[c] # "idle" /\ UNCHANGED <<call, calls, closed>>
    /\ \A d \in Caller : d # c => pc'[d] = pc[d] /\ holds'[d] = holds[d]
    /\ fds' \subseteq fds \union {call[c]} /\ holds'[c] \subseteq fds'
    /\ \A d \in Caller : d # c => holds[d] \subseteq fds' /\ holds[d] \intersect holds'[c] = {}
    /\ \A k \in fds' : k = conn' \/ \E d \in Caller : k \in holds'[d]
    /\ conn' # None => conn' \in fds' /\ ~closed
    /\ \A d \in Caller : conn' \notin holds'[d]
    /\ pc'[c] = "idle" => holds'[c] = {}
    /\ pc'[c] # "ready"
    /\ pc'[c] = "dial" => holds'[c] = {} /\ call[c] \notin fds'
    /\ pc'[c] = "install" => holds'[c] = {call[c]}

(* A call that moves alone: no two calls come to hold one connection, and    *)
(* none is left that no one holds.                                           *)
LEMMA OwnersMove ==
    ASSUME EmitterInv, NEW c \in Caller, OnlyMoves(c)
    PROVE  OneOwner' /\ ConnOwned'
<1>. USE DEF OnlyMoves
<1>1. \A k \in fds' : k <= calls
  BY DEF EmitterInv, OneOwner, OwnCalls
<1>2. \A d \in Caller : d # c /\ pc[d] \in {"ready", "dial"} => call[d] \notin fds'
  BY DEF EmitterInv, OneOwner, OwnCalls
<1>3. \A d, e \in Caller : d # e => holds'[d] \intersect holds'[e] = {}
  <2>. TAKE d, e \in Caller
  <2>1. CASE d # c /\ e # c
    BY <2>1 DEF EmitterInv, OneOwner
  <2>2. CASE d = c /\ e # c
    BY <2>2
  <2>3. CASE d # c /\ e = c
    BY <2>3
  <2>. QED BY <2>1, <2>2, <2>3
<1>4. \A d \in Caller :
         /\ pc'[d] \in {"idle", "ready", "dial"} => holds'[d] = {}
         /\ pc'[d] \in {"ready", "dial"} => call'[d] \notin fds'
         /\ pc'[d] = "install" => holds'[d] = {call'[d]}
  <2>. TAKE d \in Caller
  <2>1. CASE d = c
    BY <2>1
  <2>2. CASE d # c
    BY <1>2, <2>2 DEF EmitterInv, OneOwner
  <2>. QED BY <2>1, <2>2
<1>5. \A d \in Caller : holds'[d] \subseteq fds'
  OBVIOUS
<1>. QED BY <1>1, <1>3, <1>4, <1>5 DEF OneOwner, ConnOwned

(* What the connections are before a step. *)
LEMMA Owners ==
    ASSUME EmitterInv
    PROVE  /\ conn \in Conn \union {None} /\ (conn # None => conn \in fds /\ ~closed)
           /\ \A c \in Caller : holds[c] \subseteq fds /\ conn \notin holds[c]
           /\ \A k \in fds : k = conn \/ \E c \in Caller : k \in holds[c]
           /\ \A c, d \in Caller : c # d => holds[c] \intersect holds[d] = {}
           /\ \A c \in Caller : pc[c] \in {"ready", "dial"} => holds[c] = {} /\ call[c] \notin fds
           /\ \A c \in Caller : pc[c] = "install" => holds[c] = {call[c]}
           /\ None \notin fds
BY Bounds DEF EmitterInv, OneOwner, ConnOwned, Shapes

(* The number of a new call. *)
LEMMA EmitStep ==
    ASSUME EmitterInv, NEW c \in Caller, Emit(c)
    PROVE  EmitterInv'
<1>. USE Bounds, Typed DEF Goto
<1>1. /\ pc[c] = "idle" /\ calls < MaxEmits /\ calls' = calls + 1 /\ dropCount' = 0
      /\ pc' = [pc EXCEPT ![c] = "ready"] /\ call' = [call EXCEPT ![c] = calls']
      /\ pending' = [pending EXCEPT ![c] = dropCount]
      /\ UNCHANGED <<conn, closed, holds, answer, up, outages, peer, wire, handled, fds, sent, failed>>
  BY DEF Emit, daemonVars, history
<1>2. calls' \in Emission /\ calls' \in 0..MaxEmits
  BY <1>1
<1>3. /\ pc'[c] = "ready" /\ call'[c] = calls' /\ pending'[c] = dropCount
      /\ \A d \in Caller : d # c => pc'[d] = pc[d] /\ call'[d] = call[d] /\ pending'[d] = pending[d]
  BY <1>1
<1>4. Shapes'
  BY <1>1, <1>2 DEF EmitterInv, Shapes, PC
<1>5. \A d \in Caller : d # c => call[d] <= calls /\ call[d] # calls' /\ call[d] \in Nat
  BY <1>1 DEF EmitterInv, OwnCalls
<1>6. OwnCalls'
  BY <1>1, <1>2, <1>3, <1>5 DEF EmitterInv, OwnCalls
<1>7. OneOwner' /\ ConnOwned'
  <2>1. \A k \in fds : k # calls' /\ k <= calls'
    BY <1>1 DEF EmitterInv, Shapes, OneOwner
  <2>2. holds[c] = {}
    BY <1>1 DEF EmitterInv, OneOwner
  <2>. QED BY <1>1, <1>3, <2>1, <2>2 DEF EmitterInv, OneOwner, ConnOwned
<1>8. OneAnswer' /\ AnswerTrue'
  <2>1. answer[calls'] = "none" /\ \A n \in Emission : n > calls' => n > calls
    BY <1>1, <1>2 DEF EmitterInv, OneAnswer
  <2>2. Delivered' = Delivered
    BY <1>1 DEF Delivered
  <2>. QED BY <1>1, <1>3, <2>1, <2>2 DEF EmitterInv, OneAnswer, AnswerTrue
<1>9. OneCount'
  BY <1>1, <1>3 DEF EmitterInv, OneCount
<1>10. DropsConserved'
  <2>1. \A d \in Caller : Counting(d)' <=> Counting(d)
    BY <1>1, <1>3 DEF Counting
  <2>2. Cardinality(Waiting') = Cardinality(Waiting) /\ Cardinality(Waiting) \in Nat
    BY <2>1, WaitingMoves
  <2>3. Total(pending') = Total(pending) + dropCount - pending[c] /\ Total(pending) \in Nat
    <3>1. dropCount \in Nat /\ pending \in [Caller -> Nat] /\ IsFiniteSet(Caller)
      OBVIOUS
    <3>. QED BY ONLY <1>1, <3>1, TotalShifts, c \in Caller
  <2>4. pending[c] = 0
    BY <1>1 DEF EmitterInv, OneCount
  <2>. QED BY <1>1, <2>2, <2>3, <2>4, Conserved DEF EmitterInv
<1>. QED BY <1>4, <1>6, <1>7, <1>8, <1>9, <1>10 DEF EmitterInv

(* The steps before a call has answered. *)
LEMMA CheckStep ==
    ASSUME EmitterInv, NEW c \in Caller, Check(c) \/ NoConn(c)
    PROVE  EmitterInv'
<1>1. /\ UNCHANGED <<emitterVars, calls, call, pending, holds, daemonVars, fds>>
      /\ pc[c] \in {"ready", "write"}
  BY DEF Check, NoConn
<1>2. \/ \E a \in {"dropped", "error"} : Fail(c, a)
      \/ pc[c] = "ready" /\ \E label \in {"dial", "write"} : Proceed(c, label)
  BY DEF Check, NoConn
<1>3. /\ pc' \in [Caller -> PC]
      /\ pc'[c] \in {"dial", "write", "restore"} /\ (pc'[c] = "dial" => pc[c] = "ready")
      /\ \A d \in Caller : d # c => pc'[d] = pc[d]
      /\ answer' \in [Emission -> {"none", "ok", "dropped", "error"}] /\ sent' \in Nat /\ failed' \in Nat
      /\ OwnCalls' /\ OneAnswer' /\ AnswerTrue' /\ OneCount' /\ DropsConserved'
  <2>1. CASE \E a \in {"dropped", "error"} : Fail(c, a)
    BY <1>1, <2>1, Fails DEF emitterVars, daemonVars, Early
  <2>2. CASE pc[c] = "ready" /\ \E label \in {"dial", "write"} : Proceed(c, label)
    <3>1. answer' = answer /\ sent' = sent /\ failed' = failed
      BY <2>2 DEF Proceed, history
    <3>. QED BY <1>1, <2>2, <3>1, Proceeds, Typed DEF emitterVars, daemonVars, Early
  <2>. QED BY <1>2, <2>1, <2>2
<1>4. Shapes'
  BY <1>1, <1>3 DEF EmitterInv, Shapes, emitterVars, daemonVars
<1>5. OneOwner' /\ ConnOwned'
  <2>1. OnlyMoves(c)
    BY <1>1, <1>3, Owners DEF OnlyMoves, emitterVars
  <2>. QED BY <2>1, OwnersMove
<1>. QED BY <1>3, <1>4, <1>5 DEF EmitterInv

(* A dial opens a connection that its call holds, or fails in transport.    *)
LEMMA DialStep ==
    ASSUME EmitterInv, NEW c \in Caller, Dial(c)
    PROVE  EmitterInv'
<1>. USE Bounds, Typed
<1>1. pc[c] = "dial" /\ UNCHANGED <<dropCount, conn, closed, calls, call, pending, up, outages, wire, handled>>
  BY DEF Dial, emitterVars
<1>2. CASE (Fail(c, "error") \/ Fail(c, "dropped")) /\ UNCHANGED <<holds, fds, peer>>
  <2>1. /\ pc' \in [Caller -> PC] /\ pc'[c] = "restore"
        /\ \A d \in Caller : d # c => pc'[d] = pc[d]
        /\ answer' \in [Emission -> {"none", "ok", "dropped", "error"}] /\ sent' \in Nat /\ failed' \in Nat
        /\ OwnCalls' /\ OneAnswer' /\ AnswerTrue' /\ OneCount' /\ DropsConserved'
    BY <1>1, <1>2, Fails DEF Early
  <2>2. Shapes'
    BY <1>1, <1>2, <2>1 DEF EmitterInv, Shapes
  <2>3. OneOwner' /\ ConnOwned'
    <3>1. OnlyMoves(c)
      BY <1>1, <1>2, <2>1, Owners DEF OnlyMoves
    <3>. QED BY <3>1, OwnersMove
  <2>. QED BY <2>1, <2>2, <2>3 DEF EmitterInv
<1>3. CASE /\ Hold(c, {call[c]}) /\ Proceed(c, "install")
           /\ fds' = fds \union {call[c]} /\ peer' = peer \union {call[c]}
  <2>1. /\ pc' \in [Caller -> PC] /\ pc'[c] = "install"
        /\ \A d \in Caller : d # c => pc'[d] = pc[d]
        /\ OwnCalls' /\ OneAnswer' /\ AnswerTrue' /\ OneCount' /\ DropsConserved'
    BY <1>1, <1>3, Proceeds DEF Early
  <2>2. answer' = answer /\ sent' = sent /\ failed' = failed
    BY <1>3 DEF Proceed, history
  <2>3. call[c] \in Conn /\ holds[c] = {} /\ call[c] \notin fds /\ call[c] # conn
    <3>1. call[c] \in Conn
      BY <1>1
    <3>. QED BY <1>1, <3>1, Owners
  <2>4. /\ holds' \in [Caller -> SUBSET Conn] /\ holds'[c] = {call[c]}
        /\ \A d \in Caller : d # c => holds'[d] = holds[d]
    BY <1>3, <2>3 DEF Hold
  <2>5. Shapes'
    BY <1>1, <1>3, <2>1, <2>2, <2>3, <2>4 DEF EmitterInv, Shapes
  <2>6. \A k \in fds' : k = conn' \/ \E d \in Caller : k \in holds'[d]
    BY <1>1, <1>3, <2>3, <2>4, Owners
  <2>7. \A d \in Caller : d # c => holds[d] \subseteq fds' /\ holds[d] \intersect holds'[c] = {}
    BY <1>3, <2>3, <2>4, Owners
  <2>8. \A d \in Caller : conn' \notin holds'[d]
    BY <1>1, <2>3, <2>4, Owners
  <2>9. OneOwner' /\ ConnOwned'
    <3>1. OnlyMoves(c)
      BY <1>1, <1>3, <2>1, <2>3, <2>4, <2>6, <2>7, <2>8, Owners DEF OnlyMoves
    <3>. QED BY <3>1, OwnersMove
  <2>. QED BY <2>1, <2>5, <2>9 DEF EmitterInv
<1>. QED BY <1>2, <1>3 DEF Dial

(* The call that dialled hands its connection to the emitter, or closes it  *)
(* if another call was first or the emitter is closed.                      *)
LEMMA InstallStep ==
    ASSUME EmitterInv, NEW c \in Caller, Install(c)
    PROVE  EmitterInv'
<1>. USE Bounds, Typed
<1>1. /\ pc[c] = "install"
      /\ UNCHANGED <<dropCount, closed, calls, call, pending, up, outages, peer, wire, handled, fds>>
  BY DEF Install, daemonVars
<1>2. /\ pc' \in [Caller -> PC] /\ pc'[c] \in {"write", "restore"}
      /\ \A d \in Caller : d # c => pc'[d] = pc[d]
      /\ answer' \in [Emission -> {"none", "ok", "dropped", "error"}] /\ sent' \in Nat /\ failed' \in Nat
      /\ OwnCalls' /\ OneAnswer' /\ AnswerTrue' /\ OneCount' /\ DropsConserved'
  <2>1. CASE closed
    BY <1>1, <2>1, Fails DEF Early, Install
  <2>2. CASE ~closed
    <3>1. Proceed(c, "write")
      BY <2>2 DEF Install
    <3>2. answer' = answer /\ sent' = sent /\ failed' = failed
      BY <3>1 DEF Proceed, history
    <3>. QED BY <1>1, <3>1, <3>2, Proceeds DEF Early
  <2>. QED BY <2>1, <2>2
<1>3. holds[c] = {call[c]} /\ call[c] \in Conn
  BY <1>1 DEF EmitterInv, OneOwner
<1>4. CASE conn' = conn /\ holds' = holds
  <2>1. Shapes'
    BY <1>1, <1>2, <1>4 DEF EmitterInv, Shapes
  <2>2. OneOwner' /\ ConnOwned'
    <3>1. OnlyMoves(c)
      BY <1>1, <1>2, <1>4, Owners DEF OnlyMoves
    <3>. QED BY <3>1, OwnersMove
  <2>. QED BY <1>2, <2>1, <2>2 DEF EmitterInv
<1>5. CASE ~closed /\ conn = None /\ conn' = call[c] /\ Hold(c, {})
  <2>1. /\ holds' \in [Caller -> SUBSET Conn] /\ holds'[c] = {}
        /\ \A d \in Caller : d # c => holds'[d] = holds[d]
    BY <1>5 DEF Hold
  <2>2. Shapes'
    BY <1>1, <1>2, <1>3, <1>5, <2>1 DEF EmitterInv, Shapes
  <2>3. ASSUME NEW k \in fds'
        PROVE  k = conn' \/ \E d \in Caller : k \in holds'[d]
    <3>1. PICK d \in Caller : k \in holds[d]
      BY <1>1, <1>5, Owners
    <3>2. CASE d = c
      BY <1>3, <1>5, <3>1, <3>2
    <3>3. CASE d # c
      BY <2>1, <3>1, <3>3
    <3>. QED BY <3>2, <3>3
  <2>4. \A d \in Caller : conn' \notin holds'[d]
    BY <1>3, <1>5, <2>1, Owners
  <2>5. OneOwner' /\ ConnOwned'
    <3>1. OnlyMoves(c)
      BY <1>1, <1>2, <1>3, <1>5, <2>1, <2>3, <2>4, Owners DEF OnlyMoves
    <3>. QED BY <3>1, OwnersMove
  <2>. QED BY <1>2, <2>2, <2>5 DEF EmitterInv
<1>. QED BY <1>3, <1>4, <1>5 DEF Install

(* A write that fails hands the connection over to the call. *)
LEMMA WriteFailsStep ==
    ASSUME EmitterInv, NEW c \in Caller, WriteFails(c)
    PROVE  EmitterInv'
<1>. USE Bounds, Typed
<1>1. /\ pc[c] = "write" /\ ~closed /\ conn # None /\ conn' = None
      /\ UNCHANGED <<dropCount, closed, calls, call, pending, up, outages, peer, wire, handled, fds>>
  BY DEF WriteFails, Writing, daemonVars
<1>2. /\ pc' \in [Caller -> PC] /\ pc'[c] = "restore"
      /\ \A d \in Caller : d # c => pc'[d] = pc[d]
      /\ answer' \in [Emission -> {"none", "ok", "dropped", "error"}] /\ sent' \in Nat /\ failed' \in Nat
      /\ OwnCalls' /\ OneAnswer' /\ AnswerTrue' /\ OneCount' /\ DropsConserved'
  BY <1>1, Fails DEF Early, WriteFails
<1>3. conn \in Conn /\ conn \in fds /\ \A d \in Caller : conn \notin holds[d]
  BY <1>1 DEF EmitterInv, Shapes, ConnOwned
<1>4. /\ holds' \in [Caller -> SUBSET Conn] /\ holds'[c] = holds[c] \union {conn}
      /\ \A d \in Caller : d # c => holds'[d] = holds[d]
  BY <1>3 DEF Hold, WriteFails
<1>5. Shapes'
  BY <1>1, <1>2, <1>4 DEF EmitterInv, Shapes
<1>6. \A k \in fds : \E d \in Caller : k \in holds'[d]
  BY <1>3, <1>4 DEF EmitterInv, OneOwner
<1>7. \A d \in Caller : None \notin holds'[d]
  BY <1>4
<1>8. OneOwner' /\ ConnOwned'
  <2>1. OnlyMoves(c)
    BY <1>1, <1>2, <1>3, <1>4, <1>6, <1>7, Owners DEF OnlyMoves
  <2>. QED BY <2>1, OwnersMove
<1>. QED BY <1>2, <1>5, <1>8 DEF EmitterInv
-----------------------------------------------------------------------------
(* The frames that are on their way or read. *)
LEMMA RangeAppend ==
    ASSUME NEW S, NEW s \in Seq(S), NEW x \in S
    PROVE  Range(Append(s, x)) = Range(s) \union {x}
<1>1. /\ Len(Append(s, x)) = Len(s) + 1 /\ Append(s, x)[Len(s) + 1] = x /\ Len(s) \in Nat
      /\ \A i \in 1..Len(s) : Append(s, x)[i] = s[i]
      /\ DOMAIN s = 1..Len(s) /\ DOMAIN Append(s, x) = 1..(Len(s) + 1)
  BY AppendProperties
<1>2. \A i : i \in 1..(Len(s) + 1) <=> i \in 1..Len(s) \/ i = Len(s) + 1
  BY <1>1
<1>. QED BY <1>1, <1>2 DEF Range

(* The elements of a sequence are its first and those behind it.            *)
LEMMA RangeTail ==
    ASSUME NEW S, NEW s \in Seq(S), s # <<>>
    PROVE  Range(s) = {Head(s)} \union Range(Tail(s)) /\ Tail(s) \in Seq(S) /\ Head(s) \in S
<1>1. /\ Len(s) \in Nat /\ Len(s) > 0 /\ DOMAIN s = 1..Len(s)
      /\ DOMAIN Tail(s) = 1..(Len(s) - 1) /\ \A i \in 1..(Len(s) - 1) : Tail(s)[i] = s[i + 1]
      /\ Head(s) = s[1] /\ Tail(s) \in Seq(S) /\ Head(s) \in S
  BY HeadTailProperties, ElementOfSeq
<1>2. Range(Tail(s)) \subseteq Range(s) /\ Head(s) \in Range(s)
  BY <1>1 DEF Range
<1>3. ASSUME NEW i \in 1..Len(s), i # 1
      PROVE  s[i] \in Range(Tail(s))
  <2>1. i - 1 \in 1..(Len(s) - 1) /\ Tail(s)[i - 1] = s[i]
    BY <1>1, <1>3
  <2>. QED BY <1>1, <2>1 DEF Range
<1>4. Range(s) \subseteq {Head(s)} \union Range(Tail(s))
  BY <1>1, <1>3 DEF Range
<1>. QED BY <1>1, <1>2, <1>4

(* A written frame answers its call. *)
LEMMA WriteFrameStep ==
    ASSUME EmitterInv, NEW c \in Caller, WriteFrame(c)
    PROVE  EmitterInv'
<1>. DEFINE n == call[c]
            frame == [emission |-> n, drops |-> pending[c]]
<1>. USE Bounds, Typed
<1>1. /\ pc[c] = "write" /\ conn # None /\ ~closed
      /\ wire' = [wire EXCEPT ![conn] = Append(@, frame)]
      /\ sent' = sent + pending[c] /\ pending' = [pending EXCEPT ![c] = 0]
      /\ UNCHANGED <<dropCount, conn, closed, calls, call, holds, up, outages, peer, handled, fds, failed>>
  BY DEF WriteFrame, Writing, emitterVars
<1>2. /\ n \in Emission /\ answer[n] = "none" /\ n <= calls /\ conn \in Conn
      /\ pending[c] \in Nat /\ frame \in Frame
  BY <1>1 DEF EmitterInv, OneAnswer, OwnCalls, Shapes, Frame
<1>3. /\ pc' \in [Caller -> PC] /\ pc'[c] = "close"
      /\ \A d \in Caller : d # c => pc'[d] = pc[d]
      /\ OwnCalls'
  BY <1>1, OthersKept DEF WriteFrame, PC
<1>4. /\ answer' \in [Emission -> {"none", "ok", "dropped", "error"}]
      /\ answer'[n] = "ok" /\ \A m \in Emission : m # n => answer'[m] = answer[m]
  BY <1>2 DEF WriteFrame, Answer
<1>5. pending'[c] = 0 /\ \A d \in Caller : d # c => pending'[d] = pending[d]
  BY <1>1
<1>. HIDE DEF frame
<1>6. wire \in [Conn -> Seq(Frame)]
  BY DEF EmitterInv, Shapes
<1>7. Delivered' = Delivered \union {frame} /\ wire' \in [Conn -> Seq(Frame)]
  <2>1. wire[conn] \in Seq(Frame)
    BY <1>2, <1>6
  <2>2. wire'[conn] = Append(wire[conn], frame) /\ \A k \in Conn : k # conn => wire'[k] = wire[k]
    BY <1>1, <1>2, <1>6
  <2>3. Range(wire'[conn]) = Range(wire[conn]) \union {frame}
    BY <1>2, <2>1, <2>2, RangeAppend
  <2>4. wire' \in [Conn -> Seq(Frame)]
    BY <1>1, <1>2, <1>6, <2>1, AppendProperties
  <2>5. \A f : (\E k \in Conn : f \in Range(wire'[k])) <=> f = frame \/ \E k \in Conn : f \in Range(wire[k])
    BY <1>2, <2>2, <2>3
  <2>6. handled' = handled
    BY <1>1
  <2>7. \A f : f \in Delivered' <=> f \in Delivered \/ f = frame
    BY <2>5, <2>6, IsDelivered
  <2>. QED BY <2>4, <2>7
<1>8. Shapes'
  <2>1. sent' \in Nat /\ pending' \in [Caller -> Nat]
    BY <1>1, <1>2
  <2>. QED BY <1>1, <1>3, <1>4, <1>7, <2>1 DEF EmitterInv, Shapes
<1>9. OneOwner' /\ ConnOwned'
  <2>1. OnlyMoves(c)
    BY <1>1, <1>3, Owners DEF OnlyMoves
  <2>. QED BY <2>1, OwnersMove
<1>10. \A d \in Caller : d # c /\ pc[d] # "idle" => call[d] # n /\ answer'[call[d]] = answer[call[d]]
  <2>1. \A d \in Caller : d # c /\ pc[d] # "idle" => call[d] # n
    BY <1>1 DEF EmitterInv, OwnCalls
  <2>. QED BY <1>4, <2>1
<1>11. frame.emission = n
  BY DEF frame
<1>12. \A f \in Delivered : f.emission \in Emission
  BY EmissionOf
<1>. HIDE DEF n
<1>13. OneAnswer'
  <2>1. \A d \in Caller : pc'[d] \in Early => answer'[call'[d]] = "none"
    BY <1>1, <1>3, <1>10 DEF EmitterInv, OneAnswer, Early
  <2>2. \A m \in Emission : m > calls => m # n
    BY <1>2
  <2>3. \A m \in Emission : m > calls' => answer'[m] = "none"
    BY <1>1, <1>4, <2>2 DEF EmitterInv, OneAnswer
  <2>4. \A f \in Delivered' : answer'[f.emission] = "ok"
    BY <1>4, <1>7, <1>11, <1>12 DEF EmitterInv, OneAnswer
  <2>. QED BY <2>1, <2>3, <2>4 DEF OneAnswer, Early
<1>14. AnswerTrue'
  <2>. SUFFICES ASSUME NEW m \in Emission
                PROVE  /\ answer'[m] \in {"dropped", "error"} => ~\E f \in Delivered' : f.emission = m
                       /\ answer'[m] = "ok" /\ outages' = 0 => \E f \in Delivered' : f.emission = m
    BY DEF AnswerTrue
  <2>1. CASE m = n
    BY <1>4, <1>7, <1>11, <2>1
  <2>2. CASE m # n
    BY <1>1, <1>4, <1>7, <1>11, <2>2 DEF EmitterInv, AnswerTrue
  <2>. QED BY <2>1, <2>2
<1>15. OneCount'
  <2>1. {m \in Emission : answer'[m] = "dropped"} = {m \in Emission : answer[m] = "dropped"}
    BY <1>2, <1>4
  <2>2. \A d \in Caller : /\ pc'[d] \in {"idle", "logDrop", "close"} => pending'[d] = 0
                          /\ pc'[d] = "logDrop" => answer'[call'[d]] = "dropped"
    BY <1>1, <1>3, <1>5, <1>10, ZenonT(30) DEF EmitterInv, OneCount
  <2>. QED BY <1>1, <2>1, <2>2 DEF EmitterInv, OneCount
<1>16. DropsConserved'
  <2>1. \A d \in Caller : Counting(d)' <=> Counting(d)
    BY <1>1, <1>3, <1>10 DEF Counting
  <2>2. Cardinality(Waiting') = Cardinality(Waiting) /\ Cardinality(Waiting) \in Nat
    BY <2>1, WaitingMoves
  <2>3. Total(pending') = Total(pending) + 0 - pending[c] /\ Total(pending) \in Nat
    <3>1. pending \in [Caller -> Nat] /\ IsFiniteSet(Caller) /\ 0 \in Nat
      OBVIOUS
    <3>. QED BY ONLY <1>1, <3>1, TotalShifts, c \in Caller
  <2>. QED BY <1>1, <1>2, <2>2, <2>3, Conserved, SMTT(30) DEF EmitterInv
<1>. QED BY <1>3, <1>8, <1>9, <1>13, <1>14, <1>15, <1>16 DEF EmitterInv

(* The steps after a call has failed: the drops it took go back, and its own *)
(* is counted.                                                               *)
LEMMA RestoreStep ==
    ASSUME EmitterInv, NEW c \in Caller, Restore(c) \/ LogDrop(c)
    PROVE  EmitterInv'
<1>. USE Bounds, Typed
<1>1. /\ pc[c] \in {"restore", "logDrop"}
      /\ UNCHANGED <<conn, closed, calls, call, holds, answer, up, outages, peer, wire, handled, fds, sent, failed>>
  BY DEF Restore, LogDrop, daemonVars, history
<1>2. /\ pc' \in [Caller -> PC] /\ pc'[c] \in {"logDrop", "close"}
      /\ \A d \in Caller : d # c => pc'[d] = pc[d]
      /\ OwnCalls'
  <2>1. \E label \in {"logDrop", "close"} : Goto(c, label)
    BY DEF Restore, LogDrop
  <2>. QED BY <1>1, <2>1, OthersKept DEF PC
<1>3. /\ pending' \in [Caller -> Nat] /\ pending'[c] = 0
      /\ \A d \in Caller : d # c => pending'[d] = pending[d]
      /\ pending[c] \in Nat
  <2>1. CASE Restore(c)
    BY <2>1 DEF Restore
  <2>2. CASE LogDrop(c)
    BY <2>2 DEF LogDrop, EmitterInv, OneCount
  <2>. QED BY <2>1, <2>2
<1>4. Total(pending') = Total(pending) - pending[c] /\ Total(pending) \in Nat
  <2>1. pending' = [pending EXCEPT ![c] = 0]
    BY <1>3
  <2>2. pending \in [Caller -> Nat] /\ IsFiniteSet(Caller) /\ 0 \in Nat
    OBVIOUS
  <2>3. Total(pending') = Total(pending) + 0 - pending[c] /\ Total(pending) \in Nat
    BY ONLY <2>1, <2>2, TotalShifts, c \in Caller
  <2>. QED BY <1>3, <2>3
<1>5. \A d \in Caller : d # c => (Counting(d)' <=> Counting(d))
  BY <1>1, <1>2 DEF Counting
<1>6. DropsConserved' /\ dropCount' \in Nat
  <2>1. CASE Restore(c)
    <3>1. /\ dropCount' = dropCount + pending[c] /\ pc[c] = "restore"
          /\ pc' = [pc EXCEPT ![c] = IF answer[call[c]] = "dropped" THEN "logDrop" ELSE "close"]
      BY <2>1 DEF Restore, Goto
    <3>2. Counting(c)' <=> Counting(c)
      BY <1>1, <3>1 DEF Counting
    <3>3. Cardinality(Waiting') = Cardinality(Waiting) /\ Cardinality(Waiting) \in Nat
      BY <1>5, <3>2, WaitingMoves
    <3>. QED BY <1>1, <1>3, <1>4, <3>1, <3>3, Conserved, SMTT(30) DEF EmitterInv
  <2>2. CASE LogDrop(c)
    <3>1. /\ dropCount' = dropCount + 1 /\ pending' = pending /\ pc[c] = "logDrop"
          /\ pc'[c] = "close"
      BY <2>2 DEF LogDrop, Goto
    <3>2. Cardinality(Waiting') = Cardinality(Waiting) - 1 /\ Cardinality(Waiting) \in Nat
      <4>1. Counting(c) /\ ~Counting(c)'
        BY <1>1, <3>1 DEF Counting, EmitterInv, OneCount
      <4>. QED BY <1>5, <4>1, WaitingMoves
    <3>3. dropCount + Total(pending) + Cardinality(Waiting) + sent = failed
      BY Conserved DEF EmitterInv
    <3>4. Total(pending') = Total(pending) /\ Total(pending) \in Nat /\ dropCount \in Nat
          /\ sent' = sent /\ failed' = failed /\ sent \in Nat
      BY <1>1, <1>4, <3>1
    <3>5. dropCount' + Total(pending') + Cardinality(Waiting') + sent' = failed' /\ dropCount' \in Nat
      BY ONLY <3>1, <3>2, <3>3, <3>4
    <3>. QED BY <3>5, Conserved
  <2>. QED BY <2>1, <2>2
<1>7. Shapes'
  BY <1>1, <1>2, <1>3, <1>6 DEF EmitterInv, Shapes
<1>8. OneOwner' /\ ConnOwned'
  <2>1. OnlyMoves(c)
    BY <1>1, <1>2, Owners DEF OnlyMoves
  <2>. QED BY <2>1, OwnersMove
<1>9. Delivered' = Delivered
  BY <1>1 DEF Delivered
<1>10. OneAnswer' /\ AnswerTrue'
  BY <1>1, <1>2, <1>9 DEF EmitterInv, OneAnswer, AnswerTrue
<1>11. OneCount'
  <2>1. pc'[c] = "logDrop" => answer'[call'[c]] = "dropped"
    BY <1>1 DEF Restore, LogDrop, Goto
  <2>. QED BY <1>1, <1>2, <1>3, <2>1 DEF EmitterInv, OneCount
<1>. QED BY <1>2, <1>6, <1>7, <1>8, <1>10, <1>11 DEF EmitterInv

(* A call closes what it holds. *)
LEMMA ReturnStep ==
    ASSUME EmitterInv, NEW c \in Caller, Return(c)
    PROVE  EmitterInv'
<1>. USE Bounds, Typed
<1>1. /\ pc[c] = "close" /\ fds' = fds \ holds[c] /\ Hold(c, {}) /\ Goto(c, "idle")
      /\ UNCHANGED <<dropCount, conn, closed, calls, call, pending, answer, up, outages, peer, wire,
                     handled, sent, failed>>
  BY DEF Return, emitterVars, daemonVars, history
<1>2. /\ pc' \in [Caller -> PC] /\ pc'[c] = "idle"
      /\ \A d \in Caller : d # c => pc'[d] = pc[d]
      /\ OwnCalls'
  BY <1>1, OthersKept DEF PC
<1>3. /\ holds' \in [Caller -> SUBSET Conn] /\ holds'[c] = {}
      /\ \A d \in Caller : d # c => holds'[d] = holds[d]
  BY <1>1 DEF Hold
<1>4. Shapes'
  BY <1>1, <1>2, <1>3 DEF EmitterInv, Shapes
<1>5. OneOwner' /\ ConnOwned'
  <2>1. \A d \in Caller : d # c => holds[d] \subseteq fds' /\ holds[d] \intersect holds'[c] = {}
    BY <1>1, <1>3, Owners
  <2>2. ASSUME NEW k \in fds'
        PROVE  k = conn' \/ \E d \in Caller : k \in holds'[d]
    BY <1>1, <1>3, Owners
  <2>3. conn' # None => conn' \in fds' /\ ~closed
    BY <1>1, Owners
  <2>4. OnlyMoves(c)
    BY <1>1, <1>2, <1>3, <2>1, <2>2, <2>3, Owners DEF OnlyMoves
  <2>. QED BY <2>4, OwnersMove
<1>6. Delivered' = Delivered
  BY <1>1 DEF Delivered
<1>7. OneAnswer' /\ AnswerTrue'
  BY <1>1, <1>2, <1>6 DEF EmitterInv, OneAnswer, AnswerTrue
<1>8. OneCount'
  BY <1>1, <1>2 DEF EmitterInv, OneCount
<1>9. DropsConserved'
  <2>1. \A d \in Caller : Counting(d)' <=> Counting(d)
    BY <1>1, <1>2 DEF Counting
  <2>2. Waiting' = Waiting
    BY <2>1 DEF Waiting
  <2>. QED BY <1>1, <2>2, Conserved DEF EmitterInv
<1>. QED BY <1>2, <1>4, <1>5, <1>7, <1>8, <1>9 DEF EmitterInv

(* Close takes the emitter's connection away, and touches no call. *)
LEMMA CloseStep ==
    ASSUME EmitterInv, Close
    PROVE  EmitterInv'
<1>. USE Bounds, Typed
<1>1. /\ closed' = TRUE /\ conn' = None /\ fds' = fds \ {conn}
      /\ UNCHANGED <<dropCount, calls, pc, call, pending, holds, answer, up, outages, peer, wire,
                     handled, sent, failed>>
  BY DEF Close, callVars, daemonVars, history
<1>2. Shapes' /\ OwnCalls'
  BY <1>1 DEF EmitterInv, Shapes, OwnCalls
<1>3. ConnOwned'
  BY <1>1, Owners DEF EmitterInv, ConnOwned
<1>4. OneOwner'
  <2>1. \A k \in fds' : k <= calls' /\ (k = conn' \/ \E c \in Caller : k \in holds'[c])
    BY <1>1, Owners DEF EmitterInv, OneOwner
  <2>2. \A c \in Caller : holds'[c] \subseteq fds'
    BY <1>1, Owners
  <2>. QED BY <1>1, <2>1, <2>2 DEF EmitterInv, OneOwner
<1>5. Delivered' = Delivered /\ Waiting' = Waiting
  BY <1>1 DEF Delivered, Waiting, Counting
<1>6. OneAnswer' /\ AnswerTrue' /\ OneCount'
  BY <1>1, <1>5 DEF EmitterInv, OneAnswer, AnswerTrue, OneCount
<1>7. DropsConserved'
  BY <1>1, <1>5, Conserved DEF EmitterInv
<1>. QED BY <1>2, <1>3, <1>4, <1>6, <1>7 DEF EmitterInv

(* The daemon's steps: what it reads stays delivered, and what it loses is   *)
(* lost with an outage.                                                      *)
LEMMA DaemonStep ==
    ASSUME EmitterInv, (\E k \in Conn : Handle(k)) \/ GoDown \/ ComeUp
    PROVE  EmitterInv'
<1>. USE Bounds, Typed
<1>1. UNCHANGED <<dropCount, conn, closed, calls, pc, call, pending, holds, answer, fds, sent, failed>>
  BY DEF Handle, GoDown, ComeUp, emitterVars, callVars, history
<1>2. wire \in [Conn -> Seq(Frame)] /\ handled \subseteq Frame
  BY DEF EmitterInv, Shapes
<1>3. /\ Delivered' \subseteq Delivered /\ (outages' = 0 => outages = 0 /\ Delivered' = Delivered)
      /\ wire' \in [Conn -> Seq(Frame)] /\ handled' \subseteq Frame
      /\ up' \in BOOLEAN /\ outages' \in 0..MaxOutages /\ peer' \subseteq Conn
  <2>1. ASSUME NEW k \in Conn, Handle(k)
        PROVE  /\ Delivered' = Delivered /\ wire' \in [Conn -> Seq(Frame)] /\ handled' \subseteq Frame
               /\ UNCHANGED <<up, outages, peer>>
    <3>1. /\ wire[k] # <<>> /\ handled' = handled \union {Head(wire[k])}
          /\ wire' = [wire EXCEPT ![k] = Tail(@)] /\ UNCHANGED <<up, outages, peer>>
      BY <2>1 DEF Handle
    <3>2. wire'[k] = Tail(wire[k]) /\ \A j \in Conn : j # k => wire'[j] = wire[j]
      BY <1>2, <3>1
    <3>3. /\ Range(wire[k]) = {Head(wire[k])} \union Range(wire'[k])
          /\ wire'[k] \in Seq(Frame) /\ Head(wire[k]) \in Frame
      BY <1>2, <3>1, <3>2, RangeTail
    <3>4. \A f : (\E j \in Conn : f \in Range(wire[j])) <=>
                   f = Head(wire[k]) \/ \E j \in Conn : f \in Range(wire'[j])
      BY <3>2, <3>3
    <3>5. Delivered' = Delivered
      BY <3>1, <3>4, IsDelivered
    <3>6. wire' \in [Conn -> Seq(Frame)] /\ handled' \subseteq Frame
      BY <1>2, <3>1, <3>2, <3>3
    <3>. QED BY <3>1, <3>5, <3>6
  <2>2. CASE GoDown
    <3>1. /\ wire' = [j \in Conn |-> <<>>] /\ handled' = handled /\ outages' = outages + 1
          /\ outages < MaxOutages /\ outages \in 0..MaxOutages /\ up' = FALSE /\ peer' = {}
      BY <2>2 DEF GoDown, EmitterInv, Shapes
    <3>2. wire' \in [Conn -> Seq(Frame)]
      BY <3>1
    <3>3. \A j \in Conn : Range(wire'[j]) = {}
      BY <3>1 DEF Range
    <3>4. Delivered' \subseteq Delivered
      BY <3>1, <3>3, IsDelivered
    <3>5. outages' # 0 /\ outages' \in 0..MaxOutages
      BY <3>1
    <3>6. up' \in BOOLEAN /\ peer' \subseteq Conn /\ handled' \subseteq Frame
      BY <1>2, <3>1
    <3>. QED BY <3>2, <3>4, <3>5, <3>6
  <2>3. CASE ComeUp
    <3>1. up' = TRUE /\ UNCHANGED <<outages, peer, wire, handled>>
      BY <2>3 DEF ComeUp
    <3>2. Delivered' = Delivered
      BY <3>1 DEF Delivered
    <3>. QED BY <1>2, <3>1, <3>2 DEF EmitterInv, Shapes
  <2>. QED BY <2>1, <2>2, <2>3 DEF EmitterInv, Shapes
<1>4. Shapes' /\ OwnCalls' /\ OneOwner' /\ ConnOwned' /\ OneCount'
  BY <1>1, <1>3 DEF EmitterInv, Shapes, OwnCalls, OneOwner, ConnOwned, OneCount
<1>5. OneAnswer' /\ AnswerTrue'
  BY <1>1, <1>3 DEF EmitterInv, OneAnswer, AnswerTrue
<1>6. Waiting' = Waiting
  BY <1>1 DEF Waiting, Counting
<1>7. DropsConserved'
  BY <1>1, <1>6, Conserved DEF EmitterInv
<1>. QED BY <1>4, <1>5, <1>7 DEF EmitterInv
-----------------------------------------------------------------------------
(* The initial states. *)
LEMMA InitEmitter == Init => EmitterInv
<1>. SUFFICES ASSUME Init
              PROVE  EmitterInv
  OBVIOUS
<1>. USE Bounds DEF Init
<1>1. Shapes
  <2>1. wire \in [Conn -> Seq(Frame)]
    OBVIOUS
  <2>2. 0 \in 0..MaxEmits /\ 0 \in 0..MaxOutages
    OBVIOUS
  <2>3. pc \in [Caller -> PC] /\ call \in [Caller -> 0..MaxEmits] /\ pending \in [Caller -> Nat]
    BY <2>2 DEF PC
  <2>4. answer \in [Emission -> {"none", "ok", "dropped", "error"}] /\ holds \in [Caller -> SUBSET Conn]
    OBVIOUS
  <2>. QED BY <2>1, <2>2, <2>3, <2>4 DEF Shapes
<1>2. OwnCalls /\ OneOwner /\ ConnOwned
  BY DEF OwnCalls, OneOwner, ConnOwned
<1>3. Delivered = {}
  BY DEF Delivered, Range
<1>4. OneAnswer /\ AnswerTrue
  BY <1>3 DEF OneAnswer, AnswerTrue
<1>5. OneCount
  <2>1. {n \in Emission : answer[n] = "dropped"} = {}
    OBVIOUS
  <2>. QED BY <2>1, FS_EmptySet DEF OneCount
<1>6. DropsConserved
  <2>1. Total(pending) = 0
    <3>1. pending \in [Caller -> Nat] /\ \A c \in Caller : pending[c] = 0
      OBVIOUS
    <3>. QED BY <3>1, TotalOfZeros
  <2>2. Waiting = {}
    BY DEF Waiting, Counting
  <2>. QED BY <2>1, <2>2, FS_EmptySet, Conserved
<1>. QED BY <1>1, <1>2, <1>4, <1>5, <1>6 DEF EmitterInv

(* Every step keeps the invariant. *)
LEMMA EmitterStep == EmitterInv /\ [Next]_vars => EmitterInv'
<1>. SUFFICES ASSUME EmitterInv, [Next]_vars
              PROVE  EmitterInv'
  OBVIOUS
<1>1. ASSUME NEW c \in Caller, Emit(c) \/ Step(c)
      PROVE  EmitterInv'
  BY <1>1, EmitStep, CheckStep, DialStep, InstallStep, WriteFrameStep, WriteFailsStep, RestoreStep,
     ReturnStep DEF Step
<1>2. CASE (\E k \in Conn : Handle(k)) \/ GoDown \/ ComeUp
  BY <1>2, DaemonStep
<1>3. CASE Close
  BY <1>3, CloseStep
<1>4. CASE UNCHANGED vars
  <2>1. UNCHANGED <<dropCount, conn, closed, calls, pc, call, pending, holds, answer, up, outages, fds,
                    peer, wire, handled, sent, failed>>
    BY <1>4 DEF vars, emitterVars, callVars, daemonVars, history
  <2>2. /\ Shapes' = Shapes /\ OwnCalls' = OwnCalls /\ OneOwner' = OneOwner /\ ConnOwned' = ConnOwned
        /\ Waiting' = Waiting
    BY <2>1 DEF Shapes, OwnCalls, OneOwner, ConnOwned, Waiting, Counting
  <2>3. OneAnswer' = OneAnswer /\ AnswerTrue' = AnswerTrue /\ OneCount' = OneCount
    BY <2>1 DEF OneAnswer, AnswerTrue, OneCount, Delivered
  <2>4. DropsConserved'
    BY <2>1, <2>2, Conserved DEF EmitterInv
  <2>. QED BY <2>2, <2>3, <2>4 DEF EmitterInv
<1>. QED BY <1>1, <1>2, <1>3, <1>4 DEF Next, Done

(* EmitterInv is inductive. *)
THEOREM EmitterInductive == Spec => []EmitterInv
<1>1. Init => EmitterInv
  BY InitEmitter
<1>2. EmitterInv /\ [Next]_vars => EmitterInv'
  BY EmitterStep
<1>. QED BY <1>1, <1>2, PTL DEF Spec

(* Every state is well typed: what is counted is bounded by the calls.       *)
THEOREM EmitterTypes == Spec => []TypeOK
<1>1. ASSUME EmitterInv
      PROVE  TypeOK
  <2>. USE <1>1, Bounds, Typed
  <2>1. failed <= MaxEmits
    <3>1. IsFiniteSet(Emission) /\ Cardinality(Emission) = MaxEmits
      BY FS_Interval
    <3>2. Cardinality({n \in Emission : answer[n] = "dropped"}) <= MaxEmits
      BY <3>1, FS_Subset
    <3>. QED BY <3>2 DEF EmitterInv, OneCount
  <2>2. Cardinality(Waiting) \in Nat
    BY FS_Subset, FS_CardinalityType DEF Waiting
  <2>3. dropCount + Total(pending) + Cardinality(Waiting) + sent = failed
    BY Conserved DEF EmitterInv
  <2>4. ASSUME NEW c \in Caller
        PROVE  Total(pending) \in Nat /\ pending[c] <= Total(pending) /\ pending[c] \in Nat
    BY ONLY <2>4, Bounds, pending \in [Caller -> Nat], TotalShifts, Typed, <1>1
  <2>5. Total(pending) \in Nat
    <3>1. pending \in [Caller -> Nat]
      OBVIOUS
    <3>2. Sums(pending, Caller) \in [SUBSET Caller -> Nat]
      BY ONLY <3>1, SumsExist, Bounds
    <3>. QED BY <3>1, <3>2, TotalIsSum
  <2>6. dropCount <= MaxEmits /\ sent <= MaxEmits /\ Total(pending) <= MaxEmits
    BY <2>1, <2>2, <2>3, <2>5
  <2>7. pending \in [Caller -> 0..MaxEmits]
    BY <2>4, <2>6
  <2>. QED BY <2>1, <2>6, <2>7 DEF EmitterInv, Shapes, TypeOK
<1>. QED BY <1>1, EmitterInductive, PTL

(* An event whose drop was counted is reported exactly once, whatever the    *)
(* callers' swaps, restores and increments of the counter do in between.     *)
THEOREM DropsAreConserved == Spec => []DropsConserved
<1>1. EmitterInv => DropsConserved
  BY DEF EmitterInv
<1>. QED BY <1>1, EmitterInductive, PTL

(* A call that answered with an error left no frame, and one that succeeded  *)
(* left one, unless the daemon went away.                                    *)
THEOREM AnswersAreTrue == Spec => []AnswerTrue
<1>1. EmitterInv => AnswerTrue
  BY DEF EmitterInv
<1>. QED BY <1>1, EmitterInductive, PTL

(* The emitter's connection is open and no call is about to close it.        *)
THEOREM ConnsAreOwned == Spec => []ConnOwned
<1>1. EmitterInv => ConnOwned
  BY DEF EmitterInv
<1>. QED BY <1>1, EmitterInductive, PTL

(* Once no call is in progress only the emitter's connection is open, and    *)
(* none after Close.                                                         *)
THEOREM NothingLeaks == Spec => []NoLeak
<1>1. ASSUME EmitterInv
      PROVE  NoLeak
  <2>1. SUFFICES ASSUME \A c \in Caller : pc[c] = "idle"
                 PROVE  fds = {conn} \ {None} /\ (closed => fds = {})
    BY DEF NoLeak
  <2>2. \A c \in Caller : holds[c] = {}
    BY <1>1, <2>1 DEF EmitterInv, OneOwner
  <2>. QED BY <1>1, <2>2, Owners
<1>. QED BY <1>1, EmitterInductive, PTL
=============================================================================
