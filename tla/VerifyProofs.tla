---------------------------- MODULE VerifyProofs ----------------------------
(***************************************************************************)
(* Proofs about Verify: what VerifyChain, receipt verify, verify-event and *)
(* the web verifier accept of a chain that was lost in part, moved,        *)
(* altered or replaced, for chains of any length and any amount of damage. *)
(***************************************************************************)
EXTENDS Verify, SequenceTheorems, WellFoundedInduction, TLAPS

(* Of the numbers at which something fails, one is the least.               *)
LEMMA LeastOf ==
    ASSUME NEW S, S \subseteq Nat, S # {}
    PROVE  \E n \in S : \A m \in S : n <= m
<1>1. PICK n \in S : \A m \in S : <<m, n>> \notin OpToRel(<, Nat)
  BY NatLessThanWellFounded, WFMin, Zenon
<1>2. n \in Nat /\ \A m \in S : m \in Nat
  BY <1>1
<1>3. \A m \in S : ~(m < n)
  BY <1>1, <1>2 DEF OpToRel
<1>4. \A m \in S : n <= m
  BY <1>2, <1>3
<1>. QED BY <1>1, <1>4

(* Min is that number. *)
LEMMA MinIsLeast ==
    ASSUME NEW S, S \subseteq Nat, S # {}
    PROVE  Min(S) \in S /\ \A m \in S : Min(S) <= m
<1>1. \E n \in S : \A m \in S : n <= m
  BY LeastOf
<1>. QED BY <1>1 DEF Min

(* A prefix of a sequence. *)
LEMMA PrefixIs ==
    ASSUME NEW S, NEW rs \in Seq(S), NEW n \in 0..Len(rs)
    PROVE  /\ Prefix(rs, n) \in Seq(S)
           /\ Len(Prefix(rs, n)) = n
           /\ DOMAIN Prefix(rs, n) = 1..n
           /\ \A i \in 1..n : Prefix(rs, n)[i] = rs[i]
<1>1. \A i \in 1..n : rs[i] \in S
  OBVIOUS
<1>2. /\ SubSeq(rs, 1, n) \in Seq(S)
      /\ Len(SubSeq(rs, 1, n)) = IF 1 <= n THEN n - 1 + 1 ELSE 0
      /\ \A i \in 1..n - 1 + 1 : SubSeq(rs, 1, n)[i] = rs[1 + i - 1]
  BY <1>1, SubSeqProperties
<1>. HIDE DEF Prefix
<1>3. Prefix(rs, n) \in Seq(S) /\ Len(Prefix(rs, n)) = n
  BY <1>2 DEF Prefix
<1>4. DOMAIN Prefix(rs, n) = 1..n
  BY <1>3
<1>5. ASSUME NEW i \in 1..n PROVE Prefix(rs, n)[i] = rs[i]
  <2>1. i \in 1..n - 1 + 1 /\ 1 + i - 1 = i
    OBVIOUS
  <2>. QED BY <1>2, <2>1 DEF Prefix
<1>. QED BY <1>3, <1>4, <1>5
-----------------------------------------------------------------------------
(* The key in force at receipt i, where f is what it was before.            *)
KeyStep(rs, genesis, f, i) == IF i = 1 THEN genesis ELSE NextKey(rs[i - 1], f[i - 1])

(* The traversal of the chain defines a key for each of its receipts: of    *)
(* the lengths up to which it does not, none is the least.                  *)
LEMMA ActiveKeyIs ==
    ASSUME NEW rs, Len(rs) \in Nat, NEW genesis
    PROVE  ActiveKey(rs, genesis) =
              [i \in 1..Len(rs) |-> KeyStep(rs, genesis, ActiveKey(rs, genesis), i)]
<1>. DEFINE Keyed(n) == \E f : f = [i \in 1..n |-> KeyStep(rs, genesis, f, i)]
            Bad == {n \in Nat : ~Keyed(n)}
<1>1. ASSUME Bad # {} PROVE FALSE
  <2>1. PICK n \in Bad : \A m \in Bad : n <= m
    BY <1>1, LeastOf
  <2>2. n # 0
    <3>. DEFINE f == [i \in 1..0 |-> genesis]
    <3>1. f = [i \in 1..0 |-> KeyStep(rs, genesis, f, i)]
      OBVIOUS
    <3>2. Keyed(0)
      BY <3>1
    <3>. QED BY <2>1, <3>2
  <2>3. n - 1 \in Nat /\ Keyed(n - 1)
    BY <2>1, <2>2
  <2>4. PICK f : f = [i \in 1..n - 1 |-> KeyStep(rs, genesis, f, i)]
    BY <2>3
  <2>. DEFINE g == [i \in 1..n |-> KeyStep(rs, genesis, f, i)]
  <2>5. \A i \in 1..n - 1 : g[i] = f[i]
    BY <2>1, <2>4
  <2>. HIDE DEF g
  <2>6. \A i \in 1..n : KeyStep(rs, genesis, g, i) = KeyStep(rs, genesis, f, i)
    <3>1. SUFFICES ASSUME NEW i \in 1..n, i # 1 PROVE g[i - 1] = f[i - 1]
      BY DEF KeyStep
    <3>. QED BY <2>1, <2>5, <3>1
  <2>7. g = [i \in 1..n |-> KeyStep(rs, genesis, g, i)]
    BY <2>6 DEF g
  <2>8. Keyed(n)
    BY <2>7
  <2>. QED BY <2>1, <2>8
<1>2. Keyed(Len(rs))
  BY <1>1
<1>3. ActiveKey(rs, genesis) = CHOOSE f : f = [i \in 1..Len(rs) |-> KeyStep(rs, genesis, f, i)]
  BY DEF ActiveKey, KeyStep
<1>. QED BY <1>2, <1>3

(* The keys of a prefix are those of the chain. *)
LEMMA ActiveKeyOfPrefix ==
    ASSUME NEW S, NEW rs \in Seq(S), NEW n \in 0..Len(rs), NEW genesis
    PROVE  \A i \in 1..n : ActiveKey(Prefix(rs, n), genesis)[i] = ActiveKey(rs, genesis)[i]
<1>. DEFINE p == Prefix(rs, n)
            f == ActiveKey(p, genesis)
            g == ActiveKey(rs, genesis)
            Bad == {i \in 1..n : f[i] # g[i]}
<1>1. p \in Seq(S) /\ Len(p) = n /\ \A i \in 1..n : p[i] = rs[i]
  BY PrefixIs
<1>. HIDE DEF p
<1>2. /\ \A i \in 1..n : f[i] = KeyStep(p, genesis, f, i)
      /\ \A i \in 1..n : g[i] = KeyStep(rs, genesis, g, i)
  <2>1. f = [i \in 1..n |-> KeyStep(p, genesis, f, i)]
    BY <1>1, ActiveKeyIs
  <2>2. g = [i \in 1..Len(rs) |-> KeyStep(rs, genesis, g, i)]
    BY ActiveKeyIs
  <2>. HIDE DEF f, g
  <2>3. \A i \in 1..n : f[i] = KeyStep(p, genesis, f, i)
    BY <2>1, Zenon
  <2>4. \A i \in 1..n : i \in 1..Len(rs)
    OBVIOUS
  <2>5. \A i \in 1..Len(rs) : g[i] = KeyStep(rs, genesis, g, i)
    BY <2>2, Zenon
  <2>. QED BY <2>3, <2>4, <2>5
<1>. HIDE DEF f, g
<1>3. ASSUME Bad # {} PROVE FALSE
  <2>0. Bad \subseteq Nat
    OBVIOUS
  <2>. HIDE DEF Bad
  <2>1. PICK i \in Bad : \A j \in Bad : i <= j
    BY <1>3, <2>0, LeastOf
  <2>. USE DEF Bad
  <2>2. CASE i = 1
    BY <1>2, <2>1, <2>2 DEF KeyStep
  <2>3. CASE i # 1
    <3>1. i - 1 \in 1..n /\ i - 1 \notin Bad
      BY <2>1, <2>3
    <3>2. f[i - 1] = g[i - 1] /\ p[i - 1] = rs[i - 1]
      BY <1>1, <3>1
    <3>. QED BY <1>2, <2>1, <2>3, <3>2 DEF KeyStep
  <2>. QED BY <2>2, <2>3
<1>. QED BY <1>3 DEF f, g, p
-----------------------------------------------------------------------------
(* What is wrong with a chain by itself. *)
Defects(rs, genesis) ==
    OtherChain(rs) \union LoopBreaks(rs, genesis) \union AfterTerminal(rs)

(* VerifyChain without options finds no fault exactly where there is none.  *)
LEMMA BrokenAtIs ==
    ASSUME NEW S, NEW rs \in Seq(S), NEW genesis
    PROVE  /\ Defects(rs, genesis) \subseteq 1..Len(rs)
           /\ BrokenAt(rs, genesis, NoOptions) = ChainBreak(rs, genesis)
           /\ Valid(rs, genesis, NoOptions) <=> Defects(rs, genesis) = {}
           /\ LET at == ChainBreak(rs, genesis)
                  others == LoopBreaks(rs, genesis) \union AfterTerminal(rs)
              IN /\ at = 0 <=> Defects(rs, genesis) = {}
                 /\ OtherChain(rs) # {} => at \in OtherChain(rs)
                 /\ OtherChain(rs) = {} /\ others # {} =>
                       at \in others /\ \A n \in others : at <= n
<1>. DEFINE others == LoopBreaks(rs, genesis) \union AfterTerminal(rs)
            at == ChainBreak(rs, genesis)
<1>1. Len(rs) \in Nat /\ DOMAIN rs = 1..Len(rs)
  OBVIOUS
<1>2. OtherChain(rs) \subseteq 1..Len(rs) /\ others \subseteq 1..Len(rs)
  BY <1>1 DEF OtherChain, LoopBreaks, AfterTerminal
<1>3. OtherChain(rs) # {} => at \in OtherChain(rs)
  BY <1>1, <1>2, MinIsLeast DEF ChainBreak
<1>4. OtherChain(rs) = {} /\ others # {} => at \in others /\ \A n \in others : at <= n
  BY <1>1, <1>2, MinIsLeast, SMTT(30) DEF ChainBreak
<1>5. OtherChain(rs) = {} /\ others = {} => at = 0
  BY DEF ChainBreak
<1>6. Defects(rs, genesis) = OtherChain(rs) \union others
  BY DEF Defects
<1>. HIDE DEF others, at
<1>7. 0 \notin 1..Len(rs)
  BY <1>1
<1>8. at = 0 <=> Defects(rs, genesis) = {}
  BY <1>2, <1>3, <1>4, <1>5, <1>6, <1>7
<1>9. BrokenAt(rs, genesis, NoOptions) = at
  <2>1. BodyBreaks(rs, NoOptions.bodies) = {}
    <3>1. NoOptions.bodies = <<>> /\ DOMAIN (<<>>) = {}
      BY DEF NoOptions
    <3>. QED BY <3>1 DEF BodyBreaks
  <2>2. ExpectationsMet(rs, NoOptions)
    BY DEF ExpectationsMet, NoOptions
  <2>3. NoOptions.length \in {None, 0}
    BY DEF NoOptions
  <2>4. CASE rs = <<>>
    <3>1. 1..Len(rs) = {}
      BY <2>4
    <3>2. Defects(rs, genesis) = {}
      BY <1>2, <1>6, <3>1
    <3>. QED BY <1>8, <2>3, <2>4, <3>2 DEF BrokenAt
  <2>5. CASE rs # <<>>
    BY <2>1, <2>2, <2>5 DEF BrokenAt, at
  <2>. QED BY <2>4, <2>5
<1>. QED BY <1>2, <1>3, <1>4, <1>6, <1>8, <1>9 DEF Valid, at, others

(* What is wrong with a prefix is what is wrong with the chain up to there. *)
LEMMA DefectsOfPrefix ==
    ASSUME NEW S, NEW rs \in Seq(S), NEW n \in 1..Len(rs), NEW genesis
    PROVE  Defects(Prefix(rs, n), genesis) = Defects(rs, genesis) \intersect 1..n
<1>. DEFINE p == Prefix(rs, n)
<1>1. p \in Seq(S) /\ Len(p) = n /\ DOMAIN p = 1..n /\ \A i \in 1..n : p[i] = rs[i]
  BY PrefixIs
<1>2. \A i \in 1..n : ActiveKey(p, genesis)[i] = ActiveKey(rs, genesis)[i]
  BY ActiveKeyOfPrefix
<1>. HIDE DEF p
<1>3. 1 \in 1..n /\ \A i \in 1..n : i # 1 => i - 1 \in 1..n
  OBVIOUS
<1>4. DOMAIN rs = 1..Len(rs) /\ 1..n \subseteq 1..Len(rs)
  OBVIOUS
<1>5. p[1] = rs[1] /\ \A i \in 1..n : i # 1 => p[i - 1] = rs[i - 1]
  BY <1>1, <1>3
<1>6. OtherChain(p) = OtherChain(rs) \intersect 1..n
  BY <1>1, <1>4, <1>5 DEF OtherChain
<1>7. AfterTerminal(p) = AfterTerminal(rs) \intersect 1..n
  <2>1. \A i \in 1..n : i > 1 <=> i # 1
    OBVIOUS
  <2>. QED BY <1>1, <1>4, <1>5, <2>1 DEF AfterTerminal
<1>8. LoopBreaks(p, genesis) = LoopBreaks(rs, genesis) \intersect 1..n
  <2>1. ASSUME NEW i \in 1..n
        PROVE  Flags(p, genesis)[i] = Flags(rs, genesis)[i]
    <3>1. LinkValid(p, i) = LinkValid(rs, i)
      BY <1>1, <1>5 DEF LinkValid, Previous
    <3>2. SequenceValid(p, i) = SequenceValid(rs, i)
      BY <1>1, <1>5 DEF SequenceValid
    <3>. QED BY <1>1, <1>2, <1>4, <3>1, <3>2 DEF Flags
  <2>. QED BY <1>1, <1>2, <1>4, <2>1 DEF LoopBreaks
<1>. QED BY <1>6, <1>7, <1>8 DEF Defects, p

(* VerifyChain points at the first defect of any chain. *)
LEMMA FirstDefectOf ==
    ASSUME shown \in Seq(Range(shown))
    PROVE  FirstDefect
<1>. DEFINE at == BrokenAt(shown, 1, NoOptions)
            D  == Defects(shown, 1)
<1>1. /\ D \subseteq 1..Len(shown)
      /\ at = 0 <=> D = {}
      /\ OtherChain(shown) = {} /\ D # {} => at \in D /\ \A n \in D : at <= n
      /\ at # 0 => at \in D
  BY BrokenAtIs DEF Defects
<1>2. ASSUME NEW n \in 1..Len(shown)
      PROVE  Valid(Prefix(shown, n), 1, NoOptions) <=> D \intersect 1..n = {}
  <2>1. Prefix(shown, n) \in Seq(Range(shown))
    BY PrefixIs
  <2>. QED BY <2>1, BrokenAtIs, DefectsOfPrefix
<1>. HIDE DEF at, D
<1>3. Len(shown) \in Nat /\ DOMAIN shown = 1..Len(shown)
  OBVIOUS
<1>4. ASSUME OtherChain(shown) = {}, NEW n \in 1..Len(shown)
      PROVE  D \intersect 1..n = {} <=> (at = 0 \/ n < at)
  <2>1. CASE D = {}
    BY <1>1, <2>1
  <2>2. CASE D # {}
    <3>1. at \in 1..Len(shown) /\ at \in D /\ \A m \in D : at <= m
      BY <1>1, <1>4, <2>2
    <3>2. at \in 1..n <=> ~(n < at)
      BY <3>1
    <3>3. n < at => D \intersect 1..n = {}
      BY <1>1, <1>3, <3>1
    <3>. QED BY <1>3, <3>1, <3>2, <3>3
  <2>. QED BY <2>1, <2>2
<1>5. ASSUME at # 0 PROVE ~Valid(Prefix(shown, at), 1, NoOptions)
  <2>1. at \in 1..Len(shown)
    BY <1>1, <1>5
  <2>2. at \in 1..at
    BY <2>1
  <2>. QED BY <1>1, <1>2, <1>5, <2>1, <2>2
<1>. QED BY <1>2, <1>3, <1>4, <1>5 DEF FirstDefect, at
-----------------------------------------------------------------------------
(* What can be shown: a receipt of the chain, one of another chain, or one  *)
(* that stands in the place of a receipt.                                   *)
Showable == Range(shown) \union {Astray} \union UNION {Replacements(r) : r \in Range(shown)}

(* Damage leaves a sequence of those. *)
LEMMA DamagedIs ==
    ASSUME shown \in Seq(Range(shown)), NEW d \in Damaged
    PROVE  d \in Seq(Showable)
<1>1. Len(shown) \in Nat /\ DOMAIN shown = 1..Len(shown)
  OBVIOUS
<1>2. \A i \in 1..Len(shown) : shown[i] \in Showable /\ Replacements(shown[i]) \subseteq Showable
  BY <1>1 DEF Showable, Range
<1>3. shown \in Seq(Showable)
  <2>1. Range(shown) \subseteq Showable
    BY DEF Showable
  <2>. QED BY <2>1, SeqMonotonic
<1>4. Astray \in Showable
  BY DEF Showable
<1>. HIDE DEF Showable
<1>5. \A m, n \in Int : 1 <= m /\ n <= Len(shown) => SubSeq(shown, m, n) \in Seq(Showable)
  <2>1. SUFFICES ASSUME NEW m \in Int, NEW n \in Int, 1 <= m, n <= Len(shown)
                 PROVE  SubSeq(shown, m, n) \in Seq(Showable)
    OBVIOUS
  <2>2. \A i \in m..n : shown[i] \in Showable
    <3>1. \A i \in m..n : i \in 1..Len(shown)
      BY <1>1, <2>1
    <3>. QED BY <1>2, <3>1
  <2>. QED BY <2>2, SubSeqProperties
<1>6. ASSUME NEW i \in 1..Len(shown)
      PROVE  /\ Prefix(shown, i - 1) \in Seq(Showable)
             /\ SubSeq(shown, i, Len(shown)) \in Seq(Showable)
             /\ SubSeq(shown, i + 1, Len(shown)) \in Seq(Showable)
  <2>1. /\ i \in Int /\ 1 <= i /\ i <= Len(shown) /\ Len(shown) \in Int /\ 1 \in Int
        /\ i - 1 \in Int /\ i - 1 <= Len(shown) /\ i + 1 \in Int /\ 1 <= i + 1
    BY <1>1
  <2>. QED BY <1>5, <2>1 DEF Prefix
<1>7. ASSUME NEW i \in 1..Len(shown)
      PROVE  Without(shown, i) \in Seq(Showable)
  BY <1>6, ConcatProperties DEF Without
<1>8. ASSUME NEW i \in 1..Len(shown), NEW r \in Showable
      PROVE  With(shown, i, r) \in Seq(Showable) /\ [shown EXCEPT ![i] = r] \in Seq(Showable)
  <2>1. <<r>> \in Seq(Showable)
    OBVIOUS
  <2>2. Prefix(shown, i - 1) \o <<r>> \in Seq(Showable)
    BY <1>6, <2>1, ConcatProperties
  <2>3. With(shown, i, r) \in Seq(Showable)
    BY <1>6, <2>2, ConcatProperties DEF With
  <2>. QED BY <1>3, <2>3, ExceptSeq
<1>9. ASSUME NEW i \in 1..Len(shown), i # Len(shown)
      PROVE  Swapped(shown, i) \in Seq(Showable)
  <2>0. \A n \in Nat : \A j \in 1..n : j # n => j + 1 \in 1..n
    OBVIOUS
  <2>1. i + 1 \in 1..Len(shown)
    BY <1>1, <1>9, <2>0, Zenon
  <2>. DEFINE g == [shown EXCEPT ![i] = shown[i + 1]]
  <2>2. g \in Seq(Showable) /\ Len(g) = Len(shown)
    BY <1>2, <1>3, <2>1, ExceptSeq
  <2>. HIDE DEF g
  <2>3. [g EXCEPT ![i + 1] = shown[i]] \in Seq(Showable)
    BY <1>2, <2>1, <2>2, ExceptSeq
  <2>. QED BY <2>3, Zenon DEF Swapped, g
<1>10. \/ \E i \in 1..Len(shown) : d = Without(shown, i)
       \/ \E i \in 1..Len(shown) : i # Len(shown) /\ d = Swapped(shown, i)
       \/ \E i \in 1..Len(shown) : d = With(shown, i, shown[i]) \/ d = With(shown, i, Astray)
       \/ \E i \in 1..Len(shown) : \E r \in Replacements(shown[i]) : d = [shown EXCEPT ![i] = r]
  <2>. DEFINE A == {Without(shown, i) : i \in DOMAIN shown}
              B == {Swapped(shown, i) : i \in DOMAIN shown \ {Len(shown)}}
              C == {With(shown, i, Astray) : i \in DOMAIN shown}
              D == {With(shown, i, shown[i]) : i \in DOMAIN shown}
              E == UNION {{[shown EXCEPT ![i] = r] : r \in Replacements(shown[i])} : i \in DOMAIN shown}
  <2>1. Damaged = A \union B \union C \union D \union E
    BY DEF Damaged
  <2>2. d \in A => \E i \in 1..Len(shown) : d = Without(shown, i)
    BY <1>1, Zenon
  <2>3. d \in B => \E i \in 1..Len(shown) : i # Len(shown) /\ d = Swapped(shown, i)
    BY <1>1, Zenon
  <2>4. d \in C \/ d \in D =>
           \E i \in 1..Len(shown) : d = With(shown, i, shown[i]) \/ d = With(shown, i, Astray)
    BY <1>1, Zenon
  <2>5. d \in E => \E i \in 1..Len(shown) : \E r \in Replacements(shown[i]) : d = [shown EXCEPT ![i] = r]
    BY <1>1, Zenon
  <2>. HIDE DEF A, B, C, D, E
  <2>6. d \in A \/ d \in B \/ d \in C \/ d \in D \/ d \in E
    BY <2>1
  <2>. QED BY <2>2, <2>3, <2>4, <2>5, <2>6, Zenon
<1>11. ASSUME NEW i \in 1..Len(shown), NEW r \in Replacements(shown[i]), d = [shown EXCEPT ![i] = r]
       PROVE  d \in Seq(Showable)
  <2>1. r \in Showable
    BY <1>2, Zenon
  <2>2. [shown EXCEPT ![i] = r] \in Seq(Showable)
    BY <1>8, <2>1, Zenon
  <2>. QED BY <1>11, <2>2, Zenon
<1>12. ASSUME NEW i \in 1..Len(shown), d = With(shown, i, shown[i]) \/ d = With(shown, i, Astray)
       PROVE  d \in Seq(Showable)
  BY <1>2, <1>4, <1>8, <1>12, Zenon
<1>. QED BY <1>7, <1>9, <1>10, <1>11, <1>12, Zenon

(* A receipt that says what it is, under a proof by the daemon only if the  *)
(* daemon made it.                                                          *)
IsGenuine(r) ==
    /\ r = [content |-> r.content, proof |-> [key |-> r.proof.key, over |-> r.proof.over]]
    /\ r.proof.key \in 1..key =>
          r.proof = Astray.proof \/ \E j \in DOMAIN written : r.proof = written[j].proof

(* What stands in the place of such a receipt is another one.               *)
LEMMA ReplacementsAreGenuine ==
    ASSUME key \in Nat, NEW r, IsGenuine(r), NEW x \in Replacements(r)
    PROVE  IsGenuine(x)
<1>. DEFINE p == [key |-> r.proof.key, over |-> r.proof.over]
<1>1. r = [content |-> r.content, proof |-> p] /\ r.proof = p
  BY DEF IsGenuine
<1>2. None \notin 1..key /\ Stranger \notin 1..key
  BY VerifyAssumption
<1>3. ASSUME NEW c, x = [r EXCEPT !.content = c]
      PROVE  IsGenuine(x)
  <2>1. x = [content |-> c, proof |-> p]
    BY <1>1, <1>3
  <2>2. x.content = c /\ x.proof = r.proof /\ x.proof = p
    BY <1>1, <2>1
  <2>3. x.proof.key = r.proof.key /\ x.proof.over = r.proof.over
    BY <2>2
  <2>. QED BY <2>1, <2>2, <2>3 DEF IsGenuine
<1>4. ASSUME NEW c, x = Seal(c, Stranger)
      PROVE  IsGenuine(x)
  BY <1>2, <1>4 DEF IsGenuine, Seal
<1>5. ASSUME x = [r EXCEPT !.proof.key = None]
      PROVE  IsGenuine(x)
  <2>1. x = [content |-> r.content, proof |-> [r.proof EXCEPT !.key = None]]
    BY <1>1, <1>5
  <2>2. [r.proof EXCEPT !.key = None] = [key |-> None, over |-> r.proof.over]
    BY <1>1
  <2>. QED BY <1>2, <2>1, <2>2 DEF IsGenuine
<1>. QED BY <1>3, <1>4, <1>5 DEF Replacements

(* The next receipt, and the same with some of its fields given.            *)
LEMMA PlainIs ==
    /\ LET n == Len(written) + 1 IN
       /\ Plain.chain = This /\ Plain.seq = n /\ Plain.prev = Previous(written, n)
       /\ ~Plain.terminal /\ Plain.status = "" /\ Plain.rot = None /\ Plain.peer = "absent"
    /\ LET c == [Plain EXCEPT !.peer = "attested", !.response = "answer"] IN
       /\ c.chain = Plain.chain /\ c.seq = Plain.seq /\ c.prev = Plain.prev
       /\ ~c.terminal /\ c.status = "" /\ c.rot = None
    /\ LET c == [Plain EXCEPT !.version = "other"] IN
       /\ c.chain = Plain.chain /\ c.seq = Plain.seq /\ c.prev = Plain.prev
       /\ c.rot = None /\ c.peer = "absent"
    /\ \A s : LET c == [Plain EXCEPT !.terminal = TRUE, !.status = s] IN
       /\ c.chain = Plain.chain /\ c.seq = Plain.seq /\ c.prev = Plain.prev
       /\ c.rot = None /\ c.peer = "absent"
    /\ \A e : LET c == [Plain EXCEPT !.rot = e] IN
       /\ c.chain = Plain.chain /\ c.seq = Plain.seq /\ c.prev = Plain.prev
       /\ c.rot = e /\ c.peer = "absent"
BY DEF Plain, Draft

(* A receipt of another chain is a receipt of another chain.                *)
LEMMA AstrayIs ==
    /\ Astray = Seal(Draft(Other, 1, {}, -1), 1)
    /\ Hash(Astray).chain = Other /\ Hash(Astray).prev = {}
    /\ Hash(Astray).peer = "absent" /\ Hash(Astray).rot = None
    /\ Astray.proof = [key |-> 1, over |-> Hash(Astray)]
BY DEF Astray, Seal, Hash, Draft

(* A step that writes the next receipt leaves a chain that was written.     *)
LEMMA WriteKeeps ==
    ASSUME VerifyInv, NEW c, Write(c), key' \in {key, key + 1},
           c.chain = This, c.seq = Len(written) + 1, c.prev = Previous(written, Len(written) + 1),
           c.rot # None => key' = key + 1 /\ c.rot = Event(key, key + 1),
           AttestedIsCall(c)
    PROVE  VerifyInv'
<1>. DEFINE r == Seal(c, key)
            n == Len(written)
<1>1. /\ damage = 0 /\ shown = written /\ damage' = damage /\ log' = log /\ damage \in Nat
      /\ written' = Append(written, r) /\ shown' = written'
      /\ written \in Seq(Range(written)) /\ log \in Seq(Range(log)) /\ key \in Nat \ {0}
      /\ WellWritten /\ Logged
  BY Zenon DEF VerifyInv, Write
<1>2. r.content = c /\ r.proof.key = key /\ r = Seal(r.content, r.proof.key)
  BY DEF Seal
<1>. HIDE DEF r
<1>3. /\ written' \in Seq(Range(written) \union {r})
      /\ n \in Nat /\ DOMAIN written = 1..n
      /\ Len(written') = n + 1 /\ DOMAIN written' = 1..(n + 1)
      /\ written'[n + 1] = r
      /\ \A i \in 1..n : written'[i] = written[i]
  <2>1. written \in Seq(Range(written) \union {r}) /\ r \in Range(written) \union {r}
    BY <1>1, SeqMonotonic
  <2>. HIDE <1>1
  <2>. DEFINE T == Range(written) \union {r}
  <2>. HIDE DEF T
  <2>2. /\ Append(written, r) \in Seq(T)
        /\ Len(Append(written, r)) = Len(written) + 1
        /\ \A i \in 1.. Len(written) : Append(written, r)[i] = written[i]
        /\ Append(written, r)[Len(written) + 1] = r
    BY <2>1, AppendProperties DEF T
  <2>3. written' \in Seq(T)
    BY <1>1, <2>2
  <2>4. n \in Nat /\ DOMAIN written = 1..n /\ DOMAIN written' = 1..Len(written')
    BY <2>1, <2>3 DEF T
  <2>. QED BY <1>1, <2>2, <2>3, <2>4 DEF T
<1>4. written' \in Seq(Range(written'))
  BY <1>3, SeqOfRange
<1>5. key' \in Nat \ {0} /\ key <= key' /\ key \in 1..key' /\ 1..key \subseteq 1..key'
  BY <1>1
<1>6. \A i \in 1..(n + 1) : i \in 1..n \/ i = n + 1
  BY <1>3
<1>7. \A i \in 1..(n + 1) : i = 1 \/ i - 1 \in 1..n
  BY <1>3
<1>8. \A i \in 1..(n + 1) : Previous(written', i) = Previous(written, i)
  BY <1>3, <1>7 DEF Previous
<1>9. WellWritten'
  <2>1. ASSUME NEW i \in 1..n
        PROVE  LET x == written'[i].content
                   k == written'[i].proof.key
               IN /\ written'[i] = Seal(x, k)
                  /\ k \in 1..key'
                  /\ x.chain = This /\ x.seq = i /\ x.prev = Previous(written', i)
                  /\ x.rot # None => k < key' /\ x.rot = Event(k, k + 1)
                  /\ AttestedIsCall(x)
    <3>1. i \in 1..(n + 1) /\ i \in DOMAIN written /\ written'[i] = written[i]
      BY <1>3
    <3>2. Previous(written', i) = Previous(written, i)
      BY <1>8, <3>1
    <3>3. \A k \in 1..key : k < key => k < key'
      BY <1>1, <1>5
    <3>. QED BY <1>1, <1>5, <3>1, <3>2, <3>3 DEF WellWritten
  <2>2. LET x == r.content
            k == r.proof.key
        IN /\ r = Seal(x, k)
           /\ k \in 1..key'
           /\ x.chain = This /\ x.seq = n + 1 /\ x.prev = Previous(written', n + 1)
           /\ x.rot # None => k < key' /\ x.rot = Event(k, k + 1)
           /\ AttestedIsCall(x)
    <3>1. Previous(written', n + 1) = Previous(written, n + 1)
      BY <1>3, <1>8
    <3>2. key < key + 1
      BY <1>1
    <3>. QED BY <1>2, <1>5, <3>1, <3>2
  <2>. QED BY <1>3, <1>6, <2>1, <2>2 DEF WellWritten
<1>10. Logged'
  BY <1>1, <1>3 DEF Logged
<1>11. Genuine'
  <2>1. SUFFICES ASSUME NEW i \in DOMAIN written'
                 PROVE  LET x == written'[i] IN
                        /\ x = [content |-> x.content,
                                proof |-> [key |-> x.proof.key, over |-> x.proof.over]]
                        /\ \E j \in DOMAIN written' : x.proof = written'[j].proof
    BY <1>1 DEF Genuine
  <2>2. written'[i] = Seal(written'[i].content, written'[i].proof.key)
    BY <1>9 DEF WellWritten
  <2>. QED BY <2>2 DEF Seal
<1>. QED BY <1>1, <1>4, <1>5, <1>9, <1>10, <1>11 DEF VerifyInv

(* Before anything is written nothing is shown. *)
LEMMA InitHolds == Init => VerifyInv
<1>1. SUFFICES ASSUME Init PROVE VerifyInv
  OBVIOUS
<1>2. \A S : <<>> \in Seq(S)
  OBVIOUS
<1>3. DOMAIN (<<>>) = {}
  OBVIOUS
<1>. QED BY <1>1, <1>2, <1>3 DEF Init, VerifyInv, WellWritten, Logged, Genuine

(* The anchor takes the head of the chain. *)
LEMMA AnchorKeeps ==
    ASSUME VerifyInv, Anchor
    PROVE  VerifyInv'
<1>. DEFINE p == [chain |-> This, seq |-> Len(written), hash |-> Hash(LastOf(written)), key |-> key]
            n == Len(log)
<1>1. /\ log' = Append(log, p) /\ written # <<>>
      /\ written' = written /\ key' = key /\ shown' = shown /\ damage' = damage
      /\ written \in Seq(Range(written)) /\ shown \in Seq(Range(shown)) /\ log \in Seq(Range(log))
      /\ key \in Nat \ {0} /\ WellWritten /\ Logged /\ Genuine /\ damage \in Nat /\ (damage = 0 => shown = written)
  BY Zenon DEF Anchor, VerifyInv
<1>2. Len(written) \in DOMAIN written
  BY <1>1
<1>3. p.chain = This /\ p.seq = Len(written) /\ p.hash = Hash(written[p.seq])
  BY DEF LastOf
<1>. HIDE DEF p
<1>4. /\ log' \in Seq(Range(log) \union {p}) /\ n \in Nat
      /\ DOMAIN log' = 1..(n + 1) /\ DOMAIN log = 1..n
      /\ log'[n + 1] = p
      /\ \A i \in 1..n : log'[i] = log[i]
  <2>. DEFINE T == Range(log) \union {p}
  <2>1. log \in Seq(T) /\ p \in T
    BY <1>1, SeqMonotonic
  <2>. HIDE DEF T
  <2>2. /\ Append(log, p) \in Seq(T)
        /\ Len(Append(log, p)) = Len(log) + 1
        /\ \A i \in 1.. Len(log) : Append(log, p)[i] = log[i]
        /\ Append(log, p)[Len(log) + 1] = p
    BY <2>1, AppendProperties
  <2>3. log' \in Seq(T)
    BY <1>1, <2>2
  <2>. QED BY <1>1, <2>1, <2>2, <2>3 DEF T
<1>5. log' \in Seq(Range(log'))
  BY <1>4, SeqOfRange
<1>6. \A i \in 1..(n + 1) : i \in 1..n \/ i = n + 1
  BY <1>4
<1>7. Logged'
  BY <1>1, <1>2, <1>3, <1>4, <1>6 DEF Logged
<1>8. WellWritten' /\ Genuine'
  BY <1>1 DEF WellWritten, Genuine
<1>. QED BY <1>1, <1>5, <1>7, <1>8 DEF VerifyInv

(* Whatever happens to what is shown, no proof by the daemon comes of it.   *)
LEMMA DamageKeeps ==
    ASSUME VerifyInv, Damage
    PROVE  VerifyInv'
<1>1. /\ shown' \in Damaged /\ damage' = damage + 1
      /\ written' = written /\ key' = key /\ log' = log
      /\ written \in Seq(Range(written)) /\ shown \in Seq(Range(shown)) /\ log \in Seq(Range(log))
      /\ key \in Nat \ {0} /\ WellWritten /\ Logged /\ Genuine /\ damage \in Nat
  BY Zenon DEF Damage, VerifyInv
<1>2. shown' \in Seq(Showable)
  BY <1>1, DamagedIs
<1>3. shown' \in Seq(Range(shown'))
  BY <1>2, SeqOfRange
<1>4. \A r \in Range(shown) : IsGenuine(r)
  BY <1>1, ZenonT(30) DEF Genuine, IsGenuine, Range
<1>5. IsGenuine(Astray)
  BY AstrayIs DEF IsGenuine, Seal
<1>6. \A r \in Showable : IsGenuine(r)
  <2>1. \A r \in Range(shown) : \A x \in Replacements(r) : IsGenuine(x)
    BY <1>1, <1>4, ReplacementsAreGenuine
  <2>. QED BY <1>4, <1>5, <2>1 DEF Showable
<1>7. \A i \in DOMAIN shown' : IsGenuine(shown'[i])
  <2>1. \A i \in DOMAIN shown' : shown'[i] \in Showable
    BY <1>2
  <2>. QED BY <1>6, <2>1
<1>8. Genuine'
  <2>1. Astray' = Astray
    BY DEF Astray
  <2>. QED BY <1>1, <1>7, <2>1 DEF Genuine, IsGenuine
<1>9. WellWritten' /\ Logged'
  BY <1>1 DEF WellWritten, Logged
<1>10. damage' # 0
  BY <1>1
<1>. QED BY <1>1, <1>3, <1>8, <1>9, <1>10 DEF VerifyInv

(* Every step keeps the invariant. *)
LEMMA StepHolds == VerifyInv /\ [Next]_vars => VerifyInv'
<1>. SUFFICES ASSUME VerifyInv, [Next]_vars PROVE VerifyInv'
  OBVIOUS
<1>1. CASE Commit
  <2>1. key' = key /\ key' \in {key, key + 1}
    BY <1>1 DEF Commit
  <2>2. CASE Write([Plain EXCEPT !.peer = "attested", !.response = "answer"])
    <3>. DEFINE c == [Plain EXCEPT !.peer = "attested", !.response = "answer"]
    <3>1. Write(c)
      BY <2>2
    <3>2. /\ c.chain = This /\ c.seq = Len(written) + 1 /\ c.prev = Previous(written, Len(written) + 1)
          /\ c.rot = None /\ AttestedIsCall(c)
      BY PlainIs DEF AttestedIsCall
    <3>. HIDE DEF c
    <3>. QED BY <2>1, <3>1, <3>2, WriteKeeps
  <2>3. CASE Write([Plain EXCEPT !.version = "other"])
    <3>. DEFINE c == [Plain EXCEPT !.version = "other"]
    <3>1. Write(c)
      BY <2>3
    <3>2. /\ c.chain = This /\ c.seq = Len(written) + 1 /\ c.prev = Previous(written, Len(written) + 1)
          /\ c.rot = None /\ AttestedIsCall(c)
      BY PlainIs DEF AttestedIsCall
    <3>. HIDE DEF c
    <3>. QED BY <2>1, <3>1, <3>2, WriteKeeps
  <2>. QED BY <1>1, <2>2, <2>3 DEF Commit
<1>2. CASE Close
  <2>1. key' = key /\ key' \in {key, key + 1}
    BY <1>2 DEF Close
  <2>2. PICK s \in {"complete", "interrupted"} : Write([Plain EXCEPT !.terminal = TRUE, !.status = s])
    BY <1>2 DEF Close
  <2>. DEFINE c == [Plain EXCEPT !.terminal = TRUE, !.status = s]
  <2>3. Write(c)
    BY <2>2
  <2>4. /\ c.chain = This /\ c.seq = Len(written) + 1 /\ c.prev = Previous(written, Len(written) + 1)
        /\ c.rot = None /\ AttestedIsCall(c)
    BY PlainIs DEF AttestedIsCall
  <2>. HIDE DEF c
  <2>. QED BY <2>1, <2>3, <2>4, WriteKeeps
<1>3. CASE Rotate
  <2>. DEFINE e == Event(key, key + 1)
              c == [Plain EXCEPT !.rot = e]
  <2>1. Write(c) /\ key' = key + 1
    BY <1>3 DEF Rotate
  <2>. HIDE DEF e
  <2>2. /\ c.chain = This /\ c.seq = Len(written) + 1 /\ c.prev = Previous(written, Len(written) + 1)
        /\ c.rot = e /\ AttestedIsCall(c)
    BY PlainIs DEF AttestedIsCall
  <2>. HIDE DEF c
  <2>3. c.rot = Event(key, key + 1)
    BY <2>2 DEF e
  <2>. QED BY <2>1, <2>2, <2>3, WriteKeeps
<1>4. CASE Anchor
  BY <1>4, AnchorKeeps
<1>5. CASE Damage
  BY <1>5, DamageKeeps
<1>6. CASE UNCHANGED vars
  <2>1. /\ written' = written /\ key' = key /\ log' = log /\ shown' = shown /\ damage' = damage
    BY <1>6 DEF vars
  <2>. QED BY <2>1 DEF VerifyInv, WellWritten, Logged, Genuine
<1>. QED BY <1>1, <1>2, <1>3, <1>4, <1>5, <1>6 DEF Next

(* What the daemon wrote, and which proofs can be shown of it, in every      *)
(* reachable state, however the receipts shown were damaged.                 *)
THEOREM VerifyInductive == Spec => []VerifyInv
BY InitHolds, StepHolds, PTL DEF Spec
-----------------------------------------------------------------------------
(* What the invariant says of the sequences. *)
LEMMA Lengths ==
    ASSUME VerifyInv
    PROVE  /\ written \in Seq(Range(written)) /\ shown \in Seq(Range(shown)) /\ log \in Seq(Range(log))
           /\ Len(written) \in Nat /\ DOMAIN written = 1..Len(written)
           /\ Len(shown) \in Nat /\ DOMAIN shown = 1..Len(shown)
           /\ Len(log) \in Nat /\ DOMAIN log = 1..Len(log)
           /\ key \in Nat /\ 1 \in 1..key
BY DEF VerifyInv

(* Of a receipt that verifies under a key of the daemon, the daemon wrote   *)
(* the content.                                                             *)
LEMMA SignedIsWritten ==
    ASSUME VerifyInv, NEW i \in 1..Len(shown), NEW k \in 1..key, Verified(shown[i], k)
    PROVE  \/ Hash(shown[i]) = Hash(Astray)
           \/ \E j \in 1..Len(written) : Hash(shown[i]) = Hash(written[j])
<1>. DEFINE r == shown[i]
<1>1. r.proof = [key |-> k, over |-> r.content]
  BY DEF Verified
<1>2. r.proof.key \in 1..key /\ r.proof.over = Hash(r)
  BY <1>1 DEF Hash
<1>3. r.proof = Astray.proof \/ \E j \in 1..Len(written) : r.proof = written[j].proof
  BY <1>2, Lengths DEF VerifyInv, Genuine
<1>4. \A j \in 1..Len(written) : written[j].proof.over = Hash(written[j])
  <2>1. SUFFICES ASSUME NEW j \in 1..Len(written) PROVE written[j].proof.over = Hash(written[j])
    OBVIOUS
  <2>2. written[j] = Seal(written[j].content, written[j].proof.key)
    BY Lengths DEF VerifyInv, WellWritten
  <2>3. Seal(written[j].content, written[j].proof.key).proof.over = written[j].content
    BY DEF Seal
  <2>. QED BY <2>2, <2>3, Zenon DEF Hash
<1>5. Astray.proof.over = Hash(Astray)
  BY AstrayIs
<1>. HIDE DEF r
<1>6. Hash(r) = Hash(Astray) \/ \E j \in 1..Len(written) : Hash(r) = Hash(written[j])
  BY <1>2, <1>3, <1>4, <1>5
<1>. QED BY <1>6 DEF r

(* A verifier that starts from a key of the daemon is never led to another.  *)
LEMMA DaemonKeysOnly ==
    ASSUME VerifyInv, NEW g \in 1..key
    PROVE  \A i \in 1..Len(shown) : ActiveKey(shown, g)[i] \in 1..key
<1>. DEFINE f == ActiveKey(shown, g)
            Bad == {i \in 1..Len(shown) : f[i] \notin 1..key}
<1>1. Len(shown) \in Nat /\ key \in Nat
  BY Lengths
<1>2. \A i \in 1..Len(shown) : f[i] = KeyStep(shown, g, f, i)
  <2>1. f = [i \in 1..Len(shown) |-> KeyStep(shown, g, f, i)]
    BY <1>1, ActiveKeyIs
  <2>. HIDE DEF f
  <2>. QED BY <2>1, Zenon
<1>. HIDE DEF f
<1>3. ASSUME NEW i \in 1..Len(shown), NEW k \in 1..key
      PROVE  NextKey(shown[i], k) \in 1..key
  <2>. DEFINE r == shown[i]
              rot == r.content.rot
  <2>1. CASE rot # None /\ Verified(r, k)
    <3>1. Hash(r).rot # None
      BY <2>1 DEF Hash
    <3>2. Hash(r) # Hash(Astray)
      BY <3>1, AstrayIs
    <3>3. PICK j \in 1..Len(written) : Hash(r) = Hash(written[j])
      BY <2>1, <3>2, SignedIsWritten
    <3>. DEFINE w == written[j].proof.key
    <3>4. rot = written[j].content.rot
      BY <3>3 DEF Hash
    <3>5. w \in 1..key /\ w < key /\ rot = Event(w, w + 1)
      BY <2>1, <3>4, Lengths DEF VerifyInv, WellWritten
    <3>. HIDE DEF w
    <3>6. rot.new \in 1..key
      BY <1>1, <3>5 DEF Event
    <3>. QED BY <3>6 DEF NextKey
  <2>2. CASE ~(rot # None /\ Verified(r, k))
    BY <2>2 DEF NextKey
  <2>. QED BY <2>1, <2>2
<1>4. ASSUME Bad # {} PROVE FALSE
  <2>1. Bad \subseteq Nat
    BY <1>1
  <2>. HIDE DEF Bad
  <2>2. PICK i \in Bad : \A j \in Bad : i <= j
    BY <1>4, <2>1, LeastOf
  <2>3. i \in 1..Len(shown) /\ f[i] \notin 1..key
    BY <2>2 DEF Bad
  <2>4. i # 1
    BY <1>2, <2>3 DEF KeyStep
  <2>5. i - 1 \in 1..Len(shown) /\ i - 1 \notin Bad
    BY <1>1, <2>2, <2>3, <2>4
  <2>6. f[i - 1] \in 1..key
    BY <2>5 DEF Bad
  <2>7. f[i] = NextKey(shown[i - 1], f[i - 1])
    BY <1>2, <2>3, <2>4 DEF KeyStep
  <2>. QED BY <1>3, <2>3, <2>5, <2>6, <2>7
<1>. QED BY <1>4 DEF f

(* Contents that agree up to a receipt are a history. *)
LEMMA SameIsHistory ==
    ASSUME VerifyInv, NEW n \in 0..Len(shown), n <= Len(written),
           \A i \in 1..n : Hash(shown[i]) = Hash(written[i])
    PROVE  IsHistory(shown, n)
<1>1. /\ DOMAIN Prefix(shown, n) = 1..n /\ \A i \in 1..n : Prefix(shown, n)[i] = shown[i]
      /\ DOMAIN Prefix(written, n) = 1..n /\ \A i \in 1..n : Prefix(written, n)[i] = written[i]
  <2>1. n \in 0..Len(written)
    BY Lengths
  <2>. QED BY <2>1, Lengths, PrefixIs
<1>2. Contents(Prefix(shown, n)) = Contents(Prefix(written, n))
  BY <1>1 DEF Contents
<1>. QED BY <1>2 DEF IsHistory

(* A receipt that was written, at the end of links that hold, stands where  *)
(* it was written and has its whole history before it.  (The first place    *)
(* where this fails would have a predecessor where it fails.)               *)
LEMMA LinkedBack ==
    ASSUME VerifyInv, NEW n \in 1..Len(shown), NEW m \in 1..Len(written),
           Hash(shown[n]) = Hash(written[m]),
           \A i \in 1..n : LinkValid(shown, i)
    PROVE  n = m /\ IsHistory(shown, n)
<1>. DEFINE Linked(j) == \A i \in 1..j : LinkValid(shown, i)
            Same(j)   == \A i \in 1..j : Hash(shown[i]) = Hash(written[i])
            Fails(j)  == \E l \in 1..Len(written) :
                            Hash(shown[j]) = Hash(written[l]) /\ ~(j = l /\ Same(j))
            Bad == {j \in 1..n : Fails(j)}
<1>1. Len(shown) \in Nat /\ Len(written) \in Nat /\ DOMAIN written = 1..Len(written)
  BY Lengths
<1>2. ASSUME Bad # {} PROVE FALSE
  <2>1. Bad \subseteq Nat
    BY <1>1
  <2>2. PICK j \in Bad : \A i \in Bad : j <= i
    <3>. HIDE DEF Bad
    <3>. QED BY <1>2, <2>1, LeastOf
  <2>3. j \in 1..n
    BY <2>2
  <2>4. PICK l \in 1..Len(written) : Hash(shown[j]) = Hash(written[l]) /\ ~(j = l /\ Same(j))
    BY <2>2
  <2>5. Previous(shown, j) = Previous(written, l)
    <3>1. Hash(shown[j]).prev = Previous(shown, j)
      BY <2>3 DEF LinkValid, Hash
    <3>2. Hash(written[l]).prev = Previous(written, l)
      BY <1>1 DEF VerifyInv, WellWritten, Hash
    <3>. QED BY <2>4, <3>1, <3>2
  <2>6. CASE j = 1
    <3>1. l = 1
      BY <2>5, <2>6 DEF Previous
    <3>2. Same(1)
      <4>1. \A i \in 1..1 : i = 1
        OBVIOUS
      <4>. QED BY <2>4, <2>6, <3>1, <4>1
    <3>. QED BY <2>4, <2>6, <3>1, <3>2
  <2>7. CASE j # 1
    <3>1. l # 1 /\ Hash(shown[j - 1]) = Hash(written[l - 1])
      BY <2>5, <2>7 DEF Previous
    <3>2. j - 1 \in 1..n /\ l - 1 \in 1..Len(written) /\ j - 1 < j
      BY <1>1, <2>3, <2>7, <3>1
    <3>3. j - 1 \notin Bad
      BY <2>2, <2>3, <3>2
    <3>4. j - 1 = l - 1 /\ Same(j - 1)
      BY <3>1, <3>2, <3>3
    <3>5. j = l
      BY <2>3, <3>4
    <3>6. \A i \in 1..j : i = j \/ i \in 1..j - 1
      BY <2>3
    <3>. QED BY <2>4, <3>4, <3>5, <3>6
  <2>. QED BY <2>6, <2>7
<1>3. n = m /\ Same(n)
  <2>1. n \in 1..n
    OBVIOUS
  <2>. QED BY <1>2, <2>1
<1>4. n \in 0..Len(shown) /\ n <= Len(written)
  BY <1>1, <1>3
<1>. QED BY <1>3, <1>4, SameIsHistory

(* What a valid chain is, under whatever options. *)
LEMMA ValidMeans ==
    ASSUME NEW S, NEW rs \in Seq(S), NEW genesis, NEW opt, rs # <<>>, Valid(rs, genesis, opt)
    PROVE  /\ ExpectationsMet(rs, opt)
           /\ OtherChain(rs) = {} /\ AfterTerminal(rs) = {}
           /\ \A i \in 1..Len(rs) : /\ rs[i].content.chain = rs[1].content.chain
                                    /\ Verified(rs[i], ActiveKey(rs, genesis)[i])
                                    /\ LinkValid(rs, i)
<1>1. Len(rs) \in Nat \ {0} /\ DOMAIN rs = 1..Len(rs)
  OBVIOUS
<1>2. BodyBreaks(rs, opt.bodies) # {} => Min(BodyBreaks(rs, opt.bodies)) # 0
  <2>1. BodyBreaks(rs, opt.bodies) \subseteq 1..Len(rs)
    BY <1>1 DEF BodyBreaks
  <2>2. 1..Len(rs) \subseteq Nat /\ 0 \notin 1..Len(rs)
    BY <1>1
  <2>. QED BY <2>1, <2>2, MinIsLeast
<1>3. ChainBreak(rs, genesis) = 0 /\ ExpectationsMet(rs, opt)
  BY <1>1, <1>2 DEF Valid, BrokenAt
<1>4. Defects(rs, genesis) = {}
  BY <1>3, BrokenAtIs
<1>5. OtherChain(rs) = {} /\ LoopBreaks(rs, genesis) = {} /\ AfterTerminal(rs) = {}
  BY <1>4 DEF Defects
<1>6. ASSUME NEW i \in 1..Len(rs)
      PROVE  /\ rs[i].content.chain = rs[1].content.chain
             /\ Verified(rs[i], ActiveKey(rs, genesis)[i])
             /\ LinkValid(rs, i)
  <2>1. rs[i].content.chain = rs[1].content.chain
    BY <1>1, <1>5 DEF OtherChain
  <2>2. FlagsOK(Flags(rs, genesis)[i])
    BY <1>1, <1>5 DEF LoopBreaks
  <2>3. Flags(rs, genesis)[i] = [signature |-> Verified(rs[i], ActiveKey(rs, genesis)[i]),
                                 link      |-> LinkValid(rs, i),
                                 sequence  |-> SequenceValid(rs, i)]
    BY <1>1 DEF Flags
  <2>4. Verified(rs[i], ActiveKey(rs, genesis)[i]) /\ LinkValid(rs, i)
    <3>. DEFINE f == Flags(rs, genesis)[i]
    <3>1. f.signature = Verified(rs[i], ActiveKey(rs, genesis)[i]) /\ f.link = LinkValid(rs, i)
      BY <2>3
    <3>. HIDE DEF f
    <3>2. f.signature /\ f.link
      BY <2>2, Zenon DEF FlagsOK, f
    <3>. QED BY <3>1, <3>2, Zenon
  <2>. QED BY <2>1, <2>4
<1>. QED BY <1>3, <1>5, <1>6

(* A valid chain of this chain's id is what was written. *)
LEMMA ValidIsHistory ==
    ASSUME VerifyInv, NEW opt, shown # <<>>, Ours, Valid(shown, 1, opt)
    PROVE  IsHistory(shown, Len(shown)) /\ Len(shown) \in 1..Len(written)
<1>. DEFINE n == Len(shown)
<1>1. n \in 1..n /\ 1 \in 1..n /\ 1 \in 1..key
  BY Lengths
<1>2. \A i \in 1..n : /\ shown[i].content.chain = shown[1].content.chain
                      /\ Verified(shown[i], ActiveKey(shown, 1)[i])
                      /\ LinkValid(shown, i)
  BY Lengths, ValidMeans
<1>3. ActiveKey(shown, 1)[n] \in 1..key
  BY <1>1, DaemonKeysOnly
<1>4. Hash(shown[n]).chain = This
  BY <1>1, <1>2 DEF Ours, Hash
<1>5. Hash(shown[n]) # Hash(Astray)
  BY <1>4, AstrayIs, VerifyAssumption
<1>6. PICK m \in 1..Len(written) : Hash(shown[n]) = Hash(written[m])
  BY <1>1, <1>2, <1>3, <1>5, SignedIsWritten
<1>. QED BY <1>1, <1>2, <1>6, LinkedBack

(* No options and a proof: what the web verifier says of one receipt.       *)
LEMMA WebSingleIs ==
    ASSUME NEW r, NEW k, WebSingle(r, k, None, None) # "fail"
    PROVE  Verified(r, k)
BY DEF WebSingle, WebVerdict

(* A chain that verifies from its genesis key, whatever the options, is what *)
(* the daemon wrote, from the first receipt on, and not past its end; and a  *)
(* receipt that verifies alone is one a daemon's key signed.                 *)
THEOREM VerdictsAreHistory == Spec => []OnlyHistory
<1>1. VerifyInv => OnlyHistory
  <2>1. SUFFICES ASSUME VerifyInv PROVE OnlyHistory
    OBVIOUS
  <2>2. ASSUME NEW opt \in Options, Ours, Valid(shown, 1, opt)
        PROVE  IsHistory(shown, Len(shown)) /\ AfterTerminal(shown) = {}
    <3>1. CASE shown = <<>>
      <4>1. Len(shown) = 0 /\ DOMAIN shown = {}
        BY <3>1
      <4>2. IsHistory(shown, Len(shown))
        BY <2>1, <4>1, Lengths, SameIsHistory
      <4>. QED BY <4>1, <4>2 DEF AfterTerminal
    <3>2. CASE shown # <<>>
      BY <2>1, <2>2, <3>2, Lengths, ValidMeans, ValidIsHistory
    <3>. QED BY <3>1, <3>2
  <2>3. ASSUME NEW i \in DOMAIN shown, NEW k \in DaemonKeys, WebSingle(shown[i], k, None, None) # "fail"
        PROVE  WasWritten(Hash(shown[i]))
    <3>1. i \in 1..Len(shown) /\ k \in 1..key /\ Verified(shown[i], k)
      BY <2>1, <2>3, Lengths, WebSingleIs DEF DaemonKeys
    <3>2. \/ Hash(shown[i]) = Hash(Astray)
          \/ \E j \in 1..Len(written) : Hash(shown[i]) = Hash(written[j])
      BY <2>1, <3>1, SignedIsWritten
    <3>. QED BY <2>1, <3>2, Lengths DEF WasWritten
  <2>. QED BY <2>2, <2>3 DEF OnlyHistory
<1>. QED BY <1>1, VerifyInductive, PTL

(* VerifyChain points at the first defect of a chain, however it was damaged. *)
THEOREM BreaksAreFirst == Spec => []FirstDefect
<1>1. VerifyInv => FirstDefect
  BY FirstDefectOf DEF VerifyInv
<1>. QED BY <1>1, VerifyInductive, PTL
-----------------------------------------------------------------------------
(* A history, receipt by receipt. *)
LEMMA HistoryIs ==
    ASSUME VerifyInv, NEW n \in 0..Len(shown), IsHistory(shown, n)
    PROVE  n <= Len(written) /\ \A i \in 1..n : Hash(shown[i]) = Hash(written[i])
<1>1. n <= Len(written) /\ n \in 0..Len(written)
  BY Lengths DEF IsHistory
<1>2. /\ DOMAIN Prefix(shown, n) = 1..n /\ \A i \in 1..n : Prefix(shown, n)[i] = shown[i]
      /\ DOMAIN Prefix(written, n) = 1..n /\ \A i \in 1..n : Prefix(written, n)[i] = written[i]
  BY <1>1, Lengths, PrefixIs
<1>3. ASSUME NEW i \in 1..n
      PROVE  Hash(shown[i]) = Hash(written[i])
  <2>1. Contents(Prefix(shown, n))[i] = Hash(shown[i])
    BY <1>2 DEF Contents
  <2>2. Contents(Prefix(written, n))[i] = Hash(written[i])
    BY <1>2 DEF Contents
  <2>. QED BY <2>1, <2>2 DEF IsHistory
<1>. QED BY <1>1, <1>3

(* A valid chain that ends in an anchored receipt is whole up to there.     *)
LEMMA AnchoredIsWhole ==
    ASSUME VerifyInv, NEW i \in 1..Len(log), NEW g, shown # <<>>, Valid(shown, g, NoOptions),
           log[i].hash = Hash(LastOf(shown))
    PROVE  Len(shown) = log[i].seq /\ IsHistory(shown, log[i].seq)
<1>. DEFINE n == Len(shown)
            m == log[i].seq
<1>1. n \in 1..n
  BY Lengths
<1>2. m \in 1..Len(written) /\ log[i].hash = Hash(written[m])
  BY Lengths DEF VerifyInv, Logged
<1>3. Hash(shown[n]) = Hash(written[m])
  BY <1>2 DEF LastOf
<1>4. \A j \in 1..n : LinkValid(shown, j)
  BY Lengths, ValidMeans
<1>. HIDE DEF m
<1>5. n = m /\ IsHistory(shown, n)
  BY <1>1, <1>2, <1>3, <1>4, LinkedBack
<1>. QED BY <1>5 DEF m

(* The newest checkpoint of the chain is the last of the log.               *)
LEMMA NewestIsLast ==
    ASSUME VerifyInv, CheckpointsOf(log, This) # {}
    PROVE  Len(log) \in 1..Len(log) /\ Max(CheckpointsOf(log, This)) = Len(log)
<1>1. CheckpointsOf(log, This) = 1..Len(log)
  BY Lengths DEF CheckpointsOf, VerifyInv, Logged
<1>2. Len(log) \in 1..Len(log)
  BY <1>1, Lengths
<1>3. \A n \in Nat : n \in 1..n => Max(1..n) = n
  <2>1. SUFFICES ASSUME NEW n \in Nat, n \in 1..n PROVE Max(1..n) = n
    OBVIOUS
  <2>2. \A y \in 1..n : n >= y
    OBVIOUS
  <2>3. \A x \in 1..n : x >= n => x = n
    OBVIOUS
  <2>. QED BY <2>1, <2>2, <2>3, Zenon DEF Max
<1>4. Max(1..Len(log)) = Len(log)
  BY <1>2, <1>3, Lengths
<1>. QED BY <1>1, <1>2, <1>4

(* What the options that were asked for promise of a valid chain.           *)
LEMMA ExpectedIsWhole ==
    ASSUME VerifyInv, NEW opt \in Options, Ours, Valid(shown, 1, opt)
    PROVE  LET whole(n) == Len(shown) = n /\ IsHistory(shown, n) IN
           /\ opt.length # None => whole(Len(written))
           /\ opt.final # None => whole(Len(written)) \/ shown = <<>>
           /\ opt.terminal => \/ whole(Len(written))
                              \/ shown = <<>>
                              \/ AfterTerminal(written) # {}
<1>. DEFINE n == Len(shown)
            L == Len(written)
<1>1. /\ opt.length \in {None, L}
      /\ opt.final # None => \E i \in 1..L : i \notin 1..L - 1 /\ opt.final = Hash(written[i])
  BY Lengths DEF Options
<1>2. n \in Nat /\ L \in Nat /\ DOMAIN written = 1..L
  BY Lengths
<1>3. CASE shown = <<>>
  <2>1. n = 0
    BY <1>3
  <2>2. opt.length \in {None, 0}
    BY <1>3 DEF Valid, BrokenAt
  <2>3. opt.length # None => L = 0
    BY <1>1, <2>2
  <2>4. IsHistory(shown, 0)
    BY <1>2, <2>1, SameIsHistory
  <2>. QED BY <1>3, <2>1, <2>3, <2>4
<1>4. CASE shown # <<>>
  <2>1. IsHistory(shown, n) /\ n \in 1..L /\ n \in 1..n
    BY <1>2, <1>4, ValidIsHistory
  <2>2. ExpectationsMet(shown, opt) /\ \A j \in 1..n : LinkValid(shown, j)
    BY <1>4, Lengths, ValidMeans
  <2>3. opt.length # None => n = L
    BY <1>1, <2>2 DEF ExpectationsMet
  <2>4. opt.final # None => n = L
    <3>1. SUFFICES ASSUME opt.final # None PROVE n = L
      OBVIOUS
    <3>2. PICK i \in 1..L : i \notin 1..L - 1 /\ opt.final = Hash(written[i])
      BY <1>1, <3>1
    <3>3. i = L
      <4>1. \A l \in Nat : \A j \in 1..l : j \notin 1..l - 1 => j = l
        OBVIOUS
      <4>. QED BY <1>2, <3>2, <4>1, Zenon
    <3>4. Hash(shown[n]) = Hash(written[i])
      BY <2>2, <3>1, <3>2 DEF ExpectationsMet, LastOf
    <3>. QED BY <2>1, <2>2, <3>3, <3>4, LinkedBack
  <2>5. opt.terminal => n = L \/ AfterTerminal(written) # {}
    <3>1. SUFFICES ASSUME opt.terminal, n # L PROVE n + 1 \in AfterTerminal(written)
      OBVIOUS
    <3>2. Hash(shown[n]).terminal
      BY <2>2, <3>1 DEF ExpectationsMet, LastOf, Hash
    <3>3. Hash(shown[n]) = Hash(written[n])
      <4>1. n \in 0..n
        BY <1>2
      <4>. QED BY <2>1, <4>1, HistoryIs
    <3>4. written[n].content.terminal
      BY <3>2, <3>3 DEF Hash
    <3>5. n + 1 \in 1..L /\ n + 1 > 1 /\ (n + 1) - 1 = n
      BY <1>2, <2>1, <3>1
    <3>. QED BY <1>2, <3>4, <3>5 DEF AfterTerminal
  <2>. QED BY <2>1, <2>3, <2>4, <2>5
<1>. QED BY <1>3, <1>4

(* "To detect truncation": a chain that verifies and has the length, or ends *)
(* in the receipt or the checkpoint, that a witness kept is whole up to      *)
(* there.                                                                    *)
THEOREM WitnessesDetectTruncation == Spec => []WitnessedWhole
<1>1. VerifyInv => WitnessedWhole
  <2>1. SUFFICES ASSUME VerifyInv PROVE WitnessedWhole
    OBVIOUS
  <2>. DEFINE whole(n) == Len(shown) = n /\ IsHistory(shown, n)
  <2>2. ASSUME NEW opt \in Options, Ours, Valid(shown, 1, opt)
        PROVE  /\ opt.length # None => whole(Len(written))
               /\ opt.final # None => whole(Len(written)) \/ shown = <<>>
               /\ opt.terminal => \/ whole(Len(written))
                                  \/ shown = <<>>
                                  \/ AfterTerminal(written) # {}
    BY <2>1, <2>2, ExpectedIsWhole
  <2>3. ASSUME NEW k \in DaemonKeys, VerifyAccepts(log, This, k, DaemonKeys, shown)
        PROVE  whole(LastOf(log).seq)
    <3>. DEFINE last == Max(CheckpointsOf(log, This))
                g == GenesisKey(shown, k, DaemonKeys)
    <3>1. /\ CheckpointsOf(log, This) # {} /\ shown # <<>>
          /\ log[last].hash = Hash(LastOf(shown))
          /\ Valid(shown, g, NoOptions)
      BY <2>3 DEF VerifyAccepts, AnchorAccepts, ChainAccepted
    <3>2. Len(log) \in 1..Len(log) /\ last = Len(log)
      BY <2>1, <3>1, NewestIsLast
    <3>. HIDE DEF last, g
    <3>3. Len(shown) = log[last].seq /\ IsHistory(shown, log[last].seq)
      BY <2>1, <3>1, <3>2, AnchoredIsWhole
    <3>. QED BY <3>2, <3>3 DEF LastOf
  <2>4. ASSUME NEW i \in DOMAIN log, NEW k \in DaemonKeys, WebChain(shown, 1, log[i], k) = "full"
        PROVE  whole(log[i].seq)
    <3>1. shown # <<>>
      BY <2>4 DEF WebChain
    <3>2. Valid(shown, 1, NoOptions) /\ AnchorTrusted(shown, log[i], k)
      BY <2>4, <3>1 DEF WebChain, WebVerdict
    <3>3. i \in 1..Len(log) /\ log[i].hash = Hash(LastOf(shown))
      BY <2>1, <3>2, Lengths DEF AnchorTrusted
    <3>. QED BY <2>1, <3>1, <3>2, <3>3, AnchoredIsWhole
  <2>. QED BY <2>2, <2>3, <2>4 DEF WitnessedWhole
<1>. QED BY <1>1, VerifyInductive, PTL
-----------------------------------------------------------------------------
(* What verify-event has looked at when a receipt does not fail.            *)
LEMMA NotFailedIs ==
    ASSUME VerifyInv, NEW i \in 1..Len(shown), NEW k, EventVerdict(shown, k, i) # "failed"
    PROVE  /\ Verified(shown[i], ActiveKey(shown, k)[i])
           /\ SequenceValid(shown, i)
           /\ \A j \in 1..Len(shown) : LinkValid(shown, j)
           /\ EventVerdict(shown, k, i) = "confirmed" => shown[i].content.peer = "attested"
<1>. DEFINE flags == Flags(shown, k)
<1>1. /\ DOMAIN flags = 1..Len(shown)
      /\ \A j \in 1..Len(shown) : /\ flags[j].signature = Verified(shown[j], ActiveKey(shown, k)[j])
                                  /\ flags[j].link = LinkValid(shown, j)
                                  /\ flags[j].sequence = SequenceValid(shown, j)
  <2>1. flags = [j \in 1..Len(shown) |->
                    [signature |-> Verified(shown[j], ActiveKey(shown, k)[j]),
                     link      |-> LinkValid(shown, j),
                     sequence  |-> SequenceValid(shown, j)]]
    BY Lengths DEF Flags
  <2>. HIDE DEF flags
  <2>. QED BY <2>1
<1>2. ChecksPass(shown, k, i)
  BY Zenon DEF EventVerdict
<1>3. flags[i].signature /\ LinkageHolds(flags, i) /\ flags[i].sequence
  BY <1>2, Zenon DEF ChecksPass, InContext
<1>4. EventVerdict(shown, k, i) = "confirmed" => shown[i].content.peer = "attested"
  BY <1>2, "noProvenance" # "confirmed" DEF EventVerdict
<1>. HIDE DEF flags
<1>5. \A j \in 1..Len(shown) : LinkValid(shown, j)
  BY <1>1, <1>3, Zenon DEF LinkageHolds
<1>. QED BY <1>1, <1>3, <1>4, <1>5, Zenon

(* Whose content is under a proof that holds in the chain.                  *)
LEMMA NotFailedIsWritten ==
    ASSUME VerifyInv, NEW i \in 1..Len(shown), NEW k \in 1..key, EventVerdict(shown, k, i) # "failed"
    PROVE  Hash(shown[i]) = Hash(Astray) \/ \E m \in 1..Len(written) : Hash(shown[i]) = Hash(written[m])
<1>1. ActiveKey(shown, k)[i] \in 1..key
  BY DaemonKeysOnly
<1>. QED BY <1>1, NotFailedIs, SignedIsWritten

(* A receipt that verify-event does not fail has its history before it.     *)
LEMMA NotFailedIsHistory ==
    ASSUME VerifyInv, NEW i \in 1..Len(shown), NEW k \in 1..key, Ours,
           EventVerdict(shown, k, i) # "failed"
    PROVE  IsHistory(shown, i)
<1>1. \A j \in 1..Len(shown) : LinkValid(shown, j)
  BY NotFailedIs
<1>2. Hash(shown[i]) # Hash(Astray)
  <2>1. SUFFICES ASSUME Hash(shown[i]) = Hash(Astray) PROVE FALSE
    OBVIOUS
  <2>2. Hash(shown[i]).chain = Other /\ Hash(shown[i]).prev = {}
    BY <2>1, AstrayIs
  <2>3. CASE i = 1
    <3>1. Hash(shown[1]).chain = This
      BY Lengths DEF Ours, Hash
    <3>. QED BY <2>2, <2>3, <3>1, VerifyAssumption
  <2>4. CASE i # 1
    <3>1. Hash(shown[i]).prev = {Hash(shown[i - 1])}
      BY <1>1, <2>4 DEF LinkValid, Previous, Hash
    <3>. QED BY <2>2, <3>1
  <2>. QED BY <2>3, <2>4
<1>3. PICK m \in 1..Len(written) : Hash(shown[i]) = Hash(written[m])
  BY <1>2, NotFailedIsWritten
<1>4. \A j \in 1..i : LinkValid(shown, j)
  BY <1>1, Lengths
<1>. QED BY <1>3, <1>4, LinkedBack

(* An attested receipt that the daemon wrote is a call's.                   *)
LEMMA ConfirmedIsCall ==
    ASSUME VerifyInv, NEW i \in 1..Len(shown), NEW k \in 1..key,
           EventVerdict(shown, k, i) = "confirmed"
    PROVE  LET c == shown[i].content IN
           c.peer = "attested" /\ c.chain = This /\ ~c.terminal /\ StatusValid(c) /\ c.rot = None
<1>1. Hash(shown[i]).peer = "attested"
  BY NotFailedIs, "failed" # "confirmed" DEF Hash
<1>2. Hash(shown[i]) # Hash(Astray)
  BY <1>1, AstrayIs, "attested" # "absent"
<1>3. PICK m \in 1..Len(written) : Hash(shown[i]) = Hash(written[m])
  BY <1>2, NotFailedIsWritten, "failed" # "confirmed"
<1>. DEFINE c == Hash(written[m])
<1>4. AttestedIsCall(c) /\ c.chain = This
  BY Lengths DEF VerifyInv, WellWritten, Hash
<1>5. c = shown[i].content /\ c.peer = "attested"
  BY <1>1, <1>3 DEF Hash
<1>. HIDE DEF c
<1>6. ~c.terminal /\ c.status = "" /\ c.rot = None
  BY <1>4, <1>5, Zenon DEF AttestedIsCall
<1>7. StatusValid(c)
  BY <1>6, Zenon DEF StatusValid
<1>. QED BY <1>4, <1>5, <1>6, <1>7, Zenon

(* A batch of confirmed receipts from the first on is a chain without fault. *)
LEMMA ConfirmedBatchIsSound ==
    ASSUME VerifyInv, NEW i \in 1..Len(shown), NEW k \in 1..key,
           \A j \in 1..i : EventVerdict(shown, k, j) = "confirmed"
    PROVE  Valid(Prefix(shown, i), k, NoOptions)
<1>1. 1..i \subseteq 1..Len(shown) /\ 1 \in 1..i /\ i \in 0..Len(shown)
  BY Lengths
<1>2. \A j \in 1..i : /\ shown[j].content.chain = This /\ ~shown[j].content.terminal
                      /\ StatusValid(shown[j].content) /\ shown[j].content.rot = None
  BY <1>1, ConfirmedIsCall, Zenon
<1>3. \A j \in 1..i : /\ Verified(shown[j], ActiveKey(shown, k)[j])
                      /\ LinkValid(shown, j) /\ SequenceValid(shown, j)
  BY <1>1, NotFailedIs, "failed" # "confirmed"
<1>4. \A j \in 1..i : j \notin OtherChain(shown)
  BY <1>1, <1>2 DEF OtherChain
<1>5. \A j \in 1..i : j \notin AfterTerminal(shown)
  <2>1. SUFFICES ASSUME NEW j \in 1..i, j > 1, shown[j - 1].content.terminal PROVE FALSE
    BY DEF AfterTerminal
  <2>2. j - 1 \in 1..i
    BY <2>1
  <2>. QED BY <1>2, <2>1, <2>2
<1>6. \A j \in 1..i : j \notin LoopBreaks(shown, k)
  <2>1. SUFFICES ASSUME NEW j \in 1..i PROVE j \notin LoopBreaks(shown, k)
    OBVIOUS
  <2>2. Flags(shown, k)[j] = [signature |-> Verified(shown[j], ActiveKey(shown, k)[j]),
                              link      |-> LinkValid(shown, j),
                              sequence  |-> SequenceValid(shown, j)]
    BY <1>1, Lengths DEF Flags
  <2>3. FlagsOK(Flags(shown, k)[j])
    <3>. DEFINE f == Flags(shown, k)[j]
    <3>1. /\ f.signature = Verified(shown[j], ActiveKey(shown, k)[j])
          /\ f.link = LinkValid(shown, j)
          /\ f.sequence = SequenceValid(shown, j)
      BY <2>2
    <3>. HIDE DEF f
    <3>2. FlagsOK(f)
      BY <1>3, <3>1, Zenon DEF FlagsOK
    <3>. QED BY <3>2, Zenon DEF f
  <2>. QED BY <1>2, <2>3, Zenon DEF LoopBreaks
<1>7. Defects(Prefix(shown, i), k) = {}
  <2>1. Defects(Prefix(shown, i), k) = Defects(shown, k) \intersect 1..i
    BY Lengths, DefectsOfPrefix
  <2>. QED BY <1>4, <1>5, <1>6, <2>1 DEF Defects
<1>8. Prefix(shown, i) \in Seq(Range(shown))
  BY <1>1, Lengths, PrefixIs
<1>. QED BY <1>7, <1>8, BrokenAtIs

(* A receipt verify-event confirms, or finds without provenance, is one the *)
(* daemon wrote, and so is everything before it, although other receipts of *)
(* the chain may fail; a batch from the first receipt on is confirmed only  *)
(* if each of it is, and then doctor finds no fault with it.                *)
THEOREM ConfirmedReceiptsAreHistory == Spec => []ConfirmedIsHistory
<1>1. VerifyInv => ConfirmedIsHistory
  <2>1. SUFFICES ASSUME VerifyInv, NEW i \in 1..Len(shown), NEW k \in 1..key
                 PROVE  /\ Ours /\ EventVerdict(shown, k, i) # "failed" => IsHistory(shown, i)
                        /\ EventExit(shown, k, 1..i) = 0 =>
                              /\ \A j \in 1..i : shown[j].content.peer = "attested"
                              /\ DoctorHead(Prefix(shown, i), k) # "fail"
    BY Lengths DEF ConfirmedIsHistory, DaemonKeys
  <2>2. Ours /\ EventVerdict(shown, k, i) # "failed" => IsHistory(shown, i)
    BY <2>1, NotFailedIsHistory
  <2>3. ASSUME EventExit(shown, k, 1..i) = 0
        PROVE  /\ \A j \in 1..i : shown[j].content.peer = "attested"
               /\ DoctorHead(Prefix(shown, i), k) # "fail"
    <3>1. \A j \in 1..i : EventVerdict(shown, k, j) \notin {"failed", "noProvenance"}
      BY <2>3 DEF EventExit
    <3>2. \A j \in 1..i : EventVerdict(shown, k, j) = "confirmed"
      BY <3>1 DEF EventVerdict
    <3>3. Valid(Prefix(shown, i), k, NoOptions)
      BY <2>1, <3>2, ConfirmedBatchIsSound
    <3>4. DoctorHead(Prefix(shown, i), k) # "fail"
      BY <3>3 DEF DoctorHead
    <3>5. \A j \in 1..i : j \in 1..Len(shown)
      BY <2>1, Lengths
    <3>6. \A j \in 1..i : shown[j].content.peer = "attested"
      BY <2>1, <3>2, <3>5, ConfirmedIsCall, Zenon
    <3>. QED BY <3>4, <3>6
  <2>. QED BY <2>2, <2>3
<1>. QED BY <1>1, VerifyInductive, PTL
=============================================================================
