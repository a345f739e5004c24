------------------------- MODULE SignalFunnelProofs -------------------------
(***************************************************************************)
(* The signal funnel, for any pairs, strategies, caps, scores, batches and *)
(* lengths of the queue, and any interleaving of scans, arrivals, drains,  *)
(* evaluations, displacements and stops.                                   *)
(*                                                                         *)
(* First the pre-screen: a batch is admitted one candidate after the       *)
(* other, and each admission keeps the caps (AdmitKeeps).  Then what the   *)
(* handlers of the loop share: each of them re-arms what it drops, so that *)
(* no orphan is lost (Lost).  FunnelInv puts the two together.             *)
(***************************************************************************)
EXTENDS SignalFunnel, FiniteSetTheorems, SequenceTheorems, WellFoundedInduction, TLAPS

NoRepeats(s) == \A i, k \in DOMAIN s : s[i] = s[k] => i = k
Known(p) == p.charged \cup p.displaced

PreShape(p) ==
    DOMAIN p = { "seen", "charged", "evaluated", "declined", "displaced", "admitted", "score",
                 "notices", "displacements", "day_displacements" }
AdmittedOnce(p) ==
    /\ p.admitted \in Seq(Pairs) /\ NoRepeats(p.admitted)
    /\ \A i \in DOMAIN p.admitted : p.admitted[i] \in p.charged
PreTyped(p) ==
    /\ PreShape(p)
    /\ p.seen \subseteq p.charged /\ p.charged \subseteq Pairs /\ p.displaced \subseteq Pairs
    /\ AdmittedOnce(p)
    /\ p.score \in [Pairs -> Nat]
CapsOf(p) ==
    /\ IsFiniteSet(p.charged) /\ Cardinality(p.charged) <= MaxDay
    /\ \A s \in Strategies : Cardinality(OfStrategy(p.charged, s)) <= StrategyCap[s]

(* A set of natural numbers that has an element has a least one.           *)
LEMMA LeastOf ==
    ASSUME NEW B \in SUBSET Nat, NEW b \in B
    PROVE  \E n \in B : \A k \in B : n <= k
<1>1. PICK n \in B : \A k \in B : ~(<<k, n>> \in OpToRel(<, Nat))
  BY NatLessThanWellFounded, WFMin
<1>2. \A k \in B : ~(k < n)
  BY <1>1 DEF OpToRel
<1> QED BY <1>2

(* RemoveFirst, of a sequence without repetitions. *)
LEMMA RemovesTheOne ==
    ASSUME NEW s \in Seq(Pairs), NoRepeats(s), NEW e
    PROVE  /\ RemoveFirst(s, e) \in Seq(Pairs) /\ NoRepeats(RemoveFirst(s, e))
           /\ \A i \in DOMAIN RemoveFirst(s, e) : RemoveFirst(s, e)[i] \in {s[k] : k \in DOMAIN s} \ {e}
<1>1. CASE ~ \E i \in 1 .. Len(s) : s[i] = e
  <2>1. RemoveFirst(s, e) = s
    BY <1>1 DEF RemoveFirst
  <2>2. DOMAIN s = 1 .. Len(s)
    OBVIOUS
  <2> QED BY <1>1, <2>1, <2>2
<1>2. CASE \E i \in 1 .. Len(s) : s[i] = e
  <2> DEFINE I == {i \in 1 .. Len(s) : s[i] = e}
             j == Min(I)
             r == RemoveAt(s, j)
  <2>1. PICK least \in I : \A k \in I : least <= k
    <3>1. I \in SUBSET Nat
      OBVIOUS
    <3>2. PICK i \in I : TRUE
      BY <1>2
    <3> HIDE DEF I
    <3> QED BY <3>1, <3>2, LeastOf
  <2>2. j \in 1 .. Len(s) /\ s[j] = e
    <3>1. j \in I
      BY <2>1 DEF Min
    <3> QED BY <3>1
  <2>3. RemoveFirst(s, e) = r
    BY <1>2 DEF RemoveFirst, SelectInSeq
  <2> HIDE DEF j, I
  <2>4. /\ r \in Seq(Pairs) /\ Len(r) = Len(s) - 1
        /\ \A i \in 1 .. Len(r) : r[i] = IF i < j THEN s[i] ELSE s[i + 1]
    <3> DEFINE a == SubSeq(s, 1, j - 1)
               b == SubSeq(s, j + 1, Len(s))
    <3>1. j \in Nat /\ Len(s) \in Nat /\ 1 <= j /\ j <= Len(s)
      BY <2>2
    <3>2. a \in Seq(Pairs) /\ Len(a) = j - 1 /\ \A i \in 1 .. j - 1 : a[i] = s[i]
      BY <3>1
    <3>3. b \in Seq(Pairs) /\ Len(b) = Len(s) - j /\ \A i \in 1 .. Len(s) - j : b[i] = s[j + i]
      BY <3>1
    <3> HIDE DEF a, b
    <3>4. /\ a \o b \in Seq(Pairs) /\ Len(a \o b) = Len(a) + Len(b)
          /\ \A i \in 1 .. Len(a) + Len(b) : (a \o b)[i] = IF i <= Len(a) THEN a[i] ELSE b[i - Len(a)]
      BY <3>2, <3>3
    <3>5. r = a \o b
      BY DEF RemoveAt, a, b
    <3> HIDE DEF r
    <3>6. Len(r) = Len(s) - 1 /\ \A i \in 1 .. Len(s) - 1 : r[i] = IF i < j THEN s[i] ELSE s[i + 1]
      <4>1. Len(r) = Len(s) - 1
        BY <3>1, <3>2, <3>3, <3>4, <3>5
      <4>2. ASSUME NEW i \in 1 .. Len(s) - 1
            PROVE  r[i] = IF i < j THEN s[i] ELSE s[i + 1]
        <5>1. r[i] = IF i <= j - 1 THEN a[i] ELSE b[i - (j - 1)]
          BY <3>1, <3>2, <3>3, <3>4, <3>5
        <5>2. CASE i < j
          BY <3>1, <3>2, <5>1, <5>2
        <5>3. CASE ~(i < j)
          <6>1. i - (j - 1) \in 1 .. Len(s) - j /\ j + (i - (j - 1)) = i + 1
            BY <3>1, <5>3
          <6> QED BY <3>1, <3>3, <5>1, <5>3, <6>1
        <5> QED BY <5>2, <5>3
      <4> QED BY <4>1, <4>2
    <3> QED BY <3>4, <3>5, <3>6
  <2> HIDE DEF r
  <2>5. DOMAIN r = 1 .. Len(r) /\ DOMAIN s = 1 .. Len(s) /\ Len(s) \in Nat
    BY <2>4
  <2> DEFINE at(i) == IF i < j THEN i ELSE i + 1
  <2>6. \A i \in DOMAIN r : at(i) \in DOMAIN s /\ at(i) # j /\ r[i] = s[at(i)]
    BY <2>2, <2>4, <2>5
  <2>7. \A i, k \in DOMAIN r : at(i) = at(k) => i = k
    BY <2>2, <2>4, <2>5
  <2>8. NoRepeats(r)
    BY <2>6, <2>7 DEF NoRepeats
  <2>9. \A i \in DOMAIN r : r[i] \in {s[k] : k \in DOMAIN s} \ {e}
    BY <2>2, <2>5, <2>6 DEF NoRepeats
  <2> QED BY <2>3, <2>4, <2>8, <2>9
<1> QED BY <1>1, <1>2

(* A pair that is admitted anew goes to the end. *)
LEMMA AppendsOne ==
    ASSUME NEW s \in Seq(Pairs), NoRepeats(s), NEW e \in Pairs
    PROVE  LET t == Append(RemoveFirst(s, e), e)
           IN  /\ t \in Seq(Pairs) /\ NoRepeats(t)
               /\ \A i \in DOMAIN t : t[i] \in {s[k] : k \in DOMAIN s} \cup {e}
<1> DEFINE r == RemoveFirst(s, e)
           t == Append(r, e)
<1>1. /\ r \in Seq(Pairs) /\ NoRepeats(r)
      /\ \A i \in DOMAIN r : r[i] \in {s[k] : k \in DOMAIN s} \ {e}
  BY RemovesTheOne
<1> HIDE DEF r
<1>2. /\ t \in Seq(Pairs) /\ Len(t) = Len(r) + 1 /\ Len(r) \in Nat
      /\ t[Len(r) + 1] = e /\ \A i \in 1 .. Len(r) : t[i] = r[i]
  BY <1>1
<1>3. DOMAIN t = 1 .. Len(r) + 1 /\ DOMAIN r = 1 .. Len(r)
  BY <1>1, <1>2
<1> HIDE DEF t
<1>4. NoRepeats(t)
  <2> SUFFICES ASSUME NEW i \in DOMAIN t, NEW k \in DOMAIN t, t[i] = t[k]
               PROVE  i = k
    BY DEF NoRepeats
  <2>1. CASE i \in DOMAIN r /\ k \in DOMAIN r
    BY <1>1, <1>2, <1>3, <2>1 DEF NoRepeats
  <2>2. CASE i \in DOMAIN r /\ k \notin DOMAIN r
    <3>1. t[k] = e /\ t[i] = r[i]
      BY <1>2, <1>3, <2>2
    <3> QED BY <1>1, <2>2, <3>1
  <2>3. CASE i \notin DOMAIN r /\ k \in DOMAIN r
    <3>1. t[i] = e /\ t[k] = r[k]
      BY <1>2, <1>3, <2>3
    <3> QED BY <1>1, <2>3, <3>1
  <2>4. CASE i \notin DOMAIN r /\ k \notin DOMAIN r
    BY <1>2, <1>3, <2>4
  <2> QED BY <2>1, <2>2, <2>3, <2>4
<1>5. \A i \in DOMAIN t : t[i] \in {s[k] : k \in DOMAIN s} \cup {e}
  <2> SUFFICES ASSUME NEW i \in DOMAIN t
               PROVE  t[i] \in {s[k] : k \in DOMAIN s} \cup {e}
    OBVIOUS
  <2>1. CASE i \in DOMAIN r
    BY <1>1, <1>2, <1>3, <2>1
  <2>2. CASE i \notin DOMAIN r
    BY <1>2, <1>3, <2>2
  <2> QED BY <2>1, <2>2
<1> QED BY <1>2, <1>4, <1>5 DEF t, r

(* A victim can be told: of the lowest scores, the one admitted first. *)
LEMMA WorstExists ==
    ASSUME NEW p, PreTyped(p), NEW v \in SUBSET Pairs, v # {},
           \A pair \in v : \E i \in DOMAIN p.admitted : p.admitted[i] = pair
    PROVE  Worst(p, v) \in v
<1>1. \A pair \in v : p.score[pair] \in Nat
  BY DEF PreTyped
<1> DEFINE S == {p.score[pair] : pair \in v}
<1>2. PICK low \in S : \A k \in S : low <= k
  <2>1. S \in SUBSET Nat /\ \E b : b \in S
    BY <1>1
  <2> HIDE DEF S
  <2> QED BY <2>1, LeastOf
<1> DEFINE D == {i \in DOMAIN p.admitted : p.admitted[i] \in v /\ p.score[p.admitted[i]] = low}
<1>3. PICK first \in D : \A k \in D : first <= k
  <2>1. DOMAIN p.admitted \subseteq Nat
    BY DEF PreTyped, AdmittedOnce
  <2>2. PICK pair \in v : p.score[pair] = low
    BY <1>2
  <2>3. PICK i \in DOMAIN p.admitted : p.admitted[i] = pair
    BY <2>2
  <2>4. i \in D /\ D \in SUBSET Nat
    BY <2>1, <2>2, <2>3
  <2> HIDE DEF D
  <2> QED BY <2>4, LeastOf
<1> DEFINE worst == p.admitted[first]
<1>4. worst \in v /\ p.score[worst] = low /\ first \in DOMAIN p.admitted /\ DOMAIN p.admitted \subseteq Nat
  BY <1>3 DEF PreTyped, AdmittedOnce
<1>5. ASSUME NEW other \in v \ {worst}
      PROVE  \/ p.score[worst] < p.score[other]
             \/ p.score[worst] = p.score[other]
                /\ \E i, k \in DOMAIN p.admitted : p.admitted[i] = worst /\ p.admitted[k] = other /\ i < k
  <2>1. p.score[worst] <= p.score[other] /\ p.score[worst] \in Nat /\ p.score[other] \in Nat
    BY <1>1, <1>2, <1>4
  <2>2. CASE p.score[worst] = p.score[other]
    <3>1. PICK k \in DOMAIN p.admitted : p.admitted[k] = other
      OBVIOUS
    <3>2. k \in D
      BY <1>4, <2>2, <3>1
    <3>3. first <= k /\ first # k
      BY <1>3, <3>1, <3>2
    <3>4. first < k
      BY <1>4, <3>3
    <3> QED BY <1>4, <2>2, <3>1, <3>4
  <2> QED BY <2>1, <2>2
<1> HIDE DEF worst
<1> QED BY <1>4, <1>5 DEF Worst

(* _commit_displacement_locked, on the sets and on the order of admission. *)
LEMMA DisplaceKeeps ==
    ASSUME NEW p, PreTyped(p), NEW victim \in p.charged
    PROVE  /\ PreTyped(Displace(p, victim))
           /\ Displace(p, victim).charged = p.charged \ {victim}
           /\ Displace(p, victim).displaced = p.displaced \cup {victim}
           /\ Displace(p, victim).seen = p.seen \ {victim}
<1> DEFINE q == Displace(p, victim)
           rest == RemoveFirst(p.admitted, victim)
<1>2. rest \in Seq(Pairs) /\ NoRepeats(rest)
      /\ \A i \in DOMAIN rest : rest[i] \in {p.admitted[k] : k \in DOMAIN p.admitted} \ {victim}
  BY RemovesTheOne DEF PreTyped, AdmittedOnce
<1>3. /\ q.seen = p.seen \ {victim} /\ q.charged = p.charged \ {victim} /\ q.admitted = rest
      /\ q.displaced = p.displaced \cup {victim} /\ q.score = p.score /\ PreShape(q)
  BY DEF Displace, PreTyped, PreShape
<1> HIDE DEF q, rest
<1>4. \A i \in DOMAIN rest : rest[i] \in q.charged
  BY <1>2, <1>3 DEF PreTyped, AdmittedOnce
<1>5. AdmittedOnce(q)
  BY <1>2, <1>3, <1>4 DEF AdmittedOnce
<1>6. PreTyped(q)
  BY <1>3, <1>5 DEF PreTyped
<1> QED BY <1>3, <1>6 DEF q

(* A charge, of a pair that may be charged already. *)
LEMMA ChargeKeeps ==
    ASSUME NEW p, PreTyped(p), NEW cand \in [pair : Pairs, score : Scores]
    PROVE  /\ PreTyped(Charge(p, cand))
           /\ Charge(p, cand).charged = p.charged \cup {cand.pair}
           /\ Charge(p, cand).displaced = p.displaced
<1> DEFINE q == Charge(p, cand)
           e == cand.pair
           t == Append(RemoveFirst(p.admitted, e), e)
<1>2. e \in Pairs /\ cand.score \in Nat
  BY PreScreenAssumption
<1>3. t \in Seq(Pairs) /\ NoRepeats(t)
      /\ \A i \in DOMAIN t : t[i] \in {p.admitted[k] : k \in DOMAIN p.admitted} \cup {e}
  BY <1>2, AppendsOne DEF PreTyped, AdmittedOnce
<1>4. [p.score EXCEPT ![e] = cand.score] \in [Pairs -> Nat]
  BY <1>2 DEF PreTyped
<1>5. /\ q.seen = p.seen \cup {e} /\ q.charged = p.charged \cup {e} /\ q.admitted = t
      /\ q.displaced = p.displaced /\ q.score = [p.score EXCEPT ![e] = cand.score] /\ PreShape(q)
  BY DEF Charge, PreTyped, PreShape
<1> HIDE DEF q, t, e
<1>6. AdmittedOnce(q)
  BY <1>3, <1>5 DEF PreTyped, AdmittedOnce
<1>7. PreTyped(q)
  BY <1>2, <1>4, <1>5, <1>6 DEF PreTyped
<1> QED BY <1>5, <1>7 DEF q, e

(* A strategy's pairs, when the charged ones gain one or lose one. *)
LEMMA StrategyCounts ==
    ASSUME NEW S \in SUBSET Pairs, NEW x \in Pairs, NEW s
    PROVE  /\ OfStrategy(S \cup {x}, s) = IF StrategyOf[x] = s THEN OfStrategy(S, s) \cup {x} ELSE OfStrategy(S, s)
           /\ OfStrategy(S \ {x}, s) = IF StrategyOf[x] = s THEN OfStrategy(S, s) \ {x} ELSE OfStrategy(S, s)
BY DEF OfStrategy

(* A charge where there is room, for the day and for the strategy. *)
LEMMA RoomForOne ==
    ASSUME NEW S \in SUBSET Pairs, IsFiniteSet(S), NEW x \in Pairs \ S,
           Cardinality(S) < MaxDay, Cardinality(OfStrategy(S, StrategyOf[x])) < StrategyCap[StrategyOf[x]],
           \A s \in Strategies : Cardinality(OfStrategy(S, s)) <= StrategyCap[s]
    PROVE  /\ IsFiniteSet(S \cup {x}) /\ Cardinality(S \cup {x}) <= MaxDay
           /\ \A s \in Strategies : Cardinality(OfStrategy(S \cup {x}, s)) <= StrategyCap[s]
<1>1. IsFiniteSet(S \cup {x}) /\ Cardinality(S \cup {x}) = Cardinality(S) + 1 /\ Cardinality(S) \in Nat
  BY FS_AddElement, FS_CardinalityType
<1>2. ASSUME NEW s \in Strategies
      PROVE  Cardinality(OfStrategy(S \cup {x}, s)) <= StrategyCap[s]
  <2>1. CASE StrategyOf[x] = s
    <3>1. OfStrategy(S \cup {x}, s) = OfStrategy(S, s) \cup {x}
      BY <2>1, StrategyCounts
    <3>2. IsFiniteSet(OfStrategy(S, s)) /\ x \notin OfStrategy(S, s)
      BY FS_Subset DEF OfStrategy
    <3>3. Cardinality(OfStrategy(S, s) \cup {x}) = Cardinality(OfStrategy(S, s)) + 1
          /\ Cardinality(OfStrategy(S, s)) \in Nat
      BY <3>2, FS_AddElement, FS_CardinalityType
    <3> QED BY <2>1, <3>1, <3>3, PreScreenAssumption
  <2>2. CASE StrategyOf[x] # s
    BY <2>2, StrategyCounts
  <2> QED BY <2>1, <2>2
<1> QED BY <1>1, <1>2, PreScreenAssumption

(* A swap within a strategy leaves every count as it was. *)
LEMMA SwapKeepsCaps ==
    ASSUME NEW S \in SUBSET Pairs, IsFiniteSet(S), Cardinality(S) <= MaxDay, NEW v \in S, NEW x \in Pairs \ S,
           StrategyOf[v] = StrategyOf[x],
           \A s \in Strategies : Cardinality(OfStrategy(S, s)) <= StrategyCap[s]
    PROVE  /\ IsFiniteSet((S \ {v}) \cup {x}) /\ Cardinality((S \ {v}) \cup {x}) <= MaxDay
           /\ \A s \in Strategies : Cardinality(OfStrategy((S \ {v}) \cup {x}, s)) <= StrategyCap[s]
<1> DEFINE R == S \ {v}
<1>1. /\ IsFiniteSet(R) /\ Cardinality(R) = Cardinality(S) - 1 /\ Cardinality(S) \in Nat
      /\ R \in SUBSET Pairs /\ x \in Pairs \ R /\ v \in Pairs
  BY FS_RemoveElement, FS_CardinalityType
<1>2. Cardinality(R) < MaxDay
  BY <1>1, PreScreenAssumption
<1>3. ASSUME NEW s \in Strategies
      PROVE  /\ Cardinality(OfStrategy(R, s)) <= StrategyCap[s]
             /\ s = StrategyOf[x] => Cardinality(OfStrategy(R, s)) < StrategyCap[s]
  <2>1. IsFiniteSet(OfStrategy(S, s)) /\ Cardinality(OfStrategy(S, s)) \in Nat /\ StrategyCap[s] \in Nat
    BY FS_Subset, FS_CardinalityType, PreScreenAssumption DEF OfStrategy
  <2>2. CASE StrategyOf[v] = s
    <3>1. OfStrategy(R, s) = OfStrategy(S, s) \ {v} /\ v \in OfStrategy(S, s)
      BY <1>1, <2>2, StrategyCounts DEF OfStrategy
    <3> DEFINE A == OfStrategy(S, s)
    <3> HIDE DEF A, R
    <3>2. IsFiniteSet(A) /\ v \in A /\ Cardinality(A) \in Nat /\ OfStrategy(R, s) = A \ {v}
      BY <2>1, <3>1 DEF A
    <3>3. Cardinality(A \ {v}) = Cardinality(A) - 1
      BY <3>2, FS_RemoveElement
    <3> QED BY <2>1, <3>2, <3>3 DEF A
  <2>3. CASE StrategyOf[v] # s
    <3>1. OfStrategy(R, s) = OfStrategy(S, s)
      BY <2>3 DEF OfStrategy
    <3> HIDE DEF R
    <3> QED BY <2>3, <3>1
  <2> QED BY <2>2, <2>3
<1>4. StrategyOf[x] \in Strategies
  BY PreScreenAssumption
<1> HIDE DEF R
<1>5. /\ IsFiniteSet(R \cup {x}) /\ Cardinality(R \cup {x}) <= MaxDay
      /\ \A s \in Strategies : Cardinality(OfStrategy(R \cup {x}, s)) <= StrategyCap[s]
  BY <1>1, <1>2, <1>3, <1>4, RoomForOne
<1> QED BY <1>5 DEF R

(* A pair's admission keeps the caps, and forgets no pair that is known. *)
AdmitKeeps(p, q) ==
    /\ PreTyped(q) /\ (CapsOf(p) => CapsOf(q))
    /\ Known(p) \subseteq Known(q)

(* _admit_one_locked: whatever it decides, the caps hold and the candidate *)
(* is known.                                                               *)
LEMMA OneAdmitted ==
    ASSUME NEW p, PreTyped(p), NEW cand \in [pair : Pairs, score : Scores], NEW batch,
           NEW q \in Admitted(p, cand, batch)
    PROVE  AdmitKeeps(p, q) /\ cand.pair \in Known(q)
<1> DEFINE e == cand.pair
           victims == Displaceable(p, cand, batch)
<1>1. e \in Pairs /\ StrategyOf[e] \in Strategies
  BY PreScreenAssumption
<1>2. CASE e \in p.charged
  <2>1. q = Republish(p, cand)
    BY <1>2 DEF Admitted
  <2>2. CASE q = Charge(p, cand)
    <3>1. /\ PreTyped(q) /\ q.charged = p.charged \cup {e} /\ q.displaced = p.displaced
      BY <2>2, ChargeKeeps
    <3>2. q.charged = p.charged
      BY <1>2, <3>1
    <3> QED BY <1>2, <3>1, <3>2 DEF AdmitKeeps, CapsOf, Known
  <2>3. CASE q = [p EXCEPT !.seen = @ \cup {e}]
    <3>1. /\ q.seen = p.seen \cup {e} /\ q.charged = p.charged /\ q.displaced = p.displaced
          /\ q.admitted = p.admitted /\ q.score = p.score /\ PreShape(q)
      BY <2>3 DEF PreTyped, PreShape
    <3>2. PreTyped(q)
      BY <1>2, <3>1 DEF PreTyped, AdmittedOnce
    <3> QED BY <1>2, <3>1, <3>2 DEF AdmitKeeps, CapsOf, Known
  <2> QED BY <2>1, <2>2, <2>3 DEF Republish
<1>3. CASE e \notin p.charged /\ q = Charge(p, cand) /\ ~(DayFull(p) \/ StrategyFull(p, StrategyOf[e]))
  <2>1. PreTyped(q) /\ q.charged = p.charged \cup {e} /\ q.displaced = p.displaced
    BY <1>3, ChargeKeeps
  <2>2. ASSUME CapsOf(p)
        PROVE  CapsOf(q)
    <3>1. p.charged \in SUBSET Pairs /\ IsFiniteSet(p.charged) /\ Cardinality(p.charged) \in Nat
      BY <2>2, FS_CardinalityType DEF CapsOf, PreTyped
    <3>2. Cardinality(p.charged) < MaxDay
      BY <1>3, <3>1, PreScreenAssumption DEF DayFull
    <3>3. /\ IsFiniteSet(OfStrategy(p.charged, StrategyOf[e]))
          /\ Cardinality(OfStrategy(p.charged, StrategyOf[e])) \in Nat
          /\ StrategyCap[StrategyOf[e]] \in Nat
      BY <1>1, <3>1, FS_Subset, FS_CardinalityType, PreScreenAssumption DEF OfStrategy
    <3>4. Cardinality(OfStrategy(p.charged, StrategyOf[e])) < StrategyCap[StrategyOf[e]]
      BY <1>3, <3>3 DEF StrategyFull
    <3> QED BY <1>1, <1>3, <2>1, <2>2, <3>1, <3>2, <3>4, RoomForOne DEF CapsOf
  <2> QED BY <2>1, <2>2 DEF AdmitKeeps, Known
<1>4. CASE e \notin p.charged /\ victims # {} /\ q = Charge(Displace(p, Worst(p, victims)), cand)
  <2> DEFINE victim == Worst(p, victims)
             r == Displace(p, victim)
  <2>1. victim \in victims
    <3>1. victims \in SUBSET Pairs /\ \A pair \in victims : \E i \in DOMAIN p.admitted : p.admitted[i] = pair
      BY DEF Displaceable, OfStrategy, Range, PreTyped, AdmittedOnce
    <3> HIDE DEF victims
    <3> QED BY <1>4, <3>1, WorstExists
  <2>2. victim \in p.charged /\ StrategyOf[victim] = StrategyOf[e]
    BY <2>1 DEF Displaceable, OfStrategy, Range, PreTyped, AdmittedOnce
  <2> HIDE DEF victim, victims
  <2>3. /\ PreTyped(r) /\ r.charged = p.charged \ {victim}
        /\ r.displaced = p.displaced \cup {victim}
    BY <2>2, DisplaceKeeps
  <2>4. PreTyped(q) /\ q.charged = (p.charged \ {victim}) \cup {e} /\ q.displaced = p.displaced \cup {victim}
    <3>1. q = Charge(r, cand)
      BY <1>4 DEF victim
    <3> HIDE DEF r
    <3> QED BY <2>3, <3>1, ChargeKeeps
  <2>5. ASSUME CapsOf(p)
        PROVE  CapsOf(q)
    <3>1. p.charged \in SUBSET Pairs
      BY DEF PreTyped
    <3> DEFINE S == p.charged
    <3>2. /\ S \in SUBSET Pairs /\ IsFiniteSet(S) /\ Cardinality(S) <= MaxDay
          /\ \A s \in Strategies : Cardinality(OfStrategy(S, s)) <= StrategyCap[s]
      BY <2>5, <3>1 DEF CapsOf
    <3>3. victim \in S /\ e \in Pairs \ S
      BY <1>1, <1>4, <2>2
    <3>4. q.charged = (S \ {victim}) \cup {e}
      BY <2>4
    <3>5. StrategyOf[victim] = StrategyOf[e]
      BY <2>2
    <3> HIDE DEF S, e
    <3>6. /\ IsFiniteSet((S \ {victim}) \cup {e}) /\ Cardinality((S \ {victim}) \cup {e}) <= MaxDay
          /\ \A s \in Strategies : Cardinality(OfStrategy((S \ {victim}) \cup {e}, s)) <= StrategyCap[s]
      BY <3>2, <3>3, <3>5, SwapKeepsCaps
    <3> QED BY <3>4, <3>6 DEF CapsOf
  <2> QED BY <2>4, <2>5 DEF AdmitKeeps, Known
<1> QED BY <1>2, <1>3, <1>4 DEF Admitted, PreTyped

(* The admissions of a batch, one after the other. *)
Batch(p, f, cands) ==
    f = [n \in 0 .. Len(cands) |->
            IF n = 0 THEN [p |-> p, published |-> {}] ELSE AdmitNext(f[n - 1], cands[n])]
UpToBatch(p, f, cands, top) ==
    f = [n \in 0 .. top |->
            IF n = 0 THEN [p |-> p, published |-> {}] ELSE AdmitNext(f[n - 1], cands[n])]

(* The loop of _admit_batch_locked has a result for every number of        *)
(* candidates.                                                             *)
LEMMA BatchExists ==
    ASSUME NEW p, NEW cands, NEW last \in Nat
    PROVE  \E f : UpToBatch(p, f, cands, last)
<1> DEFINE Bad == {n \in Nat : ~ \E f : UpToBatch(p, f, cands, n)}
<1> SUFFICES ASSUME last \in Bad
             PROVE  FALSE
  OBVIOUS
<1>1. PICK n \in Bad : \A k \in Bad : n <= k
  BY LeastOf
<1>2. n # 0
  <2> DEFINE f == [k \in 0 .. 0 |-> [p |-> p, published |-> {}]]
  <2>1. f = [k \in 0 .. 0 |-> IF k = 0 THEN [p |-> p, published |-> {}] ELSE AdmitNext(f[k - 1], cands[k])]
    OBVIOUS
  <2>2. UpToBatch(p, f, cands, 0)
    BY ONLY <2>1 DEF UpToBatch
  <2> QED BY <1>1, <2>2
<1>3. n - 1 \in Nat /\ n - 1 \notin Bad
  BY <1>1, <1>2
<1>4. PICK f : UpToBatch(p, f, cands, n - 1)
  BY <1>3
<1> DEFINE g == [k \in 0 .. n |-> IF k = 0 THEN [p |-> p, published |-> {}] ELSE AdmitNext(f[k - 1], cands[k])]
<1>5. \A k \in 0 .. n - 1 : g[k] = f[k]
  <2>1. \A k \in 0 .. n - 1 : k \in 0 .. n
    BY <1>3
  <2> QED BY <1>4, <2>1 DEF UpToBatch
<1>6. \A k \in 0 .. n : k # 0 => g[k - 1] = f[k - 1]
  <2>1. \A k \in 0 .. n : k # 0 => k - 1 \in 0 .. n - 1
    BY <1>3
  <2> HIDE DEF g
  <2> QED BY <1>5, <2>1
<1>7. UpToBatch(p, g, cands, n)
  BY <1>6 DEF UpToBatch
<1> QED BY <1>1, <1>7

(* _admit_batch_locked keeps the caps, and every published pair is known. *)
LEMMA BatchAdmitted ==
    ASSUME NEW p, PreTyped(p), NEW cands \in Seq([pair : Pairs, score : Scores])
    PROVE  LET result == AdmitBatch(p, cands)
           IN  /\ AdmitKeeps(p, result.p)
               /\ IsFiniteSet(result.published)
               /\ {c.pair : c \in result.published} \subseteq Known(result.p)
<1>1. PICK f : UpToBatch(p, f, cands, Len(cands))
  BY BatchExists
<1> DEFINE g == CHOOSE h : Batch(p, h, cands)
           Good(acc) == /\ AdmitKeeps(p, acc.p) /\ IsFiniteSet(acc.published)
                        /\ {c.pair : c \in acc.published} \subseteq Known(acc.p)
<1>2. Batch(p, g, cands)
  BY <1>1 DEF Batch, UpToBatch
<1>3. AdmitBatch(p, cands) = g[Len(cands)]
  BY DEF AdmitBatch, Batch
<1> HIDE DEF g
<1>4. ASSUME NEW acc, Good(acc), NEW cand \in [pair : Pairs, score : Scores]
      PROVE  Good(AdmitNext(acc, cand))
  <2> DEFINE next == Admitted(acc.p, cand, {c.pair : c \in acc.published})
             q == CHOOSE q \in next : TRUE
             then == [p |-> q, published |-> acc.published \cup {cand}]
  <2>1. CASE next = {}
    BY <1>4, <2>1 DEF AdmitNext
  <2>2. CASE next # {}
    <3>1. q \in next
      BY <2>2
    <3>2. AdmitNext(acc, cand) = then
      BY <2>2 DEF AdmitNext
    <3>3. AdmitKeeps(acc.p, q) /\ cand.pair \in Known(q)
      <4>1. PreTyped(acc.p)
        BY <1>4 DEF AdmitKeeps
      <4> HIDE DEF q
      <4> QED BY <3>1, <4>1, OneAdmitted
    <3> HIDE DEF q, next
    <3>4. AdmitKeeps(p, q) /\ Known(acc.p) \subseteq Known(q)
      BY <1>4, <3>3 DEF AdmitKeeps
    <3>5. IsFiniteSet(acc.published \cup {cand})
      BY <1>4, FS_AddElement
    <3>6. \A c \in acc.published \cup {cand} : c.pair \in Known(q)
      BY <1>4, <3>3, <3>4
    <3>7. Good(then)
      BY <3>4, <3>5, <3>6
    <3> QED BY <3>2, <3>7
  <2> QED BY <2>1, <2>2
<1>5. Good([p |-> p, published |-> {}])
  BY FS_EmptySet DEF AdmitKeeps
<1> HIDE DEF Good
<1>6. \A n \in 0 .. Len(cands) : Good(g[n])
  <2> DEFINE Bad == {n \in 0 .. Len(cands) : ~Good(g[n])}
  <2> SUFFICES ASSUME NEW b \in Bad
               PROVE  FALSE
    OBVIOUS
  <2>1. PICK n \in Bad : \A k \in Bad : n <= k
    <3>1. Bad \in SUBSET Nat
      OBVIOUS
    <3> HIDE DEF Bad
    <3> QED BY <3>1, LeastOf
  <2>2. n \in 0 .. Len(cands) /\ Len(cands) \in Nat
    BY <2>1
  <2>3. n # 0
    BY <1>2, <1>5, <2>1, <2>2 DEF Batch
  <2>4. n - 1 \in 0 .. Len(cands) /\ n - 1 \notin Bad /\ n \in 1 .. Len(cands)
    BY <2>1, <2>2, <2>3
  <2>5. cands[n] \in [pair : Pairs, score : Scores]
    BY <2>4, ElementOfSeq
  <2>6. Good(AdmitNext(g[n - 1], cands[n]))
    BY <1>4, <2>4, <2>5
  <2>7. g[n] = AdmitNext(g[n - 1], cands[n])
    BY <1>2, <2>2, <2>3 DEF Batch
  <2> QED BY <2>1, <2>6, <2>7
<1>7. Good(g[Len(cands)])
  BY <1>6
<1> QED BY <1>3, <1>7 DEF Good

-----------------------------------------------------------------------------
LoopShape(s) == DOMAIN s = {"pre", "queue", "journal", "count", "rolled"}
JournalTyped(rows) ==
    /\ DOMAIN rows = Pairs
    /\ \A pair \in Pairs : /\ DOMAIN rows[pair] = {"row", "evaluated", "forwarded", "unsizeable"}
                           /\ rows[pair].forwarded \in Nat
LoopTyped(s) ==
    /\ LoopShape(s) /\ PreTyped(s.pre) /\ JournalTyped(s.journal)
    /\ PairsOf(s.queue) \subseteq Known(s.pre)

(* Orphans that do not wait in the queue. *)
Lost(s) == Orphans(s.journal) \ PairsOf(s.queue)

(* The loop's handlers admit and displace nothing. *)
SameSlots(p, q) == q.charged = p.charged /\ q.displaced = p.displaced
SameForwards(rows, new) == \A pair \in Pairs : new[pair].forwarded = rows[pair].forwarded
Handles(s, t) == LoopTyped(t) /\ SameSlots(s.pre, t.pre) /\ SameForwards(s.journal, t.journal)

(* _rearm_slot: none of the pairs is an orphan any more. *)
LEMMA Rearms ==
    ASSUME NEW s, LoopTyped(s), NEW pairs
    PROVE  LET t == RearmSlots(s, pairs)
           IN  /\ Handles(s, t) /\ t.queue = s.queue /\ t.rolled = s.rolled
               /\ Orphans(t.journal) = Orphans(s.journal) \ pairs
<1> DEFINE t == RearmSlots(s, pairs)
           rows == Unspent(s.journal, pairs)
           q == RearmAll(s.pre, pairs)
<1>1. /\ LoopShape(t) /\ t.pre = q /\ t.journal = rows /\ t.queue = s.queue /\ t.rolled = s.rolled
  BY DEF RearmSlots, LoopTyped, LoopShape
<1>2. PreTyped(q) /\ SameSlots(s.pre, q)
  <2>1. /\ PreShape(q) /\ q.seen = s.pre.seen \ pairs /\ q.charged = s.pre.charged
        /\ q.displaced = s.pre.displaced /\ q.admitted = s.pre.admitted /\ q.score = s.pre.score
    BY DEF RearmAll, LoopTyped, PreTyped, PreShape
  <2> HIDE DEF q
  <2> QED BY <2>1 DEF LoopTyped, PreTyped, AdmittedOnce, SameSlots
<1>3. /\ JournalTyped(rows) /\ SameForwards(s.journal, rows)
      /\ \A pair \in Pairs : /\ rows[pair].unsizeable = s.journal[pair].unsizeable
                             /\ rows[pair].evaluated = IF pair \in pairs THEN FALSE ELSE s.journal[pair].evaluated
  BY DEF Unspent, LoopTyped, JournalTyped, SameForwards
<1> HIDE DEF t, rows, q
<1>4. Orphans(rows) = Orphans(s.journal) \ pairs
  BY <1>3 DEF Orphans, SameForwards
<1>5. Handles(s, t)
  BY <1>1, <1>2, <1>3 DEF Handles, LoopTyped, SameSlots, Known
<1> QED BY <1>1, <1>4, <1>5 DEF t

(* Entries leave the queue and their pairs are re-armed: none is lost. *)
Shed(s, out, pairs) == RearmSlots([s EXCEPT !.queue = @ \ out], pairs)

(* ... if what leaves is among the re-armed, or another entry of it stays. *)
LEMMA Sheds ==
    ASSUME NEW s, LoopTyped(s), NEW out, NEW pairs,
           PairsOf(s.queue) \subseteq PairsOf(s.queue \ out) \cup pairs
    PROVE  LET t == Shed(s, out, pairs)
           IN  /\ Handles(s, t) /\ t.queue \subseteq s.queue /\ t.rolled = s.rolled
               /\ Lost(t) \subseteq Lost(s) /\ Orphans(t.journal) = Orphans(s.journal) \ pairs
<1> DEFINE r == [s EXCEPT !.queue = @ \ out]
           t == RearmSlots(r, pairs)
<1>1. LoopTyped(r) /\ r.queue = s.queue \ out /\ r.rolled = s.rolled /\ r.pre = s.pre /\ r.journal = s.journal
  BY DEF LoopTyped, LoopShape, PairsOf
<1> HIDE DEF r
<1>2. /\ Handles(r, t) /\ t.queue = r.queue /\ t.rolled = r.rolled
      /\ Orphans(t.journal) = Orphans(r.journal) \ pairs
  BY <1>1, Rearms
<1> HIDE DEF t
<1>3. Handles(s, t)
  BY <1>1, <1>2 DEF Handles
<1>4. Lost(t) \subseteq Lost(s)
  BY <1>1, <1>2 DEF Lost
<1> QED BY <1>1, <1>2, <1>3, <1>4 DEF t, r, Shed

(* _apply_displacements *)
LEMMA Displaces ==
    ASSUME NEW s, LoopTyped(s)
    PROVE  LET t == Displaced(s)
           IN  Handles(s, t) /\ t.queue \subseteq s.queue /\ t.rolled = s.rolled /\ Lost(t) \subseteq Lost(s)
<1> DEFINE victims == s.pre.notices
           gone == {e \in s.queue : e.pair \in victims /\ ~e.front}
           retained == PairsOf({e \in s.queue : e.pair \in victims /\ e.front})
           pairs == victims \ retained
           r == [s EXCEPT !.pre.notices = {}]
           t == Shed(r, gone, pairs)
<1>1. Displaced(s) = t
  <2>1. [s EXCEPT !.pre.notices = {}, !.queue = @ \ gone] = [r EXCEPT !.queue = @ \ gone]
    BY DEF LoopTyped, LoopShape
  <2> QED BY <2>1 DEF Displaced, Shed
<1>2. /\ LoopTyped(r) /\ r.queue = s.queue /\ r.journal = s.journal /\ r.rolled = s.rolled
      /\ SameSlots(s.pre, r.pre)
  <2> DEFINE q == [s.pre EXCEPT !.notices = {}]
  <2>1. /\ LoopShape(r) /\ r.pre = q /\ r.queue = s.queue /\ r.journal = s.journal /\ r.rolled = s.rolled
    BY DEF LoopTyped, LoopShape
  <2>2. /\ PreShape(q) /\ q.seen = s.pre.seen /\ q.charged = s.pre.charged
        /\ q.displaced = s.pre.displaced /\ q.admitted = s.pre.admitted /\ q.score = s.pre.score
    BY DEF LoopTyped, PreTyped, PreShape
  <2> HIDE DEF q, r
  <2>3. PreTyped(q)
    BY <2>2 DEF LoopTyped, PreTyped, AdmittedOnce
  <2> QED BY <2>1, <2>2, <2>3 DEF LoopTyped, SameSlots, Known
<1>3. PairsOf(r.queue) \subseteq PairsOf(r.queue \ gone) \cup pairs
  <2> SUFFICES ASSUME NEW e \in s.queue
               PROVE  e.pair \in PairsOf(s.queue \ gone) \cup pairs
    BY <1>2 DEF PairsOf
  <2>1. CASE e \notin gone
    BY <2>1 DEF PairsOf
  <2>2. CASE e \in gone /\ e.pair \in retained
    <3>1. PICK f \in s.queue : f.front /\ f.pair = e.pair
      BY <2>2 DEF PairsOf
    <3> QED BY <3>1 DEF PairsOf
  <2>3. CASE e \in gone /\ e.pair \notin retained
    BY <2>3
  <2> QED BY <2>1, <2>2, <2>3
<1> HIDE DEF r, gone, retained, victims, pairs
<1>4. Handles(r, t) /\ t.queue \subseteq r.queue /\ t.rolled = r.rolled /\ Lost(t) \subseteq Lost(r)
  BY <1>2, <1>3, Sheds
<1> HIDE DEF t
<1>5. Handles(s, t)
  BY <1>2, <1>4 DEF Handles, SameSlots
<1>6. Lost(t) \subseteq Lost(s)
  BY <1>2, <1>4 DEF Lost
<1> QED BY <1>1, <1>2, <1>4, <1>5, <1>6

(* _roll_forward_day leaves no orphan, but for what is in flight. *)
LEMMA Rolls ==
    ASSUME NEW s, LoopTyped(s), NEW in_flight
    PROVE  LET t == Rolled(s, in_flight)
           IN  /\ Handles(s, t) /\ t.queue \subseteq s.queue /\ t.rolled
               /\ IF s.rolled THEN t = s ELSE Orphans(t.journal) \subseteq in_flight
<1>1. CASE s.rolled
  BY <1>1 DEF Rolled, Handles, SameSlots, SameForwards
<1>2. CASE ~s.rolled
  <2> DEFINE r == [s EXCEPT !.rolled = TRUE, !.queue = {}, !.count = Forwarded(s.journal)]
             gone == Orphans(s.journal) \ in_flight
             t == RearmSlots(r, gone)
  <2>1. Rolled(s, in_flight) = t
    BY <1>2 DEF Rolled
  <2>2. LoopTyped(r) /\ r.queue = {} /\ r.rolled /\ r.pre = s.pre /\ r.journal = s.journal
    BY DEF LoopTyped, LoopShape, PairsOf
  <2> HIDE DEF r
  <2>3. /\ Handles(r, t) /\ t.queue = r.queue /\ t.rolled = r.rolled
        /\ Orphans(t.journal) = Orphans(r.journal) \ gone
    BY <2>2, Rearms
  <2> HIDE DEF t
  <2> QED BY <1>2, <2>1, <2>2, <2>3 DEF Handles
<1> QED BY <1>1, <1>2

(* _journal_slot *)
LEMMA Journals ==
    ASSUME NEW s, LoopTyped(s), NEW pair \in Pairs, NEW stopless \in BOOLEAN
    PROVE  LET t == JournalSlot(s, pair, stopless)
           IN  /\ Handles(s, t) /\ t.queue = s.queue /\ t.rolled = s.rolled
               /\ Orphans(t.journal) \subseteq Orphans(s.journal) \cup {pair}
               /\ stopless => pair \notin Orphans(t.journal)
<1> DEFINE t == JournalSlot(s, pair, stopless)
           rows == [s.journal EXCEPT ![pair] = [@ EXCEPT !.row = TRUE, !.evaluated = TRUE, !.unsizeable = stopless]]
<1>1. LoopShape(t) /\ t.pre = s.pre /\ t.queue = s.queue /\ t.rolled = s.rolled /\ t.journal = rows
  BY DEF JournalSlot, LoopTyped, LoopShape
<1>2. /\ JournalTyped(rows) /\ SameForwards(s.journal, rows)
      /\ \A other \in Pairs \ {pair} : rows[other] = s.journal[other]
      /\ rows[pair].unsizeable = stopless
  BY DEF LoopTyped, JournalTyped, SameForwards
<1> HIDE DEF t, rows
<1>3. Handles(s, t)
  BY <1>1, <1>2 DEF Handles, LoopTyped, SameSlots
<1> QED BY <1>1, <1>2, <1>3 DEF Orphans, t

(* _enqueue_forward: the candidate waits, or is re-armed. *)
LEMMA Enqueues ==
    ASSUME NEW s, LoopTyped(s), NEW cand, cand.pair \in Known(s.pre), NEW front, NEW t \in Enqueued(s, cand, front)
    PROVE  Handles(s, t) /\ t.rolled = s.rolled /\ Lost(t) \subseteq Lost(s) \ {cand.pair}
<1> DEFINE new == [pair |-> cand.pair, id |-> cand.id, front |-> front]
           entries == {e \in s.queue : e.pair # cand.pair} \cup {new}
<1>1. PICK out \in Evictable(entries) : t = RearmSlots([s EXCEPT !.queue = entries \ out], PairsOf(out))
  BY DEF Enqueued
<1>2. out \subseteq entries
  BY DEF Evictable
<1>3. PairsOf(entries) = PairsOf(s.queue) \cup {cand.pair}
  <2>1. new \in entries /\ new.pair = cand.pair
    OBVIOUS
  <2> HIDE DEF new
  <2>2. \A e \in entries : e \in s.queue \/ e = new
    OBVIOUS
  <2>3. \A e \in s.queue : e.pair = cand.pair \/ e \in entries
    OBVIOUS
  <2> HIDE DEF entries
  <2> QED BY <2>1, <2>2, <2>3 DEF PairsOf
<1> HIDE DEF entries
<1> DEFINE r == [s EXCEPT !.queue = entries \ out]
<1>4. LoopTyped(r) /\ r.queue = entries \ out /\ r.rolled = s.rolled /\ r.pre = s.pre /\ r.journal = s.journal
  <2>1. LoopShape(r) /\ r.queue = entries \ out /\ r.rolled = s.rolled /\ r.pre = s.pre /\ r.journal = s.journal
    BY DEF LoopTyped, LoopShape
  <2>2. PairsOf(entries \ out) \subseteq PairsOf(entries)
    BY DEF PairsOf
  <2> HIDE DEF r
  <2> QED BY <1>3, <2>1, <2>2 DEF LoopTyped
<1> HIDE DEF r
<1>5. /\ Handles(r, t) /\ t.queue = r.queue /\ t.rolled = r.rolled
      /\ Orphans(t.journal) = Orphans(r.journal) \ PairsOf(out)
  BY <1>1, <1>4, Rearms DEF r
<1>6. PairsOf(entries) \subseteq PairsOf(entries \ out) \cup PairsOf(out)
  BY DEF PairsOf
<1>7. Handles(s, t)
  BY <1>4, <1>5 DEF Handles
<1>8. Lost(t) \subseteq Lost(s) \ {cand.pair}
  BY <1>3, <1>4, <1>5, <1>6 DEF Lost
<1> QED BY <1>4, <1>5, <1>7, <1>8

(* _refund_forward *)
LEMMA Refunds ==
    ASSUME NEW s, LoopTyped(s), NEW cand, cand.pair \in Pairs
    PROVE  LET t == Refund(s, cand)
           IN  /\ LoopTyped(t) /\ SameSlots(s.pre, t.pre) /\ t.queue = s.queue /\ t.rolled = s.rolled
               /\ Lost(t) \subseteq Lost(s) \cup {cand.pair}
               /\ \A pair \in Pairs : t.journal[pair].evaluated = s.journal[pair].evaluated
<1>1. CASE cand.id \in refunded
  BY <1>1 DEF Refund, SameSlots
<1>2. CASE cand.id \notin refunded
  <2> DEFINE pair == cand.pair
             t == [s EXCEPT !.count = Less(@), !.journal[pair].forwarded = Less(@)]
             rows == t.journal
  <2>1. Refund(s, cand) = t
    BY <1>2 DEF Refund
  <2>2. LoopShape(t) /\ t.pre = s.pre /\ t.queue = s.queue /\ t.rolled = s.rolled
    BY DEF LoopTyped, LoopShape
  <2>3. /\ JournalTyped(rows)
        /\ \A other \in Pairs \ {pair} : rows[other] = s.journal[other]
        /\ rows[pair].evaluated = s.journal[pair].evaluated
    <3>1. /\ DOMAIN s.journal = Pairs /\ pair \in Pairs
          /\ DOMAIN s.journal[pair] = {"row", "evaluated", "forwarded", "unsizeable"}
          /\ s.journal[pair].forwarded \in Nat
      BY DEF LoopTyped, JournalTyped
    <3>2. Less(s.journal[pair].forwarded) \in Nat
      BY <3>1 DEF Less
    <3>3. rows = [s.journal EXCEPT ![pair].forwarded = Less(@)]
      BY DEF LoopTyped, LoopShape
    <3> HIDE DEF t, pair
    <3>4. /\ DOMAIN rows = Pairs /\ \A other \in Pairs \ {pair} : rows[other] = s.journal[other]
          /\ rows[pair] = [s.journal[pair] EXCEPT !.forwarded = Less(@)]
      BY <3>1, <3>3
    <3> HIDE DEF rows
    <3>5. /\ DOMAIN rows[pair] = {"row", "evaluated", "forwarded", "unsizeable"}
          /\ rows[pair].forwarded \in Nat /\ rows[pair].evaluated = s.journal[pair].evaluated
      BY <3>1, <3>2, <3>4
    <3> QED BY <3>1, <3>4, <3>5 DEF LoopTyped, JournalTyped
  <2> HIDE DEF t, pair
  <2>4. LoopTyped(t)
    BY <2>2, <2>3 DEF LoopTyped
  <2>5. Lost(t) \subseteq Lost(s) \cup {pair}
    BY <2>2, <2>3 DEF Lost, Orphans
  <2> QED BY <2>1, <2>2, <2>3, <2>4, <2>5 DEF SameSlots, pair
<1> QED BY <1>1, <1>2

-----------------------------------------------------------------------------
Evaluating == tick \in {"calling", "gating", "sending"}

(* Whoever is on the way holds a slot or has lost it to another; what is   *)
(* being evaluated has been paid for.                                      *)
OnTheWay ==
    /\ PairsOf(bus) \subseteq Known(pre)
    /\ tick \in {"idle", "sweeping", "calling", "gating", "sending"}
    /\ Evaluating => chosen.pair \in Known(pre) /\ journal[chosen.pair].forwarded > 0
    /\ ~Evaluating => chosen = Nobody

(* Before the first boot, and from a stop to the next boot. *)
Down ==
    ~up => /\ ~rolled /\ tick = "idle" /\ bus = {} /\ queue = {}
           /\ stops = 0 => \A pair \in Pairs : ~journal[pair].row /\ ~journal[pair].evaluated

Accounted == up /\ rolled => Lost(Loop) \subseteq PairsOf(bus) \cup policy \cup {chosen.pair}

FunnelInv ==
    /\ LoopTyped(Loop) /\ stops \in Nat /\ (stops = 0 => CapsOf(pre))
    /\ OnTheWay /\ Down /\ Accounted

(* The fields of the record the handlers share. *)
LEMMA LoopFields ==
    /\ Loop.pre = pre /\ Loop.queue = queue /\ Loop.journal = journal /\ Loop.rolled = rolled
    /\ Loop'.pre = pre' /\ Loop'.queue = queue' /\ Loop'.journal = journal' /\ Loop'.rolled = rolled'
    /\ LoopShape(Loop) /\ LoopShape(Loop')
BY DEF Loop, LoopShape

(* What a handler leaves behind is what it computed. *)
LEMMA Became ==
    ASSUME NEW s, LoopTyped(s), Becomes(s)
    PROVE  /\ LoopTyped(Loop') /\ pre' = s.pre /\ Lost(Loop)' = Lost(s) /\ journal' = s.journal
           /\ rolled' = s.rolled /\ queue' = s.queue
BY LoopFields DEF Becomes, LoopTyped, Lost

(* A handler of the loop keeps the invariant if nothing is lost by it. *)
LEMMA HandlerKeeps ==
    ASSUME FunnelInv, up, NEW s, LoopTyped(s), SameSlots(pre, s.pre), Becomes(s), up' = up, stops' = stops,
           PairsOf(bus') \subseteq PairsOf(bus), tick' \in {"idle", "sweeping", "calling", "gating", "sending"},
           Evaluating' => chosen'.pair \in Known(pre) /\ s.journal[chosen'.pair].forwarded > 0,
           ~Evaluating' => chosen' = Nobody,
           s.rolled => Lost(s) \subseteq PairsOf(bus') \cup policy' \cup {chosen'.pair}
    PROVE  FunnelInv'
<1>1. /\ LoopTyped(Loop') /\ pre' = s.pre /\ Lost(Loop)' = Lost(s) /\ journal' = s.journal
      /\ rolled' = s.rolled /\ queue' = s.queue
  BY Became
<1>2. Known(pre') = Known(pre) /\ pre'.charged = pre.charged
  BY <1>1 DEF SameSlots, Known
<1>3. stops' = 0 => CapsOf(pre')
  BY <1>2 DEF FunnelInv, CapsOf
<1>4. OnTheWay'
  BY <1>1, <1>2 DEF OnTheWay, Evaluating, PairsOf, FunnelInv
<1>5. Down'
  BY DEF Down
<1>6. Accounted'
  BY <1>1 DEF Accounted
<1> QED BY <1>1, <1>3, <1>4, <1>5, <1>6 DEF FunnelInv

(* What the invariant says of the pairs and of a process that is down. *)
LEMMA InvFacts ==
    ASSUME FunnelInv
    PROVE  /\ LoopTyped(Loop) /\ PreTyped(pre) /\ Known(pre) \subseteq Pairs
           /\ PairsOf(queue) \subseteq Known(pre) /\ PairsOf(bus) \subseteq Known(pre)
           /\ tick # "idle" => up
BY LoopFields DEF FunnelInv, LoopTyped, PreTyped, Known, OnTheWay, Down

(* on_signal_candidate *)
LEMMA ArriveKeeps ==
    ASSUME FunnelInv, NEW cand \in bus, Arrive(cand)
    PROVE  FunnelInv'
<1> DEFINE pair == cand.pair
           d == Displaced(Loop)
           settled == JournalSlot(d, pair, FALSE)
           today == Rolled(settled, {pair})
<1>1. /\ up /\ up' = up /\ stops' = stops /\ tick' = tick /\ chosen' = chosen /\ bus' = bus \ {cand}
  BY DEF Arrive, drain
<1>2. pair \in Pairs /\ pair \in Known(pre) /\ PairsOf(bus') \cup {pair} = PairsOf(bus) \cup {pair}
  BY <1>1, InvFacts DEF PairsOf
<1>3. /\ Handles(Loop, d) /\ d.queue \subseteq queue /\ d.rolled = rolled /\ Lost(d) \subseteq Lost(Loop)
  BY InvFacts, Displaces, LoopFields
<1> HIDE DEF d
<1>4. /\ LoopTyped(d) /\ SameSlots(pre, d.pre) /\ SameForwards(journal, d.journal)
  BY <1>3, LoopFields DEF Handles
<1>5. /\ Handles(d, settled) /\ settled.queue = d.queue /\ settled.rolled = d.rolled
      /\ Orphans(settled.journal) \subseteq Orphans(d.journal) \cup {pair}
  BY <1>2, <1>4, Journals
<1> HIDE DEF settled
<1>6. /\ LoopTyped(settled) /\ SameSlots(pre, settled.pre) /\ SameForwards(journal, settled.journal)
      /\ settled.rolled = rolled /\ Lost(settled) \subseteq Lost(Loop) \cup {pair}
  BY <1>3, <1>4, <1>5 DEF Handles, SameSlots, SameForwards, Lost
<1>7. rolled => Lost(Loop) \subseteq PairsOf(bus') \cup {pair} \cup policy \cup {chosen.pair}
  BY <1>1, <1>2 DEF FunnelInv, Accounted
<1> DEFINE Fits(s) == /\ LoopTyped(s) /\ SameSlots(pre, s.pre) /\ SameForwards(journal, s.journal)
                      /\ s.rolled => Lost(s) \subseteq PairsOf(bus') \cup policy' \cup {chosen.pair}
<1>8. ASSUME NEW s, Fits(s), Becomes(s)
      PROVE  FunnelInv'
  <2>1. Evaluating' => chosen'.pair \in Known(pre) /\ s.journal[chosen'.pair].forwarded > 0
    BY <1>1, <1>8, InvFacts DEF Evaluating, FunnelInv, OnTheWay, SameForwards
  <2>2. ~Evaluating' => chosen' = Nobody
    BY <1>1 DEF Evaluating, FunnelInv, OnTheWay
  <2>3. tick' \in {"idle", "sweeping", "calling", "gating", "sending"} /\ PairsOf(bus') \subseteq PairsOf(bus)
    BY <1>1 DEF FunnelInv, OnTheWay, PairsOf
  <2> QED BY <1>1, <1>8, <2>1, <2>2, <2>3, HandlerKeeps
<1> HIDE DEF Fits
<1>9. CASE Becomes(RearmSlots(settled, {pair})) /\ policy' = policy \ {pair}
  <2> DEFINE s == RearmSlots(settled, {pair})
  <2>1. /\ Handles(settled, s) /\ s.queue = settled.queue /\ s.rolled = settled.rolled
        /\ Orphans(s.journal) = Orphans(settled.journal) \ {pair}
    BY <1>6, Rearms
  <2> HIDE DEF s
  <2>2. Lost(s) \subseteq Lost(Loop) \ {pair}
    BY <1>6, <2>1 DEF Lost
  <2>3. Fits(s)
    BY <1>6, <1>7, <1>9, <2>1, <2>2 DEF Fits, Handles, SameSlots, SameForwards
  <2> QED BY <1>8, <1>9, <2>3 DEF s
<1>10. CASE Becomes(JournalSlot(settled, pair, TRUE)) /\ policy' = policy \ {pair}
  <2> DEFINE s == JournalSlot(settled, pair, TRUE)
  <2>1. /\ Handles(settled, s) /\ s.queue = settled.queue /\ s.rolled = settled.rolled
        /\ Orphans(s.journal) \subseteq Orphans(settled.journal) \cup {pair}
        /\ pair \notin Orphans(s.journal)
    BY <1>2, <1>6, Journals
  <2> HIDE DEF s
  <2>2. Lost(s) \subseteq Lost(Loop) \ {pair}
    BY <1>6, <2>1 DEF Lost
  <2>3. Fits(s)
    BY <1>6, <1>7, <1>10, <2>1, <2>2 DEF Fits, Handles, SameSlots, SameForwards
  <2> QED BY <1>8, <1>10, <2>3 DEF s
<1>11. /\ Handles(settled, today) /\ today.rolled
       /\ IF settled.rolled THEN today = settled ELSE Orphans(today.journal) \subseteq {pair}
  BY <1>6, Rolls
<1> HIDE DEF today
<1>12. /\ LoopTyped(today) /\ SameSlots(pre, today.pre) /\ SameForwards(journal, today.journal)
  BY <1>6, <1>11 DEF Handles, SameSlots, SameForwards
<1>13. Lost(today) \subseteq PairsOf(bus') \cup {pair} \cup policy \cup {chosen.pair}
  BY <1>6, <1>7, <1>11 DEF Lost
<1>14. CASE Becomes(today) /\ policy' = policy \cup {pair}
  BY <1>8, <1>12, <1>13, <1>14 DEF Fits
<1>15. ASSUME NEW s \in Enqueued(today, cand, FALSE), Becomes(s), policy' = policy \ {pair}
       PROVE  FunnelInv'
  <2>1. cand.pair \in Known(today.pre)
    BY <1>2, <1>12 DEF Known, SameSlots
  <2>2. Handles(today, s) /\ Lost(s) \subseteq Lost(today) \ {pair}
    BY <1>12, <2>1, Enqueues
  <2>3. Fits(s)
    BY <1>12, <1>13, <1>15, <2>2 DEF Fits, Handles, SameSlots, SameForwards
  <2> QED BY <1>8, <1>15, <2>3
<1> QED BY <1>9, <1>10, <1>14, <1>15 DEF Arrive, settled, today, d

(* A tick of the drain begins: the displacements are applied. *)
LEMMA DrainTickKeeps ==
    ASSUME FunnelInv, DrainTick
    PROVE  FunnelInv'
<1> DEFINE today == Rolled(Loop, {})
           s == Displaced(today)
<1>1. /\ up /\ up' = up /\ stops' = stops /\ tick = "idle" /\ tick' = "sweeping" /\ chosen' = chosen
      /\ bus' = bus /\ policy' = policy /\ Becomes(s)
  BY DEF DrainTick, history
<1>2. /\ Handles(Loop, today) /\ today.rolled
      /\ IF Loop.rolled THEN today = Loop ELSE Orphans(today.journal) \subseteq {}
  BY InvFacts, Rolls
<1> HIDE DEF today
<1>3. Handles(today, s) /\ Lost(s) \subseteq Lost(today)
  BY <1>2, Displaces DEF Handles
<1> HIDE DEF s
<1>4. LoopTyped(s) /\ SameSlots(pre, s.pre)
  BY <1>2, <1>3, LoopFields DEF Handles, SameSlots
<1>5. Lost(s) \subseteq PairsOf(bus') \cup policy' \cup {chosen'.pair}
  BY <1>1, <1>2, <1>3, LoopFields DEF FunnelInv, Accounted, Lost
<1>6. chosen' = Nobody /\ ~Evaluating' /\ PairsOf(bus') \subseteq PairsOf(bus)
  BY <1>1 DEF FunnelInv, OnTheWay, Evaluating
<1> QED BY <1>1, <1>4, <1>5, <1>6, HandlerKeeps

(* _flush_forwards_at_window_close *)
LEMMA FlushKeeps ==
    ASSUME FunnelInv, Flush
    PROVE  FunnelInv'
<1>1. /\ up /\ up' = up /\ stops' = stops /\ tick = "sweeping" /\ tick' = "idle" /\ chosen' = chosen
      /\ bus' = bus /\ policy' = policy
  BY InvFacts DEF Flush, history
<1>2. chosen' = Nobody /\ ~Evaluating' /\ PairsOf(bus') \subseteq PairsOf(bus)
  BY <1>1 DEF FunnelInv, OnTheWay, Evaluating
<1>3. CASE UNCHANGED <<rolled, queue, count, pre, journal, flushed>>
  <2>1. Becomes(Loop) /\ SameSlots(pre, Loop.pre)
    BY <1>3, LoopFields DEF Becomes, Loop, SameSlots
  <2>2. Loop.rolled => Lost(Loop) \subseteq PairsOf(bus') \cup policy' \cup {chosen'.pair}
    BY <1>1, LoopFields DEF FunnelInv, Accounted
  <2> QED BY <1>1, <1>2, <2>1, <2>2, InvFacts, HandlerKeeps
<1>4. CASE Becomes(RearmSlots([Loop EXCEPT !.queue = {}], PairsOf(queue)))
  <2> DEFINE r == [Loop EXCEPT !.queue = {}]
             pairs == PairsOf(queue)
             s == RearmSlots(r, pairs)
  <2>1. LoopTyped(r) /\ r.queue = {} /\ r.rolled = rolled /\ r.pre = pre /\ r.journal = journal
    <3>1. LoopShape(r) /\ r.queue = {} /\ r.rolled = rolled /\ r.pre = pre /\ r.journal = journal
      BY DEF Loop, LoopShape
    <3> HIDE DEF r
    <3> QED BY <3>1, InvFacts, LoopFields DEF LoopTyped, PairsOf
  <2> HIDE DEF r
  <2>2. /\ Handles(r, s) /\ s.queue = r.queue /\ s.rolled = r.rolled
        /\ Orphans(s.journal) = Orphans(r.journal) \ pairs
    BY <2>1, Rearms
  <2> HIDE DEF s
  <2>3. Lost(s) \subseteq Lost(Loop)
    BY <2>1, <2>2, LoopFields DEF Lost
  <2>4. s.rolled => Lost(s) \subseteq PairsOf(bus') \cup policy' \cup {chosen'.pair}
    BY <1>1, <2>1, <2>2, <2>3 DEF FunnelInv, Accounted
  <2>5. LoopTyped(s) /\ SameSlots(pre, s.pre)
    BY <2>1, <2>2 DEF Handles
  <2> QED BY <1>1, <1>2, <1>4, <2>4, <2>5, HandlerKeeps DEF s, r
<1> QED BY <1>3, <1>4 DEF Flush

(* _take_forward_slot: the refused entries and the taken one leave the     *)
(* queue, the first re-armed, the other paid for.                          *)
LEMMA Takes ==
    ASSUME NEW s, LoopTyped(s), NEW e \in s.queue, NEW refused
    PROVE  LET t == TakeSlot(s, refused, e)
           IN  /\ LoopTyped(t) /\ SameSlots(s.pre, t.pre) /\ t.rolled = s.rolled /\ Lost(t) \subseteq Lost(s)
               /\ t.journal[e.pair].forwarded > 0
<1> DEFINE pair == e.pair
           out == refused \cup {e}
           r == [s EXCEPT !.queue = @ \ out]
           kept == RearmSlots(r, PairsOf(refused))
           t == [kept EXCEPT !.pre = Claim(@, pair), !.count = @ + 1,
                             !.journal[pair] = Paid(@)]
           rows == t.journal
           paid == Paid(kept.journal[pair])
           q == Claim(kept.pre, pair)
<1>1. TakeSlot(s, refused, e) = t
  BY DEF TakeSlot
<1>2. LoopTyped(r) /\ r.queue = s.queue \ out /\ r.rolled = s.rolled /\ r.pre = s.pre /\ r.journal = s.journal
  BY DEF LoopTyped, LoopShape, PairsOf
<1>3. pair \in Pairs
  BY DEF LoopTyped, PairsOf, Known, PreTyped
<1> HIDE DEF r
<1>4. /\ Handles(r, kept) /\ kept.queue = r.queue /\ kept.rolled = r.rolled
      /\ Orphans(kept.journal) = Orphans(r.journal) \ PairsOf(refused)
  BY <1>2, Rearms
<1> HIDE DEF kept
<1>5. LoopTyped(kept) /\ SameSlots(s.pre, kept.pre) /\ LoopShape(kept)
  BY <1>2, <1>4 DEF Handles, LoopTyped
<1>6. /\ LoopShape(t) /\ t.pre = q /\ t.queue = kept.queue /\ t.rolled = kept.rolled
      /\ rows = [kept.journal EXCEPT ![pair] = paid]
  BY <1>5 DEF LoopShape
<1>7. PreTyped(q) /\ SameSlots(kept.pre, q)
  <2>1. /\ PreShape(q) /\ q.seen = kept.pre.seen /\ q.charged = kept.pre.charged
        /\ q.displaced = kept.pre.displaced /\ q.admitted = kept.pre.admitted /\ q.score = kept.pre.score
    BY <1>5 DEF Claim, LoopTyped, PreTyped, PreShape
  <2> HIDE DEF q
  <2> QED BY <1>5, <2>1 DEF LoopTyped, PreTyped, AdmittedOnce, SameSlots
<1> HIDE DEF t, q, pair
<1>8. /\ JournalTyped(rows) /\ \A other \in Pairs \ {pair} : rows[other] = kept.journal[other]
      /\ rows[pair].forwarded > 0
  <2>1. /\ DOMAIN kept.journal = Pairs
        /\ DOMAIN kept.journal[pair] = {"row", "evaluated", "forwarded", "unsizeable"}
        /\ kept.journal[pair].forwarded \in Nat
    BY <1>3, <1>5 DEF LoopTyped, JournalTyped
  <2>3. /\ DOMAIN paid = {"row", "evaluated", "forwarded", "unsizeable"}
        /\ paid.forwarded \in Nat /\ paid.forwarded > 0
    BY <2>1 DEF Paid
  <2> HIDE DEF paid, rows
  <2>2. /\ DOMAIN rows = Pairs /\ rows[pair] = paid
        /\ \A other \in Pairs \ {pair} : rows[other] = kept.journal[other]
    BY <1>3, <1>6, <2>1
  <2> QED BY <1>5, <2>1, <2>2, <2>3 DEF LoopTyped, JournalTyped
<1> HIDE DEF rows
<1>9. t.journal = rows
  BY DEF rows
<1>10. LoopTyped(t) /\ SameSlots(s.pre, t.pre)
  BY <1>5, <1>6, <1>7, <1>8, <1>9 DEF LoopTyped, SameSlots, Known
<1>11. Lost(t) \subseteq Lost(s)
  <2>1. Orphans(rows) \subseteq Orphans(kept.journal) \ {pair}
    BY <1>3, <1>8 DEF Orphans
  <2>2. PairsOf(s.queue) \subseteq PairsOf(s.queue \ out) \cup PairsOf(refused) \cup {pair}
    BY DEF PairsOf, pair
  <2> QED BY <1>2, <1>4, <1>6, <1>9, <2>1, <2>2 DEF Lost
<1> QED BY <1>1, <1>2, <1>4, <1>6, <1>8, <1>9, <1>10, <1>11 DEF pair

(* _drain_one_forward, and what it takes. *)
LEMMA DrainKeeps ==
    ASSUME FunnelInv, Drain
    PROVE  FunnelInv' /\ (tick' = "calling" => chosen'.pair \in pre'.charged)
<1>1. PICK stale \in SUBSET queue :
          LET live == Expired(Rolled(Loop, {}), stale)
          IN \/ Becomes(live) /\ tick' = "idle" /\ UNCHANGED <<chosen, refunded>>
             \/ \E deferred \in SUBSET live.queue :
                   LET offered == live.queue \ deferred
                       losers == {e \in offered : ClaimRefused(live.pre, e.pair)}
                   IN \/ /\ Becomes(RearmSlots([live EXCEPT !.queue = @ \ losers], PairsOf(losers)))
                         /\ tick' = "idle" /\ UNCHANGED <<chosen, refunded>>
                      \/ \E e \in offered \ losers, refused \in SUBSET losers :
                            /\ Becomes(TakeSlot(live, refused, e))
                            /\ tick' = "calling" /\ chosen' = [pair |-> e.pair, id |-> e.id]
  BY DEF Drain
<1>2. /\ up /\ up' = up /\ stops' = stops /\ tick = "sweeping" /\ bus' = bus /\ policy' = policy
      /\ chosen = Nobody
  BY InvFacts DEF Drain, history, FunnelInv, OnTheWay, Evaluating
<1> DEFINE today == Rolled(Loop, {})
           live == Expired(today, stale)
<1>3. /\ Handles(Loop, today) /\ today.queue \subseteq queue /\ today.rolled
      /\ IF Loop.rolled THEN today = Loop ELSE Orphans(today.journal) \subseteq {}
  BY InvFacts, Rolls, LoopFields
<1> HIDE DEF today
<1>4. Handles(today, live) /\ live.rolled /\ Lost(live) \subseteq Lost(today)
  <2> DEFINE pairs == PairsOf(stale)
  <2>1. live = Shed(today, stale, pairs)
    BY DEF Expired, Shed
  <2>2. PairsOf(today.queue) \subseteq PairsOf(today.queue \ stale) \cup pairs /\ LoopTyped(today)
    BY <1>3 DEF PairsOf, Handles
  <2> HIDE DEF live, pairs
  <2> QED BY <1>3, <2>1, <2>2, Sheds
<1>5. Lost(live) \subseteq PairsOf(bus') \cup policy'
  <2>1. Lost(today) \subseteq PairsOf(bus) \cup policy \cup {Nobody.pair}
    BY <1>2, <1>3, LoopFields DEF FunnelInv, Accounted, Lost
  <2>2. Lost(live) \subseteq Pairs
    BY DEF Lost, Orphans
  <2> QED BY <1>2, <1>4, <2>1, <2>2, FunnelAssumption
<1>6. LoopTyped(live) /\ SameSlots(pre, live.pre)
  BY <1>3, <1>4, LoopFields DEF Handles, SameSlots
<1> HIDE DEF live
<1>7. ASSUME NEW s, LoopTyped(s), SameSlots(live.pre, s.pre), s.rolled = live.rolled, Lost(s) \subseteq Lost(live),
             Becomes(s), tick' = "idle", chosen' = chosen
      PROVE  FunnelInv' /\ (tick' = "calling" => chosen'.pair \in pre'.charged)
  <2>1. chosen' = Nobody /\ ~Evaluating' /\ tick' \in {"idle", "sweeping", "calling", "gating", "sending"}
        /\ PairsOf(bus') \subseteq PairsOf(bus) /\ SameSlots(pre, s.pre)
    BY <1>2, <1>6, <1>7 DEF Evaluating, SameSlots
  <2>2. Lost(s) \subseteq PairsOf(bus') \cup policy' \cup {chosen'.pair}
    BY <1>5, <1>7
  <2>3. FunnelInv'
    BY <1>2, <1>7, <2>1, <2>2, HandlerKeeps
  <2> QED BY <1>7, <2>3
<1>8. CASE Becomes(live) /\ tick' = "idle" /\ chosen' = chosen
  BY <1>6, <1>7, <1>8 DEF SameSlots
<1>9. ASSUME NEW losers, Becomes(Shed(live, losers, PairsOf(losers))), tick' = "idle", chosen' = chosen
      PROVE  FunnelInv' /\ (tick' = "calling" => chosen'.pair \in pre'.charged)
  <2> DEFINE pairs == PairsOf(losers)
             s == Shed(live, losers, pairs)
  <2>1. PairsOf(live.queue) \subseteq PairsOf(live.queue \ losers) \cup pairs
    BY DEF PairsOf
  <2> HIDE DEF pairs
  <2>2. Handles(live, s) /\ s.rolled = live.rolled /\ Lost(s) \subseteq Lost(live)
    BY <1>6, <2>1, Sheds
  <2> HIDE DEF s
  <2> QED BY <1>7, <1>9, <2>2 DEF Handles, s, pairs
<1>10. ASSUME NEW e \in live.queue, NEW refused, ~ClaimRefused(live.pre, e.pair),
              Becomes(TakeSlot(live, refused, e)), tick' = "calling", chosen' = [pair |-> e.pair, id |-> e.id]
       PROVE  FunnelInv' /\ (tick' = "calling" => chosen'.pair \in pre'.charged)
  <2> DEFINE s == TakeSlot(live, refused, e)
  <2>1. /\ LoopTyped(s) /\ SameSlots(live.pre, s.pre) /\ s.rolled = live.rolled /\ Lost(s) \subseteq Lost(live)
        /\ s.journal[e.pair].forwarded > 0
    BY <1>6, Takes
  <2>2. Becomes(s)
    BY <1>10
  <2> HIDE DEF s
  <2>3. e.pair \in Known(live.pre) /\ Known(live.pre) = Known(pre) /\ SameSlots(pre, s.pre) /\ chosen'.pair = e.pair
    BY <1>6, <1>10, <2>1 DEF LoopTyped, PairsOf, SameSlots, Known
  <2>4. FunnelInv'
    <3>1. /\ tick' \in {"idle", "sweeping", "calling", "gating", "sending"} /\ PairsOf(bus') \subseteq PairsOf(bus)
          /\ Evaluating' => chosen'.pair \in Known(pre) /\ s.journal[chosen'.pair].forwarded > 0
          /\ Evaluating'
      BY <1>2, <1>10, <2>1, <2>3 DEF Evaluating
    <3>2. Lost(s) \subseteq PairsOf(bus') \cup policy' \cup {chosen'.pair}
      BY <1>5, <2>1
    <3> QED BY <1>2, <2>1, <2>2, <2>3, <3>1, <3>2, HandlerKeeps
  <2>5. pre' = s.pre
    BY <2>2 DEF Becomes
  <2>6. e.pair \in pre'.charged
    BY <1>6, <1>10, <2>1, <2>3, <2>5 DEF ClaimRefused, SameSlots, Known
  <2> QED BY <2>3, <2>4, <2>6
<1> QED BY <1>1, <1>8, <1>9, <1>10 DEF live, today, Shed

(* _handle_forward_failure: the signal waits in front, or its charge stays. *)
LEMMA Fails ==
    ASSUME NEW s, LoopTyped(s), NEW cand, cand.pair \in Known(s.pre), s.journal[cand.pair].forwarded > 0,
           NEW t \in Failed(s, cand)
    PROVE  LoopTyped(t) /\ SameSlots(s.pre, t.pre) /\ t.rolled = s.rolled /\ Lost(t) \subseteq Lost(s)
<1>1. CASE cand.id \in requeued
  BY <1>1 DEF Failed, SameSlots
<1>2. CASE cand.id \notin requeued
  <2> DEFINE r == Refund(s, cand)
  <2>1. cand.pair \in Pairs
    BY DEF LoopTyped, PreTyped, Known
  <2>2. LoopTyped(r) /\ SameSlots(s.pre, r.pre) /\ r.rolled = s.rolled /\ Lost(r) \subseteq Lost(s) \cup {cand.pair}
    BY <2>1, Refunds
  <2>3. t \in Enqueued(r, cand, TRUE)
    BY <1>2 DEF Failed
  <2> HIDE DEF r
  <2>4. cand.pair \in Known(r.pre)
    BY <2>2 DEF Known, SameSlots
  <2>5. Handles(r, t) /\ t.rolled = r.rolled /\ Lost(t) \subseteq Lost(r) \ {cand.pair}
    BY <2>2, <2>3, <2>4, Enqueues
  <2> QED BY <2>2, <2>5 DEF Handles, SameSlots
<1> QED BY <1>1, <1>2

(* An evaluation that ends has lost nothing: its pair has been forwarded, or *)
(* is re-armed, or waits again.                                            *)
LEMMA EndKeeps ==
    ASSUME FunnelInv, Evaluating, EvaluationEnds, NEW s, LoopTyped(s), SameSlots(pre, s.pre), s.rolled = rolled,
           Lost(s) \subseteq Lost(Loop), Becomes(s)
    PROVE  FunnelInv'
<1>1. up /\ up' = up /\ stops' = stops /\ bus' = bus /\ policy' = policy /\ tick' = "idle" /\ chosen' = Nobody
  BY InvFacts DEF Evaluating, EvaluationEnds
<1>2. ~Evaluating' /\ tick' \in {"idle", "sweeping", "calling", "gating", "sending"}
      /\ PairsOf(bus') \subseteq PairsOf(bus)
  BY <1>1 DEF Evaluating
<1>3. chosen.pair \notin Lost(Loop)
  <2>1. journal[chosen.pair].forwarded > 0
    BY DEF FunnelInv, OnTheWay
  <2> QED BY <2>1, LoopFields DEF Lost, Orphans
<1>4. s.rolled => Lost(s) \subseteq PairsOf(bus') \cup policy' \cup {chosen'.pair}
  BY <1>1, <1>3 DEF FunnelInv, Accounted
<1> QED BY <1>1, <1>2, <1>4, HandlerKeeps

(* The evaluation leaves what the handlers share as it is. *)
LEMMA UnchangedLoop ==
    ASSUME FunnelInv, UNCHANGED <<rolled, queue, count, pre, journal>>
    PROVE  Becomes(Loop) /\ LoopTyped(Loop) /\ SameSlots(pre, Loop.pre)
BY InvFacts DEF Becomes, Loop, SameSlots

(* Every end of an evaluation, and its awaits. *)
LEMMA EvaluationKeeps ==
    ASSUME FunnelInv, Evaluation
    PROVE  FunnelInv'
<1> DEFINE pair == chosen.pair
<1>1. ASSUME Evaluating
      PROVE  up /\ pair \in Known(pre) /\ pair \in Pairs /\ journal[pair].forwarded > 0
  BY <1>1, InvFacts DEF FunnelInv, OnTheWay, Evaluating
<1>2. CASE AnalystFails
  <2> DEFINE r == RearmSlots(Loop, {pair})
             s == Refund(r, chosen)
  <2>1. Evaluating /\ EvaluationEnds /\ Becomes(s)
    BY <1>2 DEF AnalystFails, Evaluating
  <2>2. /\ Handles(Loop, r) /\ r.queue = Loop.queue /\ r.rolled = Loop.rolled
        /\ Orphans(r.journal) = Orphans(Loop.journal) \ {pair}
        /\ ~r.journal[pair].evaluated
    <3>1. /\ Handles(Loop, r) /\ r.queue = Loop.queue /\ r.rolled = Loop.rolled
          /\ Orphans(r.journal) = Orphans(Loop.journal) \ {pair}
      BY InvFacts, Rearms
    <3>2. ~r.journal[pair].evaluated
      BY <1>1, <2>1 DEF RearmSlots, Unspent, Loop
    <3> QED BY <3>1, <3>2
  <2> HIDE DEF r
  <2>3. /\ LoopTyped(s) /\ SameSlots(r.pre, s.pre) /\ s.rolled = r.rolled /\ Lost(s) \subseteq Lost(r) \cup {pair}
        /\ s.journal[pair].evaluated = r.journal[pair].evaluated
    BY <1>1, <2>1, <2>2, Refunds DEF Handles
  <2> HIDE DEF s
  <2>4. Lost(s) \subseteq Lost(Loop)
    BY <2>2, <2>3 DEF Lost, Orphans
  <2> QED BY <2>1, <2>2, <2>3, <2>4, EndKeeps, LoopFields DEF Handles, SameSlots
<1>3. CASE AnalystBlocked \/ AnalystIncoherent \/ GateRejects \/ Sent
  <2>1. Evaluating /\ EvaluationEnds /\ UNCHANGED <<rolled, queue, count, pre, journal>>
    BY <1>3 DEF AnalystBlocked, AnalystIncoherent, GateRejects, Sent, Evaluating, memory
  <2> QED BY <2>1, UnchangedLoop, EndKeeps, LoopFields
<1>4. CASE AnalystDeclines
  <2> DEFINE q == Decline(pre, pair)
             s == [Loop EXCEPT !.pre = q]
  <2>1. Evaluating /\ EvaluationEnds /\ Becomes(s)
    BY <1>4 DEF AnalystDeclines, Evaluating, Loop
  <2>2. /\ LoopShape(s) /\ s.pre = q /\ s.queue = queue /\ s.rolled = rolled /\ s.journal = journal
    BY DEF Loop, LoopShape
  <2>3. PreTyped(q) /\ SameSlots(pre, q)
    <3>1. /\ PreShape(q) /\ q.seen = pre.seen /\ q.charged = pre.charged
          /\ q.displaced = pre.displaced /\ q.admitted = pre.admitted /\ q.score = pre.score
      BY InvFacts DEF Decline, PreTyped, PreShape
    <3> HIDE DEF q
    <3> QED BY <3>1, InvFacts DEF PreTyped, AdmittedOnce, SameSlots
  <2> HIDE DEF s, q
  <2>4. LoopTyped(s) /\ Lost(s) = Lost(Loop)
    BY <2>2, <2>3, InvFacts, LoopFields DEF LoopTyped, SameSlots, Known, Lost
  <2> QED BY <2>1, <2>2, <2>3, <2>4, EndKeeps
<1>5. CASE AnalystProposes \/ GateApproves
  <2>1. Evaluating /\ Evaluating' /\ UNCHANGED <<rolled, queue, count, pre, journal>>
        /\ tick' \in {"idle", "sweeping", "calling", "gating", "sending"}
        /\ up' = up /\ stops' = stops /\ bus' = bus /\ policy' = policy /\ chosen' = chosen
    BY <1>5 DEF AnalystProposes, GateApproves, Evaluating, memory, history
  <2>2. /\ Loop.rolled => Lost(Loop) \subseteq PairsOf(bus') \cup policy' \cup {chosen'.pair}
        /\ chosen'.pair \in Known(pre) /\ Loop.journal[chosen'.pair].forwarded > 0
        /\ PairsOf(bus') \subseteq PairsOf(bus)
    BY <1>1, <2>1, LoopFields DEF FunnelInv, Accounted
  <2> QED BY <1>1, <2>1, <2>2, UnchangedLoop, HandlerKeeps
<1>6. CASE GateTimesOut
  <2> DEFINE s == RearmSlots(Loop, {pair})
  <2>1. Evaluating /\ EvaluationEnds /\ Becomes(s)
    BY <1>6 DEF GateTimesOut, Evaluating
  <2>2. /\ Handles(Loop, s) /\ s.queue = Loop.queue /\ s.rolled = Loop.rolled
        /\ Orphans(s.journal) = Orphans(Loop.journal) \ {pair}
    BY InvFacts, Rearms
  <2> HIDE DEF s
  <2>3. Lost(s) \subseteq Lost(Loop)
    BY <2>2 DEF Lost
  <2> QED BY <2>1, <2>2, <2>3, EndKeeps, LoopFields DEF Handles
<1>7. CASE EvaluationRaises
  <2>1. Evaluating /\ EvaluationEnds
    BY <1>7, FunnelAssumption DEF EvaluationRaises, Evaluating
  <2>2. PICK s \in Failed(Loop, chosen) : Becomes(s)
    BY <1>7 DEF EvaluationRaises
  <2>3. LoopTyped(s) /\ SameSlots(Loop.pre, s.pre) /\ s.rolled = Loop.rolled /\ Lost(s) \subseteq Lost(Loop)
    BY <1>1, <2>1, InvFacts, LoopFields, Fails
  <2> QED BY <2>1, <2>2, <2>3, EndKeeps, LoopFields
<1> QED BY <1>2, <1>3, <1>4, <1>5, <1>6, <1>7 DEF Evaluation

(* The drain is refused, or the window closes. *)
LEMMA QuietKeeps ==
    ASSUME FunnelInv, DrainRefused \/ WindowCloses
    PROVE  FunnelInv'
<1>1. /\ UNCHANGED <<rolled, queue, count, pre, journal>> /\ up' = up /\ stops' = stops /\ bus' = bus
      /\ policy' = policy /\ chosen' = chosen
      /\ \/ tick = "sweeping" /\ tick' = "idle"
         \/ tick' = tick
  BY DEF DrainRefused, WindowCloses, memory, drain, history
<1>2. LoopTyped(Loop') /\ OnTheWay' /\ Down' /\ Accounted'
  <2>1. LoopTyped(Loop') /\ Lost(Loop)' = Lost(Loop)
    BY <1>1, LoopFields, InvFacts DEF LoopTyped, Lost
  <2>2. Accounted'
    BY <1>1, <2>1 DEF FunnelInv, Accounted
  <2>3. OnTheWay'
    BY <1>1 DEF FunnelInv, OnTheWay, Evaluating
  <2>4. Down'
    BY <1>1 DEF FunnelInv, Down, DrainRefused, WindowCloses
  <2> QED BY <2>1, <2>2, <2>3, <2>4
<1> QED BY <1>1, <1>2 DEF FunnelInv

(* What has been published, one publication after the other. *)
LEMMA InSequence ==
    ASSUME NEW published_pairs, IsFiniteSet(published_pairs)
    PROVE  SetToSeq({c.pair : c \in published_pairs}) \in
               [1 .. Cardinality({c.pair : c \in published_pairs}) -> {c.pair : c \in published_pairs}]
<1> DEFINE T == {c.pair : c \in published_pairs}
           f == [c \in published_pairs |-> c.pair]
<1>1. f \in Surjection(published_pairs, T)
  BY DEF Surjection
<1>2. IsFiniteSet(T)
  BY <1>1, FS_Surjection
<1> HIDE DEF T
<1>3. \E g : g \in [1 .. Cardinality(T) -> T] /\ IsInjective(g)
  BY <1>2, FS_CardinalityType DEF ExistsBijection, Bijection, Injection
<1>4. SetToSeq(T) \in [1 .. Cardinality(T) -> T]
  BY <1>3 DEF SetToSeq
<1> QED BY <1>4 DEF T

(* _scan: nobody is forgotten, and what is published holds a slot. *)
LEMMA ScanKeeps ==
    ASSUME FunnelInv, Scan
    PROVE  FunnelInv'
<1>1. PICK cands \in SeqOf([pair : Pairs, score : Scores], MaxBatch) :
          LET result == AdmitBatch(pre, cands)
              accepted == SetToSeq({c.pair : c \in result.published})
          IN /\ pre' = result.p
             /\ bus' = bus \cup {[pair |-> accepted[i], id |-> published + i] : i \in DOMAIN accepted}
  BY DEF Scan
<1>2. cands \in Seq([pair : Pairs, score : Scores])
  <2>1. PICK m \in 0 .. MaxBatch : cands \in [1 .. m -> [pair : Pairs, score : Scores]]
    BY DEF SeqOf
  <2>2. m \in Nat
    BY FunnelAssumption
  <2> DEFINE C == [pair : Pairs, score : Scores]
  <2>3. cands \in [1 .. m -> C]
    BY <2>1
  <2> HIDE DEF C
  <2>4. cands \in UNION {[1 .. n -> C] : n \in Nat}
    BY <2>2, <2>3
  <2>5. Seq(C) = UNION {[1 .. n -> C] : n \in Nat}
    BY SeqDef
  <2>6. cands \in Seq(C)
    BY <2>4, <2>5
  <2> QED BY <2>6 DEF C
<1> DEFINE result == AdmitBatch(pre, cands)
           accepted == SetToSeq({c.pair : c \in result.published})
<1>3. /\ AdmitKeeps(pre, result.p) /\ IsFiniteSet(result.published)
      /\ {c.pair : c \in result.published} \subseteq Known(result.p)
  BY <1>2, BatchAdmitted, InvFacts
<1>4. pre' = result.p /\ bus' = bus \cup {[pair |-> accepted[i], id |-> published + i] : i \in DOMAIN accepted}
  BY <1>1
<1> HIDE DEF result
<1>5. PreTyped(pre') /\ (CapsOf(pre) => CapsOf(pre')) /\ Known(pre) \subseteq Known(pre')
  BY <1>3, <1>4 DEF AdmitKeeps
<1>6. \A i \in DOMAIN accepted : accepted[i] \in Known(pre')
  BY <1>3, <1>4, InSequence
<1> HIDE DEF accepted
<1>7. PairsOf(bus') \subseteq Known(pre') /\ PairsOf(bus) \subseteq PairsOf(bus')
  <2>1. PairsOf(bus) \subseteq PairsOf(bus')
    BY <1>4 DEF PairsOf
  <2>2. ASSUME NEW e \in bus'
        PROVE  e.pair \in Known(pre')
    <3>1. CASE e \in bus
      BY <1>5, <3>1, InvFacts DEF PairsOf
    <3>2. CASE e \notin bus
      <4>1. PICK i \in DOMAIN accepted : e = [pair |-> accepted[i], id |-> published + i]
        BY <1>4, <3>2
      <4> QED BY <1>6, <4>1
    <3> QED BY <3>1, <3>2
  <2> QED BY <2>1, <2>2 DEF PairsOf
<1>8. /\ up /\ up' = up /\ rolled' = rolled /\ queue' = queue /\ journal' = journal /\ stops' = stops
      /\ tick' = tick /\ chosen' = chosen /\ policy' = policy
  BY DEF Scan, memory, drain, history
<1>9. LoopTyped(Loop') /\ Lost(Loop)' = Lost(Loop)
  <2>1. LoopTyped(Loop')
    BY <1>5, <1>8, InvFacts, LoopFields DEF LoopTyped
  <2> QED BY <1>8, <2>1, LoopFields DEF Lost
<1>10. OnTheWay'
  BY <1>5, <1>7, <1>8 DEF FunnelInv, OnTheWay, Evaluating
<1>11. Accounted'
  BY <1>7, <1>8, <1>9 DEF FunnelInv, Accounted
<1>12. Down' /\ (stops' = 0 => CapsOf(pre')) /\ stops' \in Nat
  BY <1>5, <1>8 DEF FunnelInv, Down
<1> QED BY <1>9, <1>10, <1>11, <1>12 DEF FunnelInv

(* A pre-screen that nobody has been admitted to yet. *)
LEMMA FreshPre ==
    ASSUME NEW seen \in SUBSET Pairs, NEW charged \in SUBSET Pairs
    PROVE  /\ PreTyped(Hydrated(seen, charged)) /\ PreTyped(Empty)
           /\ Hydrated(seen, charged).charged = charged \cup seen /\ Empty.charged = {}
           /\ Known(Empty) = {}
<1> DEFINE q == Hydrated(seen, charged)
<1>1. /\ PreShape(Empty) /\ Empty.seen = {} /\ Empty.charged = {} /\ Empty.displaced = {}
      /\ Empty.admitted = <<>> /\ Empty.score = [pair \in Pairs |-> 0]
  BY DEF Empty, PreShape
<1>2. /\ PreShape(q) /\ q.seen = seen /\ q.charged = charged \cup seen /\ q.displaced = {}
      /\ q.admitted = <<>> /\ q.score = [pair \in Pairs |-> 0]
  BY DEF Hydrated, Empty, PreShape
<1>3. <<>> \in Seq(Pairs) /\ DOMAIN <<>> = {} /\ [pair \in Pairs |-> 0] \in [Pairs -> Nat]
  OBVIOUS
<1> HIDE DEF q
<1>4. PreTyped(q) /\ PreTyped(Empty)
  BY <1>1, <1>2, <1>3 DEF PreTyped, AdmittedOnce, NoRepeats
<1> QED BY <1>1, <1>2, <1>4 DEF q, Known

(* No caps are exceeded when nobody is charged. *)
LEMMA NobodyCharged ==
    ASSUME NEW p, p.charged = {}
    PROVE  CapsOf(p)
<1>1. IsFiniteSet({}) /\ Cardinality({}) = 0
  BY FS_EmptySet
<1>2. \A s \in Strategies : OfStrategy({}, s) = {}
  BY DEF OfStrategy
<1>3. MaxDay \in Nat /\ \A s \in Strategies : StrategyCap[s] \in Nat
  BY PreScreenAssumption
<1>4. IsFiniteSet(p.charged) /\ Cardinality(p.charged) <= MaxDay
  BY <1>1, <1>3
<1>5. \A s \in Strategies : Cardinality(OfStrategy(p.charged, s)) <= StrategyCap[s]
  BY <1>1, <1>2, <1>3
<1> QED BY <1>4, <1>5 DEF CapsOf

(* _hydrate_prescreen: what the journal charges, or nothing at first. *)
LEMMA BootKeeps ==
    ASSUME FunnelInv, Boot
    PROVE  FunnelInv'
<1> DEFINE seen == {pair \in Pairs : journal[pair].evaluated}
           charged == {pair \in Pairs : journal[pair].row}
<1>1. /\ ~up /\ up' /\ pre' = Hydrated(seen, charged) /\ rolled' = rolled /\ queue' = queue /\ journal' = journal
      /\ stops' = stops /\ tick' = tick /\ chosen' = chosen /\ bus' = bus
  BY DEF Boot, memory, drain
<1>2. ~rolled /\ tick = "idle" /\ bus = {} /\ queue = {} /\ (stops = 0 => seen = {} /\ charged = {})
  BY <1>1 DEF FunnelInv, Down
<1>3. seen \in SUBSET Pairs /\ charged \in SUBSET Pairs
  OBVIOUS
<1> HIDE DEF seen, charged
<1>4. PreTyped(pre') /\ pre'.charged = charged \cup seen
  BY <1>1, <1>3, FreshPre
<1>5. stops' = 0 => CapsOf(pre')
  BY <1>1, <1>2, <1>4, NobodyCharged
<1>6. LoopTyped(Loop')
  BY <1>1, <1>2, <1>4, InvFacts, LoopFields DEF LoopTyped, PairsOf
<1>7. OnTheWay'
  BY <1>1, <1>2 DEF FunnelInv, OnTheWay, Evaluating, PairsOf
<1> QED BY <1>1, <1>2, <1>5, <1>6, <1>7 DEF FunnelInv, Down, Accounted

(* A stop forgets the process and keeps the journal. *)
LEMMA StopKeeps ==
    ASSUME FunnelInv, Stop
    PROVE  FunnelInv'
<1>1. /\ up /\ ~up' /\ ~rolled' /\ pre' = Empty /\ bus' = {} /\ queue' = {} /\ tick' = "idle" /\ chosen' = Nobody
      /\ stops' = stops + 1
  BY DEF Stop
<1>2. JournalTyped(journal')
  <2>1. CASE journal' = journal
    BY <2>1, InvFacts, LoopFields DEF LoopTyped
  <2>2. CASE tick \in RaisesIn /\ \E s \in Failed(Loop, chosen) : journal' = s.journal
    <3>1. PICK s \in Failed(Loop, chosen) : journal' = s.journal
      BY <2>2
    <3>2. chosen.pair \in Known(pre) /\ journal[chosen.pair].forwarded > 0
      BY <2>2, FunnelAssumption DEF FunnelInv, OnTheWay, Evaluating
    <3>3. LoopTyped(s)
      BY <3>1, <3>2, InvFacts, LoopFields, Fails
    <3> QED BY <3>1, <3>3 DEF LoopTyped
  <2> QED BY <2>1, <2>2 DEF Stop
<1>3. stops' \in Nat /\ stops' # 0
  BY <1>1 DEF FunnelInv
<1>4. PreTyped(pre') /\ LoopTyped(Loop')
  BY <1>1, <1>2, FreshPre, LoopFields DEF LoopTyped, PairsOf
<1> QED BY <1>1, <1>3, <1>4 DEF FunnelInv, OnTheWay, Evaluating, Down, Accounted, PairsOf

(* Nothing has been published at first. *)
LEMMA FunnelInitially ==
    ASSUME Init
    PROVE  FunnelInv
<1>1. PreTyped(pre) /\ CapsOf(pre)
  BY FreshPre, NobodyCharged DEF Init
<1>2. JournalTyped(journal) /\ \A pair \in Pairs : ~journal[pair].row /\ ~journal[pair].evaluated
  BY DEF Init, NoRow, JournalTyped
<1>3. LoopTyped(Loop)
  BY <1>1, <1>2, LoopFields DEF Init, LoopTyped, PairsOf
<1> QED BY <1>1, <1>2, <1>3 DEF Init, FunnelInv, OnTheWay, Evaluating, Down, Accounted, PairsOf

(* A step that leaves everything as it is. *)
LEMMA StutterKeeps ==
    ASSUME FunnelInv, UNCHANGED vars
    PROVE  FunnelInv' /\ tick' = tick
<1>1. /\ UNCHANGED <<rolled, queue, count, pre, journal, up, stops, bus, policy, tick, chosen>>
  BY DEF vars, memory, drain, history
<1>2. LoopTyped(Loop') /\ Lost(Loop)' = Lost(Loop)
  BY <1>1, InvFacts, LoopFields DEF LoopTyped, Lost
<1> QED BY <1>1, <1>2 DEF FunnelInv, OnTheWay, Evaluating, Down, Accounted, CapsOf, PairsOf

(* No step disturbs the invariant, and a call is only made for a charged   *)
(* pair.                                                                   *)
LEMMA StepKeeps ==
    ASSUME FunnelInv, [Next]_vars
    PROVE  /\ FunnelInv'
           /\ tick = "sweeping" /\ tick' = "calling" => chosen'.pair \in pre'.charged
<1>1. CASE Next
  <2>1. CASE Drain
    BY <2>1, DrainKeeps
  <2>2. CASE ~Drain
    <3>1. ~(tick = "sweeping" /\ tick' = "calling")
      BY <1>1, <2>2 DEF Next, Boot, Scan, SomeArrival, Arrive, DrainTick, DrainRefused, Flush, Evaluation,
             AnalystFails, AnalystBlocked, AnalystDeclines, AnalystIncoherent, AnalystProposes, GateTimesOut,
             GateRejects, GateApproves, Sent, EvaluationRaises, EvaluationEnds, WindowCloses, Stop, drain
    <3>2. FunnelInv'
      BY <1>1, <2>2, BootKeeps, ScanKeeps, ArriveKeeps, DrainTickKeeps, QuietKeeps, FlushKeeps,
         EvaluationKeeps, StopKeeps DEF Next, SomeArrival
    <3> QED BY <3>1, <3>2
  <2> QED BY <2>1, <2>2
<1>2. CASE UNCHANGED vars
  BY <1>2, StutterKeeps
<1> QED BY <1>1, <1>2

(***************************************************************************)
(* The per-strategy and the daily cap bound the charged pairs through every*)
(* admission, displacement, re-arm and re-publication of a process that has*)
(* not been restarted (_admit_one_locked, _commit_displacement_locked). A  *)
(* displacement pays for the charge it makes within one strategy, so that  *)
(* both counts stay as they were.                                          *)
(***************************************************************************)
THEOREM CapsAreKept == Spec => []CapsHold
<1>1. FunnelInv => CapsHold
  BY DEF FunnelInv, CapsOf, CapsHold
<1>2. Spec => []FunnelInv
  <2>1. FunnelInv /\ [Next]_vars => FunnelInv'
    BY StepKeeps
  <2> QED BY <2>1, FunnelInitially, PTL DEF Spec
<1> QED BY <1>1, <1>2, PTL

(***************************************************************************)
(* After the day has been rolled, every slot that the journal calls spent  *)
(* without a forward is published, queued, being evaluated or was refused  *)
(* by policy; and a call of the analyst is only made for a pair that holds *)
(* its slot. Every handler that drops an entry re-arms its pair, and       *)
(* claim_slot refuses the pairs that were displaced and are not charged    *)
(* again.                                                                  *)
(***************************************************************************)
THEOREM PaidSlotsReachTheAnalyst == Spec => SlotsPayForCalls
<1>1. FunnelInv => NoStrandedSlot
  BY LoopFields DEF FunnelInv, Accounted, NoStrandedSlot, Lost
<1>2. FunnelInv /\ [Next]_vars => FunnelInv'
  BY StepKeeps
<1>3. FunnelInv /\ [Next]_vars => [tick = "sweeping" /\ tick' = "calling" => chosen'.pair \in pre'.charged]_vars
  BY StepKeeps
<1> QED BY <1>1, <1>2, <1>3, FunnelInitially, PTL DEF Spec, SlotsPayForCalls, CallsSpendHeldSlots
=============================================================================
