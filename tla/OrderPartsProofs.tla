-------------------------- MODULE OrderPartsProofs --------------------------
(***************************************************************************)
(* Of the small parts around the order path: the audit chain of the store, *)
(* the pace and budget of the rate limiter, the correlation buffer and the *)
(* messages to the owner.                                                  *)
(*                                                                         *)
(* The audit chain for any number of writers, frames and amendments.  The  *)
(* inductive part is only that rows and snapshots are rows; the chain then *)
(* follows step by step, because record compares the state inside its own  *)
(* transaction: the snapshot an accepted write was computed from stands    *)
(* where the row stands.                                                   *)
(***************************************************************************)
EXTENDS
    MCOrderParts, OrderMachineProofs, FiniteSetTheorems, SequenceTheorems, WellFoundedInduction,
    TLAPS

(* An accepted edge of a row ends in the state asked for, as a row. *)
LEMMA EdgeWrites ==
    ASSUME NEW o \in PlatformOrder(BrokerIds), NEW to, NEW table, NEW delta \in {0, 1},
           NEW fields \in Fields, NEW filled \in Nat, NEW at \in Nat,
           table \subseteq EdgesOfMachine, EdgeLegal(o, to, table, filled, delta)
    PROVE  /\ ApplyEdge(o, to, filled, delta, fields, at) \in PlatformOrder(BrokerIds)
           /\ ApplyEdge(o, to, filled, delta, fields, at).state = to
           /\ <<o.state, to>> \in EdgesOfMachine
<1>1. <<o.state, to>> \in EdgesOfMachine /\ o.modifications + delta <= MODIFICATION_CAP
  BY DEF EdgeLegal, EdgeExists, QuantityAccepted
<1>2. to \in OrderState
  BY <1>1, EdgeTyped DEF EdgesOfMachine
<1>3. ApplyEdge(o, to, filled, delta, fields, at) \in PlatformOrder(BrokerIds)
  BY <1>1, <1>2, EdgeType
<1>4. ApplyEdge(o, to, filled, delta, fields, at).state = to
  BY DEF ApplyEdge, PlatformOrder
<1> QED BY <1>1, <1>3, <1>4

(* What a caller may hand to record, given the snapshot it read. *)
Follows(before, after) ==
    /\ after \in PlatformOrder(BrokerIds)
    /\ \/ <<before.state, after.state>> \in EdgesOfMachine
       \/ after.state = before.state /\ before.state \notin TERMINAL_ORDER_STATES

ChainStep ==
    row' # row =>
        /\ event'.noop = FALSE
        /\ event'.from = row.state /\ event'.to = row'.state
        /\ \/ <<row.state, row'.state>> \in EdgesOfMachine
           \/ row'.state = row.state /\ row.state \notin TERMINAL_ORDER_STATES

(* record: what it accepts extends the chain, what it refuses leaves it. *)
LEMMA RecordExtends ==
    ASSUME TypeOK, NEW w \in Writers, NEW after, Holds(w),
           Follows(snapshot[w], after), Record(w, after), prior' \in Fields
    PROVE  TypeOK' /\ ChainStep
<1>1. snapshot[w] \in PlatformOrder(BrokerIds)
  BY DEF TypeOK, Holds
<1>2. /\ snapshot' \in [Writers -> PlatformOrder(BrokerIds) \cup {NoSnapshot}]
      /\ now' \in 0 .. MaxTime
  BY DEF Record, TypeOK
<1>3. CASE Refused(row, snapshot[w])
  BY <1>2, <1>3 DEF Record, TypeOK, ChainStep
<1>4. CASE ~Refused(row, snapshot[w])
  <2>1. row' = after /\ event' = [from |-> snapshot[w].state, to |-> after.state, noop |-> FALSE]
    BY <1>4 DEF Record
  <2>2. snapshot[w].state = row.state
    BY <1>4 DEF Refused
  <2>3. row' \in PlatformOrder(BrokerIds) /\ event' \in [from : OrderState, to : OrderState, noop : BOOLEAN]
    BY <1>1, <2>1 DEF Follows, PlatformOrder
  <2>4. ChainStep
    BY <2>1, <2>2 DEF ChainStep, Follows
  <2> QED BY <1>2, <2>3, <2>4 DEF TypeOK
<1> QED BY <1>3, <1>4

(* Every computation a caller makes on its snapshot follows from it. *)
LEMMA WritesFollow ==
    ASSUME TypeOK, NEW w \in Writers, Holds(w)
    PROVE  /\ \A bid \in BrokerIds : CanCorrelate(snapshot[w], bid) =>
                 Follows(snapshot[w], Correlate(snapshot[w], bid))
           /\ \A to \in {"CANCEL_PENDING", "LAPSED"} : CanTransition(snapshot[w], to) =>
                 Follows(snapshot[w], Transition(snapshot[w], to, now))
           /\ \A fields \in Amendments : CanAmend(snapshot[w], fields) =>
                 Follows(snapshot[w], Amend(snapshot[w], fields, now))
           /\ CanCancelRejected(snapshot[w]) =>
                 Follows(snapshot[w], CancelRejected(snapshot[w], now))
           /\ CanModifyRejected(snapshot[w]) =>
                 Follows(snapshot[w], ModifyRejected(snapshot[w], prior, now))
           /\ \A u \in Frames : ~IsNoop(snapshot[w], u) =>
                 Follows(snapshot[w], ApplyUpdate(snapshot[w], u, now))
<1> DEFINE o == snapshot[w]
<1>1. o \in PlatformOrder(BrokerIds) /\ now \in Nat /\ prior \in Fields
  BY DEF TypeOK, Holds
<1>2. /\ ALLOWED_TRANSITIONS \subseteq EdgesOfMachine
      /\ CANCEL_REJECTED_TRANSITIONS \subseteq EdgesOfMachine
      /\ NoFields \in Fields /\ o.filled_qty \in Nat
  BY <1>1 DEF EdgesOfMachine, NoFields, Fields, PlatformOrder
<1>3. ASSUME NEW bid \in BrokerIds, CanCorrelate(o, bid)
      PROVE  Follows(o, Correlate(o, bid))
  BY <1>1, <1>3 DEF CanCorrelate, Correlate, Follows, PlatformOrder
<1>4. ASSUME NEW to \in {"CANCEL_PENDING", "LAPSED"}, CanTransition(o, to)
      PROVE  Follows(o, Transition(o, to, now))
  <2>1. EdgeLegal(o, to, ALLOWED_TRANSITIONS, o.filled_qty, 0)
    BY <1>4 DEF CanTransition, PreservedFill
  <2>2. /\ ApplyEdge(o, to, o.filled_qty, 0, NoFields, now) \in PlatformOrder(BrokerIds)
        /\ ApplyEdge(o, to, o.filled_qty, 0, NoFields, now).state = to
        /\ <<o.state, to>> \in EdgesOfMachine
    BY <1>1, <1>2, <2>1, EdgeWrites
  <2>3. Transition(o, to, now) = ApplyEdge(o, to, o.filled_qty, 0, NoFields, now)
    BY DEF Transition, PreservedFill
  <2> QED BY <2>2, <2>3 DEF Follows
<1>5. ASSUME NEW fields \in Amendments, CanAmend(o, fields)
      PROVE  Follows(o, Amend(o, fields, now))
  <2>1. EdgeLegal(o, "MODIFY_PENDING", ALLOWED_TRANSITIONS, o.filled_qty, 1) /\ fields \in Fields
    BY <1>5, StoreAssumption DEF CanAmend
  <2>2. /\ ApplyEdge(o, "MODIFY_PENDING", o.filled_qty, 1, fields, now) \in PlatformOrder(BrokerIds)
        /\ ApplyEdge(o, "MODIFY_PENDING", o.filled_qty, 1, fields, now).state = "MODIFY_PENDING"
        /\ <<o.state, "MODIFY_PENDING">> \in EdgesOfMachine
    BY <1>1, <1>2, <2>1, EdgeWrites
  <2> QED BY <2>2 DEF Follows, Amend
<1>6. ASSUME CanCancelRejected(o)
      PROVE  Follows(o, CancelRejected(o, now))
  <2>1. EdgeLegal(o, FillState(o), CANCEL_REJECTED_TRANSITIONS, o.filled_qty, 0)
    BY <1>6 DEF CanCancelRejected
  <2>2. /\ ApplyEdge(o, FillState(o), o.filled_qty, 0, NoFields, now) \in PlatformOrder(BrokerIds)
        /\ ApplyEdge(o, FillState(o), o.filled_qty, 0, NoFields, now).state = FillState(o)
        /\ <<o.state, FillState(o)>> \in EdgesOfMachine
    BY <1>1, <1>2, <2>1, EdgeWrites
  <2> QED BY <2>2 DEF Follows, CancelRejected
<1>7. ASSUME CanModifyRejected(o)
      PROVE  Follows(o, ModifyRejected(o, prior, now))
  <2>1. EdgeLegal(o, FillState(o), ALLOWED_TRANSITIONS, o.filled_qty, 0)
    BY <1>7 DEF CanModifyRejected
  <2>2. /\ ApplyEdge(o, FillState(o), o.filled_qty, 0, prior, now) \in PlatformOrder(BrokerIds)
        /\ ApplyEdge(o, FillState(o), o.filled_qty, 0, prior, now).state = FillState(o)
        /\ <<o.state, FillState(o)>> \in EdgesOfMachine
    BY <1>1, <1>2, <2>1, EdgeWrites
  <2> QED BY <2>2 DEF Follows, ModifyRejected
<1>8. ASSUME NEW u \in Frames, ~IsNoop(o, u)
      PROVE  Follows(o, ApplyUpdate(o, u, now))
  <2>1. u \in BrokerUpdate(BrokerIds)
    BY StoreAssumption
  <2>2. ApplyUpdate(o, u, now) \in PlatformOrder(BrokerIds)
    BY <1>1, <2>1, UpdateType
  <2>3. <<o.state, ApplyUpdate(o, u, now).state>> \in ALLOWED_TRANSITIONS
    BY <1>1, <1>8, <2>1, AppliedFrame
  <2> QED BY <1>2, <2>2, <2>3 DEF Follows
<1> QED BY <1>3, <1>4, <1>5, <1>6, <1>7, <1>8

(* One step of any caller, or of the clock. *)
LEMMA StoreStep ==
    ASSUME TypeOK, [Next]_vars
    PROVE  TypeOK' /\ ChainStep
<1>1. CASE UNCHANGED vars
  BY <1>1 DEF vars, TypeOK, ChainStep
<1>2. CASE Tick
  BY <1>2, StoreAssumption DEF Tick, TypeOK, ChainStep
<1>3. ASSUME NEW w \in Writers, Read(w)
      PROVE  TypeOK' /\ ChainStep
  BY <1>3 DEF Read, TypeOK, ChainStep
<1>4. ASSUME NEW w \in Writers, NEW bid \in BrokerIds, Correlates(w, bid)
      PROVE  TypeOK' /\ ChainStep
  <2>1. prior' \in Fields /\ Holds(w) /\ CanCorrelate(snapshot[w], bid) /\ Record(w, Correlate(snapshot[w], bid))
    BY <1>4 DEF Correlates, TypeOK
  <2> QED BY <2>1, WritesFollow, RecordExtends
<1>5. ASSUME NEW w \in Writers, NEW to \in {"CANCEL_PENDING", "LAPSED"}, Moves(w, to)
      PROVE  TypeOK' /\ ChainStep
  <2>1. prior' \in Fields /\ Holds(w) /\ CanTransition(snapshot[w], to) /\ Record(w, Transition(snapshot[w], to, now))
    BY <1>5 DEF Moves, TypeOK
  <2> QED BY <2>1, WritesFollow, RecordExtends
<1>6. ASSUME NEW w \in Writers, NEW fields \in Amendments, Amends(w, fields)
      PROVE  TypeOK' /\ ChainStep
  <2>1. Holds(w) /\ CanAmend(snapshot[w], fields) /\ Record(w, Amend(snapshot[w], fields, now))
    BY <1>6 DEF Amends
  <2>2. PriorFields(snapshot[w], fields) \in Fields
    BY <2>1 DEF TypeOK, Holds, PriorFields, Fields, PlatformOrder
  <2>3. prior' \in Fields
    BY <1>6, <2>2 DEF Amends, TypeOK
  <2> QED BY <2>1, <2>3, WritesFollow, RecordExtends
<1>7. ASSUME NEW w \in Writers, CancelRefused(w)
      PROVE  TypeOK' /\ ChainStep
  <2>1. prior' \in Fields /\ Holds(w) /\ CanCancelRejected(snapshot[w]) /\ Record(w, CancelRejected(snapshot[w], now))
    BY <1>7 DEF CancelRefused, TypeOK
  <2> QED BY <2>1, WritesFollow, RecordExtends
<1>8. ASSUME NEW w \in Writers, ModifyRefused(w)
      PROVE  TypeOK' /\ ChainStep
  <2>1. prior' \in Fields /\ Holds(w) /\ CanModifyRejected(snapshot[w]) /\ Record(w, ModifyRejected(snapshot[w], prior, now))
    BY <1>8 DEF ModifyRefused, TypeOK
  <2> QED BY <2>1, WritesFollow, RecordExtends
<1>9. ASSUME NEW w \in Writers, NEW u \in Frames, Applies(w, u)
      PROVE  TypeOK' /\ ChainStep
  <2>1. CASE IsNoop(snapshot[w], u)
    <3>1. RecordNoop(w) /\ Holds(w) /\ prior' = prior
      BY <1>9, <2>1 DEF Applies
    <3>2. snapshot[w].state \in OrderState
      BY <3>1 DEF TypeOK, Holds, PlatformOrder
    <3> QED BY <3>1, <3>2 DEF RecordNoop, TypeOK, ChainStep
  <2>2. CASE ~IsNoop(snapshot[w], u)
    <3>1. prior' \in Fields /\ Holds(w) /\ Record(w, ApplyUpdate(snapshot[w], u, now))
      BY <1>9, <2>2 DEF Applies, TypeOK
    <3> QED BY <2>2, <3>1, WritesFollow, RecordExtends
  <2> QED BY <2>1, <2>2
<1> QED BY <1>1, <1>2, <1>3, <1>4, <1>5, <1>6, <1>7, <1>8, <1>9 DEF Next

(* Rows and snapshots stay rows: record never stores anything else. *)
THEOREM StoreTyped == Spec => []TypeOK
<1>1. Init => TypeOK
  BY StoreAssumption, CapAssumption
     DEF Init, TypeOK, PlatformOrder, OrderState, NoEvent, NoFields, Fields
<1>2. TypeOK /\ [Next]_vars => TypeOK'
  BY StoreStep
<1> QED BY <1>1, <1>2, PTL DEF Spec

(***************************************************************************)
(* The order_events rows form one unbroken chain of the machine's edges    *)
(* for any number of concurrent callers of record: a write computed from a *)
(* state the row has left is never stored.                                 *)
(***************************************************************************)
THEOREM ChainUnbroken == Spec => AuditChain
<1>1. TypeOK /\ [Next]_vars => ChainStep
  BY StoreStep
<1>2. TypeOK /\ [Next]_vars =>
        [ row' # row =>
            /\ event'.noop = FALSE
            /\ event'.from = row.state /\ event'.to = row'.state
            /\ \/ <<row.state, row'.state>> \in EdgesOfMachine
               \/ row'.state = row.state /\ row.state \notin TERMINAL_ORDER_STATES ]_vars
  BY <1>1 DEF ChainStep
<1> QED BY <1>2, StoreTyped, PTL DEF Spec, AuditChain

-----------------------------------------------------------------------------
(* The smaller of two numbers, as the limiter takes it. *)
LEMMA MinOfTwo ==
    ASSUME NEW a \in Int, NEW b \in Int
    PROVE  Limiter!Min({a, b}) = IF a <= b THEN a ELSE b
<1> DEFINE m == IF a <= b THEN a ELSE b
<1>1. m \in {a, b} /\ \A y \in {a, b} : m <= y
  OBVIOUS
<1>2. \A x \in {a, b} : (\A y \in {a, b} : x <= y) => x = m
  OBVIOUS
<1> QED BY <1>1, <1>2 DEF Limiter!Min

(* The limiter's notion of a finite set and of its size is the usual one. *)
LEMMA SameSets ==
    /\ \A S : Limiter!IsFiniteSet(S) <=> IsFiniteSet(S)
    /\ \A S : Limiter!Cardinality(S) = Cardinality(S)
<1>1. \A S : Limiter!IsFiniteSet(S) <=> IsFiniteSet(S)
  BY DEF Limiter!IsFiniteSet, IsFiniteSet
<1>2. \A S : Limiter!Cardinality(S) = Cardinality(S)
  BY <1>1 DEF Limiter!Cardinality, Cardinality
<1> QED BY <1>1, <1>2

(***************************************************************************)
(* The rate limiter.  Paced speaks of the latest Burst + 1 admissions; the *)
(* invariant is about each of the latest i, and about the bucket: i        *)
(* admissions took i seconds' worth of tokens, of which time has given     *)
(* back no more than what passed since the first of them.                  *)
(***************************************************************************)
LimiterTyped ==
    /\ tokens \in 0 .. Limiter!Capacity /\ lag \in Int
    /\ caller \in [Limiter!Callers -> {"idle", "asleep", "admitted", "refused"}]
    /\ entry_calls \in Nat
    /\ recent \in [1 .. Burst + 1 -> Int]

(* The bucket cannot hold what the latest admissions took and time has not *)
(* given back.                                                             *)
Repaid ==
    \A i \in 1 .. Burst + 1 :
        Limiter!Refilled <= Limiter!Capacity - i * Second + recent[i]

(* The entry calls that wait for their token. *)
Asleep == {c \in Entry : caller[c] = "asleep"}

(* A sleeping entry call has passed the check of the budget, and is not    *)
(* counted yet.                                                            *)
SleepersCounted == entry_calls + Cardinality(Asleep) <= Cap + Cardinality(Entry) - 1

LimiterInv == LimiterTyped /\ Repaid /\ SleepersCounted

(* What the constants of the limiter are. *)
LEMMA LimiterNumbers ==
    /\ Cap \in Nat \ {0} /\ Burst \in Nat \ {0} /\ Second \in Nat \ {0}
    /\ MaxStep \in Nat /\ Limiter!Capacity \in Nat \ {0}
    /\ IsFiniteSet(Entry) /\ Cardinality(Entry) \in Nat
<1>1. /\ Cap \in Nat \ {0} /\ Burst \in Nat \ {0} /\ Second \in Nat \ {0}
      /\ MaxStep \in Nat /\ IsFiniteSet(Entry)
  BY PartsAssumption, SameSets DEF Limiter!LimiterAssumption
<1>2. Burst * Second \in Nat \ {0}
  BY <1>1
<1> QED BY <1>1, <1>2, FS_CardinalityType DEF Limiter!Capacity

(* _refill of a bucket that holds t, l after its last refill. *)
Refill(t, l) ==
    IF l <= 0 THEN t ELSE IF Limiter!Capacity <= t + l THEN Limiter!Capacity ELSE t + l

(* A refill adds what the clock gave, up to the capacity. *)
LEMMA RefillIs ==
    ASSUME NEW t \in 0 .. Limiter!Capacity, NEW l \in Int
    PROVE  /\ Refill(t, l) \in t .. Limiter!Capacity
           /\ (IF l > 0 THEN Limiter!Min({Limiter!Capacity, t + l}) ELSE t) = Refill(t, l)
<1>1. Limiter!Min({Limiter!Capacity, t + l}) =
        IF Limiter!Capacity <= t + l THEN Limiter!Capacity ELSE t + l
  BY LimiterNumbers, MinOfTwo
<1> QED BY <1>1, LimiterNumbers DEF Refill

(* _refill, in this state and the next. *)
LEMMA RefilledIs ==
    /\ tokens \in 0 .. Limiter!Capacity /\ lag \in Int
            => /\ Limiter!Refilled = Refill(tokens, lag)
               /\ Limiter!Refilled \in Int
               /\ tokens <= Limiter!Refilled /\ Limiter!Refilled <= Limiter!Capacity
    /\ tokens' \in 0 .. Limiter!Capacity /\ lag' \in Int
            => /\ Limiter!Refilled' = Refill(tokens', lag')
               /\ Limiter!Refilled' \in Int
               /\ tokens' <= Limiter!Refilled' /\ Limiter!Refilled' <= Limiter!Capacity
<1>1. ASSUME NEW t \in 0 .. Limiter!Capacity, NEW l \in Int
      PROVE  Refill(t, l) \in Int /\ t <= Refill(t, l) /\ Refill(t, l) <= Limiter!Capacity
  BY LimiterNumbers DEF Refill
<1>2. ASSUME tokens \in 0 .. Limiter!Capacity, lag \in Int
      PROVE  Limiter!Refilled = Refill(tokens, lag)
  BY <1>2, RefillIs DEF Limiter!Refilled
<1>3. ASSUME tokens' \in 0 .. Limiter!Capacity, lag' \in Int
      PROVE  Limiter!Refilled' = Refill(tokens', lag')
  <2>1. Limiter!Capacity' = Limiter!Capacity
    BY DEF Limiter!Capacity
  <2>2. Limiter!Refilled' = IF lag' > 0 THEN Limiter!Min({Limiter!Capacity', tokens' + lag'})
                                        ELSE tokens'
    BY Zenon DEF Limiter!Refilled, Limiter!Min
  <2> QED BY <1>3, <2>1, <2>2, RefillIs
<1>4. tokens \in 0 .. Limiter!Capacity /\ lag \in Int
        => /\ Limiter!Refilled = Refill(tokens, lag)
           /\ Limiter!Refilled \in Int
           /\ tokens <= Limiter!Refilled /\ Limiter!Refilled <= Limiter!Capacity
  BY <1>1, <1>2
<1>5. tokens' \in 0 .. Limiter!Capacity /\ lag' \in Int
        => /\ Limiter!Refilled' = Refill(tokens', lag')
           /\ Limiter!Refilled' \in Int
           /\ tokens' <= Limiter!Refilled' /\ Limiter!Refilled' <= Limiter!Capacity
  <2> SUFFICES ASSUME tokens' \in 0 .. Limiter!Capacity, lag' \in Int
               PROVE  /\ Refill(tokens', lag') \in Int
                      /\ tokens' <= Refill(tokens', lag')
                      /\ Refill(tokens', lag') <= Limiter!Capacity
    BY <1>3
  <2> QED BY <1>1
<1> QED BY <1>4, <1>5

(* A call of acquire: it refills, and takes a token or sleeps. *)
LEMMA WaitKeeps ==
    ASSUME LimiterInv, NEW c \in Limiter!Callers, NEW counted \in Nat,
           Limiter!WaitSeconds(c, counted)
    PROVE  /\ LimiterTyped' /\ Repaid'
           /\ \/ /\ caller' = [caller EXCEPT ![c] = "asleep"] /\ entry_calls' = counted
              \/ /\ caller' = [caller EXCEPT ![c] = "admitted"]
                 /\ entry_calls' = IF c \in Entry THEN counted + 1 ELSE counted
<1>1. lag' \in Int /\ lag' <= 0
  <2>1. Limiter!Min({lag, 0}) = IF lag <= 0 THEN lag ELSE 0
    BY MinOfTwo DEF LimiterInv, LimiterTyped
  <2> QED BY <2>1 DEF Limiter!WaitSeconds, LimiterInv, LimiterTyped
<1>2. Limiter!Refilled \in 0 .. Limiter!Capacity
  BY RefilledIs, RefillIs, LimiterNumbers DEF LimiterInv, LimiterTyped
<1>3. Limiter!Refilled' = tokens'
  BY <1>1 DEF Limiter!Refilled
<1>4. CASE Limiter!TakeToken(c, counted)
  <2>1. /\ Limiter!Refilled >= Second /\ tokens' = Limiter!Refilled - Second
        /\ caller' = [caller EXCEPT ![c] = "admitted"]
        /\ entry_calls' = IF c \in Entry THEN counted + 1 ELSE counted
        /\ recent' = [i \in 1 .. Burst + 1 |-> IF i = 1 THEN 0 ELSE recent[i - 1]]
    BY <1>4 DEF Limiter!TakeToken, Limiter!AfterOneMore
  <2>2. recent' \in [1 .. Burst + 1 -> Int]
    BY <2>1, LimiterNumbers DEF LimiterInv, LimiterTyped
  <2>3. LimiterTyped'
    BY <1>1, <1>2, <2>1, <2>2, LimiterNumbers DEF LimiterInv, LimiterTyped, Limiter!Capacity, Limiter!Callers
  <2>4. ASSUME NEW i \in 1 .. Burst + 1
        PROVE  tokens' <= Limiter!Capacity - i * Second + recent'[i]
    <3>1. CASE i = 1
      BY <1>2, <2>1, <3>1, LimiterNumbers
    <3>2. CASE i # 1
      <4>1. i - 1 \in 1 .. Burst + 1 /\ recent'[i] = recent[i - 1] /\ recent[i - 1] \in Int
        BY <2>1, <3>2, LimiterNumbers DEF LimiterInv, LimiterTyped
      <4>2. Limiter!Refilled <= Limiter!Capacity - (i - 1) * Second + recent[i - 1]
        BY <4>1 DEF LimiterInv, Repaid
      <4>3. (i - 1) * Second = i * Second - Second /\ i * Second \in Int
        BY LimiterNumbers
      <4> QED BY <1>2, <2>1, <4>1, <4>2, <4>3, LimiterNumbers
    <3> QED BY <3>1, <3>2
  <2>5. Repaid'
    BY <1>3, <2>4, LimiterNumbers DEF Repaid, Limiter!Capacity
  <2> QED BY <2>1, <2>3, <2>5
<1>5. CASE Limiter!Sleep(c, counted)
  <2>1. /\ tokens' = Limiter!Refilled /\ recent' = recent /\ entry_calls' = counted
        /\ caller' = [caller EXCEPT ![c] = "asleep"]
    BY <1>5 DEF Limiter!Sleep
  <2>2. LimiterTyped'
    BY <1>1, <1>2, <2>1, LimiterNumbers DEF LimiterInv, LimiterTyped, Limiter!Capacity, Limiter!Callers
  <2>3. Repaid'
    BY <1>3, <2>1 DEF LimiterInv, Repaid, Limiter!Capacity
  <2> QED BY <2>1, <2>2, <2>3
<1> QED BY <1>4, <1>5 DEF Limiter!WaitSeconds

(* Sleepers are entry callers, and few: all of them, at most. *)
LEMMA Sleepers ==
    ASSUME LimiterTyped
    PROVE  /\ IsFiniteSet(Asleep) /\ Cardinality(Asleep) \in Nat
           /\ Cardinality(Asleep) <= Cardinality(Entry)
           /\ \A c \in Entry : c \notin Asleep => Cardinality(Asleep) <= Cardinality(Entry) - 1
<1>1. IsFiniteSet(Asleep) /\ Cardinality(Asleep) <= Cardinality(Entry)
  BY LimiterNumbers, FS_Subset DEF Asleep
<1>2. ASSUME NEW c \in Entry, c \notin Asleep
      PROVE  Cardinality(Asleep) <= Cardinality(Entry) - 1
  <2>1. IsFiniteSet(Entry \ {c}) /\ Cardinality(Entry \ {c}) = Cardinality(Entry) - 1
    BY LimiterNumbers, FS_RemoveElement
  <2>2. Asleep \subseteq Entry \ {c}
    BY <1>2 DEF Asleep
  <2> QED BY <2>1, <2>2, FS_Subset
<1> QED BY <1>1, <1>2, FS_CardinalityType

(* One caller moves. *)
LEMMA CountAfter ==
    ASSUME LimiterTyped, LimiterTyped', NEW c \in Limiter!Callers, NEW to,
           caller' = [caller EXCEPT ![c] = to]
    PROVE  /\ c \notin Entry => Asleep' = Asleep
           /\ c \in Entry /\ to = "asleep" => Asleep' = Asleep \cup {c}
           /\ c \in Entry /\ to # "asleep" => Asleep' = Asleep \ {c}
  BY DEF LimiterTyped, Asleep, Limiter!Callers

(* A call of acquire: refused, paced, or put to sleep uncounted. *)
LEMMA AcquireKeeps ==
    ASSUME LimiterInv, NEW c \in Limiter!Callers, Limiter!Acquire(c)
    PROVE  LimiterInv'
<1> USE LimiterNumbers
<1>1. /\ Limiter!Budgeted \in Nat /\ Limiter!Budgeted <= entry_calls
      /\ c \notin Asleep
  BY DEF Limiter!Acquire, Limiter!Budgeted, LimiterInv, LimiterTyped, Asleep
<1>2. CASE Limiter!Refuse(c)
  <2>1. /\ c \in Entry /\ caller' = [caller EXCEPT ![c] = "refused"]
        /\ entry_calls' = Limiter!Budgeted /\ UNCHANGED <<tokens, lag, recent>>
    BY <1>2 DEF Limiter!Refuse, Limiter!bucket
  <2>2. LimiterTyped'
    BY <1>1, <2>1 DEF LimiterInv, LimiterTyped, Limiter!Capacity, Limiter!Callers
  <2>3. Repaid'
    BY <2>1 DEF LimiterInv, Repaid, Limiter!Refilled, Limiter!Capacity
  <2>4. Asleep' = Asleep
    BY <1>1, <2>1 DEF Asleep, LimiterInv, LimiterTyped, Limiter!Callers
  <2>5. SleepersCounted'
    BY <1>1, <2>1, <2>4, Sleepers DEF LimiterInv, SleepersCounted, LimiterTyped
  <2> QED BY <2>2, <2>3, <2>5 DEF LimiterInv
<1>3. CASE Limiter!StartPacing(c)
  <2>1. /\ Limiter!WaitSeconds(c, Limiter!Budgeted)
        /\ c \in Entry => Limiter!Budgeted < Cap
    BY <1>1, <1>3 DEF Limiter!StartPacing, Limiter!EntryBudgetExhausted
  <2>2. /\ LimiterTyped' /\ Repaid'
        /\ \/ /\ caller' = [caller EXCEPT ![c] = "asleep"] /\ entry_calls' = Limiter!Budgeted
           \/ /\ caller' = [caller EXCEPT ![c] = "admitted"]
              /\ entry_calls' = IF c \in Entry THEN Limiter!Budgeted + 1 ELSE Limiter!Budgeted
    BY <1>1, <2>1, WaitKeeps
  <2>3. CASE c \notin Entry
    <3>1. Asleep' = Asleep /\ entry_calls' = Limiter!Budgeted
      BY <2>2, <2>3, CountAfter DEF LimiterInv
    <3>2. SleepersCounted'
      BY <1>1, <3>1, Sleepers DEF LimiterInv, SleepersCounted, LimiterTyped
    <3> QED BY <2>2, <3>2 DEF LimiterInv
  <2>4. CASE c \in Entry /\ entry_calls' = Limiter!Budgeted /\ Asleep' = Asleep \cup {c}
    <3>1. Cardinality(Asleep') = Cardinality(Asleep) + 1
      BY <1>1, <2>4, Sleepers, FS_AddElement DEF LimiterInv
    <3>2. SleepersCounted'
      BY <1>1, <2>1, <2>4, <3>1, Sleepers DEF LimiterInv, SleepersCounted
    <3> QED BY <2>2, <3>2 DEF LimiterInv
  <2>5. CASE c \in Entry /\ entry_calls' = Limiter!Budgeted + 1 /\ Asleep' = Asleep \ {c}
    <3>1. Asleep' = Asleep
      BY <1>1, <2>5
    <3>2. SleepersCounted'
      BY <1>1, <2>1, <2>5, <3>1, Sleepers DEF LimiterInv, SleepersCounted
    <3> QED BY <2>2, <3>2 DEF LimiterInv
  <2> QED BY <2>2, <2>3, <2>4, <2>5, CountAfter DEF LimiterInv
<1> QED BY <1>2, <1>3 DEF Limiter!Acquire

(* A sleeper wakes: it is counted only when it takes its token. *)
LEMMA RetryKeeps ==
    ASSUME LimiterInv, NEW c \in Limiter!Callers, Limiter!Retry(c)
    PROVE  LimiterInv'
<1> USE LimiterNumbers
<1>1. caller[c] = "asleep" /\ entry_calls \in Nat /\ Limiter!WaitSeconds(c, entry_calls)
  BY DEF Limiter!Retry, LimiterInv, LimiterTyped
<1>2. /\ LimiterTyped' /\ Repaid'
      /\ \/ /\ caller' = [caller EXCEPT ![c] = "asleep"] /\ entry_calls' = entry_calls
         \/ /\ caller' = [caller EXCEPT ![c] = "admitted"]
            /\ entry_calls' = IF c \in Entry THEN entry_calls + 1 ELSE entry_calls
  BY <1>1, WaitKeeps
<1>3. CASE Asleep' = Asleep /\ entry_calls' = entry_calls
  BY <1>2, <1>3 DEF LimiterInv, SleepersCounted
<1>4. CASE c \in Entry /\ entry_calls' = entry_calls + 1 /\ Asleep' = Asleep \ {c}
  <2>1. c \in Asleep
    BY <1>1, <1>4 DEF Asleep
  <2>2. Cardinality(Asleep') = Cardinality(Asleep) - 1
    BY <1>4, <2>1, Sleepers, FS_RemoveElement DEF LimiterInv
  <2>3. SleepersCounted'
    BY <1>1, <1>4, <2>2, Sleepers DEF LimiterInv, SleepersCounted
  <2> QED BY <1>2, <2>3 DEF LimiterInv
<1>5. c \in Entry /\ caller' = [caller EXCEPT ![c] = "asleep"] => Asleep' = Asleep
  BY <1>1, <1>2, CountAfter DEF LimiterInv, Asleep
<1>6. c \notin Entry => Asleep' = Asleep
  BY <1>2, CountAfter DEF LimiterInv
<1>7. c \in Entry /\ caller' = [caller EXCEPT ![c] = "admitted"] => Asleep' = Asleep \ {c}
  BY <1>2, CountAfter DEF LimiterInv
<1> QED BY <1>2, <1>3, <1>4, <1>5, <1>6, <1>7

(* A tick gives back to the bucket what it takes from the pace. *)
LEMMA TickKeeps ==
    ASSUME LimiterInv, Limiter!Tick
    PROVE  LimiterInv'
<1> USE LimiterNumbers
<1>1. /\ lag' = Limiter!Min({Limiter!Capacity, lag + 1})
      /\ recent' = [i \in 1 .. Burst + 1 |-> Limiter!Min({i * Second, recent[i] + 1})]
      /\ UNCHANGED <<tokens, caller, entry_calls>>
  BY DEF Limiter!Tick, Limiter!budget, Limiter!OneTickOlder
<1>2. lag' = IF Limiter!Capacity <= lag + 1 THEN Limiter!Capacity ELSE lag + 1
  BY <1>1, MinOfTwo DEF LimiterInv, LimiterTyped
<1>3. ASSUME NEW i \in 1 .. Burst + 1
      PROVE  /\ i * Second \in Int /\ recent[i] \in Int
             /\ recent'[i] = IF i * Second <= recent[i] + 1 THEN i * Second ELSE recent[i] + 1
  <2>1. i * Second \in Int /\ recent[i] \in Int /\ recent[i] + 1 \in Int
    BY DEF LimiterInv, LimiterTyped
  <2> QED BY <1>1, <2>1, MinOfTwo
<1>4. recent' \in [1 .. Burst + 1 -> Int]
  <2> DEFINE Older(i) == Limiter!Min({i * Second, recent[i] + 1})
  <2>1. recent' = [i \in 1 .. Burst + 1 |-> Older(i)]
    BY <1>1
  <2>2. \A i \in 1 .. Burst + 1 : Older(i) = recent'[i]
    BY <2>1
  <2>3. \A i \in 1 .. Burst + 1 : recent'[i] \in Int
    BY <1>3
  <2>4. \A i \in 1 .. Burst + 1 : Older(i) \in Int
    BY <2>2, <2>3
  <2> HIDE DEF Older
  <2> QED BY <2>1, <2>4
<1>5. LimiterTyped'
  BY <1>1, <1>2, <1>4 DEF LimiterInv, LimiterTyped, Limiter!Capacity, Limiter!Callers
<1>6. Limiter!Refilled' <= Limiter!Refilled + 1 /\ Limiter!Refilled' <= Limiter!Capacity
  <2>1. Limiter!Refilled' = Refill(tokens', lag')
    BY <1>1, <1>2, RefilledIs, RefillIs DEF LimiterInv, LimiterTyped
  <2> QED BY <1>1, <1>2, <2>1, RefilledIs, RefillIs DEF LimiterInv, LimiterTyped, Refill
<1>7. Repaid'
  <2>1. ASSUME NEW i \in 1 .. Burst + 1
        PROVE  Limiter!Refilled' <= Limiter!Capacity - i * Second + recent'[i]
    <3>1. Limiter!Refilled <= Limiter!Capacity - i * Second + recent[i]
      BY DEF LimiterInv, Repaid
    <3>2. Limiter!Refilled \in Int /\ Limiter!Refilled' \in Int
      BY <1>1, <1>2, RefilledIs, RefillIs DEF LimiterInv, LimiterTyped
    <3> QED BY <1>3, <1>6, <3>1, <3>2
  <2> QED BY <2>1 DEF Repaid, Limiter!Capacity
<1>8. SleepersCounted'
  BY <1>1 DEF LimiterInv, SleepersCounted, Asleep
<1> QED BY <1>5, <1>7, <1>8 DEF LimiterInv

(* The wall clock is set back: nothing is earned by it. *)
LEMMA StepBackKeeps ==
    ASSUME LimiterInv, Limiter!StepBack
    PROVE  LimiterInv'
<1> USE LimiterNumbers
<1>1. PICK d \in 1 .. MaxStep : lag' = lag - d
  BY DEF Limiter!StepBack
<1>2. UNCHANGED <<tokens, caller, entry_calls, recent>>
  BY DEF Limiter!StepBack, Limiter!calls, Limiter!budget
<1>3. LimiterTyped'
  BY <1>1, <1>2 DEF LimiterInv, LimiterTyped, Limiter!Capacity, Limiter!Callers
<1>4. Limiter!Refilled' <= Limiter!Refilled /\ Limiter!Refilled' \in Int /\ Limiter!Refilled \in Int
  <2>1. Limiter!Refilled' = Refill(tokens', lag')
    BY <1>1, <1>2, RefilledIs, RefillIs DEF LimiterInv, LimiterTyped
  <2> QED BY <1>1, <1>2, <2>1, RefilledIs, RefillIs DEF LimiterInv, LimiterTyped, Refill
<1>5. Repaid'
  <2>1. ASSUME NEW i \in 1 .. Burst + 1
        PROVE  Limiter!Refilled' <= Limiter!Capacity - i * Second + recent'[i]
    <3>1. /\ Limiter!Refilled <= Limiter!Capacity - i * Second + recent[i]
          /\ i * Second \in Int /\ recent[i] \in Int
      BY DEF LimiterInv, Repaid, LimiterTyped
    <3> QED BY <1>2, <1>4, <3>1
  <2> QED BY <2>1 DEF Repaid, Limiter!Capacity
<1>6. SleepersCounted'
  BY <1>2 DEF LimiterInv, SleepersCounted, Asleep
<1> QED BY <1>3, <1>5, <1>6 DEF LimiterInv

(* ... or forward: the count of the pace starts anew. *)
LEMMA StepForwardKeeps ==
    ASSUME LimiterTyped, SleepersCounted, recent' = Limiter!LongAgo, lag' \in Int,
           UNCHANGED <<tokens, caller, entry_calls>>
    PROVE  LimiterInv'
<1> USE LimiterNumbers
<1>1. recent' = [i \in 1 .. Burst + 1 |-> i * Second]
  BY DEF Limiter!LongAgo
<1>2. LimiterTyped'
  BY <1>1 DEF LimiterTyped, Limiter!Capacity, Limiter!Callers
<1>3. Limiter!Refilled' \in Int /\ Limiter!Refilled' <= Limiter!Capacity
  BY RefilledIs, RefillIs DEF LimiterTyped
<1>4. Repaid'
  <2>1. ASSUME NEW i \in 1 .. Burst + 1
        PROVE  Limiter!Refilled' <= Limiter!Capacity - i * Second + recent'[i]
    <3>1. recent'[i] = i * Second /\ i * Second \in Int
      BY <1>1
    <3> QED BY <1>3, <3>1
  <2> QED BY <2>1 DEF Repaid, Limiter!Capacity
<1>5. SleepersCounted'
  BY DEF SleepersCounted, Asleep
<1> QED BY <1>2, <1>4, <1>5 DEF LimiterInv

(* Every step keeps the limiter's invariant. *)
LEMMA LimiterStep ==
    ASSUME LimiterInv, [Limiter!Next]_(Limiter!vars)
    PROVE  LimiterInv'
<1> USE LimiterNumbers
<1>1. CASE UNCHANGED <<tokens, lag, caller, entry_calls, recent>>
  BY <1>1 DEF LimiterInv, LimiterTyped, Repaid, SleepersCounted, Asleep, Limiter!Refilled,
              Limiter!Capacity, Limiter!Callers
<1>2. ASSUME NEW c \in Limiter!Callers, Limiter!NextCall(c)
      PROVE  LimiterInv'
  <2>1. /\ c \in Entry /\ caller[c] # "asleep" /\ caller' = [caller EXCEPT ![c] = "idle"]
        /\ UNCHANGED <<tokens, lag, entry_calls, recent>>
    BY <1>2 DEF Limiter!NextCall, Limiter!bucket, Limiter!budget
  <2>2. LimiterTyped'
    BY <2>1 DEF LimiterInv, LimiterTyped, Limiter!Capacity, Limiter!Callers
  <2>3. Asleep' = Asleep
    BY <2>1, <2>2, CountAfter DEF LimiterInv, Asleep
  <2> QED BY <2>1, <2>2, <2>3 DEF LimiterInv, Repaid, SleepersCounted, Limiter!Refilled, Limiter!Capacity
<1>3. CASE Limiter!StepForward
  <2>1. PICK d \in 1 .. MaxStep : lag' = Limiter!Min({Limiter!Capacity, lag + d})
    BY <1>3 DEF Limiter!StepForward
  <2>2. lag' \in Int
    BY <2>1, MinOfTwo DEF LimiterInv, LimiterTyped
  <2> QED BY <1>3, <2>2, StepForwardKeeps DEF Limiter!StepForward, Limiter!calls, Limiter!budget, LimiterInv
<1>4. CASE Limiter!NewDay
  BY <1>1, <1>4 DEF Limiter!NewDay, Limiter!bucket, Limiter!calls
<1>5. CASE UNCHANGED Limiter!vars
  BY <1>1, <1>5 DEF Limiter!vars, Limiter!bucket, Limiter!calls, Limiter!budget
<1> QED BY <1>2, <1>3, <1>4, <1>5, AcquireKeeps, RetryKeeps, TickKeeps, StepBackKeeps
        DEF Limiter!Next

(***************************************************************************)
(* For any burst, cap, callers and steps of the wall clock: no more than   *)
(* Burst order calls are admitted in a second (B3), however sleeping and   *)
(* arriving callers contend and also while the clock is set back; and the  *)
(* day's entry cap is overshot by one call for each further entry caller at*)
(* most, since it is checked before the sleep and counted after it.        *)
(***************************************************************************)
THEOREM PaceAndBudgetHold == Limiter!Spec => []PacedWithinBudget
<1> USE LimiterNumbers
<1>1. Limiter!Init => LimiterInv
  <2> SUFFICES ASSUME Limiter!Init PROVE LimiterInv
    OBVIOUS
  <2>1. /\ tokens = Limiter!Capacity /\ lag = 0 /\ recent = [i \in 1 .. Burst + 1 |-> i * Second]
        /\ caller = [c \in Limiter!Callers |-> "idle"] /\ entry_calls = 0
    BY DEF Limiter!Init, Limiter!LongAgo
  <2>2. LimiterTyped
    BY <2>1 DEF LimiterTyped
  <2>3. Limiter!Refilled = Limiter!Capacity
    BY <2>1 DEF Limiter!Refilled
  <2>4. Repaid
    <3>1. ASSUME NEW i \in 1 .. Burst + 1
          PROVE  Limiter!Refilled <= Limiter!Capacity - i * Second + recent[i]
      <4>1. recent[i] = i * Second /\ i * Second \in Int
        BY <2>1
      <4> QED BY <2>3, <4>1
    <3> QED BY <3>1 DEF Repaid
  <2>5. Asleep = {}
    BY <2>1 DEF Asleep, Limiter!Callers
  <2>6. Cardinality(Asleep) = 0
    BY <2>5, FS_EmptySet
  <2> QED BY <2>1, <2>2, <2>4, <2>6 DEF LimiterInv, SleepersCounted
<1>2. LimiterInv /\ [Limiter!Next]_(Limiter!vars) => LimiterInv'
  BY LimiterStep
<1>3. LimiterInv => PacedWithinBudget
  <2> SUFFICES ASSUME LimiterInv PROVE PacedWithinBudget
    OBVIOUS
  <2>1. recent[Burst + 1] >= Second
    <3>1. Limiter!Refilled <= Limiter!Capacity - (Burst + 1) * Second + recent[Burst + 1]
      BY DEF LimiterInv, Repaid
    <3>2. (Burst + 1) * Second = Limiter!Capacity + Second
      BY DEF Limiter!Capacity
    <3>3. recent[Burst + 1] \in Int /\ Limiter!Refilled \in Nat
      BY RefilledIs, RefillIs DEF LimiterInv, LimiterTyped
    <3> QED BY <3>1, <3>2, <3>3
  <2>2. entry_calls <= Cap + Cardinality(Entry) - 1
    BY Sleepers DEF LimiterInv, SleepersCounted, LimiterTyped
  <2> QED BY <2>1, <2>2, SameSets DEF PacedWithinBudget, Limiter!Paced, Limiter!EntryOvershootBounded
<1> QED BY <1>1, <1>2, <1>3, PTL DEF Limiter!Spec

(***************************************************************************)
(* The correlation buffer.  Its lists are filtered and their heads popped: *)
(* what stays keeps its order.                                             *)
(***************************************************************************)
(* A set of natural numbers that has an element has a least one. *)
LEMMA LeastOf ==
    ASSUME NEW B \in SUBSET Nat, NEW b \in B
    PROVE  \E n \in B : \A k \in B : n <= k
<1>1. PICK n \in B : \A k \in B : ~(<<k, n>> \in OpToRel(<, Nat))
  BY NatLessThanWellFounded, WFMin
<1>2. \A k \in B : ~(k < n)
  BY <1>1 DEF OpToRel
<1> QED BY <1>2

(* f is the filter's result after each of the first entries, up to top.    *)
Filters(f, es, keep, top) ==
    f = [n \in 0 .. top |->
            IF n = 0 THEN <<>>
            ELSE IF es[n] \in keep THEN Append(f[n - 1], es[n]) ELSE f[n - 1]]

(* The filter's recursive definition has a solution. *)
LEMMA FilterExists ==
    ASSUME NEW es, NEW keep, NEW last \in Nat
    PROVE  \E f : Filters(f, es, keep, last)
<1> DEFINE Bad == {n \in Nat : ~ \E f : Filters(f, es, keep, n)}
<1> SUFFICES ASSUME last \in Bad
             PROVE  FALSE
  OBVIOUS
<1>1. PICK n \in Bad : \A k \in Bad : n <= k
  BY LeastOf
<1>2. n # 0
  <2> DEFINE f == [k \in 0 .. 0 |-> <<>>]
  <2>1. f = [k \in 0 .. 0 |->
                IF k = 0 THEN <<>>
                ELSE IF es[k] \in keep THEN Append(f[k - 1], es[k]) ELSE f[k - 1]]
    OBVIOUS
  <2>2. Filters(f, es, keep, 0)
    BY ONLY <2>1 DEF Filters
  <2> QED BY <1>1, <2>2
<1>3. n - 1 \in Nat /\ n - 1 \notin Bad
  BY <1>1, <1>2
<1>4. PICK f : Filters(f, es, keep, n - 1)
  BY <1>3
<1> DEFINE g == [k \in 0 .. n |->
                    IF k = 0 THEN <<>>
                    ELSE IF es[k] \in keep THEN Append(f[k - 1], es[k]) ELSE f[k - 1]]
<1>5. \A k \in 0 .. n - 1 : g[k] = f[k]
  <2>1. \A k \in 0 .. n - 1 : k \in 0 .. n
    BY <1>3
  <2> QED BY <1>4, <2>1 DEF Filters
<1>6. \A k \in 0 .. n : k # 0 => g[k - 1] = f[k - 1]
  <2>1. \A k \in 0 .. n : k # 0 => k - 1 \in 0 .. n - 1
    BY <1>3
  <2> HIDE DEF g
  <2> QED BY <1>5, <2>1
<1>7. Filters(g, es, keep, n)
  BY <1>6 DEF Filters
<1> QED BY <1>1, <1>7

(* Entries in the order of their arrival. *)
Arrived(es) == \A i, j \in DOMAIN es : i < j => es[i].seq < es[j].seq

(* Entries carry the number of their arrival; one that comes after others. *)
Numbered(T) == \A x \in T : x.seq \in Nat
After(s, e) == \A i \in DOMAIN s : s[i].seq < e.seq

(* One more entry, after all others. *)
LEMMA AppendArrives ==
    ASSUME NEW T, NEW s \in Seq(T), NEW e \in T, Numbered(T), Arrived(s), After(s, e)
    PROVE  \A t : t = Append(s, e) =>
               /\ t \in Seq(T) /\ Arrived(t) /\ Len(t) = Len(s) + 1
               /\ Buffer!ToSet(t) = Buffer!ToSet(s) \cup {e}
<1> SUFFICES ASSUME NEW t, t = Append(s, e)
             PROVE  /\ t \in Seq(T) /\ Arrived(t) /\ Len(t) = Len(s) + 1
                    /\ Buffer!ToSet(t) = Buffer!ToSet(s) \cup {e}
  OBVIOUS
<1>1. /\ t \in Seq(T) /\ Len(t) = Len(s) + 1 /\ Len(s) \in Nat
      /\ t[Len(s) + 1] = e /\ \A i \in 1 .. Len(s) : t[i] = s[i]
  OBVIOUS
<1>2. DOMAIN t = 1 .. Len(s) + 1 /\ DOMAIN s = 1 .. Len(s)
  BY <1>1
<1>3. Arrived(t)
  <2>1. ASSUME NEW i \in DOMAIN t, NEW j \in DOMAIN t, i < j
        PROVE  t[i].seq < t[j].seq
    <3>1. i \in 1 .. Len(s) /\ (j \in 1 .. Len(s) \/ j = Len(s) + 1)
      BY <1>1, <1>2, <2>1
    <3> QED BY <1>1, <1>2, <2>1, <3>1 DEF Arrived, Numbered, After
  <2> QED BY <2>1 DEF Arrived
<1>4. Buffer!ToSet(t) = Buffer!ToSet(s) \cup {e}
  <2>1. ASSUME NEW i \in DOMAIN t
        PROVE  t[i] \in Buffer!ToSet(s) \cup {e}
    <3>1. i \in 1 .. Len(s) \/ i = Len(s) + 1
      BY <1>1, <1>2
    <3> QED BY <1>1, <1>2, <3>1 DEF Buffer!ToSet
  <2>2. ASSUME NEW x \in Buffer!ToSet(s) \cup {e}
        PROVE  x \in Buffer!ToSet(t)
    <3>1. CASE x = e
      <4>1. Len(s) + 1 \in DOMAIN t
        BY <1>1, <1>2
      <4> QED BY <1>1, <3>1, <4>1 DEF Buffer!ToSet
    <3>2. CASE \E k \in DOMAIN s : x = s[k]
      <4>1. PICK k \in DOMAIN s : x = s[k]
        BY <3>2
      <4>2. k \in DOMAIN t
        BY <1>1, <1>2
      <4> QED BY <1>1, <1>2, <4>1, <4>2 DEF Buffer!ToSet
    <3> QED BY <3>1, <3>2 DEF Buffer!ToSet
  <2>3. \A x \in Buffer!ToSet(t) : \E i \in DOMAIN t : x = t[i]
    BY DEF Buffer!ToSet
  <2>4. \A x \in Buffer!ToSet(t) : x \in Buffer!ToSet(s) \cup {e}
    BY <2>1, <2>3
  <2> QED BY <2>2, <2>4
<1> QED BY <1>1, <1>3, <1>4

(* The filter leaves what is in keep, in order. *)
LEMMA FilterKeeps ==
    ASSUME NEW T, Numbered(T), NEW es \in Seq(T), Arrived(es), NEW keep
    PROVE  \A r : r = Buffer!Among(es, keep) =>
               /\ r \in Seq(T) /\ Arrived(r)
               /\ Buffer!ToSet(r) = Buffer!ToSet(es) \cap keep
<1> DEFINE f == CHOOSE g : Filters(g, es, keep, Len(es))
           KeptUpTo(n) ==
               /\ f[n] \in Seq(T) /\ Arrived(f[n])
               /\ Buffer!ToSet(f[n]) = {es[i] : i \in 1 .. n} \cap keep
           Bad == {n \in Nat : n <= Len(es) /\ ~KeptUpTo(n)}
<1>1. Len(es) \in Nat /\ DOMAIN es = 1 .. Len(es) /\ \A i \in 1 .. Len(es) : es[i] \in T
  OBVIOUS
<1>2. Filters(f, es, keep, Len(es))
  BY <1>1, FilterExists
<1>3. Buffer!Among(es, keep) = f[Len(es)]
  BY DEF Buffer!Among, Filters
<1> HIDE DEF f
<1>4. \A n \in 0 .. Len(es) :
          f[n] = IF n = 0 THEN <<>>
                 ELSE IF es[n] \in keep THEN Append(f[n - 1], es[n]) ELSE f[n - 1]
  BY <1>2 DEF Filters
<1>5. Bad = {}
  <2> SUFFICES ASSUME NEW b \in Bad
               PROVE  FALSE
    OBVIOUS
  <2>1. PICK n \in Bad : \A k \in Bad : n <= k
    <3>1. Bad \in SUBSET Nat
      OBVIOUS
    <3> HIDE DEF Bad
    <3> QED BY <3>1, LeastOf
  <2>2. n \in 0 .. Len(es) /\ ~KeptUpTo(n)
    BY <1>1, <2>1
  <2>3. n # 0
    <3>1. f[0] = <<>>
      BY <1>1, <1>4
    <3>2. KeptUpTo(0)
      BY <3>1 DEF Arrived, Buffer!ToSet
    <3> QED BY <2>2, <3>2
  <2> DEFINE m == n - 1
             s == f[m]
  <2>4. m \in Nat /\ m <= Len(es) /\ n \in 1 .. Len(es) /\ m < n
    BY <1>1, <2>2, <2>3
  <2>5. KeptUpTo(m)
    <3>1. m \notin Bad
      <4>1. ~(n <= m)
        BY <2>1, <2>4
      <4> QED BY <2>1, <4>1
    <3> QED BY <2>4, <3>1
  <2>6. f[n] = IF es[n] \in keep THEN Append(s, es[n]) ELSE s
    BY <1>4, <2>2, <2>3
  <2>7. 1 .. n = (1 .. m) \cup {n}
    BY <2>4
  <2> HIDE DEF m, s, Bad
  <2>8. CASE es[n] \in keep
    <3>1. s \in Seq(T) /\ Arrived(s) /\ Buffer!ToSet(s) = {es[i] : i \in 1 .. m} \cap keep
      BY <2>5 DEF s
    <3>2. After(s, es[n])
      <4>1. ASSUME NEW i \in DOMAIN s
            PROVE  s[i].seq < es[n].seq
        <5>1. PICK k \in 1 .. m : s[i] = es[k]
          BY <3>1 DEF Buffer!ToSet
        <5>2. k \in DOMAIN es /\ n \in DOMAIN es /\ k < n
          BY <1>1, <2>4
        <5> QED BY <5>1, <5>2 DEF Arrived
      <4> QED BY <4>1 DEF After
    <3>3. es[n] \in T
      BY <1>1, <2>4
    <3>t. PICK t : t = Append(s, es[n])
      OBVIOUS
    <3>4. /\ t \in Seq(T) /\ Arrived(t)
          /\ Buffer!ToSet(t) = Buffer!ToSet(s) \cup {es[n]}
      BY <3>t, <3>1, <3>2, <3>3, AppendArrives
    <3>5. f[n] = t
      BY <2>6, <2>8, <3>t
    <3>6. Buffer!ToSet(t) = {es[i] : i \in 1 .. n} \cap keep
      BY <2>7, <2>8, <3>1, <3>4
    <3>7. KeptUpTo(n)
      BY <3>4, <3>5, <3>6
    <3> QED BY <2>2, <3>7
  <2>9. CASE es[n] \notin keep
    <3>1. f[n] = f[m]
      BY <2>6, <2>9 DEF s
    <3>2. {es[i] : i \in 1 .. n} \cap keep = {es[i] : i \in 1 .. m} \cap keep
      BY <2>7, <2>9
    <3>3. KeptUpTo(n)
      BY <2>5, <3>1, <3>2
    <3> QED BY <2>2, <3>3
  <2> QED BY <2>8, <2>9
<1> HIDE DEF KeptUpTo
<1>6. KeptUpTo(Len(es))
  BY <1>1, <1>5
<1>8. /\ f[Len(es)] \in Seq(T) /\ Arrived(f[Len(es)])
      /\ Buffer!ToSet(f[Len(es)]) = {es[i] : i \in 1 .. Len(es)} \cap keep
  BY <1>6 DEF KeptUpTo
<1> HIDE DEF Bad
<1>7. Buffer!ToSet(es) = {es[i] : i \in 1 .. Len(es)}
  BY <1>1 DEF Buffer!ToSet
<1>9. /\ f[Len(es)] \in Seq(T) /\ Arrived(f[Len(es)])
      /\ Buffer!ToSet(f[Len(es)]) = Buffer!ToSet(es) \cap keep
  BY <1>7, <1>8
<1> QED BY <1>3, <1>9

(* Entries in order are all different: there are as many as places.        *)
LEMMA ArrivedCounted ==
    ASSUME NEW T, Numbered(T), NEW s \in Seq(T), Arrived(s)
    PROVE  /\ IsFiniteSet(Buffer!ToSet(s)) /\ Cardinality(Buffer!ToSet(s)) = Len(s)
           /\ Buffer!ToSet(s) \in SUBSET T
<1>1. Len(s) \in Nat /\ DOMAIN s = 1 .. Len(s) /\ \A i \in 1 .. Len(s) : s[i] \in T
  OBVIOUS
<1>2. s \in [1 .. Len(s) -> Buffer!ToSet(s)]
  BY <1>1 DEF Buffer!ToSet
<1>3. \A i, j \in 1 .. Len(s) : s[i] = s[j] => i = j
  <2>1. ASSUME NEW i \in 1 .. Len(s), NEW j \in 1 .. Len(s), s[i] = s[j], i # j
        PROVE  FALSE
    <3>1. s[i].seq \in Nat /\ s[j].seq \in Nat /\ s[i].seq = s[j].seq
      BY <1>1, <2>1 DEF Numbered
    <3>2. i < j \/ j < i
      BY <2>1
    <3> QED BY <1>1, <3>1, <3>2 DEF Arrived
  <2> QED BY <2>1
<1>4. \A x \in Buffer!ToSet(s) : \E i \in 1 .. Len(s) : s[i] = x
  BY <1>1 DEF Buffer!ToSet
<1>5. ExistsBijection(1 .. Len(s), Buffer!ToSet(s))
  BY <1>2, <1>3, <1>4 DEF ExistsBijection, Bijection, Injection, Surjection, IsInjective
<1>6. IsFiniteSet(1 .. Len(s)) /\ Cardinality(1 .. Len(s)) = Len(s)
  <2>1. 1 \in Int /\ Len(s) \in Int
    BY <1>1
  <2>2. /\ IsFiniteSet(1 .. Len(s))
        /\ Cardinality(1 .. Len(s)) = IF 1 > Len(s) THEN 0 ELSE Len(s) - 1 + 1
    BY <2>1, FS_Interval
  <2> QED BY <1>1, <2>2
<1>7. IsFiniteSet(Buffer!ToSet(s)) /\ Cardinality(Buffer!ToSet(s)) = Len(s)
  BY <1>5, <1>6, FS_Bijection
<1>8. \A x \in Buffer!ToSet(s) : x \in T
  BY <1>1, <1>4
<1> QED BY <1>7, <1>8

(* a has the members of keep, and b the other entries. *)
Chosen(T, es, keep, a, b) ==
    /\ a \in Seq(T) /\ Arrived(a) /\ Buffer!ToSet(a) = keep
    /\ b \in Seq(T) /\ Arrived(b) /\ Buffer!ToSet(b) = Buffer!ToSet(es) \ keep
    /\ IsFiniteSet(keep) /\ Cardinality(keep) = Len(a)
    /\ Len(es) = Len(a) + Len(b)

(* The filter and what it leaves out are a partition of the entries.       *)
LEMMA FilterParts ==
    ASSUME NEW T, Numbered(T), NEW es \in Seq(T), Arrived(es),
           NEW keep \in SUBSET Buffer!ToSet(es), NEW a, NEW b,
           a = Buffer!Among(es, keep), b = Buffer!Among(es, Buffer!ToSet(es) \ keep)
    PROVE  Chosen(T, es, keep, a, b)
<1> DEFINE all == Buffer!ToSet(es)
<1>1. a \in Seq(T) /\ Arrived(a) /\ Buffer!ToSet(a) = all \cap keep
  BY FilterKeeps
<1>2. b \in Seq(T) /\ Arrived(b) /\ Buffer!ToSet(b) = all \cap (all \ keep)
  BY FilterKeeps
<1>3. IsFiniteSet(all) /\ Cardinality(all) = Len(es)
  BY ArrivedCounted
<1>4. IsFiniteSet(Buffer!ToSet(a)) /\ Cardinality(Buffer!ToSet(a)) = Len(a)
  BY <1>1, ArrivedCounted
<1>5. Cardinality(Buffer!ToSet(b)) = Len(b)
  BY <1>2, ArrivedCounted
<1>6. Cardinality(all \ keep) = Cardinality(all) - Cardinality(all \cap keep)
  BY <1>3, FS_Difference
<1>7. all \cap keep = keep /\ all \cap (all \ keep) = all \ keep
  OBVIOUS
<1>8. Len(a) \in Nat /\ Len(b) \in Nat /\ Len(es) \in Nat
  BY <1>1, <1>2
<1> HIDE DEF all
<1>9. Len(es) = Len(a) + Len(b)
  <2>1. Cardinality(all \cap keep) = Len(a)
    BY <1>1, <1>4
  <2>2. Cardinality(all \ keep) = Len(b)
    BY <1>2, <1>5, <1>7
  <2> QED BY <1>3, <1>6, <1>8, <2>1, <2>2
<1> QED BY <1>1, <1>2, <1>4, <1>7, <1>9 DEF all, Chosen

(* o and r have the entries es between them. *)
Parted(T, es, o, r) ==
    /\ o \in Seq(T) /\ Arrived(o) /\ r \in Seq(T) /\ Arrived(r)
    /\ Buffer!ToSet(o) \cup Buffer!ToSet(r) = Buffer!ToSet(es)
    /\ Buffer!ToSet(o) \cap Buffer!ToSet(r) = {}
    /\ Len(es) = Len(o) + Len(r)

(* What overflows and what stays are a partition of the entries, too.      *)
LEMMA PopParts ==
    ASSUME NEW T, Numbered(T), NEW es \in Seq(T), Arrived(es), MaxEntries \in Nat,
           NEW o, NEW r, o = Buffer!Overflow(es), r = Buffer!Rest(es)
    PROVE  Parted(T, es, o, r)
<1>1. Len(es) \in Nat /\ DOMAIN es = 1 .. Len(es) /\ \A i \in 1 .. Len(es) : es[i] \in T
  OBVIOUS
<1> DEFINE over == Len(es) - MaxEntries
<1>2. over \in Int /\ over <= Len(es)
  BY <1>1
<1>3. o = SubSeq(es, 1, over) /\ r = SubSeq(es, Len(o) + 1, Len(es))
  BY DEF Buffer!Overflow, Buffer!Rest
<1> HIDE DEF over
<1>4. /\ o \in Seq(T) /\ Len(o) = (IF 1 <= over THEN over - 1 + 1 ELSE 0)
      /\ \A i \in 1 .. over - 1 + 1 : o[i] = es[1 + i - 1]
  <2>1. \A i \in 1 .. over : es[i] \in T
    BY <1>1, <1>2
  <2> QED BY <1>2, <1>3, <2>1, SubSeqProperties
<1> DEFINE k == Len(o)
<1>5. k \in 0 .. Len(es) /\ k \in Nat
  BY <1>1, <1>2, <1>4
<1>6. DOMAIN o = 1 .. k /\ \A i \in 1 .. k : o[i] = es[i]
  BY <1>2, <1>4, <1>5
<1>7. r = SubSeq(es, k + 1, Len(es))
  BY <1>3
<1> HIDE DEF k
<1>8. /\ r \in Seq(T) /\ Len(r) = (IF k + 1 <= Len(es) THEN Len(es) - (k + 1) + 1 ELSE 0)
      /\ \A i \in 1 .. Len(es) - (k + 1) + 1 : r[i] = es[k + 1 + i - 1]
  <2>1. \A i \in k + 1 .. Len(es) : es[i] \in T
    BY <1>1, <1>5
  <2> QED BY <1>1, <1>5, <1>7, <2>1, SubSeqProperties
<1>9. /\ Len(r) = Len(es) - k /\ DOMAIN r = 1 .. Len(es) - k
      /\ \A i \in 1 .. Len(es) - k : r[i] = es[k + i]
  <2>1. Len(r) = Len(es) - k
    <3>1. Len(r) = (IF k + 1 <= Len(es) THEN Len(es) - (k + 1) + 1 ELSE 0)
      BY <1>8
    <3>2. PICK l : l = Len(es)
      OBVIOUS
    <3>3. l \in Nat /\ k \in Nat /\ k <= l
      BY <1>1, <1>5, <3>2
    <3>4. (IF k + 1 <= l THEN l - (k + 1) + 1 ELSE 0) = l - k
      BY ONLY <3>3
    <3> QED BY <3>1, <3>2, <3>4
  <2>2. DOMAIN r = 1 .. Len(r)
    BY <1>8
  <2>3. ASSUME NEW i \in 1 .. Len(es) - k
        PROVE  r[i] = es[k + i]
    <3>1. i \in 1 .. Len(es) - (k + 1) + 1 /\ k + 1 + i - 1 = k + i
      BY <1>1, <1>5
    <3>2. r[i] = es[k + 1 + i - 1]
      BY <1>8, <3>1
    <3> QED BY <3>1, <3>2
  <2> QED BY <2>1, <2>2, <2>3
<1>10. Arrived(o)
  BY <1>1, <1>5, <1>6 DEF Arrived
<1>11. Arrived(r)
  <2>1. ASSUME NEW i \in DOMAIN r, NEW j \in DOMAIN r, i < j
        PROVE  r[i].seq < r[j].seq
    <3>1. k + i \in DOMAIN es /\ k + j \in DOMAIN es /\ k + i < k + j
      BY <1>1, <1>5, <1>9, <2>1
    <3>2. es[k + i].seq < es[k + j].seq
      BY <3>1 DEF Arrived
    <3> QED BY <1>9, <3>2
  <2> QED BY <2>1 DEF Arrived
<1>12. ASSUME NEW x \in Buffer!ToSet(o)
       PROVE  \E i \in 1 .. k : x = es[i]
  BY <1>6 DEF Buffer!ToSet
<1>13. ASSUME NEW x \in Buffer!ToSet(r)
       PROVE  \E i \in k + 1 .. Len(es) : x = es[i]
  <2>1. PICK i \in 1 .. Len(es) - k : x = r[i]
    BY <1>9 DEF Buffer!ToSet
  <2>2. k + i \in k + 1 .. Len(es) /\ x = es[k + i]
    BY <1>1, <1>5, <1>9, <2>1
  <2> QED BY <2>2
<1>14. \A i \in 1 .. k : es[i] \in Buffer!ToSet(o)
  BY <1>6 DEF Buffer!ToSet
<1>15. \A i \in k + 1 .. Len(es) : es[i] \in Buffer!ToSet(r)
  <2>1. ASSUME NEW i \in k + 1 .. Len(es)
        PROVE  es[i] \in Buffer!ToSet(r)
    <3>1. i - k \in 1 .. Len(es) - k /\ k + (i - k) = i
      BY <1>1, <1>5
    <3>2. i - k \in DOMAIN r /\ r[i - k] = es[i]
      BY <1>9, <3>1
    <3> QED BY <3>2 DEF Buffer!ToSet
  <2> QED BY <2>1
<1>16. \A x \in Buffer!ToSet(es) : \E i \in 1 .. Len(es) : x = es[i]
  BY <1>1 DEF Buffer!ToSet
<1>17. \A i \in 1 .. Len(es) : es[i] \in Buffer!ToSet(es)
  BY <1>1 DEF Buffer!ToSet
<1>18. /\ \A i \in 1 .. Len(es) : i \in 1 .. k \/ i \in k + 1 .. Len(es)
       /\ \A i \in 1 .. k : i \in 1 .. Len(es)
       /\ \A i \in k + 1 .. Len(es) : i \in 1 .. Len(es)
  BY <1>1, <1>5
<1>19. Buffer!ToSet(o) \cup Buffer!ToSet(r) = Buffer!ToSet(es)
  <2>1. ASSUME NEW x \in Buffer!ToSet(o) \cup Buffer!ToSet(r)
        PROVE  x \in Buffer!ToSet(es)
    BY <1>12, <1>13, <1>17, <1>18
  <2>2. ASSUME NEW x \in Buffer!ToSet(es)
        PROVE  x \in Buffer!ToSet(o) \cup Buffer!ToSet(r)
    BY <1>14, <1>15, <1>16, <1>18
  <2> QED BY <2>1, <2>2
<1>20. Buffer!ToSet(o) \cap Buffer!ToSet(r) = {}
  <2>1. ASSUME NEW x \in Buffer!ToSet(o), x \in Buffer!ToSet(r)
        PROVE  FALSE
    <3>1. PICK i \in 1 .. k : x = es[i]
      BY <1>12
    <3>2. PICK j \in k + 1 .. Len(es) : x = es[j]
      BY <1>13, <2>1
    <3>3. i \in 1 .. Len(es) /\ j \in 1 .. Len(es) /\ i < j
      BY <1>5, <1>18
    <3>4. es[i].seq < es[j].seq /\ es[i].seq \in Nat
      BY <1>1, <3>3 DEF Arrived, Numbered
    <3> QED BY <3>1, <3>2, <3>4
  <2> QED BY <2>1
<1>21. Len(es) = Len(o) + Len(r)
  BY <1>1, <1>5, <1>9 DEF k
<1> QED BY <1>4, <1>8, <1>10, <1>11, <1>19, <1>20, <1>21 DEF Parted

(* u has the entries of s and then those of t. *)
Joined(T, s, t, u) ==
    /\ u \in Seq(T) /\ Len(u) = Len(s) + Len(t)
    /\ \A i \in 1 .. Len(s) : u[i] = s[i]
    /\ \A i \in Len(s) + 1 .. Len(s) + Len(t) : u[i] = t[i - Len(s)]
    /\ Buffer!ToSet(u) = Buffer!ToSet(s) \cup Buffer!ToSet(t)

(* What a concatenation holds. *)
LEMMA ConcatHolds ==
    ASSUME NEW T, NEW s \in Seq(T), NEW t \in Seq(T), NEW u, u = s \o t
    PROVE  Joined(T, s, t, u)
<1>1. /\ Len(s) \in Nat /\ DOMAIN s = 1 .. Len(s)
      /\ Len(t) \in Nat /\ DOMAIN t = 1 .. Len(t)
  OBVIOUS
<1>3. /\ u \in Seq(T) /\ Len(u) = Len(s) + Len(t)
      /\ \A i \in 1 .. Len(s) + Len(t) : u[i] = IF i <= Len(s) THEN s[i] ELSE t[i - Len(s)]
  BY ConcatProperties
<1>4. DOMAIN u = 1 .. Len(s) + Len(t)
  BY <1>3
<1>5. \A i \in 1 .. Len(s) : i \in DOMAIN u /\ u[i] = s[i]
  BY <1>1, <1>3, <1>4
<1>6. \A i \in Len(s) + 1 .. Len(s) + Len(t) : u[i] = t[i - Len(s)] /\ i - Len(s) \in DOMAIN t
  BY <1>1, <1>3
<1>7. ASSUME NEW j \in DOMAIN t
      PROVE  Len(s) + j \in DOMAIN u /\ u[Len(s) + j] = t[j]
  <2>1. /\ Len(s) + j \in Len(s) + 1 .. Len(s) + Len(t) /\ Len(s) + j - Len(s) = j
        /\ Len(s) + j \in 1 .. Len(s) + Len(t)
    BY <1>1
  <2> QED BY <1>4, <1>6, <2>1
<1>8. ASSUME NEW x \in Buffer!ToSet(u)
      PROVE  x \in Buffer!ToSet(s) \cup Buffer!ToSet(t)
  <2>1. PICK i \in DOMAIN u : x = u[i]
    BY DEF Buffer!ToSet
  <2>2. i \in 1 .. Len(s) \/ i \in Len(s) + 1 .. Len(s) + Len(t)
    BY <1>1, <1>4
  <2> QED BY <1>1, <1>5, <1>6, <2>1, <2>2 DEF Buffer!ToSet
<1>9. \A x \in Buffer!ToSet(s) : x \in Buffer!ToSet(u)
  BY <1>1, <1>5 DEF Buffer!ToSet
<1>10. \A x \in Buffer!ToSet(t) : x \in Buffer!ToSet(u)
  BY <1>7 DEF Buffer!ToSet
<1>11. Buffer!ToSet(u) = Buffer!ToSet(s) \cup Buffer!ToSet(t)
  BY <1>8, <1>9, <1>10
<1> QED BY <1>3, <1>5, <1>6, <1>11 DEF Joined

(* The numbers of the members of a union. *)
LEMMA NumbersOfUnion ==
    ASSUME NEW A, NEW B
    PROVE  Buffer!Seqs(A \cup B) = Buffer!Seqs(A) \cup Buffer!Seqs(B)
BY DEF Buffer!Seqs

(* The buffer's variables and their values. *)
BufferTyped ==
    /\ entries \in Seq(Buffer!HeldUpdate) /\ delivered \in Seq(Buffer!HeldUpdate)
    /\ discarded \in SUBSET Buffer!HeldUpdate /\ IsFiniteSet(discarded)
    /\ held \in Nat /\ resolved \in Nat /\ evicted \in Nat /\ expired \in Nat

(* All updates there are, wherever they are. *)
Everywhere == Buffer!ToSet(entries) \cup Buffer!ToSet(delivered) \cup discarded

(* Nothing waits that was discarded, and what waits came after all that    *)
(* was delivered of its order.                                             *)
WaitsInTurn ==
    /\ Arrived(entries) /\ Buffer!ToSet(entries) \cap discarded = {}
    /\ \A x \in Buffer!ToSet(entries), y \in Buffer!ToSet(delivered) :
           x.broker_order_id = y.broker_order_id => y.seq < x.seq

(* What the two counts of Conserved compare, and the numbers in use.       *)
Counted ==
    /\ held = Len(entries) + resolved + evicted + expired
    /\ held = Len(entries) + Len(delivered) + Cardinality(discarded)
    /\ 1 .. held = Buffer!Seqs(Everywhere)

(* The buffer's inductive invariant. *)
BufferInv == BufferTyped /\ WaitsInTurn /\ Counted /\ Buffer!DeliveredInOrder

(* Every update of the buffer carries its number. *)
LEMMA UpdatesNumbered == Numbered(Buffer!HeldUpdate)
BY DEF Numbered, Buffer!HeldUpdate

(* The buffer's notion of the size of a set is the usual one. *)
LEMMA SameCounts == \A S : Buffer!Cardinality(S) = Cardinality(S)
BY DEF Buffer!Cardinality, Cardinality

(* What the invariant says of the numbers is the property's ledger. *)
LEMMA InvKeepsUpdates == BufferInv => BufferKeepsUpdates
<1> SUFFICES ASSUME BufferInv PROVE BufferKeepsUpdates
  OBVIOUS
<1>1. Buffer!Seqs(Everywhere) = Buffer!Seqs(Buffer!ToSet(entries) \cup Buffer!ToSet(delivered))
                                  \cup Buffer!Seqs(discarded)
  BY NumbersOfUnion DEF Everywhere
<1>2. Buffer!Seqs(Buffer!ToSet(entries) \cup Buffer!ToSet(delivered))
        = Buffer!Seqs(Buffer!ToSet(entries)) \cup Buffer!Seqs(Buffer!ToSet(delivered))
  BY NumbersOfUnion
<1>3. 1 .. held = Buffer!Seqs(Buffer!ToSet(entries)) \cup Buffer!Seqs(Buffer!ToSet(delivered))
                    \cup Buffer!Seqs(discarded)
  BY <1>1, <1>2 DEF BufferInv, Counted
<1> QED BY <1>3, SameCounts DEF BufferInv, Counted, BufferKeepsUpdates, Buffer!Conserved

(* No number in use is beyond the last one given. *)
LEMMA NumbersInUse ==
    ASSUME BufferInv, NEW x \in Everywhere
    PROVE  x.seq <= held /\ x.seq \in Nat
<1>1. x.seq \in Buffer!Seqs(Everywhere)
  BY DEF Buffer!Seqs
<1>2. x.seq \in 1 .. held
  BY <1>1 DEF BufferInv, Counted
<1> QED BY <1>2 DEF BufferInv, BufferTyped

(* A hold: the new update comes last, and what overflows is discarded. *)
LEMMA HoldKeeps ==
    ASSUME PartsAssumption, BufferInv, NEW bid \in Ids, NEW at \in Times, Buffer!hold(bid, at)
    PROVE  BufferInv'
<1> DEFINE T == Buffer!HeldUpdate
           new == [broker_order_id |-> bid, at |-> at, seq |-> held + 1]
<1>1. MaxEntries \in Nat /\ held \in Nat
  BY DEF PartsAssumption, Buffer!BufferAssumption, BufferInv, BufferTyped
<1>2. new \in T /\ new.seq = held + 1 /\ new.broker_order_id = bid
  BY <1>1 DEF Buffer!HeldUpdate
<1>3. PICK all : all = Append(entries, new)
  OBVIOUS
<1>4. /\ entries' = Buffer!Rest(all) /\ evicted' = evicted + Len(Buffer!Overflow(all))
      /\ discarded' = discarded \cup Buffer!ToSet(Buffer!Overflow(all))
      /\ held' = held + 1 /\ resolved' = resolved /\ expired' = expired /\ delivered' = delivered
  BY <1>3 DEF Buffer!hold
<1>5. /\ entries \in Seq(T) /\ delivered \in Seq(T) /\ Arrived(entries) /\ Numbered(T)
  BY UpdatesNumbered DEF BufferInv, BufferTyped, WaitsInTurn
<1> HIDE DEF T, new
<1>6. After(entries, new)
  <2>1. ASSUME NEW i \in DOMAIN entries
        PROVE  entries[i].seq < new.seq
    <3>1. entries[i] \in Everywhere
      BY DEF Everywhere, Buffer!ToSet
    <3>2. entries[i].seq <= held /\ entries[i].seq \in Nat
      BY <3>1, NumbersInUse
    <3> QED BY <1>1, <1>2, <3>2
  <2> QED BY <2>1 DEF After
<1>7. /\ all \in Seq(T) /\ Arrived(all) /\ Len(all) = Len(entries) + 1
      /\ Buffer!ToSet(all) = Buffer!ToSet(entries) \cup {new}
  BY <1>2, <1>3, <1>5, <1>6, AppendArrives
<1>8. PICK o : o = Buffer!Overflow(all)
  OBVIOUS
<1>9. PICK r : r = Buffer!Rest(all)
  OBVIOUS
<1>10. /\ o \in Seq(T) /\ Arrived(o) /\ r \in Seq(T) /\ Arrived(r)
       /\ Buffer!ToSet(o) \cup Buffer!ToSet(r) = Buffer!ToSet(all)
       /\ Buffer!ToSet(o) \cap Buffer!ToSet(r) = {}
       /\ Len(all) = Len(o) + Len(r)
  <2>1. MaxEntries \in Nat /\ Numbered(T) /\ all \in Seq(T) /\ Arrived(all)
    BY <1>1, <1>5, <1>7
  <2>2. o = Buffer!Overflow(all) /\ r = Buffer!Rest(all)
    BY <1>8, <1>9
  <2>3. Parted(T, all, o, r)
    BY ONLY <2>1, <2>2, PopParts, Zenon
  <2> QED BY <2>3 DEF Parted
<1>11. /\ entries' = r /\ evicted' = evicted + Len(o)
       /\ discarded' = discarded \cup Buffer!ToSet(o)
  BY <1>4, <1>8, <1>9
<1>12. /\ IsFiniteSet(Buffer!ToSet(o)) /\ Cardinality(Buffer!ToSet(o)) = Len(o)
       /\ Buffer!ToSet(o) \in SUBSET T
  BY <1>5, <1>10, ArrivedCounted
<1>13. /\ Len(entries) \in Nat /\ Len(o) \in Nat /\ Len(r) \in Nat
  BY <1>5, <1>10
<1>14. /\ discarded \in SUBSET T /\ IsFiniteSet(discarded)
       /\ resolved \in Nat /\ evicted \in Nat /\ expired \in Nat
  BY DEF BufferInv, BufferTyped, T
<1>15. new \notin Everywhere
  <2>1. ASSUME new \in Everywhere
        PROVE  FALSE
    <3>1. new.seq <= held
      BY <2>1, NumbersInUse
    <3> QED BY <1>1, <1>2, <3>1
  <2> QED BY <2>1
<1>16. Buffer!ToSet(all) \cap discarded = {}
  BY <1>7, <1>15 DEF Everywhere, BufferInv, WaitsInTurn
<1>17. BufferTyped'
  <2>1. IsFiniteSet(discarded')
    BY <1>11, <1>12, <1>14, FS_Union
  <2>2. discarded' \in SUBSET T
    BY <1>11, <1>12, <1>14
  <2>3. entries' \in Seq(T) /\ delivered' \in Seq(T)
    BY <1>4, <1>5, <1>10, <1>11
  <2>4. held' \in Nat /\ resolved' \in Nat /\ evicted' \in Nat /\ expired' \in Nat
    BY <1>1, <1>4, <1>11, <1>13, <1>14
  <2> QED BY <2>1, <2>2, <2>3, <2>4 DEF BufferTyped, T, Buffer!HeldUpdate
<1>18. WaitsInTurn'
  <2>1. Arrived(entries')
    BY <1>10, <1>11
  <2>2. Buffer!ToSet(entries') \cap discarded' = {}
    BY <1>10, <1>11, <1>16
  <2>3. ASSUME NEW x \in Buffer!ToSet(entries'), NEW y \in Buffer!ToSet(delivered'),
               x.broker_order_id = y.broker_order_id
        PROVE  y.seq < x.seq
    <3>1. x \in Buffer!ToSet(entries) \/ x = new
      BY <1>7, <1>10, <1>11
    <3>2. y \in Buffer!ToSet(delivered) /\ y \in Everywhere
      BY <1>4 DEF Everywhere
    <3>3. y.seq <= held /\ y.seq \in Nat
      BY <3>2, NumbersInUse
    <3>4. CASE x = new
      BY <1>1, <1>2, <3>3, <3>4
    <3>5. CASE x \in Buffer!ToSet(entries)
      BY <2>3, <3>2, <3>5 DEF BufferInv, WaitsInTurn
    <3> QED BY <3>1, <3>4, <3>5
  <2> QED BY <2>1, <2>2, <2>3 DEF WaitsInTurn, Arrived, Buffer!ToSet
<1>19. Counted'
  <2>1. held' = Len(entries') + resolved' + evicted' + expired'
    <3>1. held = Len(entries) + resolved + evicted + expired
      BY DEF BufferInv, Counted
    <3>2. Len(entries) + 1 = Len(o) + Len(r)
      BY <1>7, <1>10
    <3>3. /\ held' = held + 1 /\ Len(entries') = Len(r) /\ evicted' = evicted + Len(o)
          /\ resolved' = resolved /\ expired' = expired
      BY <1>4, <1>11
    <3> QED BY <1>13, <1>14, <3>1, <3>2, <3>3
  <2>2. Cardinality(discarded') = Cardinality(discarded) + Len(o)
    <3>1. discarded \cap Buffer!ToSet(o) = {}
      BY <1>10, <1>16
    <3>2. /\ Cardinality(discarded \cup Buffer!ToSet(o))
               = Cardinality(discarded) + Cardinality(Buffer!ToSet(o))
                   - Cardinality(discarded \cap Buffer!ToSet(o))
      BY <1>12, <1>14, FS_Union
    <3>3. Cardinality(discarded \cap Buffer!ToSet(o)) = 0
      BY <3>1, FS_EmptySet
    <3>4. Cardinality(discarded) \in Nat
      BY <1>14, FS_CardinalityType
    <3> QED BY <1>11, <1>12, <1>13, <3>2, <3>3, <3>4
  <2>3. held' = Len(entries') + Len(delivered') + Cardinality(discarded')
    <3>1. held = Len(entries) + Len(delivered) + Cardinality(discarded)
      BY DEF BufferInv, Counted
    <3>2. Len(delivered) \in Nat /\ Cardinality(discarded) \in Nat
      BY <1>5, <1>14, FS_CardinalityType
    <3>3. Len(entries) + 1 = Len(o) + Len(r)
      BY <1>7, <1>10
    <3>4. held' = held + 1 /\ Len(entries') = Len(r) /\ Len(delivered') = Len(delivered)
      BY <1>4, <1>11
    <3> QED BY <1>13, <2>2, <3>1, <3>2, <3>3, <3>4
  <2>4. Everywhere' = Everywhere \cup {new}
    BY <1>4, <1>7, <1>10, <1>11 DEF Everywhere
  <2>5. Buffer!Seqs(Everywhere') = Buffer!Seqs(Everywhere) \cup Buffer!Seqs({new})
    BY <2>4, NumbersOfUnion
  <2>6. Buffer!Seqs({new}) = {held + 1}
    BY <1>2 DEF Buffer!Seqs
  <2>7. 1 .. held + 1 = (1 .. held) \cup {held + 1}
    BY <1>1
  <2>8. 1 .. held' = Buffer!Seqs(Everywhere')
    BY <1>4, <2>5, <2>6, <2>7 DEF BufferInv, Counted
  <2> QED BY <2>1, <2>3, <2>8 DEF Counted, Buffer!Seqs
<1>20. Buffer!DeliveredInOrder'
  BY <1>4 DEF BufferInv, Buffer!DeliveredInOrder
<1> QED BY <1>17, <1>18, <1>19, <1>20 DEF BufferInv

(* A resolve: one order's updates follow those delivered before. *)
LEMMA ResolveKeeps ==
    ASSUME BufferInv, NEW bid \in Ids, Buffer!resolve(bid)
    PROVE  BufferInv'
<1> DEFINE T == Buffer!HeldUpdate
           mine == Buffer!Of(bid)
           all == Buffer!ToSet(entries)
<1>1. mine \in SUBSET all /\ \A x \in all : x \in mine <=> x.broker_order_id = bid
  BY DEF Buffer!Of
<1>2. PICK a : a = Buffer!Among(entries, mine)
  OBVIOUS
<1>3. PICK b : b = Buffer!Among(entries, all \ mine)
  OBVIOUS
<1>4. /\ entries' = b /\ delivered' = delivered \o a /\ resolved' = resolved + Len(a)
      /\ held' = held /\ evicted' = evicted /\ expired' = expired /\ discarded' = discarded
  BY <1>2, <1>3 DEF Buffer!resolve, Buffer!Taken
<1>5. /\ entries \in Seq(T) /\ delivered \in Seq(T) /\ Arrived(entries) /\ Numbered(T)
  BY UpdatesNumbered DEF BufferInv, BufferTyped, WaitsInTurn
<1> HIDE DEF T, mine
<1>6. /\ a \in Seq(T) /\ Arrived(a) /\ Buffer!ToSet(a) = mine
      /\ b \in Seq(T) /\ Arrived(b) /\ Buffer!ToSet(b) = all \ mine
      /\ Len(entries) = Len(a) + Len(b)
  <2>1. Chosen(T, entries, mine, a, b)
    <3>1. Numbered(T) /\ entries \in Seq(T) /\ Arrived(entries)
      BY <1>5
    <3>2. mine \in SUBSET Buffer!ToSet(entries)
      BY <1>1
    <3>3. a = Buffer!Among(entries, mine) /\ b = Buffer!Among(entries, Buffer!ToSet(entries) \ mine)
      BY <1>2, <1>3
    <3> QED BY ONLY <3>1, <3>2, <3>3, FilterParts, Zenon
  <2> QED BY <2>1 DEF Chosen
<1> HIDE DEF all
<1>7. PICK u : u = delivered \o a
  OBVIOUS
<1>8. /\ u \in Seq(T) /\ Len(u) = Len(delivered) + Len(a)
      /\ \A i \in 1 .. Len(delivered) : u[i] = delivered[i]
      /\ \A i \in Len(delivered) + 1 .. Len(delivered) + Len(a) : u[i] = a[i - Len(delivered)]
      /\ Buffer!ToSet(u) = Buffer!ToSet(delivered) \cup Buffer!ToSet(a)
  <2>1. Joined(T, delivered, a, u)
    BY <1>5, <1>6, <1>7, ConcatHolds
  <2> QED BY <2>1 DEF Joined
<1>9. delivered' = u
  BY <1>4, <1>7
<1>10. Len(a) \in Nat /\ Len(b) \in Nat /\ Len(delivered) \in Nat /\ DOMAIN a = 1 .. Len(a)
  BY <1>5, <1>6
<1>11. /\ discarded \in SUBSET T /\ IsFiniteSet(discarded)
       /\ held \in Nat /\ resolved \in Nat /\ evicted \in Nat /\ expired \in Nat
  BY DEF BufferInv, BufferTyped, T
<1>12. BufferTyped'
  <2>1. entries' \in Seq(T) /\ delivered' \in Seq(T)
    BY <1>4, <1>6, <1>8, <1>9
  <2>2. discarded' \in SUBSET T /\ IsFiniteSet(discarded')
    BY <1>4, <1>11
  <2>3. held' \in Nat /\ resolved' \in Nat /\ evicted' \in Nat /\ expired' \in Nat
    BY <1>4, <1>10, <1>11
  <2> QED BY <2>1, <2>2, <2>3 DEF BufferTyped, T, Buffer!HeldUpdate
<1>13. /\ all \cap discarded = {}
       /\ \A x \in all, y \in Buffer!ToSet(delivered) :
              x.broker_order_id = y.broker_order_id => y.seq < x.seq
  BY DEF BufferInv, WaitsInTurn, all
<1>14. WaitsInTurn'
  <2>1. Arrived(entries')
    BY <1>4, <1>6
  <2>2. Buffer!ToSet(entries') \cap discarded' = {}
    BY <1>4, <1>6, <1>13
  <2>3. ASSUME NEW x \in Buffer!ToSet(entries'), NEW y \in Buffer!ToSet(delivered'),
               x.broker_order_id = y.broker_order_id
        PROVE  y.seq < x.seq
    <3>1. x \in all /\ x \notin mine
      BY <1>4, <1>6
    <3>2. y \in Buffer!ToSet(delivered) \/ y \in mine
      BY <1>6, <1>8, <1>9
    <3>3. y \notin mine
      BY <1>1, <2>3, <3>1
    <3> QED BY <1>13, <2>3, <3>1, <3>2, <3>3
  <2> QED BY <2>1, <2>2, <2>3 DEF WaitsInTurn, Arrived, Buffer!ToSet
<1>15. Counted'
  <2>1. held' = Len(entries') + resolved' + evicted' + expired'
    <3>1. held = Len(entries) + resolved + evicted + expired
      BY DEF BufferInv, Counted
    <3> QED BY <1>4, <1>6, <1>10, <1>11, <3>1
  <2>2. held' = Len(entries') + Len(delivered') + Cardinality(discarded')
    <3>1. held = Len(entries) + Len(delivered) + Cardinality(discarded)
      BY DEF BufferInv, Counted
    <3>2. Cardinality(discarded) \in Nat
      BY <1>11, FS_CardinalityType
    <3>3. Cardinality(discarded') = Cardinality(discarded) /\ Len(entries') = Len(b)
      BY <1>4
    <3> QED BY <1>4, <1>6, <1>8, <1>9, <1>10, <3>1, <3>2, <3>3
  <2>3. Everywhere' = Everywhere
    BY <1>1, <1>4, <1>6, <1>8, <1>9 DEF Everywhere, all
  <2>4. 1 .. held' = Buffer!Seqs(Everywhere')
    BY <1>4, <2>3 DEF BufferInv, Counted
  <2> QED BY <2>1, <2>2, <2>4 DEF Counted, Buffer!Seqs
<1>16. Buffer!DeliveredInOrder'
  <2>1. ASSUME NEW i \in 1 .. Len(u), NEW j \in 1 .. Len(u), i < j,
               u[i].broker_order_id = u[j].broker_order_id
        PROVE  u[i].seq < u[j].seq
    <3>1. i \in 1 .. Len(delivered) \/ i \in Len(delivered) + 1 .. Len(delivered) + Len(a)
      BY <1>8, <1>10
    <3>2. j \in 1 .. Len(delivered) \/ j \in Len(delivered) + 1 .. Len(delivered) + Len(a)
      BY <1>8, <1>10
    <3>3. CASE i \in 1 .. Len(delivered) /\ j \in 1 .. Len(delivered)
      <4>1. u[i] = delivered[i] /\ u[j] = delivered[j]
        BY <1>8, <3>3
      <4> QED BY <2>1, <3>3, <4>1 DEF BufferInv, Buffer!DeliveredInOrder
    <3>4. CASE i \in 1 .. Len(delivered) /\ j \in Len(delivered) + 1 .. Len(delivered) + Len(a)
      <4>1. u[i] = delivered[i] /\ u[j] = a[j - Len(delivered)]
        BY <1>8, <3>4
      <4>2. j - Len(delivered) \in DOMAIN a
        BY <1>10, <3>4
      <4>3. u[j] \in all
        BY <1>1, <1>6, <4>1, <4>2 DEF Buffer!ToSet
      <4>4. i \in DOMAIN delivered
        BY <1>5, <3>4
      <4>5. u[i] \in Buffer!ToSet(delivered)
        BY <4>1, <4>4 DEF Buffer!ToSet
      <4> QED BY <1>13, <2>1, <4>3, <4>5
    <3>5. CASE i \in Len(delivered) + 1 .. Len(delivered) + Len(a)
               /\ j \in Len(delivered) + 1 .. Len(delivered) + Len(a)
      <4>1. u[i] = a[i - Len(delivered)] /\ u[j] = a[j - Len(delivered)]
        BY <1>8, <3>5
      <4>2. /\ i - Len(delivered) \in DOMAIN a /\ j - Len(delivered) \in DOMAIN a
            /\ i - Len(delivered) < j - Len(delivered)
        BY <1>10, <2>1, <3>5
      <4> QED BY <1>6, <4>1, <4>2 DEF Arrived
    <3>6. CASE i \in Len(delivered) + 1 .. Len(delivered) + Len(a) /\ j \in 1 .. Len(delivered)
      BY <1>10, <2>1, <3>6
    <3> QED BY <3>1, <3>2, <3>3, <3>4, <3>5, <3>6
  <2> QED BY <1>9, <2>1 DEF Buffer!DeliveredInOrder
<1> QED BY <1>12, <1>14, <1>15, <1>16 DEF BufferInv

(* A sweep: whatever the clock says is stale is discarded. *)
LEMMA SweepKeeps ==
    ASSUME BufferInv, NEW moment \in Times, Buffer!sweep(moment)
    PROVE  BufferInv'
<1> DEFINE T == Buffer!HeldUpdate
           all == Buffer!ToSet(entries)
           stale == {e \in all : moment - e.at > MaxAge}
<1>1. stale \in SUBSET all
  OBVIOUS
<1>2. PICK a : a = Buffer!Among(entries, stale)
  OBVIOUS
<1>3. PICK b : b = Buffer!Among(entries, all \ stale)
  OBVIOUS
<1>4. /\ entries' = b /\ expired' = expired + Cardinality(stale)
      /\ discarded' = discarded \cup stale
      /\ held' = held /\ evicted' = evicted /\ resolved' = resolved /\ delivered' = delivered
  BY <1>3, SameCounts DEF Buffer!sweep
<1>5. /\ entries \in Seq(T) /\ delivered \in Seq(T) /\ Arrived(entries) /\ Numbered(T)
  BY UpdatesNumbered DEF BufferInv, BufferTyped, WaitsInTurn
<1> HIDE DEF T, stale
<1>6. /\ a \in Seq(T) /\ b \in Seq(T) /\ Arrived(b) /\ Buffer!ToSet(b) = all \ stale
      /\ IsFiniteSet(stale) /\ Cardinality(stale) = Len(a)
      /\ Len(entries) = Len(a) + Len(b)
  <2>1. Chosen(T, entries, stale, a, b)
    <3>1. Numbered(T) /\ entries \in Seq(T) /\ Arrived(entries)
      BY <1>5
    <3>2. stale \in SUBSET Buffer!ToSet(entries)
      BY <1>1
    <3>3. a = Buffer!Among(entries, stale) /\ b = Buffer!Among(entries, Buffer!ToSet(entries) \ stale)
      BY <1>2, <1>3
    <3> QED BY ONLY <3>1, <3>2, <3>3, FilterParts, Zenon
  <2> QED BY <2>1 DEF Chosen
<1>7. all \in SUBSET T
  BY <1>5, ArrivedCounted
<1> HIDE DEF all
<1>8. Len(a) \in Nat /\ Len(b) \in Nat /\ Len(delivered) \in Nat
  BY <1>5, <1>6
<1>9. /\ discarded \in SUBSET T /\ IsFiniteSet(discarded) /\ Cardinality(discarded) \in Nat
      /\ held \in Nat /\ resolved \in Nat /\ evicted \in Nat /\ expired \in Nat
  BY FS_CardinalityType DEF BufferInv, BufferTyped, T
<1>10. /\ all \cap discarded = {}
       /\ \A x \in all, y \in Buffer!ToSet(delivered) :
              x.broker_order_id = y.broker_order_id => y.seq < x.seq
  BY DEF BufferInv, WaitsInTurn, all
<1>11. /\ IsFiniteSet(discarded \cup stale)
       /\ Cardinality(discarded \cup stale) = Cardinality(discarded) + Len(a)
  <2>1. discarded \cap stale = {}
    BY <1>1, <1>10
  <2>2. /\ IsFiniteSet(discarded \cup stale)
        /\ Cardinality(discarded \cup stale)
             = Cardinality(discarded) + Cardinality(stale) - Cardinality(discarded \cap stale)
    BY <1>6, <1>9, FS_Union
  <2>3. Cardinality(discarded \cap stale) = 0
    BY <2>1, FS_EmptySet
  <2> QED BY <1>6, <1>8, <1>9, <2>2, <2>3
<1>12. BufferTyped'
  <2>1. entries' \in Seq(T) /\ delivered' \in Seq(T)
    BY <1>4, <1>5, <1>6
  <2>2. discarded' \in SUBSET T /\ IsFiniteSet(discarded')
    BY <1>1, <1>4, <1>7, <1>9, <1>11
  <2>3. held' \in Nat /\ resolved' \in Nat /\ evicted' \in Nat /\ expired' \in Nat
    BY <1>4, <1>6, <1>8, <1>9
  <2> QED BY <2>1, <2>2, <2>3 DEF BufferTyped, T, Buffer!HeldUpdate
<1>13. WaitsInTurn'
  <2>1. Arrived(entries')
    BY <1>4, <1>6
  <2>2. Buffer!ToSet(entries') \cap discarded' = {}
    BY <1>4, <1>6, <1>10
  <2>3. ASSUME NEW x \in Buffer!ToSet(entries'), NEW y \in Buffer!ToSet(delivered'),
               x.broker_order_id = y.broker_order_id
        PROVE  y.seq < x.seq
    BY <1>4, <1>6, <1>10, <2>3
  <2> QED BY <2>1, <2>2, <2>3 DEF WaitsInTurn, Arrived, Buffer!ToSet
<1>14. Counted'
  <2>1. held' = Len(entries') + resolved' + evicted' + expired'
    <3>1. held = Len(entries) + resolved + evicted + expired
      BY DEF BufferInv, Counted
    <3> QED BY <1>4, <1>6, <1>8, <1>9, <3>1
  <2>2. held' = Len(entries') + Len(delivered') + Cardinality(discarded')
    <3>1. held = Len(entries) + Len(delivered) + Cardinality(discarded)
      BY DEF BufferInv, Counted
    <3>2. Cardinality(discarded') = Cardinality(discarded) + Len(a) /\ Len(entries') = Len(b)
          /\ Len(delivered') = Len(delivered)
      BY <1>4, <1>11
    <3> QED BY <1>4, <1>6, <1>8, <1>9, <3>1, <3>2
  <2>3. Everywhere' = Everywhere
    BY <1>1, <1>4, <1>6 DEF Everywhere, all
  <2>4. 1 .. held' = Buffer!Seqs(Everywhere')
    BY <1>4, <2>3 DEF BufferInv, Counted
  <2> QED BY <2>1, <2>2, <2>4 DEF Counted, Buffer!Seqs
<1>15. Buffer!DeliveredInOrder'
  BY <1>4 DEF BufferInv, Buffer!DeliveredInOrder
<1> QED BY <1>12, <1>13, <1>14, <1>15 DEF BufferInv

(***************************************************************************)
(* For any number of updates, orders and readings of the clock: no update  *)
(* held in the buffer is lost or delivered twice, the accounting adds up,  *)
(* and those of one order are handed over in the order they arrived        *)
(* (oms/correlation.py hold, resolve, sweep).                              *)
(***************************************************************************)
THEOREM UpdatesAreKept == Buffer!Spec => []BufferKeepsUpdates
<1>1. Buffer!Init => BufferInv
  <2> SUFFICES ASSUME Buffer!Init PROVE BufferInv
    OBVIOUS
  <2>1. /\ entries = <<>> /\ delivered = <<>> /\ discarded = {}
        /\ held = 0 /\ resolved = 0 /\ evicted = 0 /\ expired = 0
    BY DEF Buffer!Init
  <2>2. Buffer!ToSet(entries) = {} /\ Buffer!ToSet(delivered) = {}
    BY <2>1 DEF Buffer!ToSet
  <2>3. BufferTyped
    BY <2>1, FS_EmptySet DEF BufferTyped
  <2>4. WaitsInTurn
    BY <2>1, <2>2 DEF WaitsInTurn, Arrived
  <2>5. Counted
    <3>1. Buffer!Seqs(Everywhere) = {}
      BY <2>1, <2>2 DEF Buffer!Seqs, Everywhere
    <3>2. Cardinality(discarded) = 0
      BY <2>1, FS_EmptySet
    <3> QED BY <2>1, <3>1, <3>2 DEF Counted
  <2>6. Buffer!DeliveredInOrder
    BY <2>1 DEF Buffer!DeliveredInOrder
  <2> QED BY <2>3, <2>4, <2>5, <2>6 DEF BufferInv
<1>2. BufferInv /\ [Buffer!Next]_(Buffer!vars) => BufferInv'
  <2> SUFFICES ASSUME BufferInv, [Buffer!Next]_(Buffer!vars) PROVE BufferInv'
    OBVIOUS
  <2>1. CASE \E bid \in Ids, at \in Times : Buffer!hold(bid, at)
    BY <2>1, HoldKeeps, PartsAssumption
  <2>2. CASE \E bid \in Ids : Buffer!resolve(bid)
    BY <2>2, ResolveKeeps
  <2>3. CASE \E moment \in Times : Buffer!sweep(moment)
    BY <2>3, SweepKeeps
  <2>4. CASE UNCHANGED Buffer!vars
    <3>1. UNCHANGED bufferVars
      BY <2>4 DEF Buffer!vars, Buffer!ledger, bufferVars
    <3> QED BY <3>1 DEF bufferVars, BufferInv, BufferTyped, WaitsInTurn, Counted,
             Everywhere, Arrived, Buffer!DeliveredInOrder, Buffer!Seqs, Buffer!ToSet, Buffer!HeldUpdate
  <2> QED BY <2>1, <2>2, <2>3, <2>4 DEF Buffer!Next
<1> QED BY <1>1, <1>2, InvKeepsUpdates, PTL DEF Buffer!Spec

(***************************************************************************)
(* The messages to the owner.                                              *)
(***************************************************************************)
(* A row of notifications. *)
JournalRow ==
    [status : {"none", "pending", "delivered", "failed"}, attempts : Int, wait : Int]

(* The journal has a row for every message. *)
JournalTyped == journal \in [Messages!Messages -> JournalRow]

(* The inductive invariant: the property and the journal's type. *)
MessagesInv == JournalTyped /\ Messages!NothingLost

(* A journal write that delivers a message the owner has. *)
LEMMA DeliveryKeeps ==
    ASSUME MessagesInv, NEW m, m \in received', Messages!Delivered(m),
           received \subseteq received'
    PROVE  MessagesInv'
<1>1. CASE m \notin Messages!Messages \/ journal' = journal
  <2>1. journal' = journal
    BY <1>1 DEF Messages!Delivered, MessagesInv, JournalTyped
  <2> QED BY <2>1 DEF MessagesInv, JournalTyped, Messages!NothingLost
<1>2. CASE m \in Messages!Messages /\ journal' = [journal EXCEPT ![m].status = "delivered"]
  <2>1. ASSUME NEW x \in Messages!Messages
        PROVE  /\ journal'[x] = IF x = m THEN [journal[m] EXCEPT !.status = "delivered"] ELSE journal[x]
               /\ journal[x] \in JournalRow
    BY <1>2 DEF MessagesInv, JournalTyped
  <2>2. ASSUME NEW w \in JournalRow
        PROVE  /\ [w EXCEPT !.status = "delivered"] \in JournalRow
               /\ [w EXCEPT !.status = "delivered"].status = "delivered"
    BY DEF JournalRow
  <2>3. JournalTyped'
    BY <1>2, <2>1, <2>2 DEF MessagesInv, JournalTyped, JournalRow
  <2> QED BY <1>2, <2>1, <2>2, <2>3 DEF MessagesInv, Messages!NothingLost
<1> QED BY <1>1, <1>2 DEF Messages!Delivered

(* The waits and counts of the backoff are numbers. *)
LEMMA BackoffIsNumeric ==
    ASSUME NEW n \in Int, NEW k \in Int, NEW w \in Messages!Waits(k)
    PROVE  Messages!Attempted(n, w) \in JournalRow /\ Messages!Attempted(n, w).status = "pending"
<1>1. w \in Int
  BY DEF Messages!Waits
<1>2. (IF n < MaxBackoff THEN n + 1 ELSE n) \in Int
  OBVIOUS
<1> QED BY <1>1, <1>2 DEF Messages!Attempted, JournalRow

(* A pending row instead of one row: nothing is claimed of its message. *)
LEMMA PendingKeeps ==
    ASSUME MessagesInv, NEW m, NEW w \in JournalRow, w.status = "pending",
           journal' = [journal EXCEPT ![m] = w], received \subseteq received'
    PROVE  MessagesInv'
<1>1. \A x \in Messages!Messages : journal'[x] = IF x = m THEN w ELSE journal[x]
  BY DEF MessagesInv, JournalTyped
<1>2. JournalTyped'
  BY DEF MessagesInv, JournalTyped, JournalRow
<1> QED BY <1>1, <1>2 DEF MessagesInv, Messages!NothingLost

(* A failed attempt leaves a pending row pending. *)
LEMMA AttemptKeeps ==
    ASSUME MessagesInv, NEW m, Messages!AttemptFailed(m),
           received \subseteq received'
    PROVE  MessagesInv'
<1>1. CASE journal' = journal
  BY <1>1 DEF MessagesInv, JournalTyped, Messages!NothingLost
<1>2. CASE m \notin Messages!Messages
  <2>1. \A u : [journal EXCEPT ![m] = u] = journal
    BY <1>2 DEF MessagesInv, JournalTyped
  <2> QED BY <1>1, <2>1 DEF Messages!AttemptFailed
<1>3. CASE /\ m \in Messages!Messages
           /\ \E w \in Messages!Waits(journal[m].attempts + 1) :
                  journal' = [journal EXCEPT ![m] = Messages!Attempted(@.attempts, w)]
  <2>1. journal[m].attempts \in Int
    BY <1>3 DEF MessagesInv, JournalTyped, JournalRow
  <2>2. PICK w \in Messages!Waits(journal[m].attempts + 1) :
            journal' = [journal EXCEPT ![m] = Messages!Attempted(journal[m].attempts, w)]
    BY <1>3
  <2>3. PICK u : u = Messages!Attempted(journal[m].attempts, w)
    OBVIOUS
  <2>4. u \in JournalRow /\ u.status = "pending"
    <3>1. journal[m].attempts + 1 \in Int
      BY <2>1
    <3> QED BY <2>1, <2>2, <2>3, <3>1, BackoffIsNumeric
  <2> QED BY <2>2, <2>3, <2>4, PendingKeeps
<1> QED BY <1>1, <1>2, <1>3 DEF Messages!AttemptFailed

(* However a send ends: delivered is written only of what arrived. *)
LEMMA OutcomeKeeps ==
    ASSUME MessagesInv, NEW m, Messages!Outcome(m)
    PROVE  MessagesInv'
<1>1. received \subseteq received'
  BY DEF Messages!Outcome
<1>2. CASE journal' = journal
  BY <1>1, <1>2 DEF MessagesInv, JournalTyped, Messages!NothingLost
<1>3. CASE m \in received' /\ Messages!Delivered(m)
  BY <1>1, <1>3, DeliveryKeeps
<1>4. CASE Messages!AttemptFailed(m)
  BY <1>1, <1>4, AttemptKeeps
<1> QED BY <1>2, <1>3, <1>4 DEF Messages!Outcome, Messages!Journals

(* A new message is journalled as pending, whether or not it is sent. *)
LEMMA SendKeeps ==
    ASSUME MessagesInv, Messages!Send
    PROVE  MessagesInv'
<1> DEFINE m == raised + 1
           first == [journal EXCEPT ![m].status = "pending"]
<1>1. received' = received
  BY DEF Messages!Send
<1>2. CASE journal' = journal
  BY <1>1, <1>2 DEF MessagesInv, JournalTyped, Messages!NothingLost
<1>3. CASE m \notin Messages!Messages
  <2>1. first = journal /\ \A u : [first EXCEPT ![m] = u] = journal
    BY <1>3 DEF MessagesInv, JournalTyped
  <2>2. journal' = journal
    BY <2>1 DEF Messages!Send, Messages!Journals
  <2> QED BY <1>2, <2>2
<1>4. CASE m \in Messages!Messages /\ journal' = first
  <2>1. PICK u : u = [journal[m] EXCEPT !.status = "pending"]
    OBVIOUS
  <2>2. u \in JournalRow /\ u.status = "pending"
    BY <1>4, <2>1 DEF MessagesInv, JournalTyped, JournalRow
  <2>3. journal' = [journal EXCEPT ![m] = u]
    BY <1>4, <2>1
  <2> QED BY <1>1, <2>2, <2>3, PendingKeeps
<1>5. CASE /\ m \in Messages!Messages
           /\ \E w \in Messages!Waits(1) :
                  journal' = [first EXCEPT ![m] = Messages!Attempted(0, w)]
  <2>1. PICK w \in Messages!Waits(1) : journal' = [first EXCEPT ![m] = Messages!Attempted(0, w)]
    BY <1>5
  <2>2. PICK u : u = Messages!Attempted(0, w)
    OBVIOUS
  <2>3. u \in JournalRow /\ u.status = "pending"
    BY <2>2, BackoffIsNumeric
  <2>4. journal' = [journal EXCEPT ![m] = u]
    BY <2>1, <2>2 DEF MessagesInv, JournalTyped
  <2> QED BY <1>1, <2>3, <2>4, PendingKeeps
<1>6. \/ journal' = journal \/ journal' = first
      \/ \E w \in Messages!Waits(1) : journal' = [first EXCEPT ![m] = Messages!Attempted(0, w)]
  BY DEF Messages!Send, Messages!Journals
<1> QED BY <1>2, <1>3, <1>4, <1>5, <1>6

(* A drain pass gives up old rows, none of them critical. *)
LEMMA DrainKeeps ==
    ASSUME MessagesInv, Messages!DrainPass
    PROVE  MessagesInv'
<1>1. received' = received
  BY DEF Messages!DrainPass
<1>2. Messages!Expiring \cap Critical = {}
  BY DEF Messages!Expiring
<1> PICK gone \in SUBSET Messages!Expiring :
       journal' = [x \in Messages!Messages |->
                     CASE x \in gone -> [journal[x] EXCEPT !.status = "failed"]
                       [] x \in Messages!Pending \ gone /\ journal[x].wait > 0 ->
                              [journal[x] EXCEPT !.wait = @ - 1]
                       [] OTHER -> journal[x]]
  BY DEF Messages!DrainPass
<1>3. ASSUME NEW x \in Messages!Messages
      PROVE  /\ journal[x] \in JournalRow /\ journal'[x] \in JournalRow
             /\ \/ x \in Messages!Expiring /\ journal'[x].status = "failed"
                \/ journal'[x].status = journal[x].status
  <2>1. journal[x] \in JournalRow
    BY DEF MessagesInv, JournalTyped
  <2>2. /\ [journal[x] EXCEPT !.status = "failed"] \in JournalRow
        /\ [journal[x] EXCEPT !.status = "failed"].status = "failed"
    BY <2>1 DEF JournalRow
  <2>3. /\ [journal[x] EXCEPT !.wait = @ - 1] \in JournalRow
        /\ [journal[x] EXCEPT !.wait = @ - 1].status = journal[x].status
    BY <2>1 DEF JournalRow
  <2>4. \/ x \in Messages!Expiring /\ journal'[x] = [journal[x] EXCEPT !.status = "failed"]
        \/ journal'[x] = [journal[x] EXCEPT !.wait = @ - 1]
        \/ journal'[x] = journal[x]
    OBVIOUS
  <2> QED BY <2>1, <2>2, <2>3, <2>4
<1>4. JournalTyped'
  <2>1. journal' = [x \in Messages!Messages |-> journal'[x]]
    OBVIOUS
  <2> QED BY <1>3, <2>1 DEF JournalTyped, JournalRow, Messages!Messages
<1>5. Messages!NothingLost'
  <2>1. ASSUME NEW x \in Messages!Messages
        PROVE  /\ journal'[x].status = "delivered" => x \in received'
               /\ journal'[x].status = "failed" => x \notin Critical
    BY <1>1, <1>2, <1>3 DEF MessagesInv, Messages!NothingLost
  <2> QED BY <2>1 DEF Messages!NothingLost, Messages!Messages
<1> QED BY <1>4, <1>5 DEF MessagesInv

(***************************************************************************)
(* For any number of messages, however live sends, retries, expiry,        *)
(* failing journal writes and restarts overlap: the journal says delivered *)
(* only of what the owner has, and no critical message is ever given up    *)
(* (notify/telegram.py send, _drain_outbox_once, _journal_delivered,       *)
(* _expire_if_due).                                                        *)
(***************************************************************************)
THEOREM NoCriticalMessageIsLost == Messages!Spec => []Messages!NothingLost
<1>1. Messages!Init => MessagesInv
  BY DEF Messages!Init, Messages!NoRow, MessagesInv, JournalTyped, JournalRow, Messages!NothingLost
<1>2. MessagesInv /\ [Messages!Next]_(Messages!vars) => MessagesInv'
  <2> SUFFICES ASSUME MessagesInv, [Messages!Next]_(Messages!vars) PROVE MessagesInv'
    OBVIOUS
  <2>1. CASE Messages!Send
    BY <2>1, SendKeeps
  <2>2. CASE \E m \in Messages!Messages : Messages!SendEnds(m)
    BY <2>2, OutcomeKeeps DEF Messages!SendEnds
  <2>3. CASE Messages!DrainPass
    BY <2>3, DrainKeeps
  <2>4. CASE Messages!DrainSends
    <3>1. PICK m : m = Head(pass)
      OBVIOUS
    <3>2. Messages!Outcome(m)
      BY <2>4, <3>1 DEF Messages!DrainSends
    <3> QED BY <3>2, OutcomeKeeps
  <2>5. CASE journal' = journal /\ received \subseteq received'
    BY <2>5 DEF MessagesInv, JournalTyped, Messages!NothingLost
  <2>6. CASE \/ Messages!Start \/ Messages!Outage \/ Messages!LinkBack
             \/ Messages!Restart \/ Messages!Ages
    BY <2>5, <2>6 DEF Messages!Start, Messages!Outage, Messages!LinkBack, Messages!Restart, Messages!Ages
  <2>7. CASE UNCHANGED Messages!vars
    BY <2>5, <2>7 DEF Messages!vars
  <2> QED BY <2>1, <2>2, <2>3, <2>4, <2>6, <2>7 DEF Messages!Next
<1>3. MessagesInv => Messages!NothingLost
  BY DEF MessagesInv
<1> QED BY <1>1, <1>2, <1>3, PTL DEF Messages!Spec

=============================================================================
