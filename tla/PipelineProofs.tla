-------------------------- MODULE PipelineProofs ---------------------------
(***************************************************************************)
(* From ticks to recommendations, for every value of the constants: the    *)
(* bars that are built from the ticks and the files that keep the ticks,   *)
(* the book of what the owner was told and answered, and the budget of the *)
(* models that are asked about it.  The four share no variable; each has   *)
(* its invariant and its theorems.  The order of the bars comes first;     *)
(* what they say comes after the sums that it and the budget need, and the *)
(* files come last.                                                        *)
(***************************************************************************)
EXTENDS
    MCRecommendations, MCBarBuilder, FiniteSetTheorems, SequenceTheorems, WellFoundedInduction,
    TLAPS

(***************************************************************************)
(* Bars are built once and in order, for every session length, every set   *)
(* of prints and any arrival order.  The inductive invariant puts the      *)
(* finalization mark between the two sets: every minute being built lies   *)
(* after it, no published minute does.  A finalization moves the mark to   *)
(* the last due minute, and the minutes it leaves open are those whose     *)
(* grace has not ended: they come after every due one.                     *)
(***************************************************************************)
Between ==
    /\ now \in Nat /\ finalized_through \in Int
    /\ DOMAIN open \subseteq Minute /\ published \subseteq Minute
    /\ \A m \in DOMAIN open : finalized_through < m
    /\ \A k \in published : k <= finalized_through
    /\ restated = {}

(* Max of a bounded, non-empty set of integers is its greatest element. *)
LEMMA MaxOfBounded ==
    ASSUME NEW S \in SUBSET Int, S # {}, NEW bound \in Int, \A x \in S : x <= bound
    PROVE  Max(S) \in S /\ \A y \in S : Max(S) >= y
<1> DEFINE Below == {bound - x : x \in S}
<1>1. Below \subseteq Nat
  <2>1. ASSUME NEW x \in S
        PROVE  bound - x \in Nat
    BY <2>1
  <2> QED BY <2>1
<1>2. Below # {}
  <2>1. PICK x \in S : TRUE
    OBVIOUS
  <2>2. bound - x \in Below
    BY <2>1
  <2> QED BY <2>2
<1>3. PICK t \in Below : \A y \in Below : ~(<<y, t>> \in OpToRel(<, Nat))
  BY <1>1, <1>2, NatLessThanWellFounded, WFMin
<1>4. \A y \in Below : ~(y < t)
  BY <1>1, <1>3 DEF OpToRel
<1>5. PICK x \in S : t = bound - x
  OBVIOUS
<1>6. \A y \in S : x >= y
  <2>1. ASSUME NEW y \in S
        PROVE  x >= y
    <3>1. ~(bound - y < bound - x)
      BY <1>4, <1>5
    <3> QED BY <3>1
  <2> QED BY <2>1
<1> QED BY <1>6 DEF Max

(* The mark after a finalization: at or after every minute it finalized. *)
LEMMA MarkMoves ==
    ASSUME NEW mark \in Int, NEW due \in SUBSET Minute
    PROVE  /\ Max({mark} \cup due) \in {mark} \cup due
           /\ \A m \in {mark} \cup due : m <= Max({mark} \cup due)
<1> DEFINE bound == IF mark > LastMinute THEN mark ELSE LastMinute
<1>1. LastMinute \in Nat
  BY BarAssumption
<1>2. {mark} \cup due \in SUBSET Int /\ {mark} \cup due # {} /\ bound \in Int
  BY <1>1 DEF Minute
<1>3. \A x \in {mark} \cup due : x <= bound
  BY <1>1 DEF Minute
<1>4. /\ Max({mark} \cup due) \in {mark} \cup due
      /\ \A y \in {mark} \cup due : Max({mark} \cup due) >= y
  BY <1>2, <1>3, MaxOfBounded
<1>5. Max({mark} \cup due) \in Int
  BY <1>2, <1>4
<1> QED BY <1>2, <1>4, <1>5

(* _finalize of the due minutes, on whatever bars the tick has left. *)
LEMMA FinalizeKeepsOrder ==
    ASSUME Between, NEW bars, NEW memory, NEW table,
           DOMAIN bars \subseteq Minute, \A m \in DOMAIN bars : finalized_through < m,
           Finalize(bars, memory, table, Due(bars)), now' \in Nat
    PROVE  Between'
<1> DEFINE due == Due(bars)
<1>1. due \in SUBSET Minute /\ due \subseteq DOMAIN bars
  BY DEF Due
<1>2. /\ open' = Without(bars, due)
      /\ finalized_through' = Max({finalized_through} \cup due)
      /\ published' \in {published, published \cup due}
      /\ restated' \in {restated, restated \cup {m \in due : \E k \in published : m <= k}}
  BY DEF Finalize, WriteAndPublish, WriteFails
<1>3. /\ finalized_through' \in {finalized_through} \cup due
      /\ \A m \in {finalized_through} \cup due : m <= finalized_through'
  BY <1>1, <1>2, MarkMoves DEF Between
<1>4. Minute \subseteq Int
  BY DEF Minute
<1>5. DOMAIN open' = DOMAIN bars \ due
  BY <1>2 DEF Without
<1>6. finalized_through' \in Int
  BY <1>1, <1>3, <1>4 DEF Between
<1>7. \A m \in DOMAIN open' : finalized_through' < m
  <2>1. ASSUME NEW m \in DOMAIN bars \ due
        PROVE  finalized_through' < m
    <3>1. m \in DOMAIN bars /\ m \in Minute /\ m \in Int /\ now \in Int
      <4>1. m \in DOMAIN bars
        OBVIOUS
      <4>2. m \in Minute
        BY <4>1
      <4>3. m \in Int
        BY <1>4, <4>2
      <4>4. now \in Int
        BY DEF Between
      <4> QED BY <4>1, <4>2, <4>3, <4>4
    <3>2. ~(2 * m + 3 <= now)
      BY <3>1 DEF Due
    <3>3. ASSUME NEW d \in due
          PROVE  d < m
      <4>1. d \in Int /\ 2 * d + 3 <= now
        BY <1>1, <1>4 DEF Due
      <4> QED BY <3>1, <3>2, <4>1
    <3> QED BY <1>3, <3>1, <3>3
  <2> QED BY <1>5, <2>1
<1>8. \A k \in published' : k <= finalized_through'
  <2>1. ASSUME NEW k \in published
        PROVE  k <= finalized_through'
    <3>1. k \in Int /\ k <= finalized_through /\ finalized_through <= finalized_through'
      BY <1>3, <1>4 DEF Between
    <3> QED BY <1>6, <3>1 DEF Between
  <2> QED BY <1>2, <1>3, <2>1
<1>9. restated' = {}
  <2>1. ASSUME NEW m \in due, NEW k \in published
        PROVE  ~(m <= k)
    <3>1. m \in Int /\ k \in Int /\ finalized_through \in Int
      BY <1>1, <1>4 DEF Between
    <3>2. k <= finalized_through /\ finalized_through < m
      BY <1>1 DEF Between
    <3> QED BY <3>1, <3>2
  <2> QED BY <1>2, <2>1 DEF Between
<1> QED BY <1>1, <1>2, <1>5, <1>6, <1>7, <1>8, <1>9 DEF Between

(* One step of the builder, of the clock or of another writer of the rows. *)
LEMMA BuilderStep ==
    ASSUME Between, [BarNext]_barVars
    PROVE  Between'
<1>1. CASE Advance
  <2>1. Finalize(open, recent, rows, Due(open)) /\ now' = now
    BY <1>1 DEF Advance
  <2> QED BY <2>1, FinalizeKeepsOrder DEF Between
<1>2. ASSUME NEW m \in Minute, NEW p \in Prints, OnTick(m, p.price, p.volume)
      PROVE  Between'
  <2>1. now' = now
    BY <1>2 DEF OnTick
  <2>2. CASE IsLate(m)
    <3>1. PICK memory, table : Finalize(open, memory, table, Due(open))
      BY <1>2, <2>2 DEF OnTick, Late
    <3> QED BY <2>1, <3>1, FinalizeKeepsOrder DEF Between
  <2>3. CASE ~IsLate(m)
    <3> DEFINE bars == Merged(m, p.price, VolumeDelta(m, p.volume))
    <3>1. Finalize(bars, recent, rows, Due(bars))
      BY <1>2, <2>3 DEF OnTick, OnTime
    <3>2. DOMAIN bars = DOMAIN open \cup {m}
      BY DEF Merged, With
    <3>3. finalized_through < m
      BY <2>3 DEF IsLate, Between, Minute
    <3>4. DOMAIN bars \subseteq Minute /\ \A k \in DOMAIN bars : finalized_through < k
      BY <3>2, <3>3 DEF Between
    <3> HIDE DEF bars
    <3> QED BY <2>1, <3>1, <3>4, FinalizeKeepsOrder DEF Between
  <2> QED BY <2>2, <2>3
<1>3. CASE Stop
  BY <1>3 DEF Stop, Boots, Between, Nothing
<1>4. CASE ClockTick
  BY <1>4 DEF ClockTick, Between, builder, history
<1>5. CASE GapsRead \/ GapsFilled \/ Reconcile \/ UNCHANGED barVars
  BY <1>5 DEF GapsRead, GapsFilled, Reconcile, Between, builder, history, barVars
<1> QED BY <1>1, <1>2, <1>3, <1>4, <1>5 DEF BarNext

(***************************************************************************)
(* A minute is built, written and published once by a process, and after   *)
(* every earlier one, for any arrival order of any prints: the handler of  *)
(* late ticks and the finalization never reopen a minute.                  *)
(***************************************************************************)
THEOREM BarsBuiltOnceInOrder == BarSpec => []BuiltOnceInOrder
<1>1. BarInit => Between
  BY DEF BarInit, Between, Nothing
<1>2. Between /\ [BarNext]_barVars => Between'
  BY BuilderStep
<1>3. Between => BuiltOnceInOrder
  <2> SUFFICES ASSUME Between, NEW m \in DOMAIN open, NEW k \in published
               PROVE  k < m
    BY DEF BuiltOnceInOrder, Between
  <2>1. m \in Int /\ k \in Int /\ finalized_through \in Int
    BY DEF Between, Minute
  <2> QED BY <2>1 DEF Between
<1> QED BY <1>1, <1>2, <1>3, PTL DEF BarSpec
-----------------------------------------------------------------------------
(***************************************************************************)
(* The book for any number of recommendations: no answer is left without a *)
(* label, no position has two standing exits, and the three tables of an   *)
(* entry implement a trade.                                                *)
(***************************************************************************)
RecRow ==
    [ kind : {"unsent", "entry", "exit", "adjust"}, source : {"none", "event", "sweep"},
      human : {"none", "taken", "closed", "dismissed", "expired"}, live : BOOLEAN, sent : Nat ]

LedgerRow ==
    [position : Entries \cup {"none"}, label : {"none", "win", "loss", "no_action"}, closed : Nat]

BookTyped ==
    /\ rec \in [Recs -> RecRow]
    /\ ledger \in [Recs -> LedgerRow]
    /\ position \in [Entries -> {"none", "OPEN", "CLOSED"}]
    /\ event \in [Entries -> {"idle", "calling", "known", "unknown"}]
    /\ todo \subseteq Entries
    /\ aged \in [position : Entries \cup {"none"}, known : BOOLEAN]
    /\ aged.known => aged.position \in Entries
    /\ closes \in Nat

(* The three rows of an entry agree, and its ledger row names its position. *)
Agreed ==
    { <<"none", "none", "none">>, <<"dismissed", "none", "no_action">>,
      <<"expired", "none", "no_action">>, <<"taken", "OPEN", "none">>,
      <<"taken", "CLOSED", "win">>, <<"taken", "CLOSED", "loss">>,
      <<"closed", "CLOSED", "win">>, <<"closed", "CLOSED", "loss">> }

EntryAgrees ==
    \A e \in Entries :
        /\ rec[e].kind \in {"unsent", "entry"}
        /\ <<rec[e].human, position[e], ledger[e].label>> \in Agreed
        /\ ledger[e].position = IF position[e] = "none" THEN "none" ELSE e

(* An unsent recommendation has left no trace; an answered exit or adjust  *)
(* is labelled.                                                            *)
UnsentIsBlank ==
    \A r \in Recs : rec[r].kind = "unsent" =>
        /\ rec[r].human = "none" /\ ~rec[r].live /\ rec[r].sent = 0
        /\ ledger[r].position = "none" /\ ledger[r].label = "none"

ManageLabelled ==
    \A m \in Manages : rec[m].human # "none" => ledger[m].label # "none"

BookInv == BookTyped /\ EntryAgrees /\ UnsentIsBlank /\ ManageLabelled

(***************************************************************************)
(* Standing exits.  An event is evaluated only while none stands; an exit  *)
(* that was delivered after a standing one is live; ranks do not exceed    *)
(* the number of exits and adjusts of the day.                             *)
(***************************************************************************)
RanksBounded == \A m \in Manages : rec[m].sent <= Latest

LiveIsOfToday ==
    \A m \in Manages : rec[m].live => rec[m].sent > 0 /\ rec[m].human # "expired"

EventMeansNoExit ==
    \A e \in Entries, m \in Manages :
        event[e] # "idle" /\ Standing(m) => ledger[m].position # e

LaterExitsLive ==
    \A m, q \in Manages :
        /\ Standing(m) /\ rec[q].kind = "exit"
        /\ ledger[q].position = ledger[m].position /\ rec[q].sent > rec[m].sent
        => rec[q].live

ExitInv ==
    RanksBounded /\ LiveIsOfToday /\ EventMeansNoExit /\ LaterExitsLive /\ OneStandingExit

-----------------------------------------------------------------------------
(* deliver writes the two rows of an unsent recommendation, and no other. *)
LEMMA DeliverEffect ==
    ASSUME BookInv, NEW r \in Recs, NEW kind \in {"entry", "exit", "adjust"},
           NEW source \in {"none", "event", "sweep"}, NEW of \in Entries \cup {"none"},
           NEW live \in BOOLEAN, Deliver(r, kind, source, of, live)
    PROVE  /\ rec' \in [Recs -> RecRow] /\ ledger' \in [Recs -> LedgerRow]
           /\ rec[r].kind = "unsent" /\ rec'[r].kind = kind /\ rec'[r].human = "none"
           /\ rec'[r].source = source /\ rec'[r].live = live
           /\ r \in Manages => rec'[r].sent = Latest + 1
           /\ ledger'[r].position = of /\ ledger'[r].label = ledger[r].label
           /\ \A q \in Recs \ {r} : rec'[q] = rec[q] /\ ledger'[q] = ledger[q]
<1>1. Latest \in Nat
  <2>1. IsFiniteSet({m \in Manages : rec[m].sent > 0})
    BY BookAssumption, FS_Subset
  <2> QED BY <2>1, FS_CardinalityType DEF Latest
<1>2. rec \in [Recs -> RecRow] /\ ledger \in [Recs -> LedgerRow]
  BY DEF BookInv, BookTyped
<1>3. rec' \in [Recs -> RecRow]
  BY <1>1, <1>2 DEF Deliver, RecRow
<1>4. ledger' \in [Recs -> LedgerRow]
  BY <1>2 DEF Deliver, LedgerRow
<1>5. /\ rec[r].kind = "unsent" /\ rec'[r].kind = kind /\ rec'[r].human = "none"
      /\ rec'[r].source = source /\ rec'[r].live = live
      /\ r \in Manages => rec'[r].sent = Latest + 1
  BY <1>2 DEF Deliver
<1>6. ledger'[r].position = of /\ ledger'[r].label = ledger[r].label
  BY <1>2 DEF Deliver, LedgerRow
<1>7. \A q \in Recs \ {r} : rec'[q] = rec[q] /\ ledger'[q] = ledger[q]
  BY <1>2 DEF Deliver
<1> QED BY <1>3, <1>4, <1>5, <1>6, <1>7

(* A delivered exit or adjust disturbs no entry. *)
LEMMA ManageDelivered ==
    ASSUME BookInv, NEW m \in Manages, NEW kind \in {"exit", "adjust"},
           NEW source \in {"event", "sweep"}, NEW of \in Entries,
           NEW live \in BOOLEAN, Deliver(m, kind, source, of, live),
           UNCHANGED <<position, closes>>,
           event' \in [Entries -> {"idle", "calling", "known", "unknown"}],
           todo' \subseteq Entries,
           aged' \in [position : Entries \cup {"none"}, known : BOOLEAN],
           aged'.known => aged'.position \in Entries
    PROVE  BookInv'
<1>1. m \in Recs /\ m \notin Entries
  BY BookAssumption DEF Recs
<1>2. /\ rec' \in [Recs -> RecRow] /\ ledger' \in [Recs -> LedgerRow]
      /\ rec'[m].kind = kind /\ rec'[m].human = "none"
      /\ \A q \in Recs \ {m} : rec'[q] = rec[q] /\ ledger'[q] = ledger[q]
  BY <1>1, DeliverEffect
<1>3. BookTyped'
  BY <1>2 DEF BookTyped, BookInv
<1>4. EntryAgrees'
  BY <1>1, <1>2 DEF EntryAgrees, BookInv, Recs
<1>5. UnsentIsBlank'
  BY <1>2 DEF UnsentIsBlank, BookInv
<1>6. ManageLabelled'
  BY <1>2 DEF ManageLabelled, BookInv, Recs
<1> QED BY <1>3, <1>4, <1>5, <1>6 DEF BookInv

(* The owner's four answers and the sweep, on the rows of the two tables. *)
LEMMA TakeKeepsBook ==
    ASSUME BookInv, NEW e \in Entries, Take(e)
    PROVE  BookInv'
<1>1. /\ e \in Recs /\ e \notin Manages /\ rec \in [Recs -> RecRow] /\ ledger \in [Recs -> LedgerRow]
      /\ position \in [Entries -> {"none", "OPEN", "CLOSED"}]
  BY BookAssumption DEF Recs, BookInv, BookTyped
<1>2. /\ rec' = [rec EXCEPT ![e].human = "taken"] /\ rec'[e].human = "taken"
      /\ rec'[e].kind = rec[e].kind /\ rec[e].kind = "entry"
      /\ \A q \in Recs \ {e} : rec'[q] = rec[q] /\ ledger'[q] = ledger[q]
      /\ ledger'[e] = [position |-> e, label |-> "none", closed |-> 0]
      /\ position'[e] = "OPEN" /\ \A q \in Entries \ {e} : position'[q] = position[q]
  BY <1>1 DEF Take, RecRow
<1>3. BookTyped'
  <2>1. rec' \in [Recs -> RecRow]
    BY <1>1, <1>2 DEF RecRow
  <2>2. ledger' \in [Recs -> LedgerRow]
    BY <1>1 DEF Take, LedgerRow
  <2>3. position' \in [Entries -> {"none", "OPEN", "CLOSED"}]
    BY <1>1 DEF Take
  <2> QED BY <2>1, <2>2, <2>3 DEF Take, BookInv, BookTyped
<1>4. EntryAgrees'
  BY <1>1, <1>2, BookAssumption DEF EntryAgrees, BookInv, Agreed, Recs
<1>5. UnsentIsBlank'
  BY <1>1, <1>2 DEF UnsentIsBlank, BookInv
<1>6. ManageLabelled'
  BY <1>1, <1>2 DEF ManageLabelled, BookInv, Recs
<1> QED BY <1>3, <1>4, <1>5, <1>6 DEF BookInv

(* A close: every unlabelled row of the position gets its outcome. *)
LEMMA CloseEffect ==
    ASSUME BookInv, NEW r \in Recs, Close(r)
    PROVE  /\ ledger[r].position \in Entries /\ position[ledger[r].position] = "OPEN"
           /\ position' = [position EXCEPT ![ledger[r].position] = "CLOSED"]
           /\ rec' = [rec EXCEPT ![r].human = "closed"]
           /\ \E outcome \in {"win", "loss"} : \A q \in Recs :
                 /\ ledger'[q].position = ledger[q].position
                 /\ ledger'[q].label =
                       IF ledger[q].position = ledger[r].position /\ ledger[q].label = "none"
                       THEN outcome ELSE ledger[q].label
           /\ ledger' \in [Recs -> LedgerRow]
<1>1. /\ rec \in [Recs -> RecRow] /\ ledger \in [Recs -> LedgerRow] /\ closes \in Nat
  BY DEF BookInv, BookTyped
<1>2. ledger[r].position \in Entries /\ position[ledger[r].position] = "OPEN"
  <2>1. ledger[r].position \in Entries \cup {"none"}
    BY <1>1 DEF LedgerRow
  <2> QED BY <2>1 DEF Close
<1>3. PICK outcome \in {"win", "loss"} :
          ledger' = [q \in Recs |-> IF q \in CompletedRows(r)
                                    THEN [ledger[q] EXCEPT !.label = outcome, !.closed = closes + 1]
                                    ELSE ledger[q]]
  BY DEF Close
<1>4. ledger' \in [Recs -> LedgerRow]
  <2>1. ASSUME NEW q \in Recs
        PROVE  /\ ledger[q] \in LedgerRow
               /\ [ledger[q] EXCEPT !.label = outcome, !.closed = closes + 1] \in LedgerRow
    <3>1. ledger[q] \in LedgerRow /\ closes + 1 \in Nat
      BY <1>1, <2>1
    <3> QED BY <3>1 DEF LedgerRow
  <2> QED BY <1>3, <2>1
<1>5. \A q \in Recs :
          /\ ledger'[q].position = ledger[q].position
          /\ ledger'[q].label =
                IF ledger[q].position = ledger[r].position /\ ledger[q].label = "none"
                THEN outcome ELSE ledger[q].label
  BY <1>1, <1>3 DEF LedgerRow, CompletedRows
<1> QED BY <1>2, <1>4, <1>5 DEF Close

(* The close of a trade labels its entry and leaves the book consistent. *)
LEMMA CloseKeepsBook ==
    ASSUME BookInv, NEW r \in Recs, Close(r)
    PROVE  BookInv'
<1> DEFINE p == ledger[r].position
<1>1. /\ rec \in [Recs -> RecRow] /\ ledger \in [Recs -> LedgerRow]
      /\ position \in [Entries -> {"none", "OPEN", "CLOSED"}] /\ "none" \notin Entries
      /\ Entries \subseteq Recs /\ Manages \subseteq Recs /\ Entries \cap Manages = {}
  BY BookAssumption DEF Recs, BookInv, BookTyped
<1>2. p \in Entries /\ position[p] = "OPEN" /\ ledger' \in [Recs -> LedgerRow]
  BY CloseEffect
<1>3. PICK outcome \in {"win", "loss"} : \A q \in Recs :
          /\ ledger'[q].position = ledger[q].position
          /\ ledger'[q].label =
                IF ledger[q].position = p /\ ledger[q].label = "none" THEN outcome ELSE ledger[q].label
  BY CloseEffect
<1>4. /\ rec' \in [Recs -> RecRow] /\ rec'[r].human = "closed"
      /\ \A q \in Recs : /\ rec'[q].kind = rec[q].kind /\ rec'[q].live = rec[q].live
                         /\ rec'[q].sent = rec[q].sent
                         /\ q # r => rec'[q].human = rec[q].human
  <2>1. rec' = [rec EXCEPT ![r].human = "closed"]
    BY CloseEffect
  <2>2. [rec[r] EXCEPT !.human = "closed"] \in RecRow
    BY <1>1 DEF RecRow
  <2>3. rec' \in [Recs -> RecRow]
    BY <1>1, <2>1, <2>2
  <2>4. \A q \in Recs : rec'[q] = IF q = r THEN [rec[r] EXCEPT !.human = "closed"] ELSE rec[q]
    BY <1>1, <2>1
  <2>5. rec[r] \in RecRow
    BY <1>1
  <2> QED BY <2>3, <2>4, <2>5 DEF RecRow
<1>5. /\ position' \in [Entries -> {"none", "OPEN", "CLOSED"}] /\ position'[p] = "CLOSED"
      /\ \A e \in Entries \ {p} : position'[e] = position[e]
  BY <1>1, <1>2, CloseEffect
<1>6. BookTyped'
  <2>1. closes' = closes + 1 /\ event' = event /\ todo' = todo /\ aged' = aged
    BY Zenon DEF Close
  <2> QED BY <1>2, <1>4, <1>5, <2>1 DEF BookInv, BookTyped
<1>7. ASSUME NEW e \in Entries
      PROVE  /\ rec'[e].kind \in {"unsent", "entry"}
             /\ <<rec'[e].human, position'[e], ledger'[e].label>> \in Agreed
             /\ ledger'[e].position = IF position'[e] = "none" THEN "none" ELSE e
  <2>1. /\ rec[e].kind \in {"unsent", "entry"}
        /\ <<rec[e].human, position[e], ledger[e].label>> \in Agreed
        /\ ledger[e].position = IF position[e] = "none" THEN "none" ELSE e
    BY DEF BookInv, EntryAgrees
  <2>2. CASE e = p
    <3>1. rec[e].human = "taken" /\ ledger[e].label = "none" /\ ledger[e].position = p
      BY <1>2, <2>1, <2>2 DEF Agreed
    <3>2. ledger'[e].label = outcome /\ ledger'[e].position = e /\ position'[e] = "CLOSED"
      BY <1>1, <1>3, <1>5, <2>2, <3>1
    <3>3. rec'[e].human \in {"taken", "closed"}
      BY <1>1, <1>4, <3>1
    <3> QED BY <1>1, <1>4, <2>1, <3>2, <3>3 DEF Agreed
  <2>3. CASE e # p
    <3>1. e # r /\ ledger[e].position # p
      BY <1>1, <1>2, <2>1, <2>3
    <3> QED BY <1>1, <1>3, <1>4, <1>5, <2>1, <2>3, <3>1
  <2> QED BY <2>2, <2>3
<1>8. UnsentIsBlank'
  <2>1. ASSUME NEW q \in Recs, rec[q].kind = "unsent"
        PROVE  q # r /\ ledger[q].position # p
    BY <1>1, <1>2, <2>1 DEF BookInv, UnsentIsBlank
  <2> QED BY <1>3, <1>4, <2>1 DEF BookInv, UnsentIsBlank
<1>9. ManageLabelled'
  BY <1>1, <1>3, <1>4 DEF BookInv, ManageLabelled
<1> QED BY <1>6, <1>7, <1>8, <1>9 DEF BookInv, EntryAgrees

(* /veto and the sweep label unanswered rows, which no position is open for. *)
LEMMA NoActionKeepsBook ==
    ASSUME BookInv, NEW lapsed \in SUBSET Recs, NEW answer \in {"dismissed", "expired"},
           \A r \in lapsed : rec[r].kind # "unsent" /\ rec[r].human = "none",
           rec' = [r \in Recs |-> IF r \in lapsed THEN [rec[r] EXCEPT !.human = answer] ELSE rec[r]],
           ledger' = NoAction(ledger, lapsed),
           todo' \subseteq Entries, UNCHANGED <<position, event, aged, closes>>
    PROVE  BookInv'
<1>1. /\ rec \in [Recs -> RecRow] /\ ledger \in [Recs -> LedgerRow]
      /\ Entries \subseteq Recs /\ Manages \subseteq Recs
  BY DEF Recs, BookInv, BookTyped
<1>2. \A r \in Recs :
          /\ rec'[r] \in RecRow /\ rec'[r].kind = rec[r].kind /\ rec'[r].live = rec[r].live
          /\ rec'[r].sent = rec[r].sent
          /\ rec'[r].human = IF r \in lapsed THEN answer ELSE rec[r].human
  <2>1. ASSUME NEW r \in Recs
        PROVE  /\ rec'[r] \in RecRow /\ rec'[r].kind = rec[r].kind /\ rec'[r].live = rec[r].live
               /\ rec'[r].sent = rec[r].sent
               /\ rec'[r].human = IF r \in lapsed THEN answer ELSE rec[r].human
    <3>1. rec[r] \in RecRow /\ rec'[r] = IF r \in lapsed THEN [rec[r] EXCEPT !.human = answer] ELSE rec[r]
      BY <1>1, <2>1
    <3> QED BY <3>1 DEF RecRow
  <2> QED BY <2>1
<1>3. \A r \in Recs :
          /\ ledger'[r] \in LedgerRow /\ ledger'[r].position = ledger[r].position
          /\ ledger'[r].label = IF r \in lapsed THEN "no_action" ELSE ledger[r].label
  <2>1. ASSUME NEW r \in Recs
        PROVE  /\ ledger'[r] \in LedgerRow /\ ledger'[r].position = ledger[r].position
               /\ ledger'[r].label = IF r \in lapsed THEN "no_action" ELSE ledger[r].label
    <3>1. /\ ledger[r] \in LedgerRow
          /\ ledger'[r] = IF r \in lapsed THEN [ledger[r] EXCEPT !.label = "no_action", !.closed = 0] ELSE ledger[r]
      BY <1>1, <2>1 DEF NoAction
    <3>2. ASSUME NEW row \in LedgerRow
          PROVE  /\ [row EXCEPT !.label = "no_action", !.closed = 0] \in LedgerRow
                 /\ [row EXCEPT !.label = "no_action", !.closed = 0].position = row.position
                 /\ [row EXCEPT !.label = "no_action", !.closed = 0].label = "no_action"
      BY DEF LedgerRow
    <3> QED BY <3>1, <3>2
  <2> QED BY <2>1
<1>4. rec' \in [Recs -> RecRow] /\ ledger' \in [Recs -> LedgerRow]
  <2>1. rec' = [r \in Recs |-> rec'[r]]
    OBVIOUS
  <2>2. ledger' = [r \in Recs |-> ledger'[r]]
    BY DEF NoAction
  <2> QED BY <1>2, <1>3, <2>1, <2>2
<1>5. BookTyped'
  BY <1>4 DEF BookInv, BookTyped
<1>6. ASSUME NEW e \in Entries
      PROVE  /\ rec'[e].kind \in {"unsent", "entry"}
             /\ <<rec'[e].human, position'[e], ledger'[e].label>> \in Agreed
             /\ ledger'[e].position = IF position'[e] = "none" THEN "none" ELSE e
  <2>1. /\ rec[e].kind \in {"unsent", "entry"}
        /\ <<rec[e].human, position[e], ledger[e].label>> \in Agreed
        /\ ledger[e].position = IF position[e] = "none" THEN "none" ELSE e
    BY DEF BookInv, EntryAgrees
  <2>2. e \in lapsed => position[e] = "none"
    BY <2>1 DEF Agreed
  <2>3. /\ rec'[e].kind = rec[e].kind /\ rec'[e].human = (IF e \in lapsed THEN answer ELSE rec[e].human)
        /\ ledger'[e].position = ledger[e].position
        /\ ledger'[e].label = (IF e \in lapsed THEN "no_action" ELSE ledger[e].label)
        /\ position'[e] = position[e]
    BY <1>1, <1>2, <1>3
  <2> QED BY <2>1, <2>2, <2>3 DEF Agreed
<1>7. UnsentIsBlank'
  BY <1>2, <1>3 DEF BookInv, UnsentIsBlank
<1>8. ManageLabelled'
  BY <1>1, <1>2, <1>3 DEF BookInv, ManageLabelled
<1> QED BY <1>5, <1>6, <1>7, <1>8 DEF BookInv, EntryAgrees

(* A time to live that runs out, and a new day, leave every answer alone. *)
LEMMA AgingKeepsBook ==
    ASSUME BookInv, NEW book, rec' = [r \in Recs |-> book[r]], book \in [Recs -> RecRow],
           \A r \in Recs : /\ book[r].kind = rec[r].kind /\ book[r].human = rec[r].human
                           /\ book[r].live => rec[r].live
                           /\ book[r].sent \in {0, rec[r].sent},
           ledger' \in [Recs -> LedgerRow],
           \A r \in Recs : /\ ledger'[r].position = ledger[r].position
                           /\ ledger'[r].label = ledger[r].label,
           closes' \in Nat, UNCHANGED <<position, event, todo, aged>>
    PROVE  BookInv'
<1>1. Entries \subseteq Recs /\ Manages \subseteq Recs
  BY DEF Recs
<1>2. \A r \in Recs : rec'[r] = book[r]
  OBVIOUS
<1>3. BookTyped'
  BY DEF BookInv, BookTyped
<1>4. EntryAgrees'
  BY <1>1, <1>2 DEF BookInv, EntryAgrees
<1>5. UnsentIsBlank'
  BY <1>2 DEF BookInv, UnsentIsBlank
<1>6. ManageLabelled'
  BY <1>1, <1>2 DEF BookInv, ManageLabelled
<1> QED BY <1>3, <1>4, <1>5, <1>6 DEF BookInv

(* One step of the owner, the sweep, the position events or the clock. *)
LEMMA BookStep ==
    ASSUME BookInv, [Next]_vars
    PROVE  BookInv'
<1>0. /\ rec \in [Recs -> RecRow] /\ ledger \in [Recs -> LedgerRow] /\ closes \in Nat
      /\ Entries \subseteq Recs /\ Manages \subseteq Recs /\ Entries \cap Manages = {}
      /\ event \in [Entries -> {"idle", "calling", "known", "unknown"}]
  BY BookAssumption DEF Recs, BookInv, BookTyped
<1>1. ASSUME NEW e \in Entries, DeliverEntry(e)
      PROVE  BookInv'
  <2>1. e \in Recs /\ Deliver(e, "entry", "none", "none", TRUE)
        /\ UNCHANGED <<position, event, debounced, todo, aged, closes>>
    BY <1>0, <1>1 DEF DeliverEntry
  <2>2. /\ rec' \in [Recs -> RecRow] /\ ledger' \in [Recs -> LedgerRow]
        /\ rec[e].kind = "unsent" /\ rec'[e].kind = "entry" /\ rec'[e].human = "none"
        /\ ledger'[e].position = "none" /\ ledger'[e].label = ledger[e].label
        /\ \A q \in Recs \ {e} : rec'[q] = rec[q] /\ ledger'[q] = ledger[q]
    BY <2>1, DeliverEffect
  <2>3. BookTyped'
    BY <2>1, <2>2 DEF BookInv, BookTyped
  <2>4. rec[e].human = "none" /\ ledger[e].label = "none"
    BY <2>1, <2>2 DEF BookInv, UnsentIsBlank
  <2>5. position[e] = "none"
    BY <2>4 DEF BookInv, EntryAgrees, Agreed
  <2>6. EntryAgrees'
    <3>1. ASSUME NEW q \in Entries
          PROVE  /\ rec'[q].kind \in {"unsent", "entry"}
                 /\ <<rec'[q].human, position'[q], ledger'[q].label>> \in Agreed
                 /\ ledger'[q].position = IF position'[q] = "none" THEN "none" ELSE q
      <4>1. /\ rec[q].kind \in {"unsent", "entry"}
            /\ <<rec[q].human, position[q], ledger[q].label>> \in Agreed
            /\ ledger[q].position = IF position[q] = "none" THEN "none" ELSE q
        BY <3>1 DEF BookInv, EntryAgrees
      <4>2. CASE q = e
        BY <2>1, <2>2, <2>4, <2>5, <4>1, <4>2
      <4>3. CASE q # e
        BY <1>0, <2>1, <2>2, <3>1, <4>1, <4>3
      <4> QED BY <4>2, <4>3
    <3> QED BY <3>1 DEF EntryAgrees
  <2>7. UnsentIsBlank'
    BY <2>2 DEF BookInv, UnsentIsBlank
  <2>8. ManageLabelled'
    BY <1>0, <2>2 DEF BookInv, ManageLabelled
  <2> QED BY <2>3, <2>6, <2>7, <2>8 DEF BookInv
<1>2. ASSUME NEW e \in Entries, Take(e)
      PROVE  BookInv'
  BY <1>2, TakeKeepsBook
<1>3. ASSUME NEW e \in Entries, OnBar(e) \/ AnalystAnswers(e) \/ HourPasses(e)
      PROVE  BookInv'
  <2>1. UNCHANGED <<rec, ledger, position, todo, aged, closes>>
    BY <1>3 DEF OnBar, AnalystAnswers, HourPasses
  <2>2. event' \in [Entries -> {"idle", "calling", "known", "unknown"}]
    BY <1>0, <1>3 DEF OnBar, AnalystAnswers, HourPasses
  <2> QED BY <2>1, <2>2 DEF BookInv, BookTyped, EntryAgrees, UnsentIsBlank, ManageLabelled
<1>4. ASSUME NEW e \in Entries, GateAnswers(e)
      PROVE  BookInv'
  <2>1. /\ event' \in [Entries -> {"idle", "calling", "known", "unknown"}]
        /\ UNCHANGED <<position, debounced, todo, aged, closes>>
    BY <1>0, <1>4 DEF GateAnswers
  <2>2. CASE UNCHANGED <<rec, ledger>>
    BY <2>1, <2>2 DEF BookInv, BookTyped, EntryAgrees, UnsentIsBlank, ManageLabelled
  <2>3. ASSUME NEW m \in Manages, NEW kind \in {"exit", "adjust"}, NEW live \in BOOLEAN,
               Deliver(m, kind, "event", e, live)
        PROVE  BookInv'
    BY <2>1, <2>3, ManageDelivered DEF BookInv, BookTyped
  <2> QED BY <1>4, <2>2, <2>3 DEF GateAnswers
<1>5. ASSUME NEW r \in Recs, Close(r)
      PROVE  BookInv'
  BY <1>5, CloseKeepsBook
<1>6. ASSUME NEW r \in Recs, Veto(r)
      PROVE  BookInv'
  <2> DEFINE lapsed == {r}
  <2>1. /\ rec' = [q \in Recs |-> IF q \in lapsed THEN [rec[q] EXCEPT !.human = "dismissed"] ELSE rec[q]]
        /\ ledger' = NoAction(ledger, lapsed)
        /\ UNCHANGED <<position, event, aged, closes>>
    BY <1>0, <1>6 DEF Veto
  <2>2. lapsed \in SUBSET Recs /\ \A q \in lapsed : rec[q].kind # "unsent" /\ rec[q].human = "none"
    BY <1>6 DEF Veto
  <2>3. todo' \subseteq Entries /\ "dismissed" \in {"dismissed", "expired"}
    BY <1>6 DEF Veto, BookInv, BookTyped
  <2> HIDE DEF lapsed
  <2> QED BY <2>1, <2>2, <2>3, NoActionKeepsBook
<1>7. ASSUME NEW r \in Recs, Lapse(r)
      PROVE  BookInv'
  <2> DEFINE book == [rec EXCEPT ![r].live = FALSE]
  <2>1. rec' = book /\ UNCHANGED <<ledger, position, event, debounced, todo, aged, closes>>
    BY <1>7 DEF Lapse
  <2>2. book \in [Recs -> RecRow]
    BY <1>0 DEF RecRow
  <2>3. \A q \in Recs : /\ book[q].kind = rec[q].kind /\ book[q].human = rec[q].human
                        /\ book[q].live => rec[q].live
                        /\ book[q].sent \in {0, rec[q].sent}
    BY <1>0 DEF RecRow
  <2>4. rec' = [q \in Recs |-> book[q]]
    BY <1>0, <2>1
  <2> HIDE DEF book
  <2> QED BY <1>0, <2>1, <2>2, <2>3, <2>4, AgingKeepsBook
<1>8. CASE RecoExpire
  <2> DEFINE stale == {r \in Recs : Stale(r)}
  <2>1. /\ rec' = [r \in Recs |-> IF r \in stale THEN [rec[r] EXCEPT !.human = "expired"] ELSE rec[r]]
        /\ ledger' = NoAction(ledger, stale) /\ todo' \subseteq Entries
        /\ UNCHANGED <<position, event, aged, closes>>
    BY <1>8 DEF RecoExpire, SweptRows
  <2>2. stale \in SUBSET Recs /\ \A r \in stale : rec[r].kind # "unsent" /\ rec[r].human = "none"
    BY DEF Stale
  <2>3. "expired" \in {"dismissed", "expired"}
    OBVIOUS
  <2> HIDE DEF stale
  <2> QED BY <2>1, <2>2, <2>3, NoActionKeepsBook
<1>9. CASE AgedPosition
  BY <1>9 DEF AgedPosition, BookInv, BookTyped, EntryAgrees, UnsentIsBlank, ManageLabelled
<1>10. CASE AgedExit
  <2>1. /\ aged' = Nobody /\ UNCHANGED <<position, event, debounced, todo, closes>>
    BY <1>10 DEF AgedExit
  <2>2. CASE UNCHANGED <<rec, ledger>>
    BY <2>1, <2>2 DEF BookInv, BookTyped, EntryAgrees, UnsentIsBlank, ManageLabelled, Nobody
  <2>3. ASSUME NEW m \in Manages, aged.known, Deliver(m, "exit", "sweep", aged.position, TRUE)
        PROVE  BookInv'
    <3>1. aged.position \in Entries
      BY <2>3 DEF BookInv, BookTyped
    <3> QED BY <2>1, <2>3, <3>1, ManageDelivered DEF BookInv, BookTyped, Nobody
  <2> QED BY <1>10, <2>2, <2>3 DEF AgedExit
<1>11. CASE NextDay
  <2> DEFINE book == [r \in Recs |-> [rec[r] EXCEPT !.live = FALSE, !.sent = 0]]
  <2>1. ASSUME NEW r \in Recs
        PROVE  /\ book[r] \in RecRow /\ book[r].kind = rec[r].kind /\ book[r].human = rec[r].human
               /\ book[r].live => rec[r].live
               /\ book[r].sent \in {0, rec[r].sent}
    <3>1. rec[r] \in RecRow /\ book[r] = [rec[r] EXCEPT !.live = FALSE, !.sent = 0]
      BY <1>0, <2>1
    <3> QED BY <3>1 DEF RecRow
  <2>2. ASSUME NEW r \in Recs
        PROVE  /\ [ledger[r] EXCEPT !.closed = 0] \in LedgerRow
               /\ [ledger[r] EXCEPT !.closed = 0].position = ledger[r].position
               /\ [ledger[r] EXCEPT !.closed = 0].label = ledger[r].label
    <3>1. ledger[r] \in LedgerRow
      BY <1>0, <2>2
    <3> QED BY <3>1 DEF LedgerRow
  <2>3. /\ rec' = book /\ ledger' = [r \in Recs |-> [ledger[r] EXCEPT !.closed = 0]]
        /\ closes' = 0 /\ UNCHANGED <<position, event, todo, aged>>
    BY <1>11 DEF NextDay
  <2>4. /\ ledger' \in [Recs -> LedgerRow]
        /\ \A r \in Recs : ledger'[r].position = ledger[r].position /\ ledger'[r].label = ledger[r].label
    BY <2>2, <2>3
  <2>5. book \in [Recs -> RecRow] /\ rec' = [r \in Recs |-> book[r]]
    BY <2>1, <2>3
  <2> HIDE DEF book
  <2> QED BY <2>1, <2>3, <2>4, <2>5, AgingKeepsBook
<1>12. CASE Restart
  <2>1. /\ UNCHANGED <<rec, ledger, position, closes>> /\ todo' = {} /\ aged' = Nobody
        /\ event' = [e \in Entries |-> "idle"]
    BY <1>12 DEF Restart
  <2> QED BY <2>1 DEF BookInv, BookTyped, EntryAgrees, UnsentIsBlank, ManageLabelled, Nobody
<1>13. CASE UNCHANGED vars
  BY <1>13 DEF vars, BookInv, BookTyped, EntryAgrees, UnsentIsBlank, ManageLabelled
<1> QED BY <1>1, <1>2, <1>3, <1>4, <1>5, <1>6, <1>7, <1>8, <1>9, <1>10, <1>11, <1>12, <1>13 DEF Next

(* The empty book is consistent. *)
LEMMA BookInit == Init => BookInv
  BY DEF Init, BookInv, BookTyped, RecRow, LedgerRow, EntryAgrees, Agreed, UnsentIsBlank,
         ManageLabelled, Unsent, Nobody, Recs

(***************************************************************************)
(* Every answered recommendation ends as a labelled row, except an entry   *)
(* whose position is open, for any number of recommendations and whatever  *)
(* the owner, the sweep, the events and restarts do in whatever order.     *)
(***************************************************************************)
THEOREM AnswersAreLabelled == Spec => []AnsweredIsLabelled
<1>1. BookInv /\ [Next]_vars => BookInv'
  BY BookStep
<1>2. BookInv => AnsweredIsLabelled
  <2> SUFFICES ASSUME BookInv, NEW r \in Recs, rec[r].kind # "unsent", ledger[r].label = "none",
                      rec[r].human # "none"
               PROVE  r \in Entries /\ position[r] = "OPEN"
    BY DEF AnsweredIsLabelled
  <2>1. r \in Entries
    BY DEF BookInv, ManageLabelled, Recs
  <2> QED BY <2>1 DEF BookInv, EntryAgrees, Agreed
<1> QED BY BookInit, <1>1, <1>2, PTL DEF Spec

-----------------------------------------------------------------------------
(***************************************************************************)
(* The refinement: what the three rows of an entry tell, by status.        *)
(***************************************************************************)
LEMMA ToldTable ==
    /\ \A told : Told("unsent", told) = "absent"
    /\ Told("entry", <<"none", "none", "none">>) = "offered"
    /\ Told("entry", <<"dismissed", "none", "no_action">>) = "declined"
    /\ Told("entry", <<"expired", "none", "no_action">>) = "lapsed"
    /\ Told("entry", <<"taken", "OPEN", "none">>) = "open"
    /\ \A human \in {"taken", "closed"} :
          /\ Told("entry", <<human, "CLOSED", "win">>) = "won"
          /\ Told("entry", <<human, "CLOSED", "loss">>) = "lost"
<1>1. \A told : Told("unsent", told) = "absent"
  BY DEF Told
<1>2. ASSUME NEW told, told \notin {"taken", "closed"} \X {"CLOSED"} \X {"win", "loss"}
      PROVE  /\ told = <<"none", "none", "none">> => Told("entry", told) = "offered"
             /\ told = <<"dismissed", "none", "no_action">> => Told("entry", told) = "declined"
             /\ told = <<"expired", "none", "no_action">> => Told("entry", told) = "lapsed"
             /\ told = <<"taken", "OPEN", "none">> => Told("entry", told) = "open"
  BY <1>2 DEF Told
<1>3. ASSUME NEW human \in {"taken", "closed"}
      PROVE  /\ Told("entry", <<human, "CLOSED", "win">>) = "won"
             /\ Told("entry", <<human, "CLOSED", "loss">>) = "lost"
  BY DEF Told
<1> QED BY <1>1, <1>2, <1>3

(* A step that leaves an entry's rows alone leaves its trade where it was. *)
LEMMA Unmoved ==
    ASSUME NEW e, rec'[e].kind = rec[e].kind, rec'[e].human = rec[e].human,
           position'[e] = position[e], ledger'[e].label = ledger[e].label
    PROVE  TradeOf(e)' = TradeOf(e)
  BY DEF TradeOf

(* A step that moves one entry is that move of the abstract book. *)
LEMMA OneMoves ==
    ASSUME NEW e \in Entries, NEW from, NEW to, TradeOf(e) \in from, TradeOf(e)' = to,
           \A q \in Entries \ {e} : TradeOf(q)' = TradeOf(q)
    PROVE  T!Moves(e, from, to)
  BY DEF T!Moves

(* A step that moves no entry stutters. *)
LEMMA NoneMoves ==
    ASSUME \A q \in Entries : TradeOf(q)' = TradeOf(q)
    PROVE  UNCHANGED [e \in Entries |-> TradeOf(e)]
  OBVIOUS

(* Exits and adjustments move no trade. *)
LEMMA ManageMovesNone ==
    ASSUME BookInv, NEW m \in Manages, NEW kind \in {"exit", "adjust"},
           NEW source \in {"event", "sweep"}, NEW of \in Entries, NEW live \in BOOLEAN,
           Deliver(m, kind, source, of, live), UNCHANGED position
    PROVE  UNCHANGED [e \in Entries |-> TradeOf(e)]
<1>1. m \in Recs /\ m \notin Entries /\ Entries \subseteq Recs
  BY BookAssumption DEF Recs
<1>2. \A q \in Recs \ {m} : rec'[q] = rec[q] /\ ledger'[q] = ledger[q]
  BY <1>1, DeliverEffect
<1> QED BY <1>1, <1>2, Unmoved, NoneMoves

(* A close settles the trade of one entry, and moves no other. *)
LEMMA CloseSettles ==
    ASSUME BookInv, NEW r \in Recs, Close(r)
    PROVE  \E e \in Entries : T!Settle(e)
<1>0. PICK p \in Entries : p = ledger[r].position
  BY CloseEffect
<1>1. /\ rec \in [Recs -> RecRow] /\ position \in [Entries -> {"none", "OPEN", "CLOSED"}]
      /\ Entries \subseteq Recs /\ p \in Entries /\ position[p] = "OPEN"
      /\ "none" \notin Entries
  BY <1>0, BookAssumption, CloseEffect DEF BookInv, BookTyped, Recs
<1>2. PICK outcome \in {"win", "loss"} : \A q \in Recs :
          ledger'[q].label =
              IF ledger[q].position = p /\ ledger[q].label = "none" THEN outcome ELSE ledger[q].label
  BY <1>0, CloseEffect
<1>3. /\ position' = [position EXCEPT ![p] = "CLOSED"] /\ rec' = [rec EXCEPT ![r].human = "closed"]
  BY <1>0, CloseEffect
<1>4. /\ rec[p].kind \in {"unsent", "entry"} /\ rec[p].human = "taken" /\ ledger[p].label = "none"
      /\ ledger[p].position = p
  BY <1>1 DEF BookInv, EntryAgrees, Agreed
<1>5. rec[p].kind = "entry"
  BY <1>1, <1>4 DEF BookInv, UnsentIsBlank
<1>6. TradeOf(p) \in {"open"}
  BY <1>1, <1>4, <1>5, ToldTable DEF TradeOf
<1>7. /\ rec'[p].kind = "entry" /\ rec'[p].human \in {"taken", "closed"}
      /\ position'[p] = "CLOSED" /\ ledger'[p].label = outcome
  BY <1>1, <1>2, <1>3, <1>4, <1>5 DEF RecRow
<1>8. \A q \in Entries \ {p} : TradeOf(q)' = TradeOf(q)
  <2> SUFFICES ASSUME NEW q \in Entries \ {p}
               PROVE  TradeOf(q)' = TradeOf(q)
    OBVIOUS
  <2>1. ledger[q].position # p /\ q # r
    BY <1>0, <1>1 DEF BookInv, EntryAgrees
  <2>2. rec'[q] = rec[q] /\ position'[q] = position[q] /\ ledger'[q].label = ledger[q].label
    BY <1>1, <1>2, <1>3, <2>1
  <2> QED BY <2>2, Unmoved
<1>9. CASE outcome = "win"
  <2>1. TradeOf(p)' = "won"
    BY <1>7, <1>9, ToldTable DEF TradeOf
  <2> QED BY <1>1, <1>6, <1>8, <2>1, OneMoves DEF T!Settle
<1>10. CASE outcome = "loss"
  <2>1. TradeOf(p)' = "lost"
    BY <1>7, <1>10, ToldTable DEF TradeOf
  <2> QED BY <1>1, <1>6, <1>8, <2>1, OneMoves DEF T!Settle
<1> QED BY <1>2, <1>9, <1>10

(* The expiry sweep is a lapse of the offered trades. *)
LEMMA ExpiryLapses ==
    ASSUME BookInv, RecoExpire
    PROVE  T!Lapse
<1> DEFINE stale == {e \in Entries : Stale(e)}
<1>1. /\ rec \in [Recs -> RecRow] /\ ledger \in [Recs -> LedgerRow] /\ Entries \subseteq Recs
  BY DEF BookInv, BookTyped, Recs
<1>2. \A e \in Entries :
          /\ rec'[e].kind = rec[e].kind /\ position'[e] = position[e]
          /\ rec'[e].human = IF e \in stale THEN "expired" ELSE rec[e].human
          /\ ledger'[e].label = IF e \in stale THEN "no_action" ELSE ledger[e].label
  <2> SUFFICES ASSUME NEW e \in Entries
               PROVE  /\ rec'[e].kind = rec[e].kind /\ position'[e] = position[e]
                      /\ rec'[e].human = IF e \in stale THEN "expired" ELSE rec[e].human
                      /\ ledger'[e].label = IF e \in stale THEN "no_action" ELSE ledger[e].label
    OBVIOUS
  <2>1. rec[e] \in RecRow /\ ledger[e] \in LedgerRow /\ e \in Recs
    BY <1>1
  <2>2. /\ rec'[e] = IF e \in stale THEN [rec[e] EXCEPT !.human = "expired"] ELSE rec[e]
        /\ ledger'[e] = IF e \in stale THEN [ledger[e] EXCEPT !.label = "no_action", !.closed = 0]
                        ELSE ledger[e]
        /\ position' = position
    BY <2>1 DEF RecoExpire, SweptRows, NoAction
  <2>3. ASSUME NEW row \in LedgerRow
        PROVE  [row EXCEPT !.label = "no_action", !.closed = 0].label = "no_action"
    BY DEF LedgerRow
  <2>4. ASSUME NEW row \in RecRow
        PROVE  /\ [row EXCEPT !.human = "expired"].human = "expired"
               /\ [row EXCEPT !.human = "expired"].kind = row.kind
    BY DEF RecRow
  <2> QED BY <2>1, <2>2, <2>3, <2>4
<1>3. ASSUME NEW e \in stale
      PROVE  TradeOf(e) = "offered" /\ TradeOf(e)' = "lapsed"
  <2>1. e \in Entries /\ rec[e].kind # "unsent" /\ rec[e].human = "none"
    BY DEF Stale
  <2>2. rec[e].kind = "entry" /\ position[e] = "none" /\ ledger[e].label = "none"
    BY <2>1 DEF BookInv, EntryAgrees, Agreed
  <2> QED BY <1>2, <2>1, <2>2, ToldTable DEF TradeOf
<1>4. ASSUME NEW e \in Entries \ stale
      PROVE  TradeOf(e)' = TradeOf(e)
  BY <1>2, Unmoved
<1>5. stale \in SUBSET {e \in Entries : [x \in Entries |-> TradeOf(x)][e] = "offered"}
  BY <1>3
<1>6. [e \in Entries |-> TradeOf(e)]'
        = [e \in Entries |-> IF e \in stale THEN "lapsed" ELSE [x \in Entries |-> TradeOf(x)][e]]
  BY <1>3, <1>4
<1> HIDE DEF stale
<1> QED BY <1>5, <1>6 DEF T!Lapse

(* Every step of the book is, for each entry, a step of its trade or none. *)
LEMMA TradeStep ==
    ASSUME BookInv, [Next]_vars
    PROVE  T!Next \/ UNCHANGED [e \in Entries |-> TradeOf(e)]
<1>0. /\ rec \in [Recs -> RecRow] /\ ledger \in [Recs -> LedgerRow]
      /\ position \in [Entries -> {"none", "OPEN", "CLOSED"}]
      /\ Entries \subseteq Recs /\ Manages \subseteq Recs /\ Entries \cap Manages = {}
  BY BookAssumption DEF Recs, BookInv, BookTyped
<1>1. ASSUME NEW e \in Entries, DeliverEntry(e)
      PROVE  T!Offer(e)
  <2>1. Deliver(e, "entry", "none", "none", TRUE) /\ position' = position /\ e \in Recs
    BY <1>0, <1>1 DEF DeliverEntry
  <2>2. /\ rec[e].kind = "unsent" /\ rec'[e].kind = "entry" /\ rec'[e].human = "none"
        /\ ledger'[e].label = ledger[e].label
        /\ \A q \in Recs \ {e} : rec'[q] = rec[q] /\ ledger'[q] = ledger[q]
    BY <2>1, DeliverEffect
  <2>3. rec[e].human = "none" /\ ledger[e].label = "none"
    BY <2>1, <2>2 DEF BookInv, UnsentIsBlank
  <2>4. position[e] = "none"
    BY <2>3 DEF BookInv, EntryAgrees, Agreed
  <2>5. TradeOf(e) \in {"absent"}
    BY <2>2, ToldTable DEF TradeOf
  <2>6. TradeOf(e)' = "offered"
    BY <2>1, <2>2, <2>3, <2>4, ToldTable DEF TradeOf
  <2>7. \A q \in Entries \ {e} : TradeOf(q)' = TradeOf(q)
    BY <1>0, <2>1, <2>2, Unmoved
  <2> QED BY <2>5, <2>6, <2>7, OneMoves DEF T!Offer
<1>2. ASSUME NEW e \in Entries, Take(e)
      PROVE  T!Execute(e)
  <2>1. /\ rec[e].kind = "entry" /\ rec[e].human \in {"none", "expired"}
        /\ rec'[e].kind = "entry" /\ rec'[e].human = "taken" /\ position'[e] = "OPEN"
        /\ ledger'[e].label = "none"
        /\ \A q \in Entries \ {e} :
              rec'[q] = rec[q] /\ position'[q] = position[q] /\ ledger'[q] = ledger[q]
    BY <1>0, <1>2 DEF Take, RecRow
  <2>2. TradeOf(e) \in {"offered", "lapsed"}
    BY <2>1, ToldTable DEF BookInv, EntryAgrees, Agreed, TradeOf
  <2>3. TradeOf(e)' = "open"
    BY <2>1, ToldTable DEF TradeOf
  <2>4. \A q \in Entries \ {e} : TradeOf(q)' = TradeOf(q)
    BY <2>1, Unmoved
  <2> QED BY <2>2, <2>3, <2>4, OneMoves DEF T!Execute
<1>3. ASSUME NEW r \in Recs, Veto(r)
      PROVE  T!Next \/ UNCHANGED [e \in Entries |-> TradeOf(e)]
  <2>1. /\ rec[r].kind # "unsent" /\ rec[r].human = "none" /\ position' = position
        /\ rec' = [rec EXCEPT ![r].human = "dismissed"] /\ ledger' = NoAction(ledger, {r})
    BY <1>3 DEF Veto
  <2>2. \A q \in Entries \ {r} : rec'[q] = rec[q] /\ ledger'[q] = ledger[q]
    BY <1>0, <2>1 DEF NoAction
  <2>3. \A q \in Entries \ {r} : TradeOf(q)' = TradeOf(q)
    BY <2>1, <2>2, Unmoved
  <2>4. CASE r \in Manages
    <3>1. \A q \in Entries : TradeOf(q)' = TradeOf(q)
      BY <1>0, <2>3, <2>4
    <3> QED BY <3>1, NoneMoves
  <2>5. CASE r \in Entries
    <3>1. rec[r].kind = "entry" /\ position[r] = "none" /\ ledger[r].label = "none"
      BY <2>1, <2>5 DEF BookInv, EntryAgrees, Agreed
    <3>2. rec[r] \in RecRow /\ ledger[r] \in LedgerRow
      BY <1>0
    <3>3. /\ rec'[r] = [rec[r] EXCEPT !.human = "dismissed"]
          /\ ledger'[r] = [ledger[r] EXCEPT !.label = "no_action", !.closed = 0]
      BY <1>0, <2>1 DEF NoAction
    <3>4. rec'[r].kind = "entry" /\ rec'[r].human = "dismissed"
      BY <3>1, <3>2, <3>3 DEF RecRow
    <3>5. ledger'[r].label = "no_action"
      BY <3>2, <3>3 DEF LedgerRow
    <3>6. TradeOf(r) \in {"offered"}
      BY <2>1, <3>1, ToldTable DEF TradeOf
    <3>7. TradeOf(r)' = "declined"
      BY <2>1, <3>1, <3>4, <3>5, ToldTable DEF TradeOf
    <3>8. T!Decline(r)
      BY <2>3, <2>5, <3>6, <3>7, OneMoves DEF T!Decline
    <3> QED BY <2>5, <3>8 DEF T!Next
  <2> QED BY <2>4, <2>5 DEF Recs
<1>4. ASSUME NEW r \in Recs, Close(r)
      PROVE  T!Next
  BY <1>4, CloseSettles DEF T!Next
<1>5. CASE RecoExpire
  BY <1>5, ExpiryLapses DEF T!Next
<1>6. ASSUME UNCHANGED <<rec, ledger, position>>
      PROVE  UNCHANGED [e \in Entries |-> TradeOf(e)]
  BY <1>6, Unmoved, NoneMoves
<1>7. ASSUME NEW e \in Entries, OnBar(e) \/ AnalystAnswers(e) \/ HourPasses(e)
      PROVE  UNCHANGED <<rec, ledger, position>>
  BY <1>7 DEF OnBar, AnalystAnswers, HourPasses
<1>8. CASE AgedPosition \/ Restart \/ UNCHANGED vars
  <2>1. UNCHANGED <<rec, ledger, position>>
    BY <1>8 DEF AgedPosition, Restart, vars
  <2> QED BY <1>6, <2>1
<1>9. ASSUME NEW e \in Entries, GateAnswers(e)
      PROVE  UNCHANGED [x \in Entries |-> TradeOf(x)]
  <2>1. position' = position
    BY <1>9 DEF GateAnswers
  <2>2. ASSUME NEW m \in Manages, NEW kind \in {"exit", "adjust"}, NEW live \in BOOLEAN,
               Deliver(m, kind, "event", e, live)
        PROVE  UNCHANGED [x \in Entries |-> TradeOf(x)]
    BY <2>1, <2>2, ManageMovesNone
  <2> QED BY <1>6, <1>9, <2>1, <2>2 DEF GateAnswers
<1>10. CASE AgedExit
  <2>1. position' = position
    BY <1>10 DEF AgedExit
  <2>2. ASSUME NEW m \in Manages, aged.known, Deliver(m, "exit", "sweep", aged.position, TRUE)
        PROVE  UNCHANGED [x \in Entries |-> TradeOf(x)]
    <3>1. aged.position \in Entries
      BY <2>2 DEF BookInv, BookTyped
    <3> QED BY <2>1, <2>2, <3>1, ManageMovesNone
  <2> QED BY <1>6, <1>10, <2>1, <2>2 DEF AgedExit
<1>11. ASSUME NEW r \in Recs, Lapse(r)
      PROVE  UNCHANGED [e \in Entries |-> TradeOf(e)]
  <2>1. rec' = [rec EXCEPT ![r].live = FALSE] /\ ledger' = ledger /\ position' = position
    BY <1>11 DEF Lapse
  <2>2. \A q \in Entries : rec'[q].kind = rec[q].kind /\ rec'[q].human = rec[q].human
    BY <1>0, <2>1 DEF RecRow
  <2> QED BY <2>1, <2>2, Unmoved, NoneMoves
<1>12. CASE NextDay
  <2>1. position' = position
    BY <1>12 DEF NextDay
  <2>2. ASSUME NEW q \in Entries
        PROVE  /\ rec'[q].kind = rec[q].kind /\ rec'[q].human = rec[q].human
               /\ ledger'[q].label = ledger[q].label
    <3>1. rec[q] \in RecRow /\ ledger[q] \in LedgerRow /\ q \in Recs
      BY <1>0
    <3>2. /\ rec'[q] = [rec[q] EXCEPT !.live = FALSE, !.sent = 0]
          /\ ledger'[q] = [ledger[q] EXCEPT !.closed = 0]
      BY <1>12, <3>1 DEF NextDay
    <3> QED BY <3>1, <3>2 DEF RecRow, LedgerRow
  <2> QED BY <2>1, <2>2, Unmoved, NoneMoves
<1>13. ASSUME NEW e \in Entries, T!Offer(e) \/ T!Execute(e)
      PROVE  T!Next
  BY <1>13 DEF T!Next
<1> QED BY <1>1, <1>2, <1>3, <1>4, <1>5, <1>6, <1>7, <1>8, <1>9, <1>10, <1>11, <1>12, <1>13 DEF Next

(***************************************************************************)
(* The recommendation, the ledger row and the position of an entry always  *)
(* tell one story, and it is a trade: declined, lapsed, or executed and    *)
(* settled once, for any number of entries, exits and adjusts.             *)
(***************************************************************************)
THEOREM BookImplementsTrade == Spec => ImplementsTrade
<1>1. Init => T!Init
  <2> SUFFICES ASSUME Init, NEW e \in Entries
               PROVE  TradeOf(e) = "absent"
    BY DEF T!Init
  <2>1. rec[e].kind = "unsent"
    BY DEF Init, Unsent, Recs
  <2> QED BY <2>1, ToldTable DEF TradeOf
<1>2. BookInv /\ [Next]_vars => [T!Next]_([e \in Entries |-> TradeOf(e)])
  BY TradeStep
<1>3. BookInv /\ [Next]_vars => BookInv'
  BY BookStep
<1> QED BY <1>1, <1>2, <1>3, BookInit, PTL DEF Spec, ImplementsTrade, T!Spec

-----------------------------------------------------------------------------
(***************************************************************************)
(* Standing exits.  First the two facts about ranks: the day's exits have  *)
(* a latest one, and a delivered one comes after all of them.              *)
(***************************************************************************)
LEMMA LatestExists ==
    ASSUME BookInv, NEW e \in Entries, ExitsToday(e) # {}, RanksBounded
    PROVE  \E q \in ExitsToday(e) : \A m \in ExitsToday(e) : rec[m].sent <= rec[q].sent
<1> DEFINE Rest == {Latest - rec[m].sent : m \in ExitsToday(e)}
<1>1. Latest \in Nat
  <2>1. IsFiniteSet({m \in Manages : rec[m].sent > 0})
    BY BookAssumption, FS_Subset
  <2> QED BY <2>1, FS_CardinalityType DEF Latest
<1>2. \A m \in ExitsToday(e) : rec[m].sent \in Nat /\ rec[m].sent <= Latest
  BY DEF ExitsToday, BookInv, BookTyped, RecRow, Recs, RanksBounded
<1>3. Rest \subseteq Nat
  <2>1. ASSUME NEW m \in ExitsToday(e)
        PROVE  Latest - rec[m].sent \in Nat
    BY <1>1, <1>2, <2>1
  <2> QED BY <2>1
<1>4. Rest # {}
  <2>1. PICK m \in ExitsToday(e) : TRUE
    OBVIOUS
  <2>2. Latest - rec[m].sent \in Rest
    BY <2>1
  <2> QED BY <2>2
<1>5. PICK t \in Rest : \A y \in Rest : ~(<<y, t>> \in OpToRel(<, Nat))
  BY <1>3, <1>4, NatLessThanWellFounded, WFMin
<1>6. \A y \in Rest : ~(y < t)
  BY <1>3, <1>5 DEF OpToRel
<1>7. PICK q \in ExitsToday(e) : t = Latest - rec[q].sent
  OBVIOUS
<1>8. ASSUME NEW m \in ExitsToday(e)
      PROVE  rec[m].sent <= rec[q].sent
  <2>1. ~(Latest - rec[m].sent < Latest - rec[q].sent)
    BY <1>6, <1>7, <1>8
  <2> QED BY <1>1, <1>2, <1>7, <1>8, <2>1
<1> QED BY <1>7, <1>8

(* A delivery ranks after every earlier one. *)
LEMMA RankGrows ==
    ASSUME BookInv, RanksBounded, NEW m \in Manages, rec[m].kind = "unsent",
           rec' \in [Recs -> RecRow], rec'[m].sent = Latest + 1,
           \A q \in Recs \ {m} : rec'[q] = rec[q]
    PROVE  RanksBounded' /\ \A q \in Manages : rec[q].sent < rec'[m].sent
<1> DEFINE S == {q \in Manages : rec[q].sent > 0}
<1>1. m \in Recs /\ Manages \subseteq Recs /\ rec \in [Recs -> RecRow]
  BY DEF Recs, BookInv, BookTyped
<1>2. IsFiniteSet(S)
  BY BookAssumption, FS_Subset
<1>3. Latest \in Nat
  BY <1>2, FS_CardinalityType DEF Latest
<1>4. m \notin S
  BY <1>1 DEF BookInv, UnsentIsBlank
<1>5. {q \in Manages : rec'[q].sent > 0} = S \cup {m}
  BY <1>1, <1>3
<1>6. Latest' = Latest + 1
  BY <1>2, <1>4, <1>5, FS_AddElement DEF Latest
<1>7. \A q \in Manages : rec[q].sent \in Nat /\ rec[q].sent <= Latest
  BY <1>1 DEF RecRow, RanksBounded
<1>8. RanksBounded'
  <2>1. ASSUME NEW q \in Manages
        PROVE  rec'[q].sent <= Latest'
    <3>1. q \in Recs
      BY <1>1
    <3> QED BY <1>3, <1>6, <1>7, <3>1
  <2> QED BY <2>1 DEF RanksBounded
<1> QED BY <1>3, <1>7, <1>8

(* What a delivered exit or adjust may do: an exit from an event is only   *)
(* delivered where none stands, and one from the sweep is live.            *)
LEMMA ExitDelivered ==
    ASSUME BookInv, ExitInv, NEW m \in Manages, NEW kind \in {"exit", "adjust"},
           NEW source \in {"event", "sweep"}, NEW of \in Entries, NEW live \in BOOLEAN,
           Deliver(m, kind, source, of, live),
           \/ source = "sweep" /\ live /\ event' = event
           \/ source = "event" /\ event[of] # "idle" /\ event' = [event EXCEPT ![of] = "idle"]
    PROVE  ExitInv'
<1>1. m \in Recs /\ Manages \subseteq Recs /\ rec \in [Recs -> RecRow]
      /\ event \in [Entries -> {"idle", "calling", "known", "unknown"}]
  BY DEF Recs, BookInv, BookTyped
<1>2. /\ rec' \in [Recs -> RecRow] /\ rec[m].kind = "unsent"
      /\ rec'[m].kind = kind /\ rec'[m].human = "none" /\ rec'[m].source = source
      /\ rec'[m].live = live /\ rec'[m].sent = Latest + 1 /\ ledger'[m].position = of
      /\ \A q \in Recs \ {m} : rec'[q] = rec[q] /\ ledger'[q] = ledger[q]
  BY <1>1, DeliverEffect
<1>3. RanksBounded' /\ \A q \in Manages : rec[q].sent < rec'[m].sent
  BY <1>2, RankGrows DEF ExitInv
<1>4. Latest \in Nat
  <2>1. IsFiniteSet({q \in Manages : rec[q].sent > 0})
    BY BookAssumption, FS_Subset
  <2> QED BY <2>1, FS_CardinalityType DEF Latest
<1>5. LiveIsOfToday'
  BY <1>1, <1>2, <1>4 DEF ExitInv, LiveIsOfToday
<1>6. /\ \A q \in Manages \ {m} : Standing(q)' <=> Standing(q)
      /\ Standing(m)' => source = "event"
  BY <1>1, <1>2 DEF Standing
<1>7. source = "event" => \A q \in Manages : Standing(q) => ledger[q].position # of
  BY <1>1 DEF ExitInv, EventMeansNoExit
<1>8. EventMeansNoExit'
  <2> SUFFICES ASSUME NEW e \in Entries, NEW q \in Manages, event'[e] # "idle", Standing(q)'
               PROVE  ledger'[q].position # e
    BY DEF EventMeansNoExit
  <2>1. event[e] # "idle" /\ (source = "event" => e # of)
    BY <1>1
  <2>2. CASE q = m
    BY <1>2, <1>6, <2>1, <2>2
  <2>3. CASE q # m
    BY <1>1, <1>2, <1>6, <2>1, <2>3 DEF ExitInv, EventMeansNoExit
  <2> QED BY <2>2, <2>3
<1>9. LaterExitsLive'
  <2> SUFFICES ASSUME NEW s \in Manages, NEW q \in Manages, Standing(s)', rec'[q].kind = "exit",
                      ledger'[q].position = ledger'[s].position, rec'[q].sent > rec'[s].sent
               PROVE  rec'[q].live
    BY DEF LaterExitsLive
  <2>1. CASE s = m
    <3>1. q # m /\ rec'[q] = rec[q] /\ rec[q].sent \in Nat /\ rec'[m].sent \in Nat
      BY <1>1, <1>2, <1>4, <2>1 DEF RecRow
    <3> QED BY <1>3, <2>1, <3>1
  <2>2. CASE s # m /\ q = m
    BY <1>1, <1>2, <1>6, <1>7, <2>2
  <2>3. CASE s # m /\ q # m
    BY <1>1, <1>2, <1>6, <2>3 DEF ExitInv, LaterExitsLive
  <2> QED BY <2>1, <2>2, <2>3
<1>10. OneStandingExit'
  <2> SUFFICES ASSUME NEW s \in Manages, NEW q \in Manages, Standing(s)', Standing(q)',
                      ledger'[s].position = ledger'[q].position
               PROVE  s = q
    BY DEF OneStandingExit
  <2>1. CASE s # m /\ q # m
    BY <1>1, <1>2, <1>6, <2>1 DEF ExitInv, OneStandingExit
  <2>2. CASE s = m \/ q = m
    BY <1>1, <1>2, <1>6, <1>7, <2>2
  <2> QED BY <2>1, <2>2
<1> QED BY <1>3, <1>5, <1>8, <1>9, <1>10 DEF ExitInv

(* Answers, the sweep and the ends of events only take standing exits away. *)
OnlyAnswers ==
    /\ \A m \in Manages :
          /\ rec'[m].kind = rec[m].kind /\ rec'[m].sent = rec[m].sent
          /\ rec'[m].source = rec[m].source /\ rec'[m].live = rec[m].live
          /\ ledger'[m].position = ledger[m].position
          /\ \/ rec'[m].human = rec[m].human
             \/ rec'[m].human # "none" /\ (rec'[m].human = "expired" => ~rec[m].live)
    /\ \A e \in Entries : event'[e] # "idle" => event[e] # "idle"

(* An answer or a label disturbs no standing exit. *)
LEMMA AnswersKeepExits ==
    ASSUME ExitInv, OnlyAnswers
    PROVE  ExitInv'
<1> USE DEF OnlyAnswers
<1>1. \A m \in Manages : Standing(m)' => Standing(m)
  BY DEF Standing
<1>2. Latest' = Latest
  <2>1. {m \in Manages : rec'[m].sent > 0} = {m \in Manages : rec[m].sent > 0}
    OBVIOUS
  <2> QED BY <2>1 DEF Latest
<1>3. RanksBounded' /\ LiveIsOfToday'
  BY <1>2 DEF ExitInv, RanksBounded, LiveIsOfToday
<1>4. EventMeansNoExit' /\ LaterExitsLive' /\ OneStandingExit'
  BY <1>1 DEF ExitInv, EventMeansNoExit, LaterExitsLive, OneStandingExit
<1> QED BY <1>3, <1>4 DEF ExitInv

(* An event is evaluated after _delivered_exit_today found none standing. *)
LEMMA EventKeepsExits ==
    ASSUME BookInv, ExitInv, NEW e \in Entries, OnBar(e)
    PROVE  ExitInv'
<1>1. UNCHANGED <<rec, ledger>> /\ event \in [Entries -> {"idle", "calling", "known", "unknown"}]
  BY DEF OnBar, BookInv, BookTyped
<1>2. CASE UNCHANGED event
  <2>1. OnlyAnswers
    BY <1>1, <1>2 DEF OnlyAnswers
  <2> QED BY <2>1, AnswersKeepExits
<1>3. CASE ~Repeats(e) /\ event' = [event EXCEPT ![e] = "calling"]
  <2>1. ASSUME NEW m \in Manages, Standing(m), ledger[m].position = e
        PROVE  FALSE
    <3>1. rec[m].kind = "exit" /\ rec[m].live /\ rec[m].human = "none" /\ rec[m].sent > 0
      BY <2>1 DEF Standing, ExitInv, LiveIsOfToday
    <3>2. m \in ExitsToday(e)
      BY <2>1, <3>1 DEF ExitsToday
    <3>3. PICK q \in ExitsToday(e) : \A n \in ExitsToday(e) : rec[n].sent <= rec[q].sent
      BY <3>2, LatestExists DEF ExitInv
    <3>4. q \in Manages /\ rec[q].kind = "exit" /\ ledger[q].position = e
      BY DEF ExitsToday
    <3>5. rec[m].sent \in Nat /\ rec[q].sent \in Nat /\ rec[m].sent <= rec[q].sent
      BY <3>2, <3>3, <3>4 DEF BookInv, BookTyped, RecRow, Recs
    <3>6. CASE rec[q].sent > rec[m].sent
      <4>1. rec[q].live /\ rec[q].human # "expired"
        BY <2>1, <3>4, <3>6 DEF ExitInv, LaterExitsLive, LiveIsOfToday
      <4> QED BY <1>3, <3>3, <4>1 DEF Repeats, Stale
    <3>7. CASE rec[q].sent = rec[m].sent
      <4>1. \A n \in ExitsToday(e) : rec[n].sent <= rec[m].sent
        BY <3>3, <3>7
      <4> QED BY <1>3, <3>1, <3>2, <4>1 DEF Repeats, Stale
    <3> QED BY <3>5, <3>6, <3>7
  <2>2. EventMeansNoExit'
    <3> SUFFICES ASSUME NEW x \in Entries, NEW m \in Manages, event'[x] # "idle", Standing(m)'
                 PROVE  ledger'[m].position # x
      BY DEF EventMeansNoExit
    <3>1. Standing(m) /\ ledger'[m] = ledger[m]
      BY <1>1 DEF Standing
    <3>2. CASE x = e
      BY <2>1, <3>1, <3>2
    <3>3. CASE x # e
      BY <1>1, <1>3, <3>1, <3>3 DEF ExitInv, EventMeansNoExit
    <3> QED BY <3>2, <3>3
  <2> QED BY <1>1, <2>2
          DEF ExitInv, RanksBounded, Latest, LiveIsOfToday, LaterExitsLive, OneStandingExit, Standing
<1> QED BY <1>2, <1>3 DEF OnBar

(* Of the exits of a position the one delivered first dies first. *)
LEMMA LapseKeepsExits ==
    ASSUME BookInv, ExitInv, NEW r \in Recs, Lapse(r)
    PROVE  ExitInv'
<1>1. /\ rec \in [Recs -> RecRow] /\ Manages \subseteq Recs /\ rec[r].live
      /\ rec' = [rec EXCEPT ![r].live = FALSE] /\ ledger' = ledger /\ event' = event
      /\ \A q \in Manages : rec[q].live /\ ledger[q].position = ledger[r].position => rec[q].sent >= rec[r].sent
  BY DEF Lapse, BookInv, BookTyped, Recs
<1>2. \A q \in Recs :
          /\ rec'[q].kind = rec[q].kind /\ rec'[q].sent = rec[q].sent /\ rec'[q].human = rec[q].human
          /\ rec'[q].source = rec[q].source /\ rec'[q].live = (rec[q].live /\ q # r)
          /\ rec[q].sent \in Nat
  BY <1>1 DEF RecRow
<1>3. \A m \in Manages : Standing(m)' => Standing(m) /\ m # r
  BY <1>1, <1>2 DEF Standing
<1>4. Latest' = Latest
  <2>1. {m \in Manages : rec'[m].sent > 0} = {m \in Manages : rec[m].sent > 0}
    BY <1>1, <1>2
  <2> QED BY <2>1 DEF Latest
<1>5. RanksBounded' /\ LiveIsOfToday'
  BY <1>1, <1>2, <1>4 DEF ExitInv, RanksBounded, LiveIsOfToday
<1>6. EventMeansNoExit' /\ OneStandingExit'
  BY <1>1, <1>3 DEF ExitInv, EventMeansNoExit, OneStandingExit
<1>7. LaterExitsLive'
  <2> SUFFICES ASSUME NEW m \in Manages, NEW q \in Manages, Standing(m)', rec'[q].kind = "exit",
                      ledger'[q].position = ledger'[m].position, rec'[q].sent > rec'[m].sent
               PROVE  rec'[q].live
    BY DEF LaterExitsLive
  <2>1. Standing(m) /\ rec[q].kind = "exit" /\ ledger[q].position = ledger[m].position
        /\ rec[q].sent > rec[m].sent
    BY <1>1, <1>2, <1>3
  <2>2. rec[q].live /\ rec[m].live
    BY <2>1 DEF ExitInv, LaterExitsLive, Standing
  <2>3. ASSUME q = r
        PROVE  FALSE
    <3>1. rec[m].sent >= rec[q].sent
      BY <1>1, <2>1, <2>2, <2>3
    <3>2. rec[m].sent \in Nat /\ rec[q].sent \in Nat
      BY <1>1, <1>2
    <3> QED BY <2>1, <3>1, <3>2
  <2> QED BY <1>1, <1>2, <2>2, <2>3
<1> QED BY <1>5, <1>6, <1>7 DEF ExitInv

(* The turn of the day leaves no exit of today. *)
LEMMA NextDayKeepsExits ==
    ASSUME BookInv, ExitInv, NextDay
    PROVE  ExitInv'
<1>1. \A m \in Manages : rec'[m].live = FALSE /\ rec'[m].sent = 0
  <2>1. ASSUME NEW m \in Manages
        PROVE  rec'[m].live = FALSE /\ rec'[m].sent = 0
    <3>1. rec[m] \in RecRow /\ rec'[m] = [rec[m] EXCEPT !.live = FALSE, !.sent = 0]
      BY DEF NextDay, BookInv, BookTyped, Recs
    <3> QED BY <3>1 DEF RecRow
  <2> QED BY <2>1
<1>2. Latest' = 0
  <2>1. {m \in Manages : rec'[m].sent > 0} = {}
    BY <1>1
  <2> QED BY <2>1, FS_EmptySet DEF Latest
<1>3. \A m \in Manages : ~Standing(m)'
  BY <1>1 DEF Standing
<1> QED BY <1>1, <1>2, <1>3
        DEF ExitInv, RanksBounded, LiveIsOfToday, EventMeansNoExit, LaterExitsLive, OneStandingExit

(* No step proposes a second exit beside a standing one. *)
LEMMA ExitStep ==
    ASSUME BookInv, ExitInv, [Next]_vars
    PROVE  ExitInv'
<1>0. /\ rec \in [Recs -> RecRow] /\ ledger \in [Recs -> LedgerRow]
      /\ Entries \subseteq Recs /\ Manages \subseteq Recs /\ Entries \cap Manages = {}
      /\ event \in [Entries -> {"idle", "calling", "known", "unknown"}]
  BY BookAssumption DEF Recs, BookInv, BookTyped
<1>1. ASSUME NEW e \in Entries, DeliverEntry(e)
      PROVE  ExitInv'
  <2>1. Deliver(e, "entry", "none", "none", TRUE) /\ event' = event /\ e \in Recs
    BY <1>0, <1>1 DEF DeliverEntry
  <2>2. \A q \in Recs \ {e} : rec'[q] = rec[q] /\ ledger'[q] = ledger[q]
    BY <2>1, DeliverEffect
  <2>3. \A m \in Manages : rec'[m] = rec[m] /\ ledger'[m] = ledger[m]
    BY <1>0, <2>2
  <2>4. OnlyAnswers
    BY <2>1, <2>3 DEF OnlyAnswers
  <2> QED BY <2>4, AnswersKeepExits
<1>2. ASSUME NEW e \in Entries, Take(e)
      PROVE  ExitInv'
  <2>1. \A m \in Manages : rec'[m] = rec[m] /\ ledger'[m] = ledger[m]
    BY <1>0, <1>2 DEF Take
  <2>2. event' = event
    BY <1>2 DEF Take
  <2>3. OnlyAnswers
    BY <2>1, <2>2 DEF OnlyAnswers
  <2> QED BY <2>3, AnswersKeepExits
<1>3. ASSUME NEW e \in Entries, OnBar(e)
      PROVE  ExitInv'
  BY <1>3, EventKeepsExits
<1>4. ASSUME NEW e \in Entries, AnalystAnswers(e) \/ HourPasses(e)
      PROVE  ExitInv'
  <2>1. UNCHANGED <<rec, ledger>> /\ \A x \in Entries : event'[x] # "idle" => event[x] # "idle"
    BY <1>0, <1>4 DEF AnalystAnswers, HourPasses
  <2>2. OnlyAnswers
    BY <2>1 DEF OnlyAnswers
  <2> QED BY <2>2, AnswersKeepExits
<1>5. ASSUME NEW e \in Entries, GateAnswers(e)
      PROVE  ExitInv'
  <2>1. event[e] # "idle" /\ event' = [event EXCEPT ![e] = "idle"]
    BY <1>5 DEF GateAnswers
  <2>2. CASE UNCHANGED <<rec, ledger>>
    <3>1. OnlyAnswers
      BY <1>0, <2>1, <2>2 DEF OnlyAnswers
    <3> QED BY <3>1, AnswersKeepExits
  <2>3. ASSUME NEW m \in Manages, NEW kind \in {"exit", "adjust"}, NEW live \in BOOLEAN,
               Deliver(m, kind, "event", e, live)
        PROVE  ExitInv'
    BY <2>1, <2>3, ExitDelivered
  <2> QED BY <1>5, <2>2, <2>3 DEF GateAnswers
<1>6. ASSUME NEW r \in Recs, Close(r)
      PROVE  ExitInv'
  <2>1. event' = event
    BY Zenon, <1>6 DEF Close
  <2>2. rec' = [rec EXCEPT ![r].human = "closed"]
        /\ \A q \in Recs : ledger'[q].position = ledger[q].position
    BY <1>6, CloseEffect
  <2>3. \A q \in Recs : /\ rec'[q].kind = rec[q].kind /\ rec'[q].sent = rec[q].sent
                        /\ rec'[q].source = rec[q].source /\ rec'[q].live = rec[q].live
                        /\ rec'[q].human \in {rec[q].human, "closed"}
    BY <1>0, <2>2 DEF RecRow
  <2>4. OnlyAnswers
    BY <1>0, <2>1, <2>2, <2>3 DEF OnlyAnswers
  <2> QED BY <2>4, AnswersKeepExits
<1>7. ASSUME NEW r \in Recs, Veto(r)
      PROVE  ExitInv'
  <2>1. event' = event /\ rec' = [rec EXCEPT ![r].human = "dismissed"] /\ ledger' = NoAction(ledger, {r})
    BY <1>7 DEF Veto
  <2>2. \A q \in Recs : /\ rec'[q].kind = rec[q].kind /\ rec'[q].sent = rec[q].sent
                        /\ rec'[q].source = rec[q].source /\ rec'[q].live = rec[q].live
                        /\ rec'[q].human \in {rec[q].human, "dismissed"}
    BY <1>0, <2>1 DEF RecRow
  <2>3. \A q \in Recs : ledger'[q].position = ledger[q].position
    BY <1>0, <2>1 DEF NoAction, LedgerRow
  <2>4. OnlyAnswers
    BY <1>0, <2>1, <2>2, <2>3 DEF OnlyAnswers
  <2> QED BY <2>4, AnswersKeepExits
<1>8. CASE RecoExpire
  <2>1. /\ event' = event
        /\ rec' = [r \in Recs |-> IF Stale(r) THEN [rec[r] EXCEPT !.human = "expired"] ELSE rec[r]]
        /\ ledger' = NoAction(ledger, {r \in Recs : Stale(r)})
    BY <1>8 DEF RecoExpire, SweptRows
  <2>2. ASSUME NEW q \in Recs
        PROVE  /\ rec'[q].kind = rec[q].kind /\ rec'[q].sent = rec[q].sent
               /\ rec'[q].source = rec[q].source /\ rec'[q].live = rec[q].live
               /\ rec'[q].human = rec[q].human \/ (rec'[q].human = "expired" /\ ~rec[q].live)
    <3>1. rec[q] \in RecRow /\ rec'[q] = IF Stale(q) THEN [rec[q] EXCEPT !.human = "expired"] ELSE rec[q]
      BY <1>0, <2>1, <2>2
    <3> QED BY <3>1 DEF RecRow, Stale
  <2>3. \A q \in Recs : ledger'[q].position = ledger[q].position
    BY <1>0, <2>1 DEF NoAction, LedgerRow
  <2>4. OnlyAnswers
    BY <1>0, <2>1, <2>2, <2>3 DEF OnlyAnswers
  <2> QED BY <2>4, AnswersKeepExits
<1>9. ASSUME NEW r \in Recs, Lapse(r)
      PROVE  ExitInv'
  BY <1>9, LapseKeepsExits
<1>10. CASE AgedPosition \/ UNCHANGED vars
  <2>1. UNCHANGED <<rec, ledger, event>>
    BY <1>10 DEF AgedPosition, vars
  <2>2. OnlyAnswers
    BY <2>1 DEF OnlyAnswers
  <2> QED BY <2>2, AnswersKeepExits
<1>11. CASE AgedExit
  <2>1. event' = event
    BY <1>11 DEF AgedExit
  <2>2. CASE UNCHANGED <<rec, ledger>>
    <3>1. OnlyAnswers
      BY <2>1, <2>2 DEF OnlyAnswers
    <3> QED BY <3>1, AnswersKeepExits
  <2>3. ASSUME NEW m \in Manages, aged.known, Deliver(m, "exit", "sweep", aged.position, TRUE)
        PROVE  ExitInv'
    <3>1. aged.position \in Entries
      BY <2>3 DEF BookInv, BookTyped
    <3> QED BY <2>1, <2>3, <3>1, ExitDelivered
  <2> QED BY <1>11, <2>2, <2>3 DEF AgedExit
<1>12. CASE NextDay
  BY <1>12, NextDayKeepsExits
<1>13. CASE Restart
  <2>1. UNCHANGED <<rec, ledger>> /\ \A x \in Entries : event'[x] = "idle"
    BY <1>13 DEF Restart
  <2>2. OnlyAnswers
    BY <2>1 DEF OnlyAnswers
  <2> QED BY <2>2, AnswersKeepExits
<1> QED BY <1>1, <1>2, <1>3, <1>4, <1>5, <1>6, <1>7, <1>8, <1>9, <1>10, <1>11, <1>12, <1>13 DEF Next

(***************************************************************************)
(* No position ever has two live, unanswered exits from position events,   *)
(* for any number of positions and however analyst calls, restarts, sweeps *)
(* and the owner's answers interleave.                                     *)
(***************************************************************************)
THEOREM ExitsDoNotRepeat == Spec => []OneStandingExit
<1>1. Init => ExitInv
  <2> SUFFICES ASSUME Init
               PROVE  ExitInv
    OBVIOUS
  <2>1. \A m \in Manages : ~rec[m].live /\ rec[m].sent = 0
    BY DEF Init, Unsent, Recs
  <2>2. Latest = 0
    <3>1. {m \in Manages : rec[m].sent > 0} = {}
      BY <2>1
    <3> QED BY <3>1, FS_EmptySet DEF Latest
  <2> QED BY <2>1, <2>2
          DEF ExitInv, RanksBounded, LiveIsOfToday, EventMeansNoExit, LaterExitsLive, OneStandingExit, Standing
<1>2. BookInv /\ ExitInv /\ [Next]_vars => BookInv' /\ ExitInv'
  BY BookStep, ExitStep
<1>3. ExitInv => OneStandingExit
  BY DEF ExitInv
<1> QED BY BookInit, <1>1, <1>2, <1>3, PTL DEF Spec

-----------------------------------------------------------------------------
(***************************************************************************)
(* Sums.  Total is a fold over the agents: a recursive function on the     *)
(* sets of agents, which exists because they are finite.                   *)
(***************************************************************************)
(* A set of natural numbers that has an element has a least one.           *)
LEMMA LeastOf ==
    ASSUME NEW B \in SUBSET Nat, NEW b \in B
    PROVE  \E n \in B : \A k \in B : n <= k
<1>1. PICK n \in B : \A k \in B : ~(<<k, n>> \in OpToRel(<, Nat))
  BY NatLessThanWellFounded, WFMin
<1>2. \A k \in B : ~(k < n)
  BY <1>1 DEF OpToRel
<1> QED BY <1>2

Some(s) == CHOOSE x \in s : TRUE
UpTo(S, n) == {s \in SUBSET S : Cardinality(s) <= n}
SumsUp(f, table, D) ==
    f = [s \in D |-> IF s = {} THEN 0
                     ELSE table[Some(s)] + f[s \ {Some(s)}]]

(* A table of the sums over the sets of n elements extends to those of n + *)
(* 1.                                                                      *)
LEMMA SumExtends ==
    ASSUME NEW S, IsFiniteSet(S), NEW table, NEW n \in Nat, NEW f, SumsUp(f, table, UpTo(S, n))
    PROVE  \E g : SumsUp(g, table, UpTo(S, n + 1))
<1> DEFINE g == [s \in UpTo(S, n + 1) |->
                   IF s = {} THEN 0
                   ELSE table[Some(s)] + f[s \ {Some(s)}]]
<1>1. \A A \in SUBSET S : IsFiniteSet(A) /\ Cardinality(A) \in Nat
  BY FS_Subset, FS_CardinalityType
<1>2. ASSUME NEW s \in UpTo(S, n + 1), s # {}, NEW x \in s
      PROVE  s \ {x} \in UpTo(S, n)
  <2>1. Cardinality(s \ {x}) = Cardinality(s) - 1
    BY <1>1, <1>2, FS_RemoveElement DEF UpTo
  <2> QED BY <1>1, <2>1 DEF UpTo
<1>3. \A s \in UpTo(S, n) : g[s] = f[s]
  <2>1. \A s \in UpTo(S, n) : s \in UpTo(S, n + 1)
    BY <1>1 DEF UpTo
  <2> QED BY <2>1 DEF SumsUp
<1>4. ASSUME NEW s \in UpTo(S, n + 1), s # {}
      PROVE  f[s \ {Some(s)}] = g[s \ {Some(s)}]
  <2>1. Some(s) \in s
    BY <1>4 DEF Some
  <2> QED BY <1>2, <1>3, <1>4, <2>1
<1>5. SumsUp(g, table, UpTo(S, n + 1))
  BY <1>4 DEF SumsUp
<1> QED BY <1>5

(* The recursive definition of a sum over a finite set has a solution.     *)
LEMMA SumExists ==
    ASSUME NEW S, IsFiniteSet(S), NEW table
    PROVE  \E f : SumsUp(f, table, SUBSET S)
<1> DEFINE Bad == {n \in Nat : ~ \E f : SumsUp(f, table, UpTo(S, n))}
<1>1. \A A \in SUBSET S : IsFiniteSet(A) /\ Cardinality(A) \in Nat /\ Cardinality(A) <= Cardinality(S)
  BY FS_Subset, FS_CardinalityType
<1>2. Bad = {}
  <2> SUFFICES ASSUME NEW b \in Bad
               PROVE  FALSE
    OBVIOUS
  <2>1. PICK n \in Bad : \A k \in Bad : n <= k
    BY LeastOf
  <2>2. n # 0
    <3> DEFINE f == [s \in UpTo(S, 0) |-> 0]
    <3>1. \A s \in UpTo(S, 0) : s = {}
      BY <1>1, FS_EmptySet DEF UpTo
    <3>2. f = [s \in UpTo(S, 0) |->
                IF s = {} THEN 0 ELSE table[Some(s)] + f[s \ {Some(s)}]]
      BY <3>1
    <3>3. SumsUp(f, table, UpTo(S, 0))
      BY ONLY <3>2 DEF SumsUp
    <3> QED BY <2>1, <3>3
  <2>3. n - 1 \in Nat /\ n - 1 \notin Bad
    BY <2>1, <2>2
  <2>4. PICK f : SumsUp(f, table, UpTo(S, n - 1))
    BY <2>3
  <2>5. \E g : SumsUp(g, table, UpTo(S, n - 1 + 1))
    BY <2>3, <2>4, SumExtends
  <2>6. n - 1 + 1 = n
    BY <2>1
  <2> QED BY <2>1, <2>5, <2>6
<1>3. UpTo(S, Cardinality(S)) = SUBSET S
  BY <1>1 DEF UpTo
<1>4. Cardinality(S) \in Nat
  BY FS_CardinalityType
<1>5. \E f : SumsUp(f, table, UpTo(S, Cardinality(S)))
  BY <1>2, <1>4
<1> QED BY <1>3, <1>5

(* What Total computes.                                                    *)
SumOf(table, D) == CHOOSE f : SumsUp(f, table, SUBSET D)

(* Total of a ledger is the sum over all of its domain. *)
LEMMA TotalIsSum ==
    ASSUME NEW table
    PROVE  Budget!Total(table) = SumOf(table, DOMAIN table)[DOMAIN table]
<1> DEFINE D == DOMAIN table
           iter == CHOOSE f : f = [s \in SUBSET D |-> IF s = {} THEN 0
                                  ELSE table[Some(s)] + f[s \ {Some(s)}]]
<1>1. Budget!Total(table) = iter[D]
  BY DEF Budget!Total, Budget!FoldFunction, Budget!FoldFunctionOnSet, Budget!MapThenFoldSet, Some
<1>2. iter = SumOf(table, D)
  BY DEF SumOf, SumsUp
<1> QED BY <1>1, <1>2

(* The sum over a set: one element of it, and the sum over the others. *)
LEMMA SumStep ==
    ASSUME NEW D, IsFiniteSet(D), NEW table \in [D -> Nat], NEW s \in SUBSET D
    PROVE  SumOf(table, D)[s] = IF s = {} THEN 0
               ELSE table[Some(s)] + SumOf(table, D)[s \ {Some(s)}]
<1>1. \E f : SumsUp(f, table, SUBSET D)
  BY SumExists
<1>2. SumsUp(SumOf(table, D), table, SUBSET D)
  BY <1>1 DEF SumOf
<1> QED BY <1>2 DEF SumsUp

(* Sums of tables that differ in one place differ by as much.              *)
LEMMA SumGrows ==
    ASSUME NEW D, IsFiniteSet(D), NEW t \in [D -> Nat], NEW a \in D, NEW c \in Nat,
           NEW u \in [D -> Nat], \A d \in D \ {a} : u[d] = t[d], u[a] = t[a] + c
    PROVE  \A s \in SUBSET D :
              /\ SumOf(t, D)[s] \in Nat
              /\ SumOf(u, D)[s] = SumOf(t, D)[s] + (IF a \in s THEN c ELSE 0)
<1> DEFINE P(s) == /\ SumOf(t, D)[s] \in Nat
                   /\ SumOf(u, D)[s] = SumOf(t, D)[s] + (IF a \in s THEN c ELSE 0)
           Bad == {Cardinality(s) : s \in {r \in SUBSET D : ~P(r)}}
<1>1. \A A \in SUBSET D : IsFiniteSet(A) /\ Cardinality(A) \in Nat
  BY FS_Subset, FS_CardinalityType
<1> SUFFICES ASSUME NEW b \in SUBSET D, ~P(b)
             PROVE  FALSE
  OBVIOUS
<1>2. Bad \in SUBSET Nat /\ Cardinality(b) \in Bad
  BY <1>1
<1>3. PICK n \in Bad : \A k \in Bad : n <= k
  BY <1>2, LeastOf
<1>4. PICK s \in SUBSET D : ~P(s) /\ n = Cardinality(s)
  BY <1>3
<1>a. SumOf(t, D)[s] = IF s = {} THEN 0 ELSE t[Some(s)] + SumOf(t, D)[s \ {Some(s)}]
  BY SumStep
<1>b. SumOf(u, D)[s] = IF s = {} THEN 0 ELSE u[Some(s)] + SumOf(u, D)[s \ {Some(s)}]
  BY SumStep
<1>5. s # {}
  <2> SUFFICES ASSUME s = {}
               PROVE  FALSE
    OBVIOUS
  <2>1. SumOf(t, D)[s] = 0 /\ SumOf(u, D)[s] = 0 /\ a \notin s
    BY <1>a, <1>b
  <2>2. ~P(s)
    BY <1>4
  <2> HIDE DEF P, Bad
  <2>3. P(s)
    BY <2>1 DEF P
  <2> QED BY <2>2, <2>3
<1> DEFINE x == Some(s)
           r == s \ {x}
<1>6. x \in s /\ x \in D /\ r \in SUBSET D
  BY <1>4, <1>5 DEF Some
<1>7. Cardinality(r) = Cardinality(s) - 1
  BY <1>1, <1>4, <1>6, FS_RemoveElement
<1>8. P(r)
  <2>1. ~(n <= Cardinality(r))
    BY <1>1, <1>4, <1>6, <1>7
  <2>2. Cardinality(r) \notin Bad
    BY <1>3, <2>1
  <2> QED BY <1>6, <2>2
<1>9. /\ SumOf(t, D)[s] = t[x] + SumOf(t, D)[r]
      /\ SumOf(u, D)[s] = u[x] + SumOf(u, D)[r]
  BY <1>5, <1>a, <1>b
<1>10. P(s)
  <2>1. /\ SumOf(t, D)[r] \in Nat /\ t[x] \in Nat
        /\ SumOf(u, D)[r] = SumOf(t, D)[r] + (IF a \in r THEN c ELSE 0)
    BY <1>6, <1>8
  <2> HIDE DEF x
  <2>2. CASE x = a
    BY <1>6, <1>9, <2>1, <2>2
  <2>3. CASE x # a
    BY <1>6, <1>9, <2>1, <2>3
  <2> QED BY <2>2, <2>3
<1> QED BY <1>4, <1>10

(* A booked call raises the total by its cost; an empty ledger totals 0.   *)
LEMMA TotalGrows ==
    ASSUME IsFiniteSet(Agents), NEW t \in [Agents -> Nat], NEW a \in Agents, NEW c \in Nat
    PROVE  /\ Budget!Total(t) \in Nat
           /\ Budget!Total([t EXCEPT ![a] = @ + c]) = Budget!Total(t) + c
<1> DEFINE u == [t EXCEPT ![a] = @ + c]
<1>1. u \in [Agents -> Nat] /\ DOMAIN u = Agents /\ DOMAIN t = Agents /\ Agents \in SUBSET Agents
  OBVIOUS
<1>2. u[a] = t[a] + c /\ \A d \in Agents \ {a} : u[d] = t[d]
  OBVIOUS
<1> HIDE DEF u
<1>3. Budget!Total(t) = SumOf(t, Agents)[Agents]
  BY <1>1, TotalIsSum
<1>4. Budget!Total(u) = SumOf(u, Agents)[Agents]
  BY <1>1, TotalIsSum
<1>5. /\ SumOf(t, Agents)[Agents] \in Nat
      /\ SumOf(u, Agents)[Agents] = SumOf(t, Agents)[Agents] + c
  BY <1>1, <1>2, SumGrows
<1> QED BY <1>3, <1>4, <1>5 DEF u

(* The total of a window that has just begun. *)
LEMMA EmptyTotal ==
    ASSUME IsFiniteSet(Agents)
    PROVE  Budget!Total([a \in Agents |-> 0]) = 0
<1> DEFINE z == [a \in Agents |-> 0]
           Bad == {Cardinality(s) : s \in {r \in SUBSET Agents : SumOf(z, Agents)[r] # 0}}
<1>1. \A A \in SUBSET Agents : IsFiniteSet(A) /\ Cardinality(A) \in Nat
  BY FS_Subset, FS_CardinalityType
<1>2. ASSUME NEW b \in SUBSET Agents, SumOf(z, Agents)[b] # 0
      PROVE  FALSE
  <2>1. Bad \in SUBSET Nat /\ Cardinality(b) \in Bad
    BY <1>1, <1>2
  <2>2. PICK n \in Bad : \A k \in Bad : n <= k
    BY <2>1, LeastOf
  <2>3. PICK s \in SUBSET Agents : SumOf(z, Agents)[s] # 0 /\ n = Cardinality(s)
    BY <2>2
  <2>4. z \in [Agents -> Nat]
    OBVIOUS
  <2>5. SumOf(z, Agents)[s] = IF s = {} THEN 0 ELSE z[Some(s)] + SumOf(z, Agents)[s \ {Some(s)}]
    BY <2>4, SumStep
  <2>6. s # {}
    BY <2>3, <2>5
  <2>7. Some(s) \in s /\ Some(s) \in Agents
    BY <2>6 DEF Some
  <2>8. Cardinality(s \ {Some(s)}) = Cardinality(s) - 1
    BY <1>1, <2>7, FS_RemoveElement
  <2>9. ~(n <= Cardinality(s \ {Some(s)}))
    BY <1>1, <2>3, <2>8
  <2>10. SumOf(z, Agents)[s \ {Some(s)}] = 0
    BY <2>2, <2>9
  <2> QED BY <2>3, <2>5, <2>6, <2>7, <2>10
<1>3. SumOf(z, Agents)[Agents] = 0
  BY <1>2
<1> QED BY <1>3, TotalIsSum

-----------------------------------------------------------------------------
(***************************************************************************)
(* The budget.  A run in flight may still make some of its calls; what has *)
(* been spent and what these calls can cost stays below the limit and one  *)
(* full course of calls for each run.  A run is admitted below the limit,  *)
(* a call moves its cost from the one term to the other.                   *)
(***************************************************************************)
Calls == 1 .. MAX_SCHEMA_RETRIES + 1
MayMake(state, k) == state.call > 0 /\ (k > state.call \/ (k = state.call /\ state.ended = Budget!None))
Left(table, S) == {c \in S \X Calls : MayMake(table[c[1]], c[2])}

BudgetTyped ==
    /\ spend \in [Agents -> Nat]
    /\ run \in [Runs -> [call : Nat, ended : {Budget!None, "ok", "schema_invalid", "credit_exhausted"}]]
    /\ \A r \in Runs : /\ run[r].call <= MAX_SCHEMA_RETRIES + 1
                       /\ run[r].call = 0 => run[r].ended = Budget!None

WithinReach(table, spent, limit, S) ==
    spent + Cardinality(Left(table, S)) * MaxCost < limit + Cardinality(S) * Budget!RunCost

BudgetInv ==
    /\ BudgetTyped
    /\ WithinReach(run, Budget!Total(spend), Credit, Runs)
    /\ \A a \in Agents :
          Allocation[a] > 0 => WithinReach(run, spend[a], Allocation[a], Budget!RunsOf(a))

(* The budget's module counts as this one does.                            *)
LEMMA SameCount ==
    /\ \A S : Budget!IsFiniteSet(S) <=> IsFiniteSet(S)
    /\ \A S : Budget!Cardinality(S) = Cardinality(S)
<1>1. \A S : Budget!IsFiniteSet(S) <=> IsFiniteSet(S)
  BY DEF Budget!IsFiniteSet, IsFiniteSet
<1>2. \A S : Budget!Cardinality(S) = Cardinality(S)
  BY <1>1 DEF Budget!Cardinality, Cardinality
<1> QED BY <1>1, <1>2

(* What the assumption on the constants says, in the forms that the proofs *)
(* use.                                                                    *)
LEMMA BudgetConstants ==
    /\ IsFiniteSet(Runs) /\ IsFiniteSet(Agents) /\ AgentOf \in [Runs -> Agents]
    /\ Allocation \in [Agents -> Nat] /\ Credit \in Nat \ {0}
    /\ MaxCost \in Nat /\ MAX_SCHEMA_RETRIES \in Nat
BY PartsAssumption, SameCount DEF Budget!BudgetAssumption

(* Multiplication is monotonic. *)
LEMMA Scales ==
    ASSUME NEW x \in Nat, NEW y \in Nat, NEW z \in Nat, x <= y
    PROVE  x * z <= y * z /\ x * z \in Nat /\ y * z \in Nat
OBVIOUS

(* A sum of naturals in another order. *)
LEMMA Reorders ==
    ASSUME NEW x \in Nat, NEW y \in Nat, NEW z \in Nat
    PROVE  (x * y) * z = x * (y * z) /\ y * z \in Nat
OBVIOUS

(* There are no more calls left than a full course for each run.           *)
LEMMA LeftBounded ==
    ASSUME NEW table, NEW S \in SUBSET Runs
    PROVE  /\ IsFiniteSet(Left(table, S)) /\ Cardinality(Left(table, S)) \in Nat /\ Cardinality(S) \in Nat
           /\ Budget!RunCost \in Nat
           /\ Cardinality(Left(table, S)) * MaxCost <= Cardinality(S) * Budget!RunCost
           /\ Cardinality(Left(table, S)) * MaxCost \in Nat /\ Cardinality(S) * Budget!RunCost \in Nat
<1>1. /\ IsFiniteSet(Runs) /\ MaxCost \in Nat /\ MAX_SCHEMA_RETRIES \in Nat
  BY BudgetConstants
<1>2. IsFiniteSet(S)
  BY <1>1, FS_Subset
<1>3. IsFiniteSet(Calls) /\ Cardinality(Calls) = MAX_SCHEMA_RETRIES + 1
  <2>1. 1 \in Int /\ MAX_SCHEMA_RETRIES + 1 \in Int /\ ~(1 > MAX_SCHEMA_RETRIES + 1)
    BY <1>1
  <2> QED BY <1>1, <2>1, FS_Interval DEF Calls
<1>4. IsFiniteSet(S \X Calls) /\ Cardinality(S \X Calls) = Cardinality(S) * Cardinality(Calls)
  BY <1>2, <1>3, FS_Product
<1>5. Left(table, S) \in SUBSET (S \X Calls)
  BY DEF Left
<1>6. IsFiniteSet(Left(table, S)) /\ Cardinality(Left(table, S)) <= Cardinality(S \X Calls)
  BY <1>4, <1>5, FS_Subset
<1>7. Cardinality(Left(table, S)) \in Nat /\ Cardinality(S) \in Nat
  BY <1>2, <1>6, FS_CardinalityType
<1> DEFINE l == Cardinality(Left(table, S))
           n == Cardinality(S)
<1> HIDE DEF l, n
<1>8. l \in Nat /\ n \in Nat /\ l <= n * (MAX_SCHEMA_RETRIES + 1)
  BY <1>3, <1>4, <1>6, <1>7 DEF l, n
<1>9. l * MaxCost <= (n * (MAX_SCHEMA_RETRIES + 1)) * MaxCost
  BY <1>1, <1>8, Scales
<1>10. (n * (MAX_SCHEMA_RETRIES + 1)) * MaxCost = n * ((MAX_SCHEMA_RETRIES + 1) * MaxCost)
  BY <1>1, <1>8, Reorders
<1>11. (MAX_SCHEMA_RETRIES + 1) * MaxCost \in Nat /\ l * MaxCost \in Nat
  BY <1>1, <1>8
<1>12. n * ((MAX_SCHEMA_RETRIES + 1) * MaxCost) \in Nat
  BY <1>8, <1>11
<1> QED BY <1>6, <1>7, <1>8, <1>9, <1>10, <1>11, <1>12 DEF l, n, Budget!RunCost

(* Below the limit, any runs may be in flight.                             *)
LEMMA BelowLimit ==
    ASSUME NEW table, NEW S \in SUBSET Runs, NEW spent \in Nat, NEW limit \in Nat, spent < limit
    PROVE  WithinReach(table, spent, limit, S)
<1>1. /\ Cardinality(Left(table, S)) * MaxCost <= Cardinality(S) * Budget!RunCost
      /\ Cardinality(Left(table, S)) * MaxCost \in Nat /\ Cardinality(S) * Budget!RunCost \in Nat
  BY LeftBounded
<1> QED BY <1>1 DEF WithinReach

(* A step that leaves no call to make that was not left before.            *)
LEMMA LeftShrinks ==
    ASSUME NEW old, NEW new, NEW S \in SUBSET Runs, Left(new, S) \subseteq Left(old, S),
           NEW spent \in Nat, NEW limit \in Nat, WithinReach(old, spent, limit, S)
    PROVE  WithinReach(new, spent, limit, S)
<1>1. IsFiniteSet(Left(old, S)) /\ Cardinality(Left(old, S)) \in Nat
      /\ Cardinality(S) * Budget!RunCost \in Nat /\ MaxCost \in Nat
  BY LeftBounded, BudgetConstants
<1>2. /\ IsFiniteSet(Left(new, S)) /\ Cardinality(Left(new, S)) <= Cardinality(Left(old, S))
      /\ Cardinality(Left(new, S)) \in Nat
  BY <1>1, FS_Subset, FS_CardinalityType
<1>3. /\ Cardinality(Left(new, S)) * MaxCost <= Cardinality(Left(old, S)) * MaxCost
      /\ Cardinality(Left(new, S)) * MaxCost \in Nat /\ Cardinality(Left(old, S)) * MaxCost \in Nat
  BY <1>1, <1>2, Scales
<1> QED BY <1>1, <1>3 DEF WithinReach

(* A call of a run of S has ended, and cost at most the most.              *)
LEMMA CallIsPaidFor ==
    ASSUME NEW old, NEW new, NEW S \in SUBSET Runs, NEW c \in Left(old, S), Left(new, S) = Left(old, S) \ {c},
           NEW spent \in Nat, NEW cost \in 0 .. MaxCost, NEW limit \in Nat,
           WithinReach(old, spent, limit, S)
    PROVE  WithinReach(new, spent + cost, limit, S)
<1>1. IsFiniteSet(Left(old, S)) /\ Cardinality(Left(old, S)) \in Nat
      /\ Cardinality(S) * Budget!RunCost \in Nat /\ MaxCost \in Nat
  BY LeftBounded, BudgetConstants
<1> DEFINE n == Cardinality(Left(new, S))
<1>2. n = Cardinality(Left(old, S)) - 1 /\ n \in Nat
  BY <1>1, FS_RemoveElement, FS_CardinalityType
<1> HIDE DEF n
<1>3. Cardinality(Left(old, S)) * MaxCost = n * MaxCost + MaxCost /\ n * MaxCost \in Nat
  <2>1. (n + 1) * MaxCost = n * MaxCost + MaxCost
    BY <1>1, <1>2
  <2> QED BY <1>1, <1>2, <2>1
<1>4. cost \in Nat /\ cost <= MaxCost
  BY <1>1
<1>5. spent + n * MaxCost + MaxCost < limit + Cardinality(S) * Budget!RunCost
  BY <1>1, <1>3 DEF WithinReach
<1> DEFINE x == n * MaxCost
           y == Cardinality(S) * Budget!RunCost
<1>6. x \in Nat /\ y \in Nat /\ spent + x + MaxCost < limit + y
  BY <1>1, <1>3, <1>5
<1> HIDE DEF x, y
<1>7. spent + cost + x < limit + y
  BY <1>1, <1>4, <1>6
<1> QED BY <1>7 DEF x, y, n, WithinReach

(* The invariant speaks of the runs of all, and of those of each agent.    *)
LEMMA RunSets ==
    /\ Runs \in SUBSET Runs
    /\ \A a \in Agents : Budget!RunsOf(a) \in SUBSET Runs
    /\ \A r \in Runs, a \in Agents : r \in Budget!RunsOf(a) <=> AgentOf[r] = a
BY DEF Budget!RunsOf

(* The total of any ledger is a natural number. *)
LEMMA LedgerTotals ==
    ASSUME NEW t \in [Agents -> Nat]
    PROVE  Budget!Total(t) \in Nat
<1>1. CASE Agents = {}
  <2>1. Budget!Total(t) = SumOf(t, Agents)[Agents]
    BY TotalIsSum
  <2>2. SumOf(t, Agents)[Agents] = 0
    BY <1>1, SumStep, BudgetConstants
  <2> QED BY <2>1, <2>2
<1>2. CASE Agents # {}
  BY <1>2, TotalGrows, BudgetConstants, 0 \in Nat
<1> QED BY <1>1, <1>2

(* A run is admitted only below the limits (can_invoke).                   *)
LEMMA StartsKeepsReach ==
    ASSUME BudgetInv, NEW r \in Runs, NEW class, Budget!Starts(r, class)
    PROVE  BudgetInv'
<1> DEFINE new == [run EXCEPT ![r].call = 1]
           agent == AgentOf[r]
<1>1. /\ run' = new /\ spend' = spend /\ run[r] = Budget!Idle
      /\ spend[agent] < Allocation[agent] /\ Budget!Tier # "DG4"
  BY DEF Budget!Starts, Budget!CanInvoke
<1>2. /\ agent \in Agents /\ spend \in [Agents -> Nat] /\ spend[agent] \in Nat
      /\ Allocation[agent] \in Nat /\ Allocation[agent] > 0 /\ Credit \in Nat
  <2>1. agent \in Agents /\ Allocation[agent] \in Nat /\ Credit \in Nat
    BY BudgetConstants
  <2>2. spend \in [Agents -> Nat] /\ spend[agent] \in Nat
    BY <2>1 DEF BudgetInv, BudgetTyped
  <2> QED BY <1>1, <2>1, <2>2
<1>3. Budget!Total(spend) \in Nat /\ Budget!Total(spend) < Credit
  <2>1. Budget!Total(spend) \in Nat
    BY <1>2, LedgerTotals
  <2>2. ~(Budget!Total(spend) >= Credit)
    BY <1>1 DEF Budget!Tier, Budget!DegradeTier
  <2> QED BY <1>2, <2>1, <2>2
<1>4. BudgetTyped'
  <2>1. run[r].call = 0 /\ run[r].ended = Budget!None
    BY <1>1 DEF Budget!Idle
  <2>2. new \in [Runs -> [call : Nat, ended : {Budget!None, "ok", "schema_invalid", "credit_exhausted"}]]
    BY DEF BudgetInv, BudgetTyped
  <2>3. \A q \in Runs : new[q].call <= MAX_SCHEMA_RETRIES + 1
    BY BudgetConstants DEF BudgetInv, BudgetTyped
  <2>4. \A q \in Runs : new[q].call = 0 => new[q].ended = Budget!None
    BY DEF BudgetInv, BudgetTyped
  <2> HIDE DEF new
  <2> QED BY <1>1, <1>2, <2>2, <2>3, <2>4 DEF BudgetTyped
<1>5. WithinReach(new, Budget!Total(spend), Credit, Runs)
  BY <1>2, <1>3, RunSets, BelowLimit
<1>6. ASSUME NEW a \in Agents, Allocation[a] > 0
      PROVE  WithinReach(new, spend[a], Allocation[a], Budget!RunsOf(a))
  <2>1. Budget!RunsOf(a) \in SUBSET Runs /\ spend[a] \in Nat /\ Allocation[a] \in Nat
    BY <1>2, RunSets, BudgetConstants
  <2>2. CASE a = agent
    BY <1>1, <2>1, <2>2, BelowLimit
  <2>3. CASE a # agent
    <3>1. \A q \in Budget!RunsOf(a) : new[q] = run[q]
      BY <2>3, RunSets DEF BudgetInv, BudgetTyped
    <3>2. Left(new, Budget!RunsOf(a)) \subseteq Left(run, Budget!RunsOf(a))
      BY <3>1 DEF Left
    <3>3. WithinReach(run, spend[a], Allocation[a], Budget!RunsOf(a))
      BY <1>6 DEF BudgetInv
    <3> HIDE DEF new
    <3> QED BY <2>1, <3>2, <3>3, LeftShrinks
  <2> QED BY <2>2, <2>3
<1> HIDE DEF new, agent
<1> QED BY <1>1, <1>4, <1>5, <1>6 DEF BudgetInv, Budget!RunsOf

(* A call that ends is booked at its cost, and can not be made again.      *)
LEMMA CallEndsKeepsReach ==
    ASSUME BudgetInv, NEW r \in Runs, NEW cost \in 0 .. MaxCost,
           NEW how \in {"ok", "schema_invalid", "credit_exhausted"}, Budget!CallEnds(r, cost, how)
    PROVE  BudgetInv'
<1> DEFINE new == [run EXCEPT ![r].ended = how]
           agent == AgentOf[r]
           spent == [spend EXCEPT ![agent] = @ + cost]
           c == <<r, run[r].call>>
<1>1. run[r].call > 0 /\ run[r].ended = Budget!None /\ run' = new
  BY DEF Budget!CallEnds
<1>2. /\ agent \in Agents /\ spend \in [Agents -> Nat] /\ spend[agent] \in Nat
      /\ MaxCost \in Nat /\ cost \in Nat /\ Credit \in Nat
  <2>1. agent \in Agents /\ MaxCost \in Nat /\ Credit \in Nat
    BY BudgetConstants
  <2> QED BY <2>1 DEF BudgetInv, BudgetTyped
<1>3. spend' = spent
  <2>1. CASE cost = 0
    <3>1. spend' = spend
      BY <2>1 DEF Budget!CallEnds
    <3> QED BY <1>2, <2>1, <3>1
  <2>2. CASE cost # 0
    BY <2>2 DEF Budget!CallEnds, Budget!Records
  <2> QED BY <2>1, <2>2
<1>4. /\ run \in [Runs -> [call : Nat, ended : {Budget!None, "ok", "schema_invalid", "credit_exhausted"}]]
      /\ run[r].call \in Nat /\ run[r].call \in Calls
  BY <1>1, BudgetConstants DEF BudgetInv, BudgetTyped, Calls
<1>5. /\ new \in [Runs -> [call : Nat, ended : {Budget!None, "ok", "schema_invalid", "credit_exhausted"}]]
      /\ new[r].call = run[r].call /\ new[r].ended = how
      /\ \A q \in Runs \ {r} : new[q] = run[q]
  BY <1>4
<1>6. how # Budget!None
  BY DEF Budget!None
<1> HIDE DEF new
<1>7. BudgetTyped'
  <2>1. \A q \in Runs : new[q].call <= MAX_SCHEMA_RETRIES + 1
    BY <1>5 DEF BudgetInv, BudgetTyped
  <2>2. spent \in [Agents -> Nat]
    BY <1>2
  <2>3. \A q \in Runs : new[q].call = 0 => new[q].ended = Budget!None
    BY <1>1, <1>5 DEF BudgetInv, BudgetTyped
  <2> HIDE DEF spent
  <2> QED BY <1>1, <1>3, <1>5, <2>1, <2>2, <2>3 DEF BudgetTyped
<1>8. ASSUME NEW S \in SUBSET Runs, r \in S
      PROVE  c \in Left(run, S) /\ Left(new, S) = Left(run, S) \ {c}
  <2>1. c \in Left(run, S)
    BY <1>1, <1>4, <1>8 DEF Left, MayMake
  <2>2. \A q \in S, k \in Calls : MayMake(new[q], k) <=> MayMake(run[q], k) /\ <<q, k>> # c
    <3> SUFFICES ASSUME NEW q \in S, NEW k \in Calls
                 PROVE  MayMake(new[q], k) <=> MayMake(run[q], k) /\ <<q, k>> # c
      OBVIOUS
    <3>1. CASE q = r
      <4>1. MayMake(new[r], k) <=> k > run[r].call
        BY <1>1, <1>5, <1>6 DEF MayMake
      <4>2. MayMake(run[r], k) <=> k >= run[r].call
        BY <1>1, <1>4 DEF MayMake, Calls
      <4> QED BY <1>4, <3>1, <4>1, <4>2 DEF Calls
    <3>2. CASE q # r
      <4>1. new[q] = run[q] /\ <<q, k>> # c
        BY <1>5, <3>2
      <4> QED BY <4>1
    <3> QED BY <3>1, <3>2
  <2>3. Left(new, S) = Left(run, S) \ {c}
    BY <2>2 DEF Left
  <2> QED BY <2>1, <2>3
<1>9. WithinReach(new, Budget!Total(spent), Credit, Runs)
  <2>1. Budget!Total(spend) \in Nat /\ Budget!Total(spent) = Budget!Total(spend) + cost
    BY <1>2, TotalGrows, BudgetConstants
  <2>2. WithinReach(run, Budget!Total(spend), Credit, Runs)
    BY DEF BudgetInv
  <2>3. c \in Left(run, Runs) /\ Left(new, Runs) = Left(run, Runs) \ {c}
    BY <1>8
  <2> HIDE DEF c, spent
  <2>4. WithinReach(new, Budget!Total(spend) + cost, Credit, Runs)
    BY <1>2, <2>1, <2>2, <2>3, RunSets, CallIsPaidFor
  <2> QED BY <2>1, <2>4
<1>10. ASSUME NEW a \in Agents, Allocation[a] > 0
       PROVE  WithinReach(new, spent[a], Allocation[a], Budget!RunsOf(a))
  <2>1. /\ Budget!RunsOf(a) \in SUBSET Runs /\ spend[a] \in Nat /\ Allocation[a] \in Nat
        /\ WithinReach(run, spend[a], Allocation[a], Budget!RunsOf(a))
    BY <1>2, <1>10, RunSets, BudgetConstants DEF BudgetInv
  <2>2. CASE a = agent
    <3>1. r \in Budget!RunsOf(a)
      BY <2>2, RunSets
    <3>2. c \in Left(run, Budget!RunsOf(a)) /\ Left(new, Budget!RunsOf(a)) = Left(run, Budget!RunsOf(a)) \ {c}
      BY <1>8, <2>1, <3>1
    <3>3. spent[a] = spend[a] + cost
      BY <1>2, <2>2
    <3> HIDE DEF c, spent
    <3>4. WithinReach(new, spend[a] + cost, Allocation[a], Budget!RunsOf(a))
      BY <1>2, <2>1, <3>2, CallIsPaidFor
    <3> QED BY <3>3, <3>4
  <2>3. CASE a # agent
    <3>1. r \notin Budget!RunsOf(a) /\ spent[a] = spend[a]
      BY <1>2, <2>3, RunSets
    <3>2. \A q \in Budget!RunsOf(a) : new[q] = run[q]
      BY <1>5, <2>1, <3>1
    <3>3. Left(new, Budget!RunsOf(a)) \subseteq Left(run, Budget!RunsOf(a))
      BY <3>2 DEF Left
    <3> HIDE DEF spent
    <3> QED BY <2>1, <3>1, <3>3, LeftShrinks
  <2> QED BY <2>2, <2>3
<1> HIDE DEF agent, spent
<1> QED BY <1>1, <1>3, <1>7, <1>9, <1>10 DEF BudgetInv, Budget!RunsOf

(* A step that books nothing and gives no run a call more.                 *)
LEMMA NoCallsGained ==
    ASSUME BudgetInv, BudgetTyped', spend' = spend,
           \A r \in Runs, k \in Calls : MayMake(run'[r], k) => MayMake(run[r], k)
    PROVE  BudgetInv'
<1> DEFINE new == run'
<1>1. spend \in [Agents -> Nat] /\ Credit \in Nat /\ Allocation \in [Agents -> Nat]
  BY BudgetConstants DEF BudgetInv, BudgetTyped
<1>2. ASSUME NEW S \in SUBSET Runs
      PROVE  Left(new, S) \subseteq Left(run, S)
  BY DEF Left
<1> HIDE DEF new
<1>3. WithinReach(new, Budget!Total(spend), Credit, Runs)
  <2>1. Budget!Total(spend) \in Nat
    BY <1>1, LedgerTotals
  <2>2. WithinReach(run, Budget!Total(spend), Credit, Runs)
    BY DEF BudgetInv
  <2> QED BY <1>1, <1>2, <2>1, <2>2, RunSets, LeftShrinks
<1>4. ASSUME NEW a \in Agents, Allocation[a] > 0
      PROVE  WithinReach(new, spend[a], Allocation[a], Budget!RunsOf(a))
  <2>1. Budget!RunsOf(a) \in SUBSET Runs /\ spend[a] \in Nat /\ Allocation[a] \in Nat
    BY <1>1, RunSets
  <2>2. WithinReach(run, spend[a], Allocation[a], Budget!RunsOf(a))
    BY <1>4 DEF BudgetInv
  <2> QED BY <1>2, <2>1, <2>2, LeftShrinks
<1> QED BY <1>3, <1>4 DEF BudgetInv, Budget!RunsOf, new

(* A schema retry makes a call that the run had left, and no more.         *)
LEMMA SettlesKeepsReach ==
    ASSUME BudgetInv, NEW r \in Runs, Budget!Settles(r)
    PROVE  BudgetInv'
<1> DEFINE retried == [call |-> run[r].call + 1, ended |-> Budget!None]
           after == IF run[r].ended = "schema_invalid" /\ run[r].call <= MAX_SCHEMA_RETRIES
                    THEN retried ELSE Budget!Idle
<1>1. /\ run[r].ended # Budget!None /\ spend' = spend
      /\ run' = [run EXCEPT ![r] = after]
  BY DEF Budget!Settles
<1>2. /\ run \in [Runs -> [call : Nat, ended : {Budget!None, "ok", "schema_invalid", "credit_exhausted"}]]
      /\ run[r].call \in Nat /\ spend \in [Agents -> Nat]
      /\ \A q \in Runs : run[q].call <= MAX_SCHEMA_RETRIES + 1
  BY DEF BudgetInv, BudgetTyped
<1>3. /\ after \in [call : Nat, ended : {Budget!None, "ok", "schema_invalid", "credit_exhausted"}]
      /\ after.call <= MAX_SCHEMA_RETRIES + 1
      /\ after.call = 0 => after.ended = Budget!None
  BY <1>2, BudgetConstants DEF Budget!Idle
<1>4. ASSUME NEW k \in Calls, MayMake(after, k), run[r].call > 0
      PROVE  MayMake(run[r], k)
  <2>1. k \in Nat
    BY DEF Calls
  <2>2. CASE after = retried
    BY <1>1, <1>2, <1>4, <2>1, <2>2 DEF MayMake
  <2>3. CASE after = Budget!Idle
    BY <1>4, <2>3 DEF MayMake, Budget!Idle
  <2> QED BY <2>2, <2>3
<1> HIDE DEF after
<1>5. run'[r] = after /\ \A q \in Runs \ {r} : run'[q] = run[q]
  BY <1>1, <1>2
<1>6. BudgetTyped'
  <2>1. run' \in [Runs -> [call : Nat, ended : {Budget!None, "ok", "schema_invalid", "credit_exhausted"}]]
    BY <1>1, <1>2, <1>3
  <2>2. \A q \in Runs : run'[q].call <= MAX_SCHEMA_RETRIES + 1
    BY <1>2, <1>3, <1>5
  <2>3. \A q \in Runs : run'[q].call = 0 => run'[q].ended = Budget!None
    BY <1>3, <1>5 DEF BudgetInv, BudgetTyped
  <2> QED BY <1>1, <1>2, <2>1, <2>2, <2>3 DEF BudgetTyped
<1>7. run[r].call > 0
  BY <1>1, <1>2 DEF BudgetInv, BudgetTyped
<1>8. \A q \in Runs, k \in Calls : MayMake(run'[q], k) => MayMake(run[q], k)
  BY <1>4, <1>5, <1>7
<1> QED BY <1>1, <1>6, <1>8, NoCallsGained

(* A new window starts from nothing, with the old one's runs in flight.    *)
LEMMA TickKeepsReach ==
    ASSUME BudgetInv, Budget!Tick
    PROVE  BudgetInv'
<1>1. CASE spend' = spend
  <2>1. run' = run
    BY DEF Budget!Tick
  <2>2. BudgetTyped'
    BY <1>1, <2>1 DEF BudgetInv, BudgetTyped
  <2> QED BY <1>1, <2>1, <2>2, NoCallsGained
<1>2. CASE spend' = [a \in Agents |-> 0]
  <2> DEFINE zero == [a \in Agents |-> 0]
  <2>1. run' = run /\ spend' = zero
    BY <1>2 DEF Budget!Tick
  <2>2. BudgetTyped'
    BY <2>1 DEF BudgetInv, BudgetTyped
  <2>3. Budget!Total(zero) = 0
    BY EmptyTotal, BudgetConstants
  <2>4. WithinReach(run, Budget!Total(zero), Credit, Runs)
    BY <2>3, RunSets, BudgetConstants, BelowLimit
  <2>5. ASSUME NEW a \in Agents, Allocation[a] > 0
        PROVE  WithinReach(run, zero[a], Allocation[a], Budget!RunsOf(a))
    <3>1. Budget!RunsOf(a) \in SUBSET Runs /\ Allocation[a] \in Nat /\ zero[a] = 0
      BY RunSets, BudgetConstants
    <3> HIDE DEF zero
    <3> QED BY <2>5, <3>1, BelowLimit
  <2> HIDE DEF zero
  <2> QED BY <2>1, <2>2, <2>4, <2>5 DEF BudgetInv, Budget!RunsOf
<1> QED BY <1>1, <1>2 DEF Budget!Tick

(* Every step of the budget keeps what is spent within reach.              *)
LEMMA BudgetStep ==
    ASSUME BudgetInv, Budget!Next \/ UNCHANGED budgetVars
    PROVE  BudgetInv'
<1>1. ASSUME NEW r \in Runs, NEW class, Budget!Starts(r, class)
      PROVE  BudgetInv'
  BY <1>1, StartsKeepsReach
<1>2. ASSUME NEW r \in Runs, NEW cost \in 0 .. MaxCost,
             NEW how \in {"ok", "schema_invalid", "credit_exhausted"}, Budget!CallEnds(r, cost, how)
      PROVE  BudgetInv'
  BY <1>2, CallEndsKeepsReach
<1>3. ASSUME NEW r \in Runs, Budget!Settles(r)
      PROVE  BudgetInv'
  BY <1>3, SettlesKeepsReach
<1>4. CASE Budget!Restart
  <2> DEFINE idle == [r \in Runs |-> Budget!Idle]
  <2>1. spend' = spend /\ run' = idle
    BY <1>4 DEF Budget!Restart
  <2>2. idle \in [Runs -> [call : Nat, ended : {Budget!None, "ok", "schema_invalid", "credit_exhausted"}]]
        /\ \A r \in Runs : idle[r].call = 0 /\ idle[r].ended = Budget!None
    BY DEF Budget!Idle
  <2>3. \A r \in Runs, k \in Calls : ~MayMake(idle[r], k)
    BY <2>2 DEF MayMake
  <2> HIDE DEF idle
  <2>4. BudgetTyped'
    BY <2>1, <2>2, BudgetConstants DEF BudgetInv, BudgetTyped
  <2> QED BY <2>1, <2>3, <2>4, NoCallsGained
<1>5. CASE UNCHANGED budgetVars
  BY <1>5 DEF budgetVars, BudgetInv, BudgetTyped, Budget!RunsOf
<1> QED BY <1>1, <1>2, <1>3, <1>4, <1>5, TickKeepsReach DEF Budget!Next

(***************************************************************************)
(* The spend of a window, and of an agent in it, exceeds its limit by what *)
(* the runs in flight can still spend at most, for any number of runs and  *)
(* agents, any prices, retries, windows and restarts (can_invoke, record). *)
(***************************************************************************)
THEOREM SpendStaysWithinReach == PartsSpec => []SpendWithinReach
<1>1. PartsInit => BudgetInv
  <2> SUFFICES ASSUME Budget!Init
               PROVE  BudgetInv
    BY DEF PartsInit
  <2>1. spend = [a \in Agents |-> 0] /\ run = [r \in Runs |-> Budget!Idle]
    BY DEF Budget!Init
  <2>2. BudgetTyped
    BY <2>1, BudgetConstants DEF BudgetTyped, Budget!Idle
  <2>3. WithinReach(run, Budget!Total(spend), Credit, Runs)
    BY <2>1, EmptyTotal, RunSets, BudgetConstants, BelowLimit
  <2>4. ASSUME NEW a \in Agents, Allocation[a] > 0
        PROVE  WithinReach(run, spend[a], Allocation[a], Budget!RunsOf(a))
    BY <2>1, <2>4, RunSets, BudgetConstants, BelowLimit
  <2> QED BY <2>2, <2>3, <2>4 DEF BudgetInv
<1>2. BudgetInv /\ [PartsNext]_allVars => BudgetInv'
  BY BudgetStep DEF PartsNext, allVars
<1>3. BudgetInv => SpendWithinReach
  <2> SUFFICES ASSUME BudgetInv
               PROVE  SpendWithinReach
    OBVIOUS
  <2>1. ASSUME NEW S \in SUBSET Runs, NEW spent \in Nat, NEW limit \in Nat,
               WithinReach(run, spent, limit, S)
        PROVE  spent < limit + Budget!Cardinality(S) * Budget!RunCost
    <3>1. Cardinality(Left(run, S)) * MaxCost \in Nat /\ Cardinality(S) * Budget!RunCost \in Nat
      BY LeftBounded
    <3> DEFINE x == Cardinality(Left(run, S)) * MaxCost
               y == Cardinality(S) * Budget!RunCost
    <3>2. x \in Nat /\ y \in Nat /\ spent + x < limit + y
      BY <2>1, <3>1 DEF WithinReach
    <3> HIDE DEF x, y
    <3>3. spent < limit + y
      BY <3>2
    <3> QED BY <3>3, SameCount DEF y
  <2>2. Budget!Total(spend) < Credit + Budget!Cardinality(Runs) * Budget!RunCost
    <3>1. WithinReach(run, Budget!Total(spend), Credit, Runs) /\ Credit \in Nat
      BY BudgetConstants DEF BudgetInv
    <3>2. Budget!Total(spend) \in Nat
      BY LedgerTotals DEF BudgetInv, BudgetTyped
    <3> QED BY <2>1, <3>1, <3>2
  <2>3. ASSUME NEW a \in Agents, Allocation[a] > 0
        PROVE  spend[a] < Allocation[a] + Budget!Cardinality(Budget!RunsOf(a)) * Budget!RunCost
    <3>1. /\ Budget!RunsOf(a) \in SUBSET Runs /\ spend[a] \in Nat /\ Allocation[a] \in Nat
          /\ WithinReach(run, spend[a], Allocation[a], Budget!RunsOf(a))
      BY <2>3, RunSets, BudgetConstants DEF BudgetInv, BudgetTyped
    <3> QED BY <2>1, <3>1
  <2> QED BY <2>2, <2>3 DEF SpendWithinReach, Budget!SpendWithinReach
<1> QED BY <1>1, <1>2, <1>3, PTL DEF PartsSpec

-----------------------------------------------------------------------------
(***************************************************************************)
(* What the bars say.  Their volumes are sums, which take their terms in   *)
(* any order; what a row covers rests on the memory that answers for it.   *)
(***************************************************************************)
(* To show something of every subset of a finite set it is enough to show  *)
(* it of a set when it holds of that set without any one of its elements.  *)
LEMMA SubsetsByOne ==
    ASSUME NEW D, IsFiniteSet(D), NEW Good \in SUBSET SUBSET D,
           \A s \in SUBSET D : (\A x \in s : s \ {x} \in Good) => s \in Good
    PROVE  \A s \in SUBSET D : s \in Good
<1> DEFINE Bad == {Cardinality(s) : s \in {r \in SUBSET D : r \notin Good}}
<1>1. \A A \in SUBSET D : IsFiniteSet(A) /\ Cardinality(A) \in Nat
  BY FS_Subset, FS_CardinalityType
<1> SUFFICES ASSUME NEW b \in SUBSET D, b \notin Good
             PROVE  FALSE
  OBVIOUS
<1>2. Bad \in SUBSET Nat /\ Cardinality(b) \in Bad
  BY <1>1
<1>3. PICK n \in Bad : \A k \in Bad : n <= k
  BY <1>2, LeastOf
<1>4. PICK s \in SUBSET D : s \notin Good /\ n = Cardinality(s)
  BY <1>3
<1>5. ASSUME NEW x \in s
      PROVE  s \ {x} \in Good
  <2>1. Cardinality(s \ {x}) = Cardinality(s) - 1
    BY <1>1, <1>4, <1>5, FS_RemoveElement
  <2>2. ~(n <= Cardinality(s \ {x}))
    BY <1>1, <1>4, <2>1
  <2> QED BY <1>3, <2>2
<1> QED BY <1>4, <1>5

(* A sum may begin with any of its terms. *)
LEMMA SumTakesAny ==
    ASSUME NEW D, IsFiniteSet(D), NEW t, \A x \in D : t[x] \in Nat
    PROVE  /\ SumOf(t, D)[{}] = 0
           /\ \A s \in SUBSET D : /\ SumOf(t, D)[s] \in Nat
                                  /\ \A x \in s : SumOf(t, D)[s] = t[x] + SumOf(t, D)[s \ {x}]
<1> DEFINE S == SumOf(t, D)
           Typed == {s \in SUBSET D : S[s] \in Nat}
           Good == {s \in SUBSET D : \A x \in s : S[s] = t[x] + S[s \ {x}]}
<1>1. SumsUp(S, t, SUBSET D)
  BY SumExists DEF SumOf
<1> HIDE DEF S
<1>2. \A s \in SUBSET D : S[s] = IF s = {} THEN 0 ELSE t[Some(s)] + S[s \ {Some(s)}]
  BY <1>1 DEF SumsUp
<1>3. S[{}] = 0 /\ \A s \in SUBSET D : s # {} => Some(s) \in s /\ S[s] = t[Some(s)] + S[s \ {Some(s)}]
  BY <1>2 DEF Some
<1>4. \A s \in SUBSET D : S[s] \in Nat
  <2>1. ASSUME NEW s \in SUBSET D, \A x \in s : s \ {x} \in Typed
        PROVE  s \in Typed
    <3>1. CASE s = {}
      BY <1>3, <3>1
    <3>2. CASE s # {}
      <4>1. Some(s) \in s /\ S[s] = t[Some(s)] + S[s \ {Some(s)}]
        BY <1>3, <3>2
      <4>2. t[Some(s)] \in Nat /\ S[s \ {Some(s)}] \in Nat
        BY <2>1, <4>1
      <4> QED BY <4>1, <4>2
    <3> QED BY <3>1, <3>2
  <2>2. Typed \in SUBSET SUBSET D
    OBVIOUS
  <2> HIDE DEF Typed
  <2>3. \A s \in SUBSET D : s \in Typed
    BY <2>1, <2>2, SubsetsByOne
  <2> QED BY <2>3 DEF Typed
<1>5. ASSUME NEW s \in SUBSET D, \A x \in s : s \ {x} \in Good, NEW x \in s
      PROVE  S[s] = t[x] + S[s \ {x}]
  <2> DEFINE y == Some(s)
  <2>1. y \in s /\ S[s] = t[y] + S[s \ {y}]
    BY <1>3
  <2> HIDE DEF y
  <2>2. CASE x = y
    BY <2>1, <2>2
  <2>3. CASE x # y
    <3>1. S[s \ {y}] = t[x] + S[(s \ {y}) \ {x}]
      BY <1>5, <2>1, <2>3
    <3>2. S[s \ {x}] = t[y] + S[(s \ {x}) \ {y}]
      BY <1>5, <2>1, <2>3
    <3>3. (s \ {y}) \ {x} = (s \ {x}) \ {y}
      OBVIOUS
    <3>4. t[x] \in Nat /\ t[y] \in Nat /\ S[(s \ {x}) \ {y}] \in Nat
      BY <1>4, <2>1
    <3> QED BY <2>1, <3>1, <3>2, <3>3, <3>4
  <2> QED BY <2>2, <2>3
<1>6. \A s \in SUBSET D : s \in Good
  <2>1. Good \in SUBSET SUBSET D /\ \A s \in SUBSET D : (\A x \in s : s \ {x} \in Good) => s \in Good
    BY <1>5
  <2> HIDE DEF Good
  <2> QED BY <2>1, SubsetsByOne
<1> QED BY <1>3, <1>4, <1>6 DEF Good, S

(* Two sums over the same terms agree. *)
LEMMA SumsAgree ==
    ASSUME NEW D, IsFiniteSet(D), NEW t, \A x \in D : t[x] \in Nat,
           NEW E, IsFiniteSet(E), NEW u, \A x \in E : u[x] \in Nat,
           NEW r \in SUBSET (D \cap E), \A x \in r : t[x] = u[x]
    PROVE  SumOf(t, D)[r] = SumOf(u, E)[r]
<1> DEFINE Good == {s \in SUBSET r : SumOf(t, D)[s] = SumOf(u, E)[s]}
<1>1. ASSUME NEW s \in SUBSET r, \A x \in s : s \ {x} \in Good
      PROVE  s \in Good
  <2>1. CASE s = {}
    BY <2>1, SumTakesAny
  <2>2. CASE s # {}
    <3>1. PICK x \in s : TRUE
      BY <2>2
    <3>2. SumOf(t, D)[s] = t[x] + SumOf(t, D)[s \ {x}]
      BY SumTakesAny
    <3>3. SumOf(u, E)[s] = u[x] + SumOf(u, E)[s \ {x}]
      BY SumTakesAny
    <3> QED BY <1>1, <3>2, <3>3
  <2> QED BY <2>1, <2>2
<1>2. Good \in SUBSET SUBSET r /\ IsFiniteSet(r)
  BY FS_Subset
<1> HIDE DEF Good
<1>3. r \in Good
  BY <1>1, <1>2, SubsetsByOne
<1> QED BY <1>3 DEF Good

(* The sum over two sets that share no element. *)
LEMMA SumSplits ==
    ASSUME NEW D, IsFiniteSet(D), NEW t, \A x \in D : t[x] \in Nat,
           NEW r \in SUBSET D, NEW q \in SUBSET D, r \cap q = {}
    PROVE  SumOf(t, D)[r \cup q] = SumOf(t, D)[r] + SumOf(t, D)[q]
<1> DEFINE S == SumOf(t, D)
           Good == {s \in SUBSET r : S[s \cup q] = S[s] + S[q]}
<1>1. /\ S[{}] = 0
      /\ \A s \in SUBSET D : /\ S[s] \in Nat
                             /\ \A x \in s : S[s] = t[x] + S[s \ {x}]
  <2>1. S[{}] = 0
    BY SumTakesAny
  <2>2. ASSUME NEW s \in SUBSET D
        PROVE  S[s] \in Nat /\ \A x \in s : S[s] = t[x] + S[s \ {x}]
    BY SumTakesAny
  <2> HIDE DEF S
  <2> QED BY <2>1, <2>2
<1> HIDE DEF S
<1>2. ASSUME NEW s \in SUBSET r, \A x \in s : s \ {x} \in Good
      PROVE  s \in Good
  <2>1. CASE s = {}
    <3>1. s \cup q = q
      BY <2>1
    <3> QED BY <1>1, <2>1, <3>1
  <2>2. CASE s # {}
    <3>1. PICK x \in s : TRUE
      BY <2>2
    <3>2. S[s] = t[x] + S[s \ {x}]
      BY <1>1
    <3>3. S[s \cup q] = t[x] + S[(s \cup q) \ {x}]
      BY <1>1
    <3>4. (s \cup q) \ {x} = (s \ {x}) \cup q
      OBVIOUS
    <3>5. S[(s \ {x}) \cup q] = S[s \ {x}] + S[q]
      BY <1>2, <3>1
    <3>6. x \in D /\ s \ {x} \in SUBSET D
      BY <3>1
    <3>7. t[x] \in Nat /\ S[s \ {x}] \in Nat /\ S[q] \in Nat
      BY <1>1, <3>6
    <3>8. S[s \cup q] = t[x] + (S[s \ {x}] + S[q])
      BY <3>3, <3>4, <3>5
    <3>9. S[s \cup q] = S[s] + S[q]
      BY <3>2, <3>7, <3>8
    <3> QED BY <3>9
  <2> QED BY <2>1, <2>2
<1>3. Good \in SUBSET SUBSET r /\ IsFiniteSet(r)
  BY FS_Subset
<1> HIDE DEF Good
<1>4. r \in Good
  BY <1>2, <1>3, SubsetsByOne
<1> QED BY <1>4 DEF Good, S

(***************************************************************************)
(* Volume.  What the bars add up to follows the cumulative volume, and a   *)
(* finalization moves a part of the sum from the open bars to what counted *)
(* keeps of the finalized ones.                                            *)
(***************************************************************************)
OpenBar == [low : Nat, high : Nat, volume : Nat]

VolumeTyped ==
    /\ \A m \in DOMAIN open : open[m] \in OpenBar
    /\ counted \in Nat /\ last_cum \in Nat \cup {Nothing}

VolumeInv == VolumeTyped /\ VolumeAddsUp

Volumes(bars) == [m \in DOMAIN bars |-> bars[m].volume]

(* What VolumeOf computes. *)
LEMMA VolumeIsSum ==
    ASSUME NEW bars, NEW S
    PROVE  VolumeOf(bars, S) = SumOf(Volumes(bars), S)[S]
<1> DEFINE t == Volumes(bars)
           iter == CHOOSE f : f = [s \in SUBSET S |-> IF s = {} THEN 0
                                  ELSE t[Some(s)] + f[s \ {Some(s)}]]
<1>1. VolumeOf(bars, S) = iter[S]
  BY DEF VolumeOf, FoldFunctionOnSet, MapThenFoldSet, Some, Volumes
<1>2. iter = SumOf(t, S)
  BY DEF SumOf, SumsUp
<1> QED BY <1>1, <1>2

(* The terms of the sum are as many as the bars, and volumes. *)
LEMMA VolumeTerms ==
    ASSUME NEW bars, DOMAIN bars \subseteq Minute, \A m \in DOMAIN bars : bars[m] \in OpenBar
    PROVE  \A S \in SUBSET DOMAIN bars : IsFiniteSet(S) /\ \A m \in S : Volumes(bars)[m] \in Nat
<1>1. IsFiniteSet(Minute)
  BY BarAssumption, FS_Interval DEF Minute
<1> QED BY <1>1, FS_Subset DEF OpenBar, Volumes

(* The volume of the bars is that of the due ones and that of the rest.    *)
LEMMA VolumeParts ==
    ASSUME NEW bars, DOMAIN bars \subseteq Minute, \A m \in DOMAIN bars : bars[m] \in OpenBar,
           NEW due \in SUBSET DOMAIN bars
    PROVE  LET rest == Without(bars, due)
           IN  /\ VolumeOf(bars, DOMAIN bars) \in Nat /\ VolumeOf(bars, due) \in Nat
               /\ VolumeOf(bars, DOMAIN bars) = VolumeOf(bars, due) + VolumeOf(rest, DOMAIN rest)
<1> DEFINE rest == Without(bars, due)
           t == Volumes(bars)
           u == Volumes(rest)
           D == DOMAIN bars
           E == DOMAIN rest
<1>1. E = D \ due /\ \A m \in E : rest[m] = bars[m]
  BY DEF Without
<1> HIDE DEF rest
<1>2. /\ IsFiniteSet(D) /\ IsFiniteSet(due) /\ IsFiniteSet(E)
      /\ \A m \in D : t[m] \in Nat
      /\ \A m \in E : u[m] \in Nat /\ u[m] = t[m]
  <2>1. \A S \in SUBSET D : IsFiniteSet(S) /\ \A m \in S : t[m] \in Nat
    BY VolumeTerms
  <2>2. \A m \in E : u[m] = t[m]
    BY <1>1 DEF Volumes
  <2> QED BY <1>1, <2>1, <2>2
<1>3. /\ VolumeOf(bars, D) = SumOf(t, D)[D]
      /\ VolumeOf(bars, due) = SumOf(t, due)[due]
      /\ VolumeOf(rest, E) = SumOf(u, E)[E]
  BY VolumeIsSum
<1> HIDE DEF t, u, D, E
<1>4. due \in SUBSET D /\ E \in SUBSET D /\ E \cap due = {} /\ D = due \cup E
  BY <1>1 DEF D
<1>5. SumOf(t, due)[due] = SumOf(t, D)[due]
  BY <1>2, <1>4, SumsAgree
<1>6. SumOf(u, E)[E] = SumOf(t, D)[E]
  BY <1>2, <1>4, SumsAgree
<1>7. SumOf(t, D)[D] = SumOf(t, D)[due] + SumOf(t, D)[E]
  BY <1>2, <1>4, SumSplits
<1>8. SumOf(t, D)[D] \in Nat /\ SumOf(t, D)[due] \in Nat
  BY <1>2, <1>4, SumTakesAny
<1> QED BY <1>3, <1>5, <1>6, <1>7, <1>8 DEF D, E, rest

(* _merge into a bar that is open. *)
LEMMA WidenedBar ==
    ASSUME NEW bar \in OpenBar, NEW price \in Nat, NEW delta \in Nat
    PROVE  LET w == [Widened(bar, price) EXCEPT !.volume = @ + delta]
           IN  /\ w \in OpenBar /\ w.volume = bar.volume + delta
               /\ w.low = Low(bar.low, price) /\ w.high = High(bar.high, price)
<1> DEFINE a == Widened(bar, price)
<1>1. /\ a \in OpenBar /\ a.volume = bar.volume
      /\ a.low = Low(bar.low, price) /\ a.high = High(bar.high, price)
  BY DEF OpenBar, Widened, Low, High
<1> HIDE DEF a
<1>2. LET w == [a EXCEPT !.volume = @ + delta]
      IN  w \in OpenBar /\ w.volume = a.volume + delta /\ w.low = a.low /\ w.high = a.high
  BY <1>1 DEF OpenBar
<1> QED BY <1>1, <1>2 DEF a

(* _merge adds the difference to the volume of the bars. *)
LEMMA VolumeMerges ==
    ASSUME DOMAIN open \subseteq Minute, VolumeTyped, NEW m \in Minute, NEW price \in Nat, NEW delta \in Nat
    PROVE  LET bars == Merged(m, price, delta)
           IN  /\ DOMAIN bars = DOMAIN open \cup {m} /\ \A k \in DOMAIN bars : bars[k] \in OpenBar
               /\ VolumeOf(bars, DOMAIN bars) = VolumeOf(open, DOMAIN open) + delta
<1> DEFINE bars == Merged(m, price, delta)
           t == Volumes(open)
           u == Volumes(bars)
           D == DOMAIN open
           E == DOMAIN bars
<1>1. /\ E = D \cup {m} /\ \A k \in D \ {m} : bars[k] = open[k]
      /\ bars[m] = IF m \in D THEN [Widened(open[m], price) EXCEPT !.volume = @ + delta]
                   ELSE [low |-> price, high |-> price, volume |-> delta]
  BY DEF Merged, With
<1> HIDE DEF bars
<1>2. bars[m] \in OpenBar /\ bars[m].volume = IF m \in D THEN open[m].volume + delta ELSE delta
  <2>1. CASE m \in D
    <3>1. open[m] \in OpenBar
      BY <2>1 DEF VolumeTyped
    <3> QED BY <1>1, <2>1, <3>1, WidenedBar
  <2>2. CASE m \notin D
    BY <1>1, <2>2 DEF OpenBar
  <2> QED BY <2>1, <2>2
<1>3. \A k \in E : bars[k] \in OpenBar
  BY <1>1, <1>2 DEF VolumeTyped
<1>4. IsFiniteSet(D) /\ IsFiniteSet(E) /\ (\A k \in D : t[k] \in Nat) /\ (\A k \in E : u[k] \in Nat)
  <2>1. \A k \in DOMAIN open : open[k] \in OpenBar
    BY DEF VolumeTyped
  <2>2. E \subseteq Minute
    BY <1>1
  <2>3. IsFiniteSet(D) /\ \A k \in D : t[k] \in Nat
    BY <2>1, VolumeTerms
  <2>4. IsFiniteSet(E) /\ \A k \in E : u[k] \in Nat
    BY <1>3, <2>2, VolumeTerms
  <2> QED BY <2>3, <2>4
<1>5. VolumeOf(open, D) = SumOf(t, D)[D] /\ VolumeOf(bars, E) = SumOf(u, E)[E]
  BY VolumeIsSum
<1>6. (\A k \in D \ {m} : t[k] = u[k]) /\ u[m] = bars[m].volume /\ (m \in D => t[m] = open[m].volume)
  BY <1>1 DEF Volumes
<1> HIDE DEF t, u, D, E
<1>7. SumOf(u, E)[E] = u[m] + SumOf(u, E)[E \ {m}]
  BY <1>1, <1>4, SumTakesAny
<1>8. E \ {m} = D \ {m}
  BY <1>1
<1>9. SumOf(t, D)[D \ {m}] = SumOf(u, E)[D \ {m}]
  <2>1. D \ {m} \in SUBSET (D \cap E)
    BY <1>1
  <2> QED BY <1>4, <1>6, <2>1, SumsAgree
<1>10. SumOf(t, D)[D] = (IF m \in D THEN t[m] ELSE 0) + SumOf(t, D)[D \ {m}]
  <2>1. /\ \A s \in SUBSET D : SumOf(t, D)[s] \in Nat
        /\ \A x \in D : SumOf(t, D)[D] = t[x] + SumOf(t, D)[D \ {x}]
    BY <1>4, SumTakesAny
  <2>2. CASE m \in D
    BY <2>1, <2>2
  <2>3. CASE m \notin D
    <3>1. D \ {m} = D
      BY <2>3
    <3>2. SumOf(t, D)[D] \in Nat
      BY <2>1
    <3> QED BY <2>3, <3>1, <3>2
  <2> QED BY <2>2, <2>3
<1>11. /\ SumOf(t, D)[D \ {m}] \in Nat /\ (m \in D => t[m] \in Nat)
  BY <1>4, SumTakesAny
<1>12. SumOf(u, E)[E] = SumOf(t, D)[D] + delta
  <2>1. SumOf(u, E)[E] = u[m] + SumOf(t, D)[D \ {m}]
    BY <1>7, <1>8, <1>9
  <2>2. u[m] = (IF m \in D THEN t[m] ELSE 0) + delta
    BY <1>2, <1>6, <1>11
  <2> QED BY <1>10, <1>11, <2>1, <2>2
<1> QED BY <1>1, <1>3, <1>5, <1>12 DEF D, E, bars

(***************************************************************************)
(* The memory of ranges.  Whatever set its entries are from, they are from *)
(* it after a minute is remembered, and after all of the due ones are.     *)
(***************************************************************************)
LEMMA OthersKept ==
    ASSUME NEW E, NEW memory \in Seq(E), NEW m
    PROVE  Others(memory, m) \in Seq(E)
<1> DEFINE I == {i \in 1 .. Len(memory) : memory[i].minute = m}
           j == Min(I)
<1>1. CASE I = {}
  <2>1. Others(memory, m) = memory
    BY <1>1 DEF Others, RemoveFirstMatch
  <2> QED BY <2>1
<1>2. CASE I # {}
  <2>1. Others(memory, m) = RemoveAt(memory, j)
    BY <1>2 DEF Others, RemoveFirstMatch, SelectInSeq
  <2>2. I \in SUBSET Nat
    OBVIOUS
  <2>3. PICK i \in I : TRUE
    BY <1>2
  <2>4. \E n \in I : \A k \in I : n <= k
    <3> HIDE DEF I
    <3> QED BY <2>2, <2>3, LeastOf
  <2>5. j \in I
    <3> HIDE DEF I
    <3> QED BY <2>4 DEF Min
  <2>6. j \in 1 .. Len(memory) /\ Len(memory) \in Nat
    BY <2>5
  <2> HIDE DEF j, I
  <2>7. SubSeq(memory, 1, j - 1) \in Seq(E) /\ SubSeq(memory, j + 1, Len(memory)) \in Seq(E)
    BY <2>6
  <2> QED BY <2>1, <2>7, ConcatProperties DEF RemoveAt
<1> QED BY <1>1, <1>2

(* _remember drops entries and adds one. *)
LEMMA RememberKeeps ==
    ASSUME NEW E, NEW memory \in Seq(E), NEW bar \in E
    PROVE  Remember(memory, bar) \in Seq(E)
<1> DEFINE s == Append(Others(memory, bar.minute), bar)
<1>1. s \in Seq(E)
  BY OthersKept, AppendProperties
<1> HIDE DEF s
<1>2. Newest(s) \in Seq(E)
  <2>1. Len(s) \in Nat /\ RECENT_BARS_PER_SYMBOL \in Nat
    BY <1>1, BarAssumption
  <2>2. High(1, Len(s) - RECENT_BARS_PER_SYMBOL + 1) \in Int /\ 1 <= High(1, Len(s) - RECENT_BARS_PER_SYMBOL + 1)
    BY <2>1 DEF High
  <2> QED BY <1>1, <2>1, <2>2 DEF Newest
<1> QED BY <1>2 DEF Remember, s

LastOf(s) == Max(s)
Recalls(f, memory, bars, D) ==
    f = [s \in D |-> IF s = {} THEN memory
                     ELSE Remember(f[s \ {LastOf(s)}], Ranged(LastOf(s), bars[LastOf(s)]))]

(* The last of some minutes is one of them. *)
LEMMA LastIsOne ==
    ASSUME NEW s \in SUBSET Minute, s # {}
    PROVE  LastOf(s) \in s
<1>1. s \in SUBSET Int /\ LastMinute \in Int /\ \A x \in s : x <= LastMinute
  BY BarAssumption DEF Minute
<1> QED BY <1>1, MaxOfBounded DEF LastOf

(* The memories after n minutes extend to those after n + 1. *)
LEMMA RecallExtends ==
    ASSUME NEW S \in SUBSET Minute, IsFiniteSet(S), NEW memory, NEW bars, NEW n \in Nat,
           NEW f, Recalls(f, memory, bars, UpTo(S, n))
    PROVE  \E g : Recalls(g, memory, bars, UpTo(S, n + 1))
<1> DEFINE g == [s \in UpTo(S, n + 1) |->
                   IF s = {} THEN memory
                   ELSE Remember(f[s \ {LastOf(s)}], Ranged(LastOf(s), bars[LastOf(s)]))]
<1>1. \A A \in SUBSET S : IsFiniteSet(A) /\ Cardinality(A) \in Nat
  BY FS_Subset, FS_CardinalityType
<1>2. ASSUME NEW s \in UpTo(S, n + 1), s # {}, NEW x \in s
      PROVE  s \ {x} \in UpTo(S, n)
  <2>1. Cardinality(s \ {x}) = Cardinality(s) - 1
    BY <1>1, <1>2, FS_RemoveElement DEF UpTo
  <2> QED BY <1>1, <2>1 DEF UpTo
<1>3. \A s \in UpTo(S, n) : g[s] = f[s]
  <2>1. \A s \in UpTo(S, n) : s \in UpTo(S, n + 1)
    BY <1>1 DEF UpTo
  <2> QED BY <2>1 DEF Recalls
<1>4. ASSUME NEW s \in UpTo(S, n + 1), s # {}
      PROVE  f[s \ {LastOf(s)}] = g[s \ {LastOf(s)}]
  <2>1. LastOf(s) \in s
    BY <1>4, LastIsOne DEF UpTo
  <2> QED BY <1>2, <1>3, <1>4, <2>1
<1>5. Recalls(g, memory, bars, UpTo(S, n + 1))
  BY <1>4 DEF Recalls
<1> QED BY <1>5

(* The recursive definition of the memory after the due minutes has a      *)
(* solution.                                                               *)
LEMMA RecallExists ==
    ASSUME NEW S \in SUBSET Minute, IsFiniteSet(S), NEW memory, NEW bars
    PROVE  \E f : Recalls(f, memory, bars, SUBSET S)
<1> DEFINE Bad == {n \in Nat : ~ \E f : Recalls(f, memory, bars, UpTo(S, n))}
<1>1. \A A \in SUBSET S : IsFiniteSet(A) /\ Cardinality(A) \in Nat /\ Cardinality(A) <= Cardinality(S)
  BY FS_Subset, FS_CardinalityType
<1>2. Bad = {}
  <2> SUFFICES ASSUME NEW b \in Bad
               PROVE  FALSE
    OBVIOUS
  <2>1. PICK n \in Bad : \A k \in Bad : n <= k
    BY LeastOf
  <2>2. n # 0
    <3> DEFINE f == [s \in UpTo(S, 0) |-> memory]
    <3>1. \A s \in UpTo(S, 0) : s = {}
      BY <1>1, FS_EmptySet DEF UpTo
    <3>2. f = [s \in UpTo(S, 0) |->
                IF s = {} THEN memory
                ELSE Remember(f[s \ {LastOf(s)}], Ranged(LastOf(s), bars[LastOf(s)]))]
      BY <3>1
    <3>3. Recalls(f, memory, bars, UpTo(S, 0))
      BY ONLY <3>2 DEF Recalls
    <3> QED BY <2>1, <3>3
  <2>3. n - 1 \in Nat /\ n - 1 \notin Bad
    BY <2>1, <2>2
  <2>4. PICK f : Recalls(f, memory, bars, UpTo(S, n - 1))
    BY <2>3
  <2>5. \E g : Recalls(g, memory, bars, UpTo(S, n - 1 + 1))
    BY <2>3, <2>4, RecallExtends
  <2>6. n - 1 + 1 = n
    BY <2>1
  <2> QED BY <2>1, <2>5, <2>6
<1>3. UpTo(S, Cardinality(S)) = SUBSET S
  BY <1>1 DEF UpTo
<1>4. Cardinality(S) \in Nat
  BY FS_CardinalityType
<1>5. \E f : Recalls(f, memory, bars, UpTo(S, Cardinality(S)))
  BY <1>2, <1>4
<1> QED BY <1>3, <1>5

(* _finalize of the due minutes adds their ranges to the memory. *)
LEMMA RememberAllKeeps ==
    ASSUME NEW due \in SUBSET Minute, NEW bars, NEW E, NEW memory \in Seq(E),
           \A m \in due : Ranged(m, bars[m]) \in E
    PROVE  RememberAll(memory, bars, due) \in Seq(E)
<1> DEFINE iter == CHOOSE f : Recalls(f, memory, bars, SUBSET due)
           Good == {s \in SUBSET due : iter[s] \in Seq(E)}
<1>1. IsFiniteSet(due)
  <2>1. IsFiniteSet(Minute)
    BY BarAssumption, FS_Interval DEF Minute
  <2> QED BY <2>1, FS_Subset
<1>2. Recalls(iter, memory, bars, SUBSET due)
  BY <1>1, RecallExists
<1>3. RememberAll(memory, bars, due) = iter[due]
  BY DEF RememberAll, MapThenFoldSet, Recalls, LastOf
<1> HIDE DEF iter
<1>4. \A s \in SUBSET due :
          iter[s] = IF s = {} THEN memory
                    ELSE Remember(iter[s \ {LastOf(s)}], Ranged(LastOf(s), bars[LastOf(s)]))
  BY <1>2 DEF Recalls
<1>5. ASSUME NEW s \in SUBSET due, \A x \in s : s \ {x} \in Good
      PROVE  s \in Good
  <2>1. CASE s = {}
    BY <1>4, <2>1
  <2>2. CASE s # {}
    <3>1. LastOf(s) \in s
      BY <2>2, LastIsOne
    <3>2. iter[s \ {LastOf(s)}] \in Seq(E) /\ Ranged(LastOf(s), bars[LastOf(s)]) \in E
      BY <1>5, <3>1
    <3>3. iter[s] = Remember(iter[s \ {LastOf(s)}], Ranged(LastOf(s), bars[LastOf(s)]))
      BY <1>4, <2>2
    <3>4. iter[s] \in Seq(E)
      BY <3>2, <3>3, RememberKeeps
    <3> QED BY <3>4
  <2> QED BY <2>1, <2>2
<1>6. Good \in SUBSET SUBSET due
  OBVIOUS
<1> HIDE DEF Good
<1>7. due \in Good
  BY <1>1, <1>5, <1>6, SubsetsByOne
<1> QED BY <1>3, <1>7 DEF Good

(***************************************************************************)
(* What is true of the bars being built, of the memory and of the rows,    *)
(* when the minutes up to mark are finalized, the prices in said were      *)
(* heard of each minute and the writes of the minutes in gap failed.       *)
(***************************************************************************)
OwnRow == [src : {"self"}, low : Nat, high : Nat]
Own(table, m) == m \in DOMAIN table /\ table[m].src = "self"
RecentBar == [minute : Minute, low : Nat, high : Nat, ranged : BOOLEAN]

(* A remembered range lies within the row, if that was written. *)
Fitting(table, mark, gap) ==
    {e \in RecentBar : e.ranged =>
        /\ e.minute <= mark
        /\ Own(table, e.minute) /\ e.minute \notin gap => table[e.minute].low <= e.low /\ e.high <= table[e.minute].high}

BarsCover(bars, mark, said) ==
    /\ \A m \in DOMAIN bars : bars[m] \in OpenBar /\ \A price \in said[m] : InRange(bars[m], price)
    /\ \A m \in Minute : mark < m /\ m \notin DOMAIN bars => said[m] = {}

RowsCover(table, mark, said, gap) ==
    \A m \in DOMAIN table : table[m].src = "self" =>
        /\ table[m] \in OwnRow
        /\ m <= mark /\ m \notin gap => \A price \in said[m] : InRange(table[m], price)

Covered(bars, memory, table, mark, said, gap) ==
    /\ said \in [Minute -> SUBSET Nat] /\ DOMAIN table \subseteq Minute
    /\ BarsCover(bars, mark, said) /\ RowsCover(table, mark, said, gap)
    /\ memory \in Seq(Fitting(table, mark, gap))

CoverInv == Covered(open, recent, rows, finalized_through, seen, lost)

(* The minutes that a finalization leaves open come after the due ones. *)
LEMMA FinalizeCovers ==
    ASSUME Between, NEW bars, NEW memory, NEW table, NEW said,
           DOMAIN bars \subseteq Minute, \A m \in DOMAIN bars : finalized_through < m,
           Covered(bars, memory, table, finalized_through, said, lost),
           Finalize(bars, memory, table, Due(bars)), seen' = said
    PROVE  CoverInv'
<1> DEFINE due == Due(bars)
           mark == finalized_through
           Written(m) == /\ m \in DOMAIN rows'
                         /\ rows'[m] = [src |-> "self", low |-> bars[m].low, high |-> bars[m].high]
           Unwritten(m) == /\ m \in DOMAIN rows' => m \in DOMAIN table /\ rows'[m] = table[m]
                           /\ m \in lost'
<1>1. /\ due \in SUBSET Minute /\ due \subseteq DOMAIN bars
      /\ \A m \in due : 2 * m + 3 <= now
      /\ \A m \in DOMAIN bars \ due : ~(2 * m + 3 <= now)
  BY DEF Due
<1>2. /\ open' = Without(bars, due)
      /\ finalized_through' = Max({mark} \cup due)
      /\ recent' = RememberAll(memory, bars, due)
      /\ WriteAndPublish(bars, table, due) \/ WriteFails(table, due)
  BY DEF Finalize
<1>3. mark \in Int /\ now \in Int /\ Minute \subseteq Int
  BY DEF Between, Minute
<1>4. /\ finalized_through' \in {mark} \cup due
      /\ \A m \in {mark} \cup due : m <= finalized_through'
  BY <1>1, <1>2, <1>3, MarkMoves
<1>5. finalized_through' \in Int
  BY <1>1, <1>3, <1>4
<1> HIDE DEF due
<1>6. BarsCover(open', finalized_through', said)
  <2>1. DOMAIN open' = DOMAIN bars \ due /\ \A m \in DOMAIN open' : open'[m] = bars[m]
    BY <1>2 DEF Without
  <2>2. ASSUME NEW m \in Minute, finalized_through' < m, m \notin DOMAIN open'
        PROVE  said[m] = {}
    <3>1. m \notin due
      <4>1. m \in Int
        BY <1>3
      <4> QED BY <1>4, <1>5, <2>2, <4>1
    <3>2. mark < m
      <4>1. m \in Int
        BY <1>3
      <4> QED BY <1>3, <1>4, <1>5, <2>2, <4>1
    <3> QED BY <2>1, <2>2, <3>1, <3>2 DEF Covered, BarsCover
  <2> QED BY <2>1, <2>2 DEF Covered, BarsCover
<1>7. /\ DOMAIN table \subseteq DOMAIN rows' /\ DOMAIN rows' \subseteq DOMAIN table \cup due
      /\ \A m \in DOMAIN table \ due : rows'[m] = table[m]
      /\ lost \subseteq lost'
      /\ \A m \in due : Written(m) \/ Unwritten(m)
  <2>1. CASE WriteAndPublish(bars, table, due)
    <3>1. /\ rows' = [m \in DOMAIN table \cup due |->
                        IF m \in due THEN [src |-> "self", low |-> bars[m].low, high |-> bars[m].high]
                        ELSE table[m]]
          /\ lost' = lost
      BY <2>1 DEF WriteAndPublish
    <3> QED BY <3>1
  <2>2. CASE WriteFails(table, due)
    <3>1. rows' = table /\ lost' = lost \cup due
      BY <2>2 DEF WriteFails
    <3> QED BY <3>1
  <2> QED BY <1>2, <2>1, <2>2
<1> HIDE DEF Written, Unwritten
<1>8. ASSUME NEW m \in due, Written(m)
      PROVE  rows'[m] \in OwnRow /\ \A price \in said[m] : InRange(rows'[m], price)
  BY <1>1, <1>8 DEF Written, Covered, BarsCover, OpenBar, OwnRow, InRange
<1>a. ASSUME NEW m \in due, Unwritten(m), m \in DOMAIN rows'
      PROVE  m \in DOMAIN table /\ rows'[m] = table[m] /\ m \in lost'
  BY <1>a DEF Unwritten
<1>9. RowsCover(rows', finalized_through', said, lost')
  <2>1. ASSUME NEW m \in DOMAIN table \ due, table[m].src = "self", m <= finalized_through', m \notin lost,
               NEW price \in said[m]
        PROVE  InRange(table[m], price)
    <3>1. m \in Int /\ m \in Minute
      BY <1>3 DEF Covered
    <3>2. CASE m <= mark
      BY <2>1, <3>2 DEF Covered, RowsCover
    <3>3. CASE ~(m <= mark)
      <4>1. finalized_through' \in due /\ mark < m /\ m # finalized_through'
        BY <1>3, <1>4, <2>1, <3>1, <3>3
      <4>2. 2 * finalized_through' + 3 <= now /\ m < finalized_through'
        BY <1>1, <1>5, <2>1, <3>1, <4>1
      <4>3. 2 * m + 3 <= now
        <5>1. \A a, b, n \in Int : a < b /\ 2 * b + 3 <= n => 2 * a + 3 <= n
          OBVIOUS
        <5> QED BY <1>3, <1>5, <3>1, <4>2, <5>1
      <4>4. m \notin DOMAIN bars
        BY <1>1, <4>3
      <4> QED BY <2>1, <3>1, <4>1, <4>4 DEF Covered, BarsCover
    <3> QED BY <3>2, <3>3
  <2>2. \A m \in DOMAIN table : table[m].src = "self" => table[m] \in OwnRow
    BY DEF Covered, RowsCover
  <2>3. ASSUME NEW m \in DOMAIN rows', rows'[m].src = "self"
        PROVE  /\ rows'[m] \in OwnRow
               /\ m <= finalized_through' /\ m \notin lost' =>
                      \A price \in said[m] : InRange(rows'[m], price)
    <3>1. CASE m \in due /\ Written(m)
      BY <1>8, <3>1
    <3>2. CASE m \in due /\ Unwritten(m)
      BY <1>a, <2>2, <2>3, <3>2
    <3>3. CASE m \notin due
      BY <1>7, <2>1, <2>2, <2>3, <3>3
    <3> QED BY <1>7, <3>1, <3>2, <3>3
  <2> QED BY <2>3 DEF RowsCover
<1>10. recent' \in Seq(Fitting(rows', finalized_through', lost'))
  <2> DEFINE F == Fitting(rows', finalized_through', lost')
  <2>1. Fitting(table, mark, lost) \subseteq F
    <3>1. ASSUME NEW e \in Fitting(table, mark, lost), e.ranged
          PROVE  /\ e.minute <= finalized_through'
                 /\ Own(rows', e.minute) /\ e.minute \notin lost' =>
                        rows'[e.minute].low <= e.low /\ e.high <= rows'[e.minute].high
      <4>1. e \in RecentBar /\ e.minute \in Minute /\ e.minute \in Int /\ e.minute <= mark
        BY <1>3, <3>1 DEF Fitting, RecentBar
      <4>2. e.minute \notin due
        BY <1>1, <1>3, <4>1
      <4>3. e.minute <= finalized_through'
        BY <1>3, <1>4, <1>5, <4>1
      <4>4. Own(rows', e.minute) => Own(table, e.minute) /\ rows'[e.minute] = table[e.minute]
        BY <1>7, <4>2 DEF Own
      <4> QED BY <1>7, <3>1, <4>3, <4>4 DEF Fitting
    <3> QED BY <3>1 DEF Fitting
  <2>2. ASSUME NEW m \in due
        PROVE  Ranged(m, bars[m]) \in F
    <3>1. m \in Minute /\ bars[m] \in OpenBar
      BY <1>1 DEF Covered, BarsCover
    <3>2. m <= finalized_through'
      BY <1>4
    <3>3. /\ Ranged(m, bars[m]) \in RecentBar /\ Ranged(m, bars[m]).minute = m
          /\ Ranged(m, bars[m]).low = bars[m].low /\ Ranged(m, bars[m]).high = bars[m].high
      BY <3>1 DEF Ranged, RecentBar, OpenBar
    <3>4. m \notin lost' => rows'[m].low <= bars[m].low /\ bars[m].high <= rows'[m].high
      <4>1. bars[m].low \in Nat /\ bars[m].high \in Nat
        BY <3>1 DEF OpenBar
      <4>2. CASE Written(m)
        BY <4>1, <4>2 DEF Written
      <4>3. CASE Unwritten(m)
        BY <4>3 DEF Unwritten
      <4> QED BY <1>7, <4>2, <4>3
    <3> QED BY <3>2, <3>3, <3>4 DEF Fitting
  <2> HIDE DEF F
  <2>3. memory \in Seq(F)
    <3>1. memory \in Seq(Fitting(table, mark, lost))
      BY DEF Covered
    <3> QED BY <2>1, <3>1
  <2>4. RememberAll(memory, bars, due) \in Seq(F)
    BY <1>1, <2>2, <2>3, RememberAllKeeps
  <2> QED BY <1>2, <2>4 DEF F
<1> QED BY <1>1, <1>6, <1>7, <1>9, <1>10 DEF CoverInv, Covered

(* A price that is heard of a minute that is still open. *)
LEMMA OnTimeCovers ==
    ASSUME CoverInv, Between, NEW m \in Minute, NEW price \in Nat, NEW delta \in Nat,
           finalized_through < m
    PROVE  LET bars == Merged(m, price, delta)
           IN  /\ DOMAIN bars = DOMAIN open \cup {m}
               /\ Covered(bars, recent, rows, finalized_through, [seen EXCEPT ![m] = @ \cup {price}], lost)
<1> DEFINE bars == Merged(m, price, delta)
           said == [seen EXCEPT ![m] = @ \cup {price}]
<1>1. /\ DOMAIN bars = DOMAIN open \cup {m} /\ \A k \in DOMAIN open \ {m} : bars[k] = open[k]
      /\ bars[m] = IF m \in DOMAIN open THEN [Widened(open[m], price) EXCEPT !.volume = @ + delta]
                   ELSE [low |-> price, high |-> price, volume |-> delta]
  BY DEF Merged, With
<1> HIDE DEF bars
<1>2. /\ said \in [Minute -> SUBSET Nat] /\ said[m] = seen[m] \cup {price}
      /\ \A k \in Minute \ {m} : said[k] = seen[k]
  BY DEF CoverInv, Covered
<1> HIDE DEF said
<1>3. bars[m] \in OpenBar /\ \A heard \in said[m] : InRange(bars[m], heard)
  <2>1. CASE m \in DOMAIN open
    <3>1. open[m] \in OpenBar /\ seen[m] \subseteq Nat /\ \A heard \in seen[m] : InRange(open[m], heard)
      BY <2>1 DEF CoverInv, Covered, BarsCover
    <3>2. /\ bars[m] \in OpenBar
          /\ bars[m].low = Low(open[m].low, price) /\ bars[m].high = High(open[m].high, price)
      BY <1>1, <2>1, <3>1, WidenedBar
    <3>3. ASSUME NEW heard \in Nat, heard = price \/ InRange(open[m], heard)
          PROVE  InRange(bars[m], heard)
      <4>1. open[m].low \in Nat /\ open[m].high \in Nat
        BY <3>1 DEF OpenBar
      <4> QED BY <3>2, <3>3, <4>1 DEF InRange, Low, High
    <3> QED BY <1>2, <3>1, <3>2, <3>3
  <2>2. CASE m \notin DOMAIN open
    <3>1. said[m] = {price}
      BY <1>2, <2>2 DEF CoverInv, Covered, BarsCover
    <3>2. bars[m] = [low |-> price, high |-> price, volume |-> delta]
      BY <1>1, <2>2
    <3> QED BY <3>1, <3>2 DEF OpenBar, InRange
  <2> QED BY <2>1, <2>2
<1>4. BarsCover(bars, finalized_through, said)
  <2>1. DOMAIN open \subseteq Minute
    BY DEF Between
  <2> QED BY <1>1, <1>2, <1>3, <2>1 DEF CoverInv, Covered, BarsCover
<1>5. RowsCover(rows, finalized_through, said, lost)
  <2>1. ASSUME NEW k \in DOMAIN rows, k <= finalized_through
        PROVE  k # m /\ k \in Minute
    <3>1. finalized_through \in Int /\ m \in Int
      BY DEF Between, Minute
    <3> QED BY <2>1, <3>1 DEF CoverInv, Covered
  <2> QED BY <1>2, <2>1 DEF CoverInv, Covered, RowsCover
<1> QED BY <1>1, <1>2, <1>4, <1>5 DEF CoverInv, Covered, bars, said

(* A row, or a remembered range, that is widened to a price. *)
LEMMA WidenedRow ==
    ASSUME NEW r \in OwnRow, NEW price \in Nat
    PROVE  LET w == Widened(r, price)
           IN  w \in OwnRow /\ w.low = Low(r.low, price) /\ w.high = High(r.high, price)
BY DEF Widened, Low, High, OwnRow

(* A remembered range, widened to a price. *)
LEMMA WidenedEntry ==
    ASSUME NEW e \in RecentBar, NEW price \in Nat
    PROVE  LET w == Widened(e, price)
           IN  /\ w \in RecentBar /\ w.minute = e.minute /\ w.ranged = e.ranged
               /\ w.low = Low(e.low, price) /\ w.high = High(e.high, price)
BY DEF Widened, Low, High, RecentBar

(* A late tick in the remembered range: the row, if written, covers it already. *)
LEMMA KnownCovers ==
    ASSUME CoverInv, NEW m \in Minute, NEW price \in Nat, m <= finalized_through, finalized_through \in Int,
           KnownInRange(m, price)
    PROVE  Own(rows, m) /\ m \notin lost => InRange(rows[m], price)
<1>1. PICK i \in DOMAIN recent : recent[i].minute = m /\ recent[i].ranged /\ InRange(recent[i], price)
  BY DEF KnownInRange
<1> DEFINE F == Fitting(rows, finalized_through, lost)
<1>2. recent \in Seq(F)
  BY DEF CoverInv, Covered
<1> HIDE DEF F
<1>3. recent[i] \in F
  BY <1>1, <1>2
<1>4. /\ recent[i] \in RecentBar
      /\ Own(rows, m) /\ m \notin lost => rows[m].low <= recent[i].low /\ recent[i].high <= rows[m].high
  BY <1>1, <1>3 DEF F, Fitting
<1>5. Own(rows, m) => rows[m] \in OwnRow
  BY DEF CoverInv, Covered, RowsCover, Own
<1> QED BY <1>1, <1>4, <1>5 DEF InRange, RecentBar, OwnRow

(* A late tick leaves a memory that fits the rows it leaves. *)
LEMMA NotedFits ==
    ASSUME CoverInv, NEW m \in Minute, NEW price \in Nat, finalized_through \in Int,
           NEW table, table = IF Accepts(m) THEN With(rows, m, Widened(rows[m], price)) ELSE rows
    PROVE  Noted(m, price) \in Seq(Fitting(table, finalized_through, lost))
<1> DEFINE mark == finalized_through
           F == Fitting(rows, mark, lost)
           G == Fitting(table, mark, lost)
<1>1. Own(rows, m) => rows[m] \in OwnRow
  BY DEF CoverInv, Covered, RowsCover, Own
<1>2. Accepts(m) <=> Own(rows, m)
  BY DEF Accepts, Own
<1>3. ASSUME NEW k, k # m
      PROVE  (Own(table, k) <=> Own(rows, k)) /\ (Own(table, k) => table[k] = rows[k])
  BY <1>3 DEF Own, With
<1>4. /\ Own(table, m) => Own(rows, m)
      /\ Own(rows, m) => table[m] = Widened(rows[m], price)
  BY <1>2 DEF Own, With, Accepts
<1>5. recent \in Seq(F)
  BY DEF CoverInv, Covered
<1>6. ASSUME NEW e \in F
      PROVE  /\ e.minute = m /\ e.ranged /\ Accepts(m) => Widened(e, price) \in G
             /\ ~(e.minute = m /\ e.ranged /\ Accepts(m)) => e \in G
  <2>1. e \in RecentBar
    BY DEF Fitting
  <2>2. CASE e.minute = m /\ e.ranged /\ Accepts(m)
    <3>1. /\ Widened(e, price) \in RecentBar /\ Widened(e, price).minute = m
          /\ Widened(e, price).low = Low(e.low, price) /\ Widened(e, price).high = High(e.high, price)
      BY <2>1, <2>2, WidenedEntry
    <3>2. /\ rows[m] \in OwnRow /\ m <= mark
          /\ m \notin lost => rows[m].low <= e.low /\ e.high <= rows[m].high
      BY <1>1, <1>2, <2>2 DEF Fitting
    <3>3. table[m].low = Low(rows[m].low, price) /\ table[m].high = High(rows[m].high, price)
      BY <1>2, <1>4, <2>2, <3>2, WidenedRow
    <3>4. rows[m].low \in Nat /\ rows[m].high \in Nat /\ e.low \in Nat /\ e.high \in Nat
      BY <2>1, <3>2 DEF OwnRow, RecentBar
    <3>5. m \notin lost => table[m].low <= Widened(e, price).low /\ Widened(e, price).high <= table[m].high
      BY <3>1, <3>2, <3>3, <3>4 DEF Low, High
    <3> QED BY <2>2, <3>1, <3>2, <3>5 DEF Fitting
  <2>3. CASE ~(e.minute = m /\ e.ranged /\ Accepts(m))
    <3>1. e.ranged => (Own(table, e.minute) => Own(rows, e.minute) /\ table[e.minute] = rows[e.minute])
      BY <1>2, <1>3, <1>4, <2>3
    <3> QED BY <2>1, <2>3, <3>1 DEF Fitting
  <2> QED BY <2>2, <2>3
<1>7. Placeholder(m) \in F
  BY DEF Placeholder, Fitting, RecentBar
<1>8. ~Placeholder(m).ranged
  BY DEF Placeholder
<1> HIDE DEF F, G
<1>9. CASE ~Remembers(recent, m)
  <2> DEFINE H == F \ {e \in F : e.minute = m /\ e.ranged}
  <2>1. recent \in Seq(H)
    <3>1. \A i \in DOMAIN recent : recent[i] \in H
      BY <1>5, <1>9 DEF Remembers
    <3> HIDE DEF H
    <3> QED BY <1>5, <3>1
  <2>2. Placeholder(m) \in H
    BY <1>7, <1>8
  <2>3. H \subseteq G
    BY <1>6
  <2> HIDE DEF H
  <2>4. Remember(recent, Placeholder(m)) \in Seq(H)
    BY <2>1, <2>2, RememberKeeps
  <2>5. Noted(m, price) = Remember(recent, Placeholder(m))
    BY <1>9 DEF Noted
  <2>6. Noted(m, price) \in Seq(G)
    BY <2>3, <2>4, <2>5
  <2> QED BY <2>6 DEF G
<1>10. CASE Remembers(recent, m)
  <2> DEFINE new(i) == IF recent[i].minute = m /\ recent[i].ranged /\ Accepts(m)
                       THEN Widened(recent[i], price) ELSE recent[i]
  <2>1. Noted(m, price) = [i \in DOMAIN recent |-> new(i)]
    BY <1>10 DEF Noted
  <2>2. \A i \in DOMAIN recent : new(i) \in G
    BY <1>5, <1>6
  <2> HIDE DEF new
  <2>3. Noted(m, price) \in Seq(G)
    BY <1>5, <2>1, <2>2
  <2> QED BY <2>3 DEF G
<1> QED BY <1>9, <1>10

(* The store and the memory that a late tick leaves cover its price.       *)
LEMMA LateCovers ==
    ASSUME CoverInv, Between, NEW m \in Minute, NEW price \in Nat, m <= finalized_through, Late(m, price)
    PROVE  \E memory, table :
               /\ Finalize(open, memory, table, Due(open))
               /\ Covered(open, memory, table, finalized_through, [seen EXCEPT ![m] = @ \cup {price}], lost)
<1> DEFINE said == [seen EXCEPT ![m] = @ \cup {price}]
           mark == finalized_through
<1>1. mark \in Int /\ m \in Int /\ DOMAIN open \subseteq Minute
  BY DEF Between, Minute
<1>2. /\ said \in [Minute -> SUBSET Nat] /\ said[m] = seen[m] \cup {price}
      /\ \A k \in Minute \ {m} : said[k] = seen[k]
  BY DEF CoverInv, Covered
<1> HIDE DEF said
<1>3. BarsCover(open, mark, said)
  <2>1. m \notin DOMAIN open /\ ~(mark < m)
    BY <1>1 DEF Between
  <2> QED BY <1>1, <1>2, <2>1 DEF CoverInv, Covered, BarsCover
<1>4. Own(rows, m) =>
          /\ rows[m] \in OwnRow /\ seen[m] \subseteq Nat
          /\ m \notin lost => \A heard \in seen[m] : InRange(rows[m], heard)
  BY DEF CoverInv, Covered, RowsCover, Own
<1>5. CASE KnownInRange(m, price)
  <2>1. Own(rows, m) /\ m \notin lost => InRange(rows[m], price)
    BY <1>1, <1>5, KnownCovers
  <2>2. RowsCover(rows, mark, said, lost)
    BY <1>2, <1>4, <2>1 DEF CoverInv, Covered, RowsCover, Own
  <2>3. Covered(open, recent, rows, mark, said, lost)
    BY <1>2, <1>3, <2>2 DEF CoverInv, Covered
  <2>4. Finalize(open, recent, rows, Due(open))
    BY <1>5 DEF Late
  <2> QED BY <2>3, <2>4 DEF said
<1>6. CASE ~KnownInRange(m, price)
  <2> DEFINE table == IF Accepts(m) THEN With(rows, m, Widened(rows[m], price)) ELSE rows
             memory == Noted(m, price)
  <2>1. Finalize(open, memory, table, Due(open))
    BY <1>6 DEF Late
  <2>2. memory \in Seq(Fitting(table, mark, lost))
    BY <1>1, NotedFits
  <2>3. Accepts(m) <=> Own(rows, m)
    BY DEF Accepts, Own
  <2>4. /\ DOMAIN table = DOMAIN rows
        /\ \A k \in DOMAIN rows \ {m} : table[k] = rows[k]
        /\ m \in DOMAIN rows => table[m] = IF Accepts(m) THEN Widened(rows[m], price) ELSE rows[m]
    BY DEF With, Accepts
  <2> HIDE DEF table, memory
  <2>5. Own(rows, m) => table[m] \in OwnRow /\ (m \notin lost => \A heard \in said[m] : InRange(table[m], heard))
    <3> SUFFICES ASSUME Own(rows, m)
                 PROVE  table[m] \in OwnRow /\ (m \notin lost => \A heard \in said[m] : InRange(table[m], heard))
      OBVIOUS
    <3>1. /\ table[m] \in OwnRow
          /\ table[m].low = Low(rows[m].low, price) /\ table[m].high = High(rows[m].high, price)
      BY <1>4, <2>3, <2>4, WidenedRow DEF Own
    <3>2. rows[m].low \in Nat /\ rows[m].high \in Nat
      BY <1>4 DEF OwnRow
    <3>3. ASSUME NEW heard \in Nat, heard = price \/ InRange(rows[m], heard)
          PROVE  InRange(table[m], heard)
      BY <3>1, <3>2, <3>3 DEF InRange, Low, High
    <3> QED BY <1>2, <1>4, <3>1, <3>3
  <2>6. RowsCover(table, mark, said, lost)
    <3>1. ASSUME NEW k \in DOMAIN rows \ {m}, table[k].src = "self"
          PROVE  table[k] \in OwnRow /\ (k <= mark /\ k \notin lost => \A heard \in said[k] : InRange(table[k], heard))
      BY <1>2, <2>4, <3>1 DEF CoverInv, Covered, RowsCover
    <3>2. ASSUME m \in DOMAIN rows, table[m].src = "self"
          PROVE  Own(rows, m)
      BY <2>3, <2>4, <3>2 DEF Own
    <3> QED BY <2>4, <2>5, <3>1, <3>2 DEF RowsCover
  <2>7. Covered(open, memory, table, mark, said, lost)
    BY <1>2, <1>3, <2>2, <2>4, <2>6 DEF CoverInv, Covered
  <2> QED BY <2>1, <2>7 DEF said
<1> QED BY <1>5, <1>6

(* Candles of the broker are not the builder's own rows. *)
LEMMA FillCovers ==
    ASSUME CoverInv, NEW S \in SUBSET Minute, NEW source \in {"gap_backfilled", "kite_official"},
           Fill(S, source), UNCHANGED <<open, finalized_through, recent, seen, lost>>
    PROVE  CoverInv'
<1>1. /\ DOMAIN rows' = DOMAIN rows \cup S
      /\ \A m \in S : rows'[m].src # "self"
      /\ \A m \in DOMAIN rows \ S : rows'[m] = rows[m]
  BY DEF Fill, Candle
<1>2. RowsCover(rows', finalized_through, seen, lost)
  BY <1>1 DEF CoverInv, Covered, RowsCover
<1>3. Fitting(rows, finalized_through, lost) \subseteq Fitting(rows', finalized_through, lost)
  <2>1. ASSUME NEW m
        PROVE  Own(rows', m) => Own(rows, m) /\ rows'[m] = rows[m]
    BY <1>1 DEF Own
  <2> QED BY <2>1 DEF Fitting
<1>4. recent \in Seq(Fitting(rows', finalized_through, lost))
  <2> DEFINE F == Fitting(rows, finalized_through, lost)
             G == Fitting(rows', finalized_through, lost)
  <2>1. recent \in Seq(F) /\ F \subseteq G
    BY <1>3 DEF CoverInv, Covered
  <2> HIDE DEF F, G
  <2>2. recent \in Seq(G)
    BY <2>1
  <2> QED BY <2>2 DEF G
<1> QED BY <1>1, <1>2, <1>4 DEF CoverInv, Covered

(* The builder's next process knows nothing, and has heard of nothing.     *)
LEMMA StopCovers ==
    ASSUME CoverInv, Between, Stop
    PROVE  CoverInv'
<1>1. /\ open' = <<>> /\ finalized_through' = -1 /\ recent' = <<>> /\ seen' = [m \in Minute |-> {}] /\ lost' = {}
      /\ FlushAll \/ rows' = rows
  BY DEF Stop, Boots, Nothing
<1>2. DOMAIN rows' \subseteq Minute /\ \A m \in DOMAIN rows' : rows'[m].src = "self" => rows'[m] \in OwnRow
  <2>1. CASE rows' = rows
    BY <2>1 DEF CoverInv, Covered, RowsCover
  <2>2. CASE FlushAll
    <3>1. /\ DOMAIN rows' = DOMAIN rows \cup DOMAIN open
          /\ \A m \in DOMAIN open : rows'[m] = [src |-> "self", low |-> open[m].low, high |-> open[m].high]
          /\ \A m \in DOMAIN rows \ DOMAIN open : rows'[m] = rows[m]
      BY <2>2 DEF FlushAll
    <3>2. \A m \in DOMAIN open : rows'[m] \in OwnRow
      BY <3>1 DEF CoverInv, Covered, BarsCover, OpenBar, OwnRow
    <3> QED BY <3>1, <3>2 DEF CoverInv, Covered, RowsCover, Between
  <2> QED BY <1>1, <2>1, <2>2
<1>3. \A m \in Minute : ~(m <= -1)
  BY DEF Minute
<1>4. RowsCover(rows', -1, seen', {})
  BY <1>2, <1>3 DEF RowsCover
<1>5. BarsCover(<<>>, -1, seen')
  BY <1>1 DEF BarsCover
<1>6. <<>> \in Seq(Fitting(rows', -1, {})) /\ seen' \in [Minute -> SUBSET Nat]
  BY <1>1
<1> QED BY <1>1, <1>2, <1>4, <1>5, <1>6 DEF CoverInv, Covered

(* Each step keeps the bars, the memory and the rows true to the prices. *)
LEMMA CoverStep ==
    ASSUME CoverInv, Between, VolumeTyped, filling \subseteq Minute, [BarNext]_barVars
    PROVE  CoverInv'
<1>1. CASE Advance
  <2>1. Finalize(open, recent, rows, Due(open)) /\ seen' = seen
    BY <1>1 DEF Advance
  <2> QED BY <2>1, FinalizeCovers DEF CoverInv, Between
<1>2. ASSUME NEW m \in Minute, NEW p \in Prints, OnTick(m, p.price, p.volume)
      PROVE  CoverInv'
  <2>1. p.price \in Nat /\ p.volume \in Nat
    BY BarAssumption
  <2>2. seen' = [seen EXCEPT ![m] = @ \cup {p.price}]
    BY <1>2 DEF OnTick, Hears
  <2>3. CASE IsLate(m)
    <3>1. m <= finalized_through /\ Late(m, p.price)
      BY <1>2, <2>3 DEF OnTick, IsLate
    <3>2. PICK memory, table :
               /\ Finalize(open, memory, table, Due(open))
               /\ Covered(open, memory, table, finalized_through, [seen EXCEPT ![m] = @ \cup {p.price}], lost)
      BY <2>1, <3>1, LateCovers
    <3> QED BY <2>2, <3>2, FinalizeCovers DEF Between
  <2>4. CASE ~IsLate(m)
    <3> DEFINE delta == VolumeDelta(m, p.volume)
               bars == Merged(m, p.price, delta)
               said == [seen EXCEPT ![m] = @ \cup {p.price}]
    <3>1. Finalize(bars, recent, rows, Due(bars))
      BY <1>2, <2>4 DEF OnTick, OnTime
    <3>2. delta \in Nat
      BY <2>1 DEF VolumeDelta, VolumeTyped, Nothing
    <3>3. finalized_through < m
      BY <2>4 DEF IsLate, Between, Minute
    <3> HIDE DEF delta
    <3>4. DOMAIN bars = DOMAIN open \cup {m} /\ Covered(bars, recent, rows, finalized_through, said, lost)
      BY <2>1, <3>2, <3>3, OnTimeCovers
    <3> HIDE DEF bars, said
    <3>5. DOMAIN bars \subseteq Minute /\ \A k \in DOMAIN bars : finalized_through < k
      BY <3>3, <3>4 DEF Between
    <3>6. seen' = said
      BY <2>2 DEF said
    <3> QED BY <3>1, <3>4, <3>5, <3>6, FinalizeCovers
  <2> QED BY <2>3, <2>4
<1>3. CASE GapsFilled
  <2>1. PICK S \in SUBSET filling : Fill(S, "gap_backfilled")
    BY <1>3 DEF GapsFilled
  <2> QED BY <1>3, <2>1, FillCovers DEF GapsFilled, builder, history
<1>4. CASE Reconcile
  BY <1>4, FillCovers DEF Reconcile, builder, history
<1>5. CASE Stop
  BY <1>5, StopCovers
<1>6. CASE GapsRead \/ ClockTick \/ UNCHANGED barVars
  BY <1>6 DEF GapsRead, ClockTick, builder, history, barVars, CoverInv
<1> QED BY <1>1, <1>2, <1>3, <1>4, <1>5, <1>6 DEF BarNext

(* A finalization moves volume, and leaves typed bars. *)
LEMMA FinalizeCounts ==
    ASSUME NEW bars, NEW memory, NEW table, DOMAIN bars \subseteq Minute,
           \A m \in DOMAIN bars : bars[m] \in OpenBar,
           NEW before \in Nat, Finalize(bars, memory, table, Due(bars)), Counts(before, bars)
    PROVE  /\ counted' \in Nat /\ \A m \in DOMAIN open' : open'[m] \in OpenBar
           /\ counted' + VolumeOf(open', DOMAIN open') = before + VolumeOf(bars, DOMAIN bars)
<1> DEFINE due == Due(bars)
           rest == Without(bars, due)
<1>1. /\ open' = rest /\ counted' = before + VolumeOf(bars, due) /\ due \in SUBSET DOMAIN bars
  BY DEF Finalize, Due, Counts
<1> HIDE DEF due
<1>2. /\ VolumeOf(bars, DOMAIN bars) \in Nat /\ VolumeOf(bars, due) \in Nat
      /\ VolumeOf(bars, DOMAIN bars) = VolumeOf(bars, due) + VolumeOf(rest, DOMAIN rest)
  BY <1>1, VolumeParts
<1>3. \A m \in DOMAIN rest : rest[m] \in OpenBar
  BY DEF Without
<1>4. DOMAIN rest \subseteq Minute
  BY DEF Without
<1> HIDE DEF rest
<1>5. VolumeOf(rest, DOMAIN rest) \in Nat
  BY <1>3, <1>4, VolumeParts
<1> QED BY <1>1, <1>2, <1>3, <1>5

(* The volume of an empty map of bars. *)
LEMMA NoVolume ==
    ASSUME NEW bars, DOMAIN bars = {}
    PROVE  VolumeOf(bars, DOMAIN bars) = 0
<1>1. VolumeOf(bars, {}) = SumOf(Volumes(bars), {})[{}]
  BY VolumeIsSum
<1>2. IsFiniteSet({})
  BY FS_EmptySet
<1>3. SumOf(Volumes(bars), {})[{}] = 0
  BY <1>2, SumTakesAny
<1> QED BY <1>1, <1>3

(* Each step keeps the sum of the volumes in step with the counter. *)
LEMMA VolumeStep ==
    ASSUME VolumeInv, Between, [BarNext]_barVars
    PROVE  VolumeInv'
<1>a. DOMAIN open \subseteq Minute /\ \A m \in DOMAIN open : open[m] \in OpenBar
  BY DEF VolumeInv, VolumeTyped, Between
<1>1. CASE Advance
  <2>1. Finalize(open, recent, rows, Due(open)) /\ Counts(counted, open) /\ last_cum' = last_cum
    BY <1>1 DEF Advance
  <2>2. /\ counted' \in Nat /\ \A m \in DOMAIN open' : open'[m] \in OpenBar
        /\ counted' + VolumeOf(open', DOMAIN open') = counted + VolumeOf(open, DOMAIN open)
    BY <1>a, <2>1, FinalizeCounts DEF VolumeInv, VolumeTyped
  <2> QED BY <2>1, <2>2 DEF VolumeInv, VolumeTyped, VolumeAddsUp
<1>2. ASSUME NEW m \in Minute, NEW p \in Prints, OnTick(m, p.price, p.volume)
      PROVE  VolumeInv'
  <2>1. p.price \in Nat /\ p.volume \in Nat
    BY BarAssumption
  <2>2. CASE IsLate(m)
    <3>1. PICK memory, table : Finalize(open, memory, table, Due(open))
      BY <1>2, <2>2 DEF OnTick, Late
    <3>2. last_cum' = last_cum /\ Counts(counted, open)
      BY <1>2, <2>2 DEF OnTick, Late
    <3>3. /\ counted' \in Nat /\ \A k \in DOMAIN open' : open'[k] \in OpenBar
          /\ counted' + VolumeOf(open', DOMAIN open') = counted + VolumeOf(open, DOMAIN open)
      BY <1>a, <3>1, <3>2, FinalizeCounts DEF VolumeInv, VolumeTyped
    <3> QED BY <3>2, <3>3 DEF VolumeInv, VolumeTyped, VolumeAddsUp
  <2>3. CASE ~IsLate(m)
    <3> DEFINE cum == p.volume
               delta == VolumeDelta(m, cum)
               bars == Merged(m, p.price, delta)
               before == IF last_cum = Nothing /\ m # 0 THEN cum ELSE counted
    <3>1. /\ Finalize(bars, recent, rows, Due(bars)) /\ Counts(before, bars)
          /\ last_cum' = IF last_cum = Nothing THEN cum ELSE HighWater(cum)
      BY <1>2, <2>3 DEF OnTick, OnTime
    <3>2. delta \in Nat
      BY <2>1 DEF VolumeDelta, VolumeInv, VolumeTyped, Nothing
    <3>3. VolumeOf(open, DOMAIN open) \in Nat /\ counted \in Nat
      BY <1>a, VolumeParts DEF VolumeInv, VolumeTyped
    <3>4. counted + VolumeOf(open, DOMAIN open) = IF last_cum = Nothing THEN 0 ELSE last_cum
      BY DEF VolumeInv, VolumeAddsUp
    <3>5. /\ last_cum' \in Nat /\ before \in Nat
          /\ last_cum' = (before + VolumeOf(open, DOMAIN open)) + delta
      <4> DEFINE standing == VolumeOf(open, DOMAIN open)
      <4>1. standing \in Nat /\ counted \in Nat /\ cum \in Nat
        BY <2>1, <3>3
      <4>2. CASE last_cum = Nothing
        <5>1. last_cum' = cum /\ counted + standing = 0
          BY <3>1, <3>4, <4>2
        <5>2. delta = (IF m = 0 THEN cum ELSE 0) /\ before = IF m # 0 THEN cum ELSE counted
          BY <4>2 DEF VolumeDelta
        <5> HIDE DEF standing, delta, before, cum
        <5>3. counted = 0 /\ standing = 0
          BY <4>1, <5>1
        <5>4. before \in Nat /\ delta \in Nat /\ before + delta = cum
          BY <4>1, <5>2, <5>3
        <5>5. cum = (before + standing) + delta
          BY <4>1, <5>3, <5>4
        <5> QED BY <4>1, <5>1, <5>4, <5>5 DEF standing
      <4>3. CASE last_cum # Nothing
        <5>1. /\ last_cum \in Nat /\ counted + standing = last_cum
              /\ last_cum' = IF last_cum < cum THEN cum ELSE last_cum
          BY <3>1, <3>4, <4>3 DEF HighWater, High, VolumeInv, VolumeTyped
        <5>2. delta = (IF cum < last_cum THEN 0 ELSE cum - last_cum) /\ before = counted
          BY <4>3 DEF VolumeDelta
        <5> HIDE DEF standing, delta, before, cum
        <5> QED BY <4>1, <5>1, <5>2 DEF standing
      <4> QED BY <4>2, <4>3
    <3> HIDE DEF delta, before
    <3>6. /\ DOMAIN bars = DOMAIN open \cup {m} /\ \A k \in DOMAIN bars : bars[k] \in OpenBar
          /\ VolumeOf(bars, DOMAIN bars) = VolumeOf(open, DOMAIN open) + delta
      BY <1>a, <2>1, <3>2, VolumeMerges DEF VolumeInv
    <3> HIDE DEF bars
    <3>7. /\ counted' \in Nat /\ \A k \in DOMAIN open' : open'[k] \in OpenBar
          /\ counted' + VolumeOf(open', DOMAIN open') = before + VolumeOf(bars, DOMAIN bars)
      BY <1>a, <3>1, <3>5, <3>6, FinalizeCounts
    <3>8. counted' + VolumeOf(open', DOMAIN open') = last_cum' /\ last_cum' # Nothing
      BY <3>2, <3>3, <3>5, <3>6, <3>7 DEF Nothing
    <3> QED BY <3>5, <3>7, <3>8 DEF VolumeInv, VolumeTyped, VolumeAddsUp
  <2> QED BY <2>2, <2>3
<1>3. CASE Stop
  <2>1. open' = <<>> /\ last_cum' = Nothing /\ counted' = 0
    BY <1>3 DEF Stop, Boots
  <2>2. DOMAIN open' = {}
    BY <2>1
  <2>3. VolumeOf(open', DOMAIN open') = 0
    BY <2>2, NoVolume
  <2> QED BY <2>1, <2>2, <2>3 DEF VolumeInv, VolumeTyped, VolumeAddsUp
<1>4. CASE GapsRead \/ GapsFilled \/ Reconcile \/ ClockTick \/ UNCHANGED barVars
  <2>1. UNCHANGED <<open, last_cum, counted>>
    BY <1>4 DEF GapsRead, GapsFilled, Reconcile, ClockTick, builder, history, barVars
  <2> QED BY <2>1 DEF VolumeInv, VolumeTyped, VolumeAddsUp
<1> QED BY <1>1, <1>2, <1>3, <1>4 DEF BarNext

(***************************************************************************)
(* The stored bars are true, for every session length, any prints in any   *)
(* order, any size of the memory, and with the gap fill, the reconcile,    *)
(* failing writes and restarts in between.                                 *)
(***************************************************************************)
THEOREM StoredBarsAreTrue == BarSpec => []BarsAreTrue
<1> DEFINE I == Between /\ VolumeInv /\ CoverInv /\ filling \subseteq Minute
<1>1. BarInit => I
  <2> SUFFICES ASSUME BarInit
               PROVE  I
    OBVIOUS
  <2>1. Between
    BY DEF BarInit, Between, Nothing
  <2>2. VolumeInv
    <3>1. VolumeOf(open, DOMAIN open) = 0
      <4>1. DOMAIN open = {}
        BY DEF BarInit
      <4> QED BY <4>1, NoVolume
    <3> QED BY <3>1 DEF BarInit, VolumeInv, VolumeTyped, VolumeAddsUp
  <2>3. CoverInv
    BY DEF BarInit, CoverInv, Covered, BarsCover, RowsCover
  <2> QED BY <2>1, <2>2, <2>3 DEF BarInit
<1>2. I /\ [BarNext]_barVars => I'
  <2> SUFFICES ASSUME I, [BarNext]_barVars
               PROVE  I'
    OBVIOUS
  <2>1. filling' \subseteq Minute
    BY DEF BarNext, OnTick, Advance, GapsRead, GapsFilled, Reconcile, Stop, ClockTick, barVars
  <2> QED BY <2>1, BuilderStep, VolumeStep, CoverStep DEF VolumeInv
<1>3. I => BarsAreTrue
  <2> SUFFICES ASSUME I
               PROVE  BarsAreTrue
    OBVIOUS
  <2>1. LateExtremesKept
    BY DEF CoverInv, Covered, RowsCover, LateExtremesKept
  <2> QED BY <2>1 DEF BarsAreTrue, VolumeInv
<1> QED BY <1>1, <1>2, <1>3, PTL DEF BarSpec

(***************************************************************************)
(* The files of raw ticks, for any number of ticks, days, crashes and      *)
(* failing file operations.  Every staged tick is counted at one place;    *)
(* what is written stays readable because the compaction knows, between    *)
(* its steps, what it relies on: until the swap no compacted file is       *)
(* there, and after it the compacted file has the rows of every fragment   *)
(* that is still to be deleted.                                            *)
(***************************************************************************)
RawTick == [n : Nat, day : Files!Days]
DateFiles == [frags : SUBSET SUBSET RawTick, compact : SUBSET RawTick, tmp : BOOLEAN]
Compaction ==
    [ pc : {"idle", "flush", "flushing", "visit", "write", "swap", "unlink"}, today : Int,
      days : SUBSET Files!Days, files : SUBSET SUBSET RawTick, ok : BOOLEAN, stopped : BOOLEAN ]

(* The variables of the store and their values. *)
StoreTyped ==
    /\ phase \in 0 .. 3 * LastDay + 2
    /\ flush \in [by : {"none", "loop", "job", "close"}, todo : SUBSET RawTick]
    /\ flush.todo = {} <=> flush = Files!NoFlush
    /\ job \in Compaction
    /\ disk \in [Files!Days -> DateFiles]

(* n ticks: those of three sets, which share none, and g others.           *)
AddUp(B, F, W, g, n) ==
    /\ B \in SUBSET RawTick /\ F \in SUBSET RawTick /\ W \in SUBSET RawTick
    /\ IsFiniteSet(B) /\ IsFiniteSet(F) /\ IsFiniteSet(W)
    /\ B \cap F = {} /\ B \cap W = {} /\ F \cap W = {}
    /\ \A t \in B \cup F \cup W : t.n <= n
    /\ g \in Nat /\ n \in Nat
    /\ Cardinality(B) + Cardinality(F) + Cardinality(W) + g = n

EachOnce == AddUp(buffer, flush.todo, written, gone, ticks)

WrittenIsReadable == \A t \in written : t \in Files!Readable(t.day)

(* What the compaction relies on while it works on a date. *)
JobKnows ==
    job.pc \in {"write", "swap", "unlink"} =>
        /\ job.days # {}
        /\ job.pc \in {"write", "swap"} => disk[Files!Date].compact = {}
        /\ job.pc = "unlink" => UNION job.files \subseteq disk[Files!Date].compact

(* The inductive invariant of the files. *)
FilesInv == StoreTyped /\ EachOnce /\ WrittenIsReadable /\ JobKnows

(* The store's module counts as this one does. *)
LEMMA SameSize == \A S : Files!Cardinality(S) = Cardinality(S)
BY DEF Files!Cardinality, Cardinality

(* What the property says of the counts. *)
LEMMA KeptCounted ==
    ASSUME FilesInv
    PROVE  Files!TicksKept
<1> DEFINE B == buffer
           F == flush.todo
           W == written
<1>1. AddUp(B, F, W, gone, ticks)
  BY DEF FilesInv, EachOnce
<1> HIDE DEF B, F, W
<1>2. /\ IsFiniteSet(B) /\ IsFiniteSet(F) /\ IsFiniteSet(W)
      /\ B \cap F = {} /\ (B \cup F) \cap W = {}
      /\ gone \in Nat /\ ticks \in Nat
      /\ Cardinality(B) + Cardinality(F) + Cardinality(W) + gone = ticks
  BY <1>1 DEF AddUp
<1>3. IsFiniteSet(B \cup F) /\ Cardinality(B \cup F) = Cardinality(B) + Cardinality(F) - Cardinality(B \cap F)
  BY <1>2, FS_Union
<1>4. Cardinality((B \cup F) \cup W)
        = Cardinality(B \cup F) + Cardinality(W) - Cardinality((B \cup F) \cap W)
  BY <1>2, <1>3, FS_Union
<1>5. Cardinality(B \cap F) = 0 /\ Cardinality((B \cup F) \cap W) = 0
  BY <1>2, FS_EmptySet
<1>6. Cardinality(B) \in Nat /\ Cardinality(F) \in Nat /\ Cardinality(W) \in Nat
  BY <1>2, FS_CardinalityType
<1>7. Cardinality(B \cup F \cup W) = Cardinality(B) + Cardinality(F) + Cardinality(W)
  BY <1>3, <1>4, <1>5, <1>6
<1>8. Cardinality(B \cup F \cup W) + gone = ticks
  BY <1>2, <1>6, <1>7
<1> QED BY <1>7, <1>8, SameSize DEF Files!TicksKept, FilesInv, WrittenIsReadable, B, F, W

(* One more tick in the buffer. *)
LEMMA StageAddsUp ==
    ASSUME NEW B, NEW F, NEW W, NEW g, NEW n, AddUp(B, F, W, g, n),
           NEW e \in RawTick, e.n = n + 1
    PROVE  AddUp(B \cup {e}, F, W, g, n + 1)
<1>1. e \notin B \cup F \cup W
  BY DEF AddUp
<1>2. IsFiniteSet(B \cup {e}) /\ Cardinality(B \cup {e}) = Cardinality(B) + 1
  BY <1>1, FS_AddElement DEF AddUp
<1>3. Cardinality(B) \in Nat /\ Cardinality(F) \in Nat /\ Cardinality(W) \in Nat
  BY FS_CardinalityType DEF AddUp
<1>4. Cardinality(B \cup {e}) + Cardinality(F) + Cardinality(W) + g = n + 1
  BY <1>2, <1>3 DEF AddUp
<1>5. \A t \in (B \cup {e}) \cup F \cup W : t.n <= n + 1
  <2>1. ASSUME NEW t \in (B \cup {e}) \cup F \cup W
        PROVE  t.n <= n + 1
    <3>1. CASE t = e
      BY <3>1 DEF AddUp
    <3>2. CASE t \in B \cup F \cup W
      <4>1. t \in RawTick /\ t.n \in Nat /\ t.n <= n /\ n \in Nat
        BY <3>2 DEF AddUp, RawTick
      <4> QED BY <4>1
    <3> QED BY <3>1, <3>2
  <2> QED BY <2>1
<1>6. (B \cup {e}) \cap F = {} /\ (B \cup {e}) \cap W = {} /\ B \cup {e} \in SUBSET RawTick
  BY <1>1 DEF AddUp
<1> QED BY <1>2, <1>4, <1>5, <1>6 DEF AddUp

(* A flush takes the whole buffer. *)
LEMMA TakeAddsUp ==
    ASSUME NEW B, NEW W, NEW g, NEW n, AddUp(B, {}, W, g, n)
    PROVE  AddUp({}, B, W, g, n)
<1>1. Cardinality(B) \in Nat /\ Cardinality({}) = 0 /\ Cardinality(W) \in Nat
  BY FS_CardinalityType, FS_EmptySet DEF AddUp
<1>2. Cardinality({}) + Cardinality(B) + Cardinality(W) + g = n
  BY <1>1 DEF AddUp
<1> QED BY <1>2 DEF AddUp

(* Some of a batch are written. *)
LEMMA WriteAddsUp ==
    ASSUME NEW B, NEW F, NEW W, NEW g, NEW n, AddUp(B, F, W, g, n), NEW G \in SUBSET F
    PROVE  AddUp(B, F \ G, W \cup G, g, n)
<1>1. IsFiniteSet(F) /\ IsFiniteSet(W) /\ F \cap W = {} /\ G \cap W = {} /\ F \cap G = G
  BY DEF AddUp
<1>2. IsFiniteSet(G) /\ IsFiniteSet(F \ G) /\ IsFiniteSet(W \cup G)
  BY <1>1, FS_Subset, FS_Difference, FS_Union
<1>3. Cardinality(F \ G) = Cardinality(F) - Cardinality(F \cap G)
  BY <1>1, FS_Difference
<1>4. Cardinality(W \cup G) = Cardinality(W) + Cardinality(G) - Cardinality(W \cap G)
  BY <1>1, <1>2, FS_Union
<1>5. Cardinality(W \cap G) = 0
  <2>1. W \cap G = {}
    BY <1>1
  <2> QED BY <2>1, FS_EmptySet
<1>6. /\ Cardinality(B) \in Nat /\ Cardinality(F) \in Nat /\ Cardinality(W) \in Nat
      /\ Cardinality(G) \in Nat
  BY <1>2, FS_CardinalityType DEF AddUp
<1>7. Cardinality(B) + Cardinality(F \ G) + Cardinality(W \cup G) + g = n
  <2>1. Cardinality(F \ G) = Cardinality(F) - Cardinality(G)
    BY <1>1, <1>3
  <2>2. Cardinality(W \cup G) = Cardinality(W) + Cardinality(G)
    BY <1>4, <1>5, <1>6
  <2>3. g \in Nat /\ Cardinality(B) + Cardinality(F) + Cardinality(W) + g = n
    BY DEF AddUp
  <2> QED BY <1>6, <2>1, <2>2, <2>3
<1>8. /\ F \ G \in SUBSET RawTick /\ W \cup G \in SUBSET RawTick
      /\ B \cap (F \ G) = {} /\ B \cap (W \cup G) = {} /\ (F \ G) \cap (W \cup G) = {}
      /\ \A t \in B \cup (F \ G) \cup (W \cup G) : t \in B \cup F \cup W
  BY DEF AddUp
<1> QED BY <1>2, <1>7, <1>8 DEF AddUp

(* The batch goes back to the buffer. *)
LEMMA RestageAddsUp ==
    ASSUME NEW B, NEW F, NEW W, NEW g, NEW n, AddUp(B, F, W, g, n)
    PROVE  AddUp(B \cup F, {}, W, g, n)
<1>1. IsFiniteSet(B) /\ IsFiniteSet(F) /\ B \cap F = {}
  BY DEF AddUp
<1>2. /\ IsFiniteSet(B \cup F)
      /\ Cardinality(B \cup F) = Cardinality(B) + Cardinality(F) - Cardinality(B \cap F)
  BY <1>1, FS_Union
<1>3. Cardinality(B \cap F) = 0 /\ Cardinality({}) = 0 /\ IsFiniteSet({})
  BY <1>1, FS_EmptySet
<1>4. Cardinality(B) \in Nat /\ Cardinality(F) \in Nat /\ Cardinality(W) \in Nat
  BY FS_CardinalityType DEF AddUp
<1>5. Cardinality(B \cup F) + Cardinality({}) + Cardinality(W) + g = n
  BY <1>2, <1>3, <1>4 DEF AddUp
<1>6. /\ B \cup F \in SUBSET RawTick /\ (B \cup F) \cap W = {}
      /\ \A t \in (B \cup F) \cup {} \cup W : t \in B \cup F \cup W
  BY DEF AddUp
<1> QED BY <1>2, <1>3, <1>5, <1>6 DEF AddUp

(* What was in the batch is given up. *)
LEMMA DropAddsUp ==
    ASSUME NEW B, NEW F, NEW W, NEW g, NEW n, AddUp(B, F, W, g, n)
    PROVE  AddUp(B, {}, W, g + Cardinality(F), n)
<1>1. Cardinality(B) \in Nat /\ Cardinality(F) \in Nat /\ Cardinality(W) \in Nat
  BY FS_CardinalityType DEF AddUp
<1>2. Cardinality({}) = 0 /\ IsFiniteSet({})
  BY FS_EmptySet
<1>3. Cardinality(B) + Cardinality({}) + Cardinality(W) + (g + Cardinality(F)) = n
  BY <1>1, <1>2 DEF AddUp
<1>4. g + Cardinality(F) \in Nat
  BY <1>1 DEF AddUp
<1>5. \A t \in B \cup {} \cup W : t \in B \cup F \cup W
  OBVIOUS
<1> QED BY <1>2, <1>3, <1>4, <1>5 DEF AddUp

(* What was in memory is gone. *)
LEMMA EndAddsUp ==
    ASSUME NEW B, NEW F, NEW W, NEW g, NEW n, AddUp(B, F, W, g, n)
    PROVE  AddUp({}, {}, W, g + Cardinality(B) + Cardinality(F), n)
<1>1. Cardinality(B) \in Nat /\ Cardinality(F) \in Nat /\ Cardinality(W) \in Nat
  BY FS_CardinalityType DEF AddUp
<1>2. Cardinality({}) = 0 /\ IsFiniteSet({})
  BY FS_EmptySet
<1>3. Cardinality({}) + Cardinality({}) + Cardinality(W) + (g + Cardinality(B) + Cardinality(F)) = n
  BY <1>1, <1>2 DEF AddUp
<1>4. g + Cardinality(B) + Cardinality(F) \in Nat
  BY <1>1 DEF AddUp
<1>5. \A t \in {} \cup {} \cup W : t \in B \cup F \cup W
  OBVIOUS
<1> QED BY <1>2, <1>3, <1>4, <1>5 DEF AddUp

(* Some written ticks are purged. *)
LEMMA PurgeAddsUp ==
    ASSUME NEW B, NEW F, NEW W, NEW g, NEW n, AddUp(B, F, W, g, n), NEW V \in SUBSET W
    PROVE  AddUp(B, F, V, g + Cardinality(W \ V), n)
<1>1. IsFiniteSet(W)
  BY DEF AddUp
<1>2. IsFiniteSet(V) /\ IsFiniteSet(W \ V)
  BY <1>1, FS_Subset, FS_Difference
<1>3. Cardinality(W \ V) = Cardinality(W) - Cardinality(W \cap V)
  BY <1>1, FS_Difference
<1>4. W \cap V = V
  OBVIOUS
<1>5. /\ Cardinality(B) \in Nat /\ Cardinality(F) \in Nat /\ Cardinality(W) \in Nat
      /\ Cardinality(V) \in Nat /\ Cardinality(W \ V) \in Nat
  BY <1>2, FS_CardinalityType DEF AddUp
<1>6. Cardinality(B) + Cardinality(F) + Cardinality(V) + (g + Cardinality(W \ V)) = n
  <2>1. Cardinality(W \ V) = Cardinality(W) - Cardinality(V)
    BY <1>3, <1>4
  <2>2. g \in Nat /\ Cardinality(B) + Cardinality(F) + Cardinality(W) + g = n
    BY DEF AddUp
  <2> QED BY <1>5, <2>1, <2>2
<1>7. g + Cardinality(W \ V) \in Nat
  BY <1>5 DEF AddUp
<1>8. /\ V \in SUBSET RawTick /\ B \cap V = {} /\ F \cap V = {}
      /\ \A t \in B \cup F \cup V : t \in B \cup F \cup W
  BY DEF AddUp
<1> QED BY <1>2, <1>6, <1>7, <1>8 DEF AddUp

(* The days of the run, and the day it is. *)
LEMMA DaysAreNumbers ==
    /\ LastDay \in Nat /\ Files!Days = 0 .. LastDay
    /\ phase \in 0 .. 3 * LastDay + 2 => Files!Today \in Files!Days
<1>1. LastDay \in Nat
  BY TicksAssumption DEF Files!TickAssumption
<1> QED BY <1>1 DEF Files!Days, Files!Today

(* The least of some days is one of them. *)
LEMMA LeastDay ==
    ASSUME NEW S \in SUBSET Files!Days, S # {}
    PROVE  Files!Min(S) \in S
<1>1. S \in SUBSET Nat
  BY DaysAreNumbers
<1>2. PICK b \in S : TRUE
  OBVIOUS
<1>3. \E n \in S : \A k \in S : n <= k
  BY <1>1, <1>2, LeastOf
<1> QED BY <1>3 DEF Files!Min

(* The compaction works on a date of its own. *)
LEMMA DateIsOne ==
    ASSUME StoreTyped, job.days # {}
    PROVE  Files!Date \in job.days /\ Files!Date \in Files!Days
<1>1. job.days \in SUBSET Files!Days
  BY DEF StoreTyped, Compaction
<1> QED BY <1>1, LeastDay DEF Files!Date

(* A flush writes to a date of its batch. *)
LEMMA GroupIsOne ==
    ASSUME StoreTyped, flush # Files!NoFlush
    PROVE  Files!NextGroup \in Files!Days
<1> DEFINE S == {t.day : t \in flush.todo}
<1>1. flush.todo \in SUBSET RawTick /\ flush.todo # {}
  BY DEF StoreTyped
<1>2. S \in SUBSET Files!Days /\ S # {}
  BY <1>1 DEF RawTick
<1> HIDE DEF S
<1>3. Files!Min(S) \in S
  BY <1>2, LeastDay
<1> QED BY <1>2, <1>3 DEF Files!NextGroup, S

(* One date's files change, and keep their rows. *)
LEMMA DateChanges ==
    ASSUME StoreTyped, WrittenIsReadable, NEW d \in Files!Days, NEW v \in DateFiles,
           disk' = [disk EXCEPT ![d] = v],
           Files!Readable(d) \subseteq (UNION v.frags) \cup v.compact,
           NEW G, written' = written \cup G,
           \A t \in G : t.day = d /\ t \in (UNION v.frags) \cup v.compact
    PROVE  /\ disk' \in [Files!Days -> DateFiles] /\ WrittenIsReadable'
           /\ \A x \in Files!Days : disk'[x] = IF x = d THEN v ELSE disk[x]
<1>1. disk \in [Files!Days -> DateFiles]
  BY DEF StoreTyped
<1>2. disk' \in [Files!Days -> DateFiles]
  BY <1>1
<1>3. \A x \in Files!Days : disk'[x] = IF x = d THEN v ELSE disk[x]
  BY <1>1
<1>4. ASSUME NEW t \in written'
      PROVE  t \in (UNION disk'[t.day].frags) \cup disk'[t.day].compact
  <2>1. CASE t.day = d
    <3>1. t \in (UNION v.frags) \cup v.compact
      BY <2>1 DEF WrittenIsReadable
    <3>2. disk'[t.day] = v
      BY <1>3, <2>1
    <3> QED BY <3>1, <3>2
  <2>2. CASE t.day # d
    <3>1. t \in written /\ t \in Files!Readable(t.day)
      BY <2>2 DEF WrittenIsReadable
    <3>2. disk'[t.day] = disk[t.day]
      BY <1>1, <2>2
    <3> QED BY <3>1, <3>2 DEF Files!Readable
  <2> QED BY <2>1, <2>2
<1>5. WrittenIsReadable'
  BY <1>4 DEF WrittenIsReadable, Files!Readable
<1> QED BY <1>2, <1>3, <1>5

(* The compaction still knows what it knew when no compacted file changed. *)
LEMMA JobStillKnows ==
    ASSUME StoreTyped, JobKnows, job' = job,
           \A x \in Files!Days : disk'[x].compact = disk[x].compact
    PROVE  JobKnows'
<1>1. Files!Date' = Files!Date
  BY DEF Files!Date
<1>2. CASE job.pc \in {"write", "swap", "unlink"}
  <2>1. Files!Date \in Files!Days
    BY <1>2, DateIsOne DEF JobKnows
  <2>2. disk'[Files!Date].compact = disk[Files!Date].compact
    BY <2>1
  <2> QED BY <1>1, <1>2, <2>2 DEF JobKnows
<1>3. CASE job.pc \notin {"write", "swap", "unlink"}
  BY <1>3 DEF JobKnows
<1> QED BY <1>2, <1>3

(* A flush that begins takes the buffer, whoever begins it. *)
LEMMA TakeKeeps ==
    ASSUME FilesInv, NEW by \in {"loop", "job", "close"}, Files!Take(by),
           written' = written, gone' = gone, ticks' = ticks
    PROVE  /\ EachOnce'
           /\ flush' \in [by : {"none", "loop", "job", "close"}, todo : SUBSET RawTick]
           /\ flush'.todo = {} <=> flush' = Files!NoFlush
<1>1. flush = Files!NoFlush /\ flush.todo = {}
  BY DEF Files!Take, FilesInv, StoreTyped
<1>2. AddUp(buffer, {}, written, gone, ticks)
  BY <1>1 DEF FilesInv, EachOnce
<1>3. AddUp({}, buffer, written, gone, ticks)
  BY <1>2, TakeAddsUp
<1>4. flush'.todo = buffer /\ buffer' = {}
  BY DEF Files!Take, Files!NoFlush
<1>5. EachOnce'
  BY <1>3, <1>4 DEF EachOnce, AddUp, RawTick, Files!Days
<1>6. buffer \in SUBSET RawTick
  BY <1>2 DEF AddUp
<1>7. flush' \in [by : {"none", "loop", "job", "close"}, todo : SUBSET RawTick]
  BY <1>6 DEF Files!Take, Files!NoFlush
<1>8. flush'.todo = {} <=> flush' = Files!NoFlush
  BY DEF Files!Take, Files!NoFlush
<1> QED BY <1>5, <1>7, <1>8

(* A tick is staged. *)
LEMMA StageKeeps ==
    ASSUME FilesInv, NEW d \in 0 .. Files!Today, Files!StageTick(d)
    PROVE  FilesInv'
<1> DEFINE e == [n |-> ticks + 1, day |-> d]
<1>1. Files!Today \in Files!Days /\ d \in Files!Days
  BY DaysAreNumbers DEF FilesInv, StoreTyped
<1>2. ticks \in Nat
  BY DEF FilesInv, EachOnce, AddUp
<1>3. e \in RawTick /\ e.n = ticks + 1
  BY <1>1, <1>2 DEF RawTick
<1>4. /\ buffer' = buffer \cup {e} /\ ticks' = ticks + 1
      /\ UNCHANGED <<phase, flush, job, disk, written, gone>>
  BY DEF Files!StageTick
<1> HIDE DEF e
<1>5. AddUp(buffer \cup {e}, flush.todo, written, gone, ticks + 1)
  BY <1>3, StageAddsUp DEF FilesInv, EachOnce
<1>6. EachOnce'
  BY <1>4, <1>5 DEF EachOnce, AddUp, RawTick, Files!Days
<1>7. StoreTyped' /\ WrittenIsReadable' /\ JobKnows'
  BY <1>4 DEF FilesInv, StoreTyped, WrittenIsReadable, JobKnows, Compaction, DateFiles, RawTick,
              Files!Days, Files!Readable, Files!Date, Files!NoFlush
<1> QED BY <1>6, <1>7 DEF FilesInv

(* The job at rest. *)
LEMMA Idle == Files!NoJob \in Compaction /\ Files!NoJob.pc = "idle"
BY DEF Files!NoJob, Compaction

(* A flush begins, for a due batch, for the job or at the close. *)
LEMMA FlushBegins ==
    ASSUME FilesInv, Files!FlushDue \/ Files!JobFlushes \/ Files!CloseFlushes
    PROVE  FilesInv'
<1>1. CASE Files!FlushDue
  <2>1. Files!Take("loop") /\ UNCHANGED <<phase, job, disk, ticks, written, gone>>
    BY <1>1 DEF Files!FlushDue
  <2>2. StoreTyped' /\ EachOnce'
    BY <2>1, TakeKeeps DEF FilesInv, StoreTyped, Compaction, DateFiles, RawTick, Files!Days, Files!NoFlush
  <2>3. WrittenIsReadable' /\ JobKnows'
    BY <2>1 DEF FilesInv, WrittenIsReadable, JobKnows, Files!Readable, Files!Date
  <2> QED BY <2>2, <2>3 DEF FilesInv
<1>2. CASE Files!JobFlushes
  <2>1. Files!Take("job") /\ UNCHANGED <<phase, disk, ticks, written, gone>>
    BY <1>2 DEF Files!JobFlushes
  <2>2. job' = [job EXCEPT !.pc = "flushing"] /\ job' \in Compaction /\ job'.pc = "flushing"
    BY <1>2 DEF Files!JobFlushes, FilesInv, StoreTyped, Compaction
  <2>3. StoreTyped' /\ EachOnce'
    BY <2>1, <2>2, TakeKeeps DEF FilesInv, StoreTyped, Compaction, DateFiles, RawTick, Files!Days, Files!NoFlush
  <2>4. WrittenIsReadable' /\ JobKnows'
    BY <2>1, <2>2 DEF FilesInv, WrittenIsReadable, JobKnows, Files!Readable
  <2> QED BY <2>3, <2>4 DEF FilesInv
<1>3. CASE Files!CloseFlushes
  <2>1. UNCHANGED <<phase, job, disk, ticks, written, gone>>
    BY <1>3 DEF Files!CloseFlushes
  <2>4. StoreTyped' /\ EachOnce'
    <3>1. CASE Files!Take("close")
      BY <2>1, <3>1, TakeKeeps DEF FilesInv, StoreTyped, Compaction, DateFiles, RawTick, Files!Days, Files!NoFlush
    <3>2. CASE UNCHANGED <<buffer, flush>>
      BY <2>1, <3>2 DEF FilesInv, StoreTyped, EachOnce, AddUp, Compaction, DateFiles, RawTick, Files!Days, Files!NoFlush
    <3> QED BY <1>3, <3>1, <3>2 DEF Files!CloseFlushes
  <2>5. WrittenIsReadable' /\ JobKnows'
    BY <2>1 DEF FilesInv, WrittenIsReadable, JobKnows, Files!Readable, Files!Date
  <2> QED BY <2>4, <2>5 DEF FilesInv
<1> QED BY <1>1, <1>2, <1>3

(* A date of the batch is written, beside whatever the compaction does. *)
LEMMA WriteKeeps ==
    ASSUME FilesInv, Files!WriteGroup
    PROVE  FilesInv'
<1> DEFINE d == Files!NextGroup
           group == Files!Of(d, flush.todo)
           v == [disk[d] EXCEPT !.frags = @ \cup {group}]
<1>1. d \in Files!Days
  BY GroupIsOne DEF Files!WriteGroup, FilesInv
<1>2. /\ group \in SUBSET flush.todo /\ \A t \in group : t.day = d
      /\ group \in SUBSET RawTick
  BY DEF Files!Of, FilesInv, StoreTyped
<1>3. /\ disk' = [disk EXCEPT ![d] = v] /\ written' = written \cup group
      /\ flush' = Files!Done(group) /\ UNCHANGED <<phase, buffer, job, ticks, gone>>
  BY DEF Files!WriteGroup
<1> HIDE DEF d, group
<1>4. disk[d] \in DateFiles
  BY <1>1 DEF FilesInv, StoreTyped
<1>5. /\ v \in DateFiles /\ v.frags = disk[d].frags \cup {group} /\ v.compact = disk[d].compact
  BY <1>2, <1>4 DEF DateFiles
<1> HIDE DEF v
<1>6. Files!Readable(d) \subseteq (UNION v.frags) \cup v.compact
  BY <1>5 DEF Files!Readable
<1>7. \A t \in group : t.day = d /\ t \in (UNION v.frags) \cup v.compact
  BY <1>2, <1>5
<1>8. /\ disk' \in [Files!Days -> DateFiles] /\ WrittenIsReadable'
      /\ \A x \in Files!Days : disk'[x] = IF x = d THEN v ELSE disk[x]
  <2>1. StoreTyped /\ WrittenIsReadable
    BY DEF FilesInv
  <2>2. v \in DateFiles /\ disk' = [disk EXCEPT ![d] = v] /\ written' = written \cup group
    BY <1>3, <1>5
  <2> HIDE DEF FilesInv
  <2> QED BY <1>1, <1>6, <1>7, <2>1, <2>2, DateChanges
<1>9. JobKnows'
  <2>1. \A x \in Files!Days : disk'[x].compact = disk[x].compact
    BY <1>5, <1>8
  <2> QED BY <1>3, <2>1, JobStillKnows DEF FilesInv
<1>10. /\ flush'.todo = flush.todo \ group
       /\ flush' \in [by : {"none", "loop", "job", "close"}, todo : SUBSET RawTick]
       /\ flush'.todo = {} <=> flush' = Files!NoFlush
  <2>1. CASE flush.todo = group
    <3>1. flush' = Files!NoFlush
      BY <1>3, <2>1 DEF Files!Done
    <3> QED BY <2>1, <3>1 DEF Files!NoFlush
  <2>2. CASE flush.todo # group
    <3>1. flush \in [by : {"none", "loop", "job", "close"}, todo : SUBSET RawTick]
      BY DEF FilesInv, StoreTyped
    <3>2. flush' = [flush EXCEPT !.todo = @ \ group]
      BY <1>3, <2>2 DEF Files!Done
    <3>3. /\ flush'.todo = flush.todo \ group
          /\ flush' \in [by : {"none", "loop", "job", "close"}, todo : SUBSET RawTick]
      BY <3>1, <3>2
    <3>4. flush'.todo # {}
      BY <1>2, <2>2, <3>3
    <3> QED BY <3>3, <3>4 DEF Files!NoFlush
  <2> QED BY <2>1, <2>2
<1>11. EachOnce'
  <2>1. AddUp(buffer, flush.todo \ group, written \cup group, gone, ticks)
    BY <1>2, WriteAddsUp DEF FilesInv, EachOnce
  <2> QED BY <1>3, <1>10, <2>1 DEF EachOnce, AddUp, RawTick, Files!Days
<1>12. StoreTyped'
  BY <1>3, <1>8, <1>10 DEF FilesInv, StoreTyped, Compaction, DateFiles, RawTick, Files!Days, Files!NoFlush
<1> QED BY <1>8, <1>9, <1>11, <1>12 DEF FilesInv

(* The rest of a batch goes back to the buffer, or is given up. *)
LEMMA FlushBreaks ==
    ASSUME FilesInv, Files!Restage \/ Files!CopyFails
    PROVE  FilesInv'
<1>1. flush' = Files!NoFlush /\ flush'.todo = {} /\ UNCHANGED <<phase, disk, ticks, written>>
  BY DEF Files!Restage, Files!CopyFails, Files!NoFlush
<1>2. job' = job \/ (job' = Files!NoJob /\ job'.pc = "idle" /\ job' \in Compaction)
  BY Idle DEF Files!Restage, Files!CopyFails
<1>3. WrittenIsReadable' /\ JobKnows'
  <2>1. WrittenIsReadable'
    BY <1>1 DEF FilesInv, WrittenIsReadable, Files!Readable
  <2>2. JobKnows'
    BY <1>1, <1>2 DEF FilesInv, JobKnows, Files!Date
  <2> QED BY <2>1, <2>2
<1>4. EachOnce'
  <2>1. CASE Files!Restage
    <3>1. AddUp(buffer \cup flush.todo, {}, written, gone, ticks)
      BY RestageAddsUp DEF FilesInv, EachOnce
    <3>2. buffer' = buffer \cup flush.todo /\ gone' = gone
      BY <2>1 DEF Files!Restage
    <3> QED BY <1>1, <3>1, <3>2 DEF EachOnce, AddUp, RawTick, Files!Days
  <2>2. CASE Files!CopyFails
    <3>1. AddUp(buffer, {}, written, gone + Cardinality(flush.todo), ticks)
      BY DropAddsUp DEF FilesInv, EachOnce
    <3>2. buffer' = buffer /\ gone' = gone + Cardinality(flush.todo)
      BY <2>2, SameSize DEF Files!CopyFails
    <3> QED BY <1>1, <3>1, <3>2 DEF EachOnce, AddUp, RawTick, Files!Days
  <2> QED BY <2>1, <2>2
<1>5. StoreTyped'
  <2>1. flush' \in [by : {"none", "loop", "job", "close"}, todo : SUBSET RawTick]
    BY <1>1 DEF Files!NoFlush
  <2> QED BY <1>1, <1>2, <2>1 DEF FilesInv, StoreTyped, Compaction, DateFiles, RawTick, Files!Days, Files!NoFlush
<1> QED BY <1>3, <1>4, <1>5 DEF FilesInv

(* The process ends: its memory is gone, the files stay, one perhaps torn. *)
LEMMA EndKeeps ==
    ASSUME FilesInv, NEW torn \in SUBSET {{}, Files!Truncated(Files!NextGroup)},
           torn # {} => flush # Files!NoFlush, Files!Ends(torn)
    PROVE  FilesInv'
<1>1. /\ flush' = Files!NoFlush /\ flush'.todo = {} /\ buffer' = {} /\ job' = Files!NoJob
      /\ gone' = gone + Cardinality(buffer) + Cardinality(flush.todo)
      /\ UNCHANGED <<phase, ticks, written>>
  BY SameSize DEF Files!Ends, Files!NoFlush
<1>2. job'.pc = "idle" /\ job' \in Compaction
  BY <1>1, Idle
<1>3. JobKnows'
  BY <1>2 DEF JobKnows
<1>4. EachOnce'
  <2>1. AddUp({}, {}, written, gone + Cardinality(buffer) + Cardinality(flush.todo), ticks)
    BY EndAddsUp DEF FilesInv, EachOnce
  <2> QED BY <1>1, <2>1 DEF EachOnce, AddUp, RawTick, Files!Days
<1>5. disk' \in [Files!Days -> DateFiles] /\ WrittenIsReadable'
  <2>1. CASE torn = {}
    <3>1. disk' = disk
      BY <2>1 DEF Files!Ends
    <3> QED BY <1>1, <3>1 DEF FilesInv, StoreTyped, WrittenIsReadable, Files!Readable
  <2>2. CASE torn # {}
    <3> DEFINE d == Files!NextGroup
               v == [disk[d] EXCEPT !.frags = @ \cup torn]
    <3>1. d \in Files!Days
      BY <2>2, GroupIsOne DEF FilesInv
    <3>2. disk' = [disk EXCEPT ![d] = v]
      BY <2>2 DEF Files!Ends
    <3>3. torn \in SUBSET SUBSET RawTick
      <4>1. torn \in SUBSET {{}, Files!Truncated(d)}
        OBVIOUS
      <4> HIDE DEF d
      <4>2. Files!Truncated(d) \in SUBSET RawTick
        BY <3>1 DEF Files!Truncated, RawTick
      <4> QED BY <4>1, <4>2
    <3> HIDE DEF d
    <3>4. disk[d] \in DateFiles
      BY <3>1 DEF FilesInv, StoreTyped
    <3>5. v \in DateFiles /\ v.frags = disk[d].frags \cup torn /\ v.compact = disk[d].compact
      BY <3>4, <3>3 DEF DateFiles
    <3> HIDE DEF v
    <3>6. Files!Readable(d) \subseteq (UNION v.frags) \cup v.compact
      BY <3>5 DEF Files!Readable
    <3>7. written' = written \cup {}
      BY <1>1
    <3> QED BY <3>1, <3>2, <3>5, <3>6, <3>7, DateChanges DEF FilesInv
  <2> QED BY <2>1, <2>2
<1>6. StoreTyped'
  <2>1. flush' \in [by : {"none", "loop", "job", "close"}, todo : SUBSET RawTick]
    BY <1>1 DEF Files!NoFlush
  <2> QED BY <1>1, <1>2, <1>5, <2>1 DEF FilesInv, StoreTyped, Compaction, DateFiles, RawTick, Files!Days, Files!NoFlush
<1> QED BY <1>3, <1>4, <1>5, <1>6 DEF FilesInv

(* A step of the job that leaves the files alone, and no date in work.     *)
LEMMA JobMoves ==
    ASSUME FilesInv, UNCHANGED <<phase, buffer, flush, ticks, written, gone>>,
           job' \in Compaction, job'.pc \notin {"write", "swap", "unlink"},
           disk' \in [Files!Days -> DateFiles],
           \A x \in Files!Days : Files!Readable(x) \subseteq (UNION disk'[x].frags) \cup disk'[x].compact
    PROVE  FilesInv'
<1>1. StoreTyped' /\ EachOnce'
  BY DEF FilesInv, StoreTyped, EachOnce, AddUp, Compaction, DateFiles, RawTick, Files!Days, Files!NoFlush
<1>2. WrittenIsReadable'
  <2>1. ASSUME NEW t \in written
        PROVE  t \in (UNION disk'[t.day].frags) \cup disk'[t.day].compact
    <3>1. t.day \in Files!Days
      BY DEF FilesInv, EachOnce, AddUp, RawTick
    <3> QED BY <3>1 DEF FilesInv, WrittenIsReadable
  <2> QED BY <2>1 DEF WrittenIsReadable, Files!Readable
<1>3. JobKnows'
  BY DEF JobKnows
<1> QED BY <1>1, <1>2, <1>3 DEF FilesInv

(* The next date: the compaction leaves this one. *)
LEMMA NextDateTyped ==
    ASSUME NEW j \in Compaction, StoreTyped
    PROVE  Files!NextDate(j) \in Compaction /\ Files!NextDate(j).pc = "visit"
<1>1. j.days \ {Files!Date} \in SUBSET Files!Days /\ {} \in SUBSET SUBSET RawTick
  BY DEF Compaction
<1> QED BY <1>1 DEF Files!NextDate, Compaction

(* The job starts, is stopped between two dates, or lists its dates.       *)
LEMMA JobTurns ==
    ASSUME FilesInv,
           \/ \E upto \in 0 .. Files!Today : Files!StartJob(upto)
           \/ Files!Compact \/ Files!Stopped
    PROVE  FilesInv'
<1>1. UNCHANGED <<phase, buffer, flush, disk, ticks, written, gone>>
  BY DEF Files!StartJob, Files!Compact, Files!Stopped
<1>2. job \in Compaction /\ disk \in [Files!Days -> DateFiles]
  BY DEF FilesInv, StoreTyped
<1>3. job' \in Compaction /\ job'.pc \in {"flush", "visit"}
  <2>1. CASE \E upto \in 0 .. Files!Today : Files!StartJob(upto)
    <3>1. PICK upto \in 0 .. Files!Today :
              job' = [Files!NoJob EXCEPT !.pc = "flush", !.days = {d \in Files!Days : d <= upto}]
      BY <2>1 DEF Files!StartJob
    <3>2. PICK j : j = Files!NoJob
      OBVIOUS
    <3>3. j \in Compaction
      BY <3>2, Idle
    <3>4. job' = [j EXCEPT !.pc = "flush", !.days = {d \in Files!Days : d <= upto}]
      BY <3>1, <3>2
    <3> QED BY <3>3, <3>4 DEF Compaction
  <2>2. CASE Files!Compact
    <3>1. job' = [job EXCEPT !.pc = "visit", !.today = Files!Today,
                             !.days = {d \in @ : d < Files!Today /\ disk[d] # Files!EmptyDate}]
      BY <2>2 DEF Files!Compact
    <3>2. Files!Today \in Int
      BY DaysAreNumbers DEF FilesInv, StoreTyped
    <3> QED BY <1>2, <3>1, <3>2 DEF Compaction
  <2>3. CASE Files!Stopped
    <3>1. job.pc = "visit" /\ job' = [job EXCEPT !.days = {}, !.stopped = TRUE]
      BY <2>3 DEF Files!Stopped
    <3> QED BY <1>2, <3>1 DEF Compaction
  <2> QED BY <2>1, <2>2, <2>3
<1>4. \A x \in Files!Days : Files!Readable(x) \subseteq (UNION disk'[x].frags) \cup disk'[x].compact
  BY <1>1 DEF Files!Readable
<1> QED BY <1>1, <1>2, <1>3, <1>4, JobMoves

(* A date that fails is left for the next run. *)
LEMMA DateFailsKeeps ==
    ASSUME FilesInv, Files!DateFails
    PROVE  FilesInv'
<1>1. /\ job' = [Files!NextDate(job) EXCEPT !.ok = FALSE]
      /\ UNCHANGED <<phase, buffer, flush, disk, ticks, written, gone>>
  BY DEF Files!DateFails
<1>2. PICK j : j = Files!NextDate(job)
  OBVIOUS
<1>3. j \in Compaction /\ j.pc = "visit"
  BY <1>2, NextDateTyped DEF FilesInv, StoreTyped
<1>4. job' \in Compaction /\ job'.pc = "visit"
  BY <1>1, <1>2, <1>3 DEF Compaction
<1>5. disk' \in [Files!Days -> DateFiles]
  BY <1>1 DEF FilesInv, StoreTyped
<1>6. \A x \in Files!Days : Files!Readable(x) \subseteq (UNION disk'[x].frags) \cup disk'[x].compact
  BY <1>1 DEF Files!Readable
<1> QED BY <1>1, <1>4, <1>5, <1>6, JobMoves

(* What the end of the job purges is counted as gone. *)
LEMMA EndJobKeeps ==
    ASSUME FilesInv, Files!EndJob
    PROVE  FilesInv'
<1>1. job' = Files!NoJob /\ UNCHANGED <<phase, buffer, flush, ticks>>
  BY DEF Files!EndJob
<1>2. job' \in Compaction /\ job'.pc = "idle"
  BY <1>1, Idle
<1>3. CASE UNCHANGED <<disk, written, gone>>
  <2>1. disk' \in [Files!Days -> DateFiles]
    BY <1>3 DEF FilesInv, StoreTyped
  <2>2. \A x \in Files!Days : Files!Readable(x) \subseteq (UNION disk'[x].frags) \cup disk'[x].compact
    BY <1>3 DEF Files!Readable
  <2> QED BY <1>1, <1>2, <1>3, <2>1, <2>2, JobMoves
<1>4. CASE /\ disk' = [d \in Files!Days |-> IF d \in Files!Expired THEN Files!EmptyDate ELSE disk[d]]
           /\ written' = {t \in written : t.day \notin Files!Expired}
           /\ gone' = gone + Cardinality(written \ written')
  <2>1. Files!EmptyDate \in DateFiles
    BY DEF Files!EmptyDate, DateFiles
  <2>2. disk' \in [Files!Days -> DateFiles]
    BY <1>4, <2>1 DEF FilesInv, StoreTyped
  <2>3. WrittenIsReadable'
    <3>1. ASSUME NEW t \in written'
          PROVE  t \in (UNION disk'[t.day].frags) \cup disk'[t.day].compact
      <4>1. t \in written /\ t.day \notin Files!Expired
        BY <1>4
      <4>2. t.day \in Files!Days /\ t \in Files!Readable(t.day)
        BY <4>1 DEF FilesInv, EachOnce, AddUp, RawTick, WrittenIsReadable
      <4>3. disk'[t.day] = disk[t.day]
        BY <1>4, <4>1, <4>2
      <4> QED BY <4>2, <4>3 DEF Files!Readable
    <3> QED BY <3>1 DEF WrittenIsReadable, Files!Readable
  <2>4. EachOnce'
    <3>1. written' \in SUBSET written
      BY <1>4
    <3>2. AddUp(buffer, flush.todo, written', gone + Cardinality(written \ written'), ticks)
      BY <3>1, PurgeAddsUp DEF FilesInv, EachOnce
    <3> QED BY <1>1, <1>4, <3>2 DEF EachOnce, AddUp, RawTick, Files!Days
  <2>5. StoreTyped'
    BY <1>1, <1>2, <2>2 DEF FilesInv, StoreTyped, Compaction, DateFiles, RawTick, Files!Days, Files!NoFlush
  <2>6. JobKnows'
    BY <1>2 DEF JobKnows
  <2> QED BY <2>3, <2>4, <2>5, <2>6 DEF FilesInv
<1> QED BY <1>3, <1>4, SameSize DEF Files!EndJob

(* A step of the job on the files of its date. *)
LEMMA WorkKeeps ==
    ASSUME FilesInv, UNCHANGED <<phase, buffer, flush, ticks, written, gone>>, job.days # {},
           NEW v \in DateFiles, disk' = [disk EXCEPT ![Files!Date] = v],
           Files!Readable(Files!Date) \subseteq (UNION v.frags) \cup v.compact,
           job' \in Compaction,
           job'.pc \in {"write", "swap", "unlink"} =>
               /\ job'.days = job.days
               /\ job'.pc \in {"write", "swap"} => v.compact = {}
               /\ job'.pc = "unlink" => UNION job'.files \subseteq v.compact
    PROVE  FilesInv'
<1>1. Files!Date \in Files!Days
  BY DateIsOne DEF FilesInv
<1> DEFINE d == Files!Date
<1>2. /\ disk' \in [Files!Days -> DateFiles] /\ WrittenIsReadable'
      /\ \A x \in Files!Days : disk'[x] = IF x = d THEN v ELSE disk[x]
  <2>1. StoreTyped /\ WrittenIsReadable
    BY DEF FilesInv
  <2>2. written' = written \cup {} /\ disk' = [disk EXCEPT ![d] = v]
    OBVIOUS
  <2>3. d \in Files!Days /\ Files!Readable(d) \subseteq (UNION v.frags) \cup v.compact
    BY <1>1
  <2> HIDE DEF FilesInv, d
  <2> QED BY <2>1, <2>2, <2>3, DateChanges
<1>3. StoreTyped' /\ EachOnce'
  BY <1>2 DEF FilesInv, StoreTyped, EachOnce, AddUp, Compaction, DateFiles, RawTick, Files!Days, Files!NoFlush
<1>4. JobKnows'
  <2>1. CASE job'.pc \in {"write", "swap", "unlink"}
    <3>1. Files!Date' = d
      BY <2>1 DEF Files!Date
    <3>2. disk'[d] = v
      BY <1>1, <1>2
    <3> QED BY <2>1, <3>1, <3>2 DEF JobKnows
  <2>2. CASE job'.pc \notin {"write", "swap", "unlink"}
    BY <2>2 DEF JobKnows
  <2> QED BY <2>1, <2>2
<1> QED BY <1>2, <1>3, <1>4 DEF FilesInv

(* The first look at a date: torn fragments go, they have no rows.         *)
LEMMA VisitKeeps ==
    ASSUME FilesInv, Files!Visit
    PROVE  FilesInv'
<1> DEFINE d == Files!Date
           sound == disk[d].frags \ {{}}
           tidy == [disk[d] EXCEPT !.tmp = FALSE]
           sorted == [disk[d] EXCEPT !.frags = sound]
<1>1. job.days # {} /\ UNCHANGED <<phase, buffer, flush, ticks, written, gone>>
  BY DEF Files!Visit
<1>2. d \in Files!Days
  BY <1>1, DateIsOne DEF FilesInv
<1>3. job \in Compaction /\ disk[d] \in DateFiles
  BY <1>2 DEF FilesInv, StoreTyped
<1>4. \/ disk' = [disk EXCEPT ![d] = tidy] /\ job' = Files!NextDate(job)
      \/ /\ disk' = [disk EXCEPT ![d] = sorted]
         /\ \/ job' = Files!NextDate(job)
            \/ \E ok \in BOOLEAN : job' = [Files!NextDate(job) EXCEPT !.ok = @ /\ ok]
            \/ job' = [Files!NextDate(job) EXCEPT !.ok = FALSE]
            \/ disk[d].compact = {} /\ job' = [job EXCEPT !.pc = "write", !.files = sound]
            \/ UNION sound \subseteq disk[d].compact /\ job' = [job EXCEPT !.pc = "unlink", !.files = sound]
  BY DEF Files!Visit, Files!Absorbed
<1> HIDE DEF d
<1>5. /\ tidy \in DateFiles /\ tidy.frags = disk[d].frags /\ tidy.compact = disk[d].compact
      /\ sound \in SUBSET SUBSET RawTick /\ UNION sound = UNION disk[d].frags
      /\ sorted \in DateFiles /\ sorted.frags = sound /\ sorted.compact = disk[d].compact
  BY <1>3 DEF DateFiles
<1> HIDE DEF sound, tidy, sorted
<1>6. PICK v \in {tidy, sorted} : disk' = [disk EXCEPT ![d] = v]
  BY <1>4
<1>7. /\ v \in DateFiles /\ v.compact = disk[d].compact
      /\ Files!Readable(d) \subseteq (UNION v.frags) \cup v.compact
  BY <1>5, <1>6 DEF Files!Readable
<1>8. PICK j : j = Files!NextDate(job)
  OBVIOUS
<1>9. j \in Compaction /\ j.pc = "visit"
  BY <1>3, <1>8, NextDateTyped DEF FilesInv
<1>10. /\ job' \in Compaction
       /\ job'.pc \in {"write", "swap", "unlink"} =>
              /\ job'.days = job.days
              /\ job'.pc \in {"write", "swap"} => v.compact = {}
              /\ job'.pc = "unlink" => UNION job'.files \subseteq v.compact
  <2>1. CASE job' = j
    BY <1>9, <2>1
  <2>2. CASE \E ok \in BOOLEAN : job' = [j EXCEPT !.ok = @ /\ ok]
    <3>1. PICK ok \in BOOLEAN : job' = [j EXCEPT !.ok = @ /\ ok]
      BY <2>2
    <3>2. (j.ok /\ ok) \in BOOLEAN
      OBVIOUS
    <3>3. job' \in Compaction /\ job'.pc = "visit"
      BY <1>9, <3>1, <3>2 DEF Compaction
    <3> QED BY <3>3
  <2>3. CASE job' = [j EXCEPT !.ok = FALSE]
    <3>1. job' \in Compaction /\ job'.pc = "visit"
      BY <1>9, <2>3 DEF Compaction
    <3> QED BY <3>1
  <2>4. CASE disk[d].compact = {} /\ job' = [job EXCEPT !.pc = "write", !.files = sound]
    <3>1. job' \in Compaction /\ job'.pc = "write" /\ job'.days = job.days
      BY <1>3, <1>5, <2>4 DEF Compaction
    <3> QED BY <1>7, <2>4, <3>1
  <2>5. CASE UNION sound \subseteq disk[d].compact /\ job' = [job EXCEPT !.pc = "unlink", !.files = sound]
    <3>1. job' \in Compaction /\ job'.pc = "unlink" /\ job'.days = job.days /\ job'.files = sound
      BY <1>3, <1>5, <2>5 DEF Compaction
    <3> QED BY <1>7, <2>5, <3>1
  <2> QED BY <1>4, <1>8, <2>1, <2>2, <2>3, <2>4, <2>5
<1> QED BY <1>1, <1>6, <1>7, <1>10, WorkKeeps DEF d

(* The compacted file is written aside and takes its place, whole.         *)
LEMMA SwapKeeps ==
    ASSUME FilesInv, Files!WriteTmp \/ Files!Swap
    PROVE  FilesInv'
<1> DEFINE d == Files!Date
           opens == Files!Truncated(d) \notin job.files
           aside == [disk[d] EXCEPT !.tmp = opens]
           whole == [disk[d] EXCEPT !.tmp = FALSE, !.compact = UNION job.files]
<1>1. /\ job.pc \in {"write", "swap"} /\ job.days # {} /\ disk[d].compact = {}
      /\ UNCHANGED <<phase, buffer, flush, ticks, written, gone>>
  BY DEF Files!WriteTmp, Files!Swap, FilesInv, JobKnows
<1>2. d \in Files!Days
  BY <1>1, DateIsOne DEF FilesInv
<1>3. job \in Compaction /\ disk[d] \in DateFiles
  BY <1>2 DEF FilesInv, StoreTyped
<1>4. UNION job.files \in SUBSET RawTick
  BY <1>3 DEF Compaction
<1>5. /\ aside \in DateFiles /\ aside.frags = disk[d].frags /\ aside.compact = {}
      /\ whole \in DateFiles /\ whole.frags = disk[d].frags /\ whole.compact = UNION job.files
  <2>1. opens \in BOOLEAN
    OBVIOUS
  <2> HIDE DEF opens, d
  <2> QED BY <1>1, <1>3, <1>4, <2>1 DEF DateFiles
<1>6. Files!Readable(d) \subseteq UNION disk[d].frags
  BY <1>1 DEF Files!Readable
<1>7. CASE Files!WriteTmp
  <2>1. /\ disk' = [disk EXCEPT ![d] = aside]
        /\ job' = IF opens THEN [job EXCEPT !.pc = "swap"] ELSE [Files!NextDate(job) EXCEPT !.ok = FALSE]
    BY <1>7 DEF Files!WriteTmp
  <2>2. /\ job' \in Compaction
        /\ (job'.pc = "swap" /\ job'.days = job.days) \/ job'.pc = "visit"
    <3>1. CASE opens
      <4>1. job' = [job EXCEPT !.pc = "swap"]
        BY <2>1, <3>1
      <4> QED BY <1>3, <4>1 DEF Compaction
    <3>2. CASE ~opens
      <4>1. PICK j : j = Files!NextDate(job)
        OBVIOUS
      <4>2. j \in Compaction /\ j.pc = "visit" /\ job' = [j EXCEPT !.ok = FALSE]
        BY <1>3, <2>1, <3>2, <4>1, NextDateTyped DEF FilesInv
      <4> QED BY <4>2 DEF Compaction
    <3> QED BY <3>1, <3>2
  <2> HIDE DEF d, aside, opens
  <2>3. Files!Readable(d) \subseteq (UNION aside.frags) \cup aside.compact
    BY <1>5, <1>6
  <2> QED BY <1>1, <1>5, <2>1, <2>2, <2>3, WorkKeeps DEF d
<1>8. CASE Files!Swap
  <2>1. disk' = [disk EXCEPT ![d] = whole] /\ job' = [job EXCEPT !.pc = "unlink"]
    BY <1>8 DEF Files!Swap
  <2>2. job' \in Compaction /\ job'.pc = "unlink" /\ job'.days = job.days /\ job'.files = job.files
    BY <1>3, <2>1 DEF Compaction
  <2> HIDE DEF d, whole
  <2>3. Files!Readable(d) \subseteq (UNION whole.frags) \cup whole.compact
    BY <1>5, <1>6
  <2>4. UNION job'.files \subseteq whole.compact
    BY <1>5, <2>2
  <2> QED BY <1>1, <1>5, <2>1, <2>2, <2>3, <2>4, WorkKeeps DEF d
<1> QED BY <1>7, <1>8

(* A fragment goes; its rows are in the compacted file. *)
LEMMA UnlinkKeeps ==
    ASSUME FilesInv, Files!Unlink
    PROVE  FilesInv'
<1> DEFINE d == Files!Date
<1>1. /\ job.pc = "unlink" /\ job.days # {} /\ UNION job.files \subseteq disk[d].compact
      /\ UNCHANGED <<phase, buffer, flush, ticks, written, gone>>
  BY DEF Files!Unlink, FilesInv, JobKnows
<1>2. d \in Files!Days
  BY <1>1, DateIsOne DEF FilesInv
<1>3. job \in Compaction /\ disk[d] \in DateFiles
  BY <1>2 DEF FilesInv, StoreTyped
<1>4. PICK f \in job.files :
        /\ disk' = [disk EXCEPT ![d] = [disk[d] EXCEPT !.frags = @ \ {f}]]
        /\ job' = IF job.files = {f} THEN Files!NextDate(job) ELSE [job EXCEPT !.files = @ \ {f}]
  BY DEF Files!Unlink
<1> DEFINE v == [disk[d] EXCEPT !.frags = @ \ {f}]
<1>5. v \in DateFiles /\ v.frags = disk[d].frags \ {f} /\ v.compact = disk[d].compact
  BY <1>3 DEF DateFiles
<1>6. disk' = [disk EXCEPT ![d] = v]
  BY <1>4
<1> HIDE DEF d, v
<1>7. Files!Readable(d) \subseteq (UNION v.frags) \cup v.compact
  <2>1. f \subseteq disk[d].compact
    BY <1>1, <1>4
  <2>2. ASSUME NEW x \in UNION disk[d].frags, x \notin disk[d].compact
        PROVE  x \in UNION v.frags
    <3>1. PICK g \in disk[d].frags : x \in g
      OBVIOUS
    <3>2. g \in v.frags
      BY <1>5, <2>1, <2>2, <3>1
    <3> QED BY <3>1, <3>2
  <2>3. Files!Readable(d) = (UNION disk[d].frags) \cup disk[d].compact
    BY DEF Files!Readable
  <2>4. ASSUME NEW x \in Files!Readable(d)
        PROVE  x \in (UNION v.frags) \cup disk[d].compact
    <3>1. CASE x \in disk[d].compact
      BY <3>1
    <3>2. CASE x \notin disk[d].compact
      <4>1. x \in UNION disk[d].frags
        BY <2>3, <3>2
      <4>2. x \in UNION v.frags
        BY <2>2, <3>2, <4>1
      <4> QED BY <4>2
    <3> QED BY <3>1, <3>2
  <2>5. v.compact = disk[d].compact
    BY <1>5
  <2> QED BY <2>4, <2>5
<1>8. /\ job' \in Compaction
      /\ \/ job'.pc = "visit"
         \/ job'.pc = "unlink" /\ job'.days = job.days /\ job'.files = job.files \ {f}
  <2>1. CASE job.files = {f}
    <3>1. job' = Files!NextDate(job)
      BY <1>4, <2>1
    <3> QED BY <1>3, <3>1, NextDateTyped DEF FilesInv
  <2>2. CASE job.files # {f}
    <3>1. job' = [job EXCEPT !.files = @ \ {f}]
      BY <1>4, <2>2
    <3>2. job.files \ {f} \in SUBSET SUBSET RawTick
      BY <1>3 DEF Compaction
    <3> QED BY <1>1, <1>3, <3>1, <3>2 DEF Compaction
  <2> QED BY <2>1, <2>2
<1>9. job'.pc = "unlink" => UNION job'.files \subseteq v.compact
  BY <1>1, <1>5, <1>8
<1> QED BY <1>1, <1>5, <1>6, <1>7, <1>8, <1>9, WorkKeeps DEF d

(***************************************************************************)
(* For any number of ticks, days, flushes, crashes and failing file        *)
(* operations: a row that a flush has written stays readable until its     *)
(* date is purged, and every staged tick is at exactly one place           *)
(* (marketdata/store.py _flush_locked and close, marketdata/               *)
(* tick_compact.py _compact_symbol_day, ops/main.py job_tick_compact).     *)
(***************************************************************************)
THEOREM WrittenTicksAreKept == Files!Spec => []Files!TicksKept
<1>1. Files!Init => FilesInv
  <2> SUFFICES ASSUME Files!Init PROVE FilesInv
    OBVIOUS
  <2>1. /\ phase = 0 /\ buffer = {} /\ flush = Files!NoFlush /\ job = Files!NoJob
        /\ disk = [d \in Files!Days |-> Files!EmptyDate] /\ ticks = 0 /\ written = {} /\ gone = 0
    BY DEF Files!Init
  <2>2. StoreTyped
    <3>1. Files!EmptyDate \in DateFiles
      BY DEF Files!EmptyDate, DateFiles
    <3>2. disk \in [Files!Days -> DateFiles]
      BY <2>1, <3>1
    <3>3. phase \in 0 .. 3 * LastDay + 2
      BY <2>1, DaysAreNumbers
    <3>4. /\ flush \in [by : {"none", "loop", "job", "close"}, todo : SUBSET RawTick]
          /\ flush.todo = {} /\ flush = Files!NoFlush
      BY <2>1 DEF Files!NoFlush
    <3> QED BY <2>1, <3>2, <3>3, <3>4, Idle DEF StoreTyped
  <2>3. EachOnce
    <3>1. flush.todo = {}
      BY <2>1 DEF Files!NoFlush
    <3>2. Cardinality({}) = 0 /\ IsFiniteSet({})
      BY FS_EmptySet
    <3> QED BY <2>1, <3>1, <3>2 DEF EachOnce, AddUp
  <2>4. WrittenIsReadable
    BY <2>1 DEF WrittenIsReadable
  <2>5. JobKnows
    BY <2>1, Idle DEF JobKnows
  <2> QED BY <2>2, <2>3, <2>4, <2>5 DEF FilesInv
<1>2. FilesInv /\ [Files!Next]_(Files!vars) => FilesInv'
  <2> SUFFICES ASSUME FilesInv, [Files!Next]_(Files!vars) PROVE FilesInv'
    OBVIOUS
  <2>1. CASE \E d \in 0 .. Files!Today : Files!StageTick(d)
    BY <2>1, StageKeeps
  <2>2. CASE \/ \E d \in 0 .. Files!Today : Files!StartJob(d)
             \/ Files!Compact \/ Files!Stopped
    BY <2>2, JobTurns
  <2>3. CASE Files!FlushDue \/ Files!JobFlushes \/ Files!CloseFlushes
    BY <2>3, FlushBegins
  <2>4. CASE Files!WriteGroup
    BY <2>4, WriteKeeps
  <2>5. CASE Files!Restage \/ Files!CopyFails
    BY <2>5, FlushBreaks
  <2>6. CASE Files!Visit
    BY <2>6, VisitKeeps
  <2>7. CASE Files!WriteTmp \/ Files!Swap
    BY <2>7, SwapKeeps
  <2>8. CASE Files!Unlink
    BY <2>8, UnlinkKeeps
  <2>9. CASE Files!DateFails
    BY <2>9, DateFailsKeeps
  <2>10. CASE Files!EndJob
    BY <2>10, EndJobKeeps
  <2>11. CASE Files!Exit
    <3>1. Files!Ends({})
      BY <2>11 DEF Files!Exit
    <3> QED BY <3>1, EndKeeps
  <2>12. CASE Files!Crash
    <3>1. PICK torn \in SUBSET {{}, Files!Truncated(Files!NextGroup)} :
            Files!Ends(torn) /\ (torn # {} => flush # Files!NoFlush)
      BY <2>12 DEF Files!Crash
    <3> QED BY <3>1, EndKeeps
  <2>13. CASE /\ UNCHANGED <<buffer, flush, job, disk, ticks, written, gone>>
              /\ phase' \in 0 .. 3 * LastDay + 2
    BY <2>13 DEF FilesInv, StoreTyped, EachOnce, AddUp, WrittenIsReadable, JobKnows, Compaction,
                 DateFiles, RawTick, Files!Days, Files!Readable, Files!Date, Files!NoFlush
  <2>14. CASE Files!Tick
    <3>1. phase' \in 0 .. 3 * LastDay + 2
      BY <2>14, DaysAreNumbers DEF Files!Tick, FilesInv, StoreTyped
    <3> QED BY <2>13, <2>14, <3>1 DEF Files!Tick
  <2>15. CASE Files!Stop \/ Files!Close \/ Files!Boot \/ UNCHANGED Files!vars
    <3>1. UNCHANGED <<phase, buffer, flush, job, disk, ticks, written, gone>>
      BY <2>15 DEF Files!Stop, Files!Close, Files!Boot, Files!vars
    <3> QED BY <2>13, <3>1 DEF FilesInv, StoreTyped
  <2> QED BY <2>1, <2>2, <2>3, <2>4, <2>5, <2>6, <2>7, <2>8, <2>9, <2>10, <2>11, <2>12, <2>14, <2>15
          DEF Files!Next, Files!FlushEnds, Files!JobWorks, Files!Process
<1> QED BY <1>1, <1>2, KeptCounted, PTL DEF Files!Spec

=============================================================================
