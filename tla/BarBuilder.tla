----------------------------- MODULE BarBuilder -----------------------------
(***************************************************************************)
(* Ticks to one-minute bars: BarBuilder (marketdata/bar_builder.py), the   *)
(* rows of bars_1m it shares with the gap fill (backfill.py) and with the  *)
(* nightly reconcile, and the amendment of a stored bar by a late tick     *)
(* (MarketStore.amend_bar_1m_extremes).                                    *)
(*                                                                         *)
(* One symbol, one session.  A tick may carry any minute that has begun,   *)
(* any price and any cumulative volume, in any order.  A row keeps source, *)
(* low and high; open, close and the auction price are left out.  Ticks    *)
(* outside the session only advance.  on_tick runs on the event loop and   *)
(* does not await: it is one action.  The write of finalized bars may      *)
(* fail; a tick whose amendment or correction raises is not heard.         *)
(***************************************************************************)
EXTENDS Integers, FiniteSetsExt, SequencesExt

CONSTANTS
    LastMinute,         \* minutes 0 (the session open's) .. LastMinute
    Prints,             \* what ticks may carry: price and cumulative volume
    RECENT_BARS_PER_SYMBOL,
    MaxStops,           \* bound on the stops of the process
    MaxLost             \* bound on the minutes whose write fails, and the stops before

ASSUME BarAssumption ==
    /\ LastMinute \in Nat /\ {MaxStops, MaxLost} \subseteq Nat
    /\ Prints \subseteq [price : Nat, volume : Nat] /\ Prints # {}
    /\ RECENT_BARS_PER_SYMBOL \in Nat \ {0}

Minute == 0 .. LastMinute
Price == {p.price : p \in Prints}
Nothing == -1                   \* no volume baseline, no finalized minute

VARIABLES
    now,                \* half minutes: minute m begins at 2m, its grace ends at 2m + 3
    open,               \* _open: the minutes being built, each with low, high, volume
    last_cum,           \* _last_cum
    finalized_through,  \* _finalized_through
    recent,             \* _recent, least recently remembered first
    rows,               \* bars_1m: [src, low, high] of the minutes that have a row
    filling,            \* warmup_gap awaits the candles of these minutes
    stops,
    counted, published, seen,       \* of this process: volume finalized, or traded before its first
                                    \* tick; minutes published; prices heard of each (history)
    restated,                       \* minutes published at or before a published one (history)
    lost                            \* of this process: minutes whose write failed (history)

builder == <<open, last_cum, finalized_through, recent>>
history == <<counted, published, seen, restated, lost>>
barVars == <<now, builder, rows, filling, stops, history>>

Boots ==
    /\ open' = <<>> /\ last_cum' = Nothing /\ finalized_through' = Nothing /\ recent' = <<>>
    /\ counted' = 0 /\ published' = {} /\ restated' = {} /\ lost' = {}
    /\ seen' = [m \in Minute |-> {}]

BarInit ==
    /\ now = 0 /\ rows = <<>> /\ filling = {} /\ stops = 0
    /\ open = <<>> /\ last_cum = Nothing /\ finalized_through = Nothing /\ recent = <<>>
    /\ counted = 0 /\ published = {} /\ restated = {} /\ lost = {}
    /\ seen = [m \in Minute |-> {}]

Without(f, S) == [m \in DOMAIN f \ S |-> f[m]]
With(f, m, value) == [k \in DOMAIN f \cup {m} |-> IF k = m THEN value ELSE f[k]]

Low(a, b) == IF a < b THEN a ELSE b
High(a, b) == IF a < b THEN b ELSE a
Widened(bar, price) == [bar EXCEPT !.low = Low(@, price), !.high = High(@, price)]
InRange(bar, price) == bar.low <= price /\ price <= bar.high
-----------------------------------------------------------------------------
(***************************************************************************)
(* _remember: a placeholder never evicts a range.                          *)
(***************************************************************************)
Remembers(memory, m) == \E i \in DOMAIN memory : memory[i].minute = m
Others(memory, m) == RemoveFirstMatch(memory, LAMBDA e : e.minute = m)
Newest(memory) == SubSeq(memory, High(1, Len(memory) - RECENT_BARS_PER_SYMBOL + 1), Len(memory))

Remember(memory, bar) ==
    IF /\ ~bar.ranged /\ ~Remembers(memory, bar.minute)
       /\ Len(memory) >= RECENT_BARS_PER_SYMBOL /\ Head(memory).ranged
    THEN memory
    ELSE Newest(Append(Others(memory, bar.minute), bar))

Ranged(m, bar) == [minute |-> m, low |-> bar.low, high |-> bar.high, ranged |-> TRUE]
Placeholder(m) == [minute |-> m, low |-> 0, high |-> 0, ranged |-> FALSE]

(* The minutes in due, the last one last. *)
RememberAll(memory, bars, due) ==
    MapThenFoldSet(LAMBDA bar, mem : Remember(mem, bar), memory,
                   LAMBDA m : Ranged(m, bars[m]), Max, due)

VolumeOf(bars, S) == FoldFunctionOnSet(+, 0, [m \in DOMAIN bars |-> bars[m].volume], S)

(***************************************************************************)
(* _write_and_publish: one upsert, then the bars on the bus.  A write that *)
(* raises takes the bars with it: they were popped before.                 *)
(***************************************************************************)
WriteAndPublish(bars, table, due) ==
    /\ rows' = [m \in DOMAIN table \cup due |->
                  IF m \in due THEN [src |-> "self", low |-> bars[m].low, high |-> bars[m].high]
                  ELSE table[m]]
    /\ published' = published \cup due
    /\ restated' = restated \cup {m \in due : \E k \in published : m <= k}
    /\ UNCHANGED lost

WriteFails(table, due) ==
    /\ due # {} /\ stops + Cardinality(lost \cup due) <= MaxLost
    /\ rows' = table /\ lost' = lost \cup due
    /\ UNCHANGED <<published, restated>>

(* _advance: the minutes in due, in order, on the bars, memory and rows    *)
(* that the tick has left.                                                 *)
Finalize(bars, memory, table, due) ==
    /\ open' = Without(bars, due)
    /\ finalized_through' = Max({finalized_through} \cup due)
    /\ recent' = RememberAll(memory, bars, due)
    /\ WriteAndPublish(bars, table, due) \/ WriteFails(table, due)

Due(bars) == {m \in DOMAIN bars : 2 * m + 3 <= now}

Counts(before, bars) == counted' = before + VolumeOf(bars, Due(bars))

(* advance, on the coarse timer, or by a tick outside the session. *)
Advance ==
    /\ Due(open) # {}
    /\ Finalize(open, recent, rows, Due(open)) /\ Counts(counted, open)
    /\ UNCHANGED <<now, last_cum, filling, stops, seen>>

-----------------------------------------------------------------------------
(* Mutant of the next definition: the baseline follows a glitch down.      *)
HighWaterLost(cum) == cum

HighWater(cum) == High(last_cum, cum)

(* _volume_delta: first sight, a decrease, the ordinary difference.        *)
VolumeDelta(m, cum) ==
    IF last_cum = Nothing THEN (IF m = 0 THEN cum ELSE 0)
    ELSE IF cum < last_cum THEN 0 ELSE cum - last_cum

(* _merge. *)
Merged(m, price, volume) ==
    With(open, m,
         IF m \in DOMAIN open
         THEN [Widened(open[m], price) EXCEPT !.volume = @ + volume]
         ELSE [low |-> price, high |-> price, volume |-> volume])

Hears(m, price) == seen' = [seen EXCEPT ![m] = @ \cup {price}]

OnTime(m, price, cum) ==
    /\ last_cum' = IF last_cum = Nothing THEN cum ELSE HighWater(cum)
    /\ LET bars == Merged(m, price, VolumeDelta(m, cum))
           before == IF last_cum = Nothing /\ m # 0 THEN cum ELSE counted
       IN  Finalize(bars, recent, rows, Due(bars)) /\ Counts(before, bars)

(***************************************************************************)
(* _handle_late_tick: in the remembered range the store is not asked; else *)
(* amend_bar_1m_extremes widens a row that is the builder's own.           *)
(***************************************************************************)
KnownInRange(m, price) ==
    \E i \in DOMAIN recent :
        recent[i].minute = m /\ recent[i].ranged /\ InRange(recent[i], price)

Accepts(m) == m \in DOMAIN rows /\ rows[m].src = "self"

(* Mutant of the next definition: a placeholder is taken for a range.      *)
NotedAsRange(m, price) ==
    IF ~Remembers(recent, m) THEN Remember(recent, [Placeholder(m) EXCEPT !.high = price, !.ranged = TRUE])
    ELSE [i \in DOMAIN recent |->
            IF recent[i].minute = m THEN Widened(recent[i], price) ELSE recent[i]]

Noted(m, price) ==
    IF ~Remembers(recent, m) THEN Remember(recent, Placeholder(m))
    ELSE [i \in DOMAIN recent |->
            IF recent[i].minute = m /\ recent[i].ranged /\ Accepts(m)
            THEN Widened(recent[i], price) ELSE recent[i]]

Late(m, price) ==
    /\ UNCHANGED last_cum /\ Counts(counted, open)
    /\ IF KnownInRange(m, price)
       THEN Finalize(open, recent, rows, Due(open))
       ELSE Finalize(open, Noted(m, price),
                     IF Accepts(m) THEN With(rows, m, Widened(rows[m], price)) ELSE rows,
                     Due(open))

(* Mutant of the next definition: only minutes before the last are late.   *)
IsLateStrictly(m) == m < finalized_through

IsLate(m) == m <= finalized_through

OnTick(m, price, cum) ==
    /\ 2 * m <= now
    /\ IF IsLate(m) THEN Late(m, price) ELSE OnTime(m, price, cum)
    /\ Hears(m, price)
    /\ UNCHANGED <<now, filling, stops>>

-----------------------------------------------------------------------------
(***************************************************************************)
(* Other writers.  warmup_gap reads which minutes have no row, awaits the  *)
(* broker, and writes the candles of those minutes that it got.  The       *)
(* reconcile after the close writes the official candle of every minute.   *)
(***************************************************************************)
Candle(source) == [src |-> source, low |-> Min(Price), high |-> Min(Price)]

Fill(S, source) ==
    rows' = [m \in DOMAIN rows \cup S |-> IF m \in S THEN Candle(source) ELSE rows[m]]

GapsRead ==
    /\ filling = {}
    /\ filling' = {m \in Minute : 2 * m < now} \ DOMAIN rows
    /\ filling' # {}
    /\ UNCHANGED <<now, builder, rows, stops, history>>

GapsFilled ==
    /\ filling # {} /\ filling' = {}
    /\ \E S \in SUBSET filling : Fill(S, "gap_backfilled")
    /\ UNCHANGED <<now, builder, stops, history>>

Reconcile ==
    /\ now = 2 * LastMinute + 3
    /\ Fill(Minute, "kite_official")
    /\ UNCHANGED <<now, builder, filling, stops, history>>

(* flush_all on the way out, or a crash; then a boot with nothing in memory. *)
FlushAll ==
    rows' = [m \in DOMAIN rows \cup DOMAIN open |->
               IF m \in DOMAIN open
               THEN [src |-> "self", low |-> open[m].low, high |-> open[m].high]
               ELSE rows[m]]

Stop ==
    /\ stops < MaxStops /\ stops' = stops + 1
    /\ FlushAll \/ UNCHANGED rows
    /\ Boots /\ filling' = {}
    /\ UNCHANGED now

ClockTick ==
    /\ now < 2 * LastMinute + 3 /\ now' = now + 1
    /\ UNCHANGED <<builder, rows, filling, stops, history>>

BarNext ==
    \/ \E m \in Minute, p \in Prints : OnTick(m, p.price, p.volume)
    \/ Advance \/ GapsRead \/ GapsFilled \/ Reconcile \/ Stop \/ ClockTick

BarSpec == BarInit /\ [][BarNext]_barVars

-----------------------------------------------------------------------------
(***************************************************************************)
(* "Close and volume are never restated post-finalize": a minute is built, *)
(* written and published once by a process, and after every earlier one,   *)
(* in whatever order its ticks arrive.                                     *)
(***************************************************************************)
BuiltOnceInOrder ==
    restated = {} /\ \A m \in DOMAIN open, k \in published : k < m

(***************************************************************************)
(* Volume is the difference of the cumulative volume (A13): the bars built *)
(* add up, with what was traded before the first tick of a process started *)
(* after the open, to the highest value heard, whatever was late, out of   *)
(* order or restated downwards.                                            *)
(***************************************************************************)
VolumeAddsUp ==
    counted + VolumeOf(open, DOMAIN open) = IF last_cum = Nothing THEN 0 ELSE last_cum

(***************************************************************************)
(* The late-tick rule: a stored bar that is the builder's own covers every *)
(* price heard of its minute, though most late ticks never reach the store *)
(* and the memory that answers for it forgets -- unless the minute's own   *)
(* write failed: the memory then answers for a row that is not there.      *)
(***************************************************************************)
LateExtremesKept ==
    \A m \in DOMAIN rows :
        (rows[m].src = "self" /\ m <= finalized_through /\ m \notin lost) =>
            \A price \in seen[m] : InRange(rows[m], price)

(* The stored bars agree with the day's volume and with the prices heard. *)
BarsAreTrue == VolumeAddsUp /\ LateExtremesKept

(***************************************************************************)
(* warmup_gap: "Fill GAPS ONLY -- never overwrite an existing bar of ANY   *)
(* src".  Not so for a bar that is finalized while the candles are         *)
(* awaited.                                                                *)
(***************************************************************************)
FillsGapsOnly ==
    [][ GapsFilled => \A m \in DOMAIN rows : rows'[m] = rows[m] ]_barVars

(***************************************************************************)
(* "Official candles become the canonical rows where they exist".  Not so  *)
(* for a minute that is filled while its bar is being built.               *)
(***************************************************************************)
CandlesStay ==
    [][ \A m \in DOMAIN rows : rows[m].src # "self" => rows'[m].src # "self" ]_barVars
=============================================================================
