---------------------------- MODULE PaperBroker ----------------------------
(***************************************************************************)
(* The paper broker (paper/broker.py): orders and GTT triggers that rest   *)
(* in a book, driven by ticks and bars.  Everything is synchronous; what   *)
(* makes it hard is the order in which placements, modifies, cancels, late *)
(* or restated ticks, day rolls and raising callables arrive.              *)
(*                                                                         *)
(* The feed is the environment: tape is what really traded, and a tick may *)
(* print a cumulative volume below it (a restatement).  Fill prices,       *)
(* slippage, positions and margins are left out: nothing here reads them.  *)
(***************************************************************************)
EXTENDS Integers, FiniteSets

CONSTANTS
    OrderIds, GttIds, Symbols,
    Ticking,                        \* the symbols that still print
    Quotes,                         \* what ticks print as the last price
    Prices, Qtys, Sides, Types,     \* of the orders: Types \subseteq {"MARKET", "LIMIT", "SL-M"}
    Share,                          \* an order may take 1/Share of a minute's volume
    MaxPlaced,                      \* bound on the orders that no trigger placed
    DayMinutes, MaxMinute,          \* length of a day, bound on the clock
    Trades, MaxTape,                \* sizes of a trade; per symbol, bound on a day's tape
    Restated, BarVolumes,           \* what a restated tick prints, the volumes of the bars
    GttShapes                       \* the triggers, last prices and legs GTTs are placed with

ASSUME PaperAssumption ==
    /\ Ticking \subseteq Symbols /\ {Share, DayMinutes} \subseteq Nat \ {0}
    /\ {MaxMinute, MaxPlaced} \subseteq Nat /\ MaxTape \in [Symbols -> Nat]
    /\ Trades \cup Restated \cup BarVolumes \subseteq Nat
    /\ GttShapes \subseteq [triggers : SUBSET Prices, last : Quotes, side : Sides, qty : Qtys]
    /\ Quotes \cup Prices \subseteq Nat /\ Qtys \subseteq Nat \ {0}
    /\ "none" \notin GttIds

VARIABLES
    now,            \* the minute
    orders,         \* _orders, of which the "OPEN" ones rest
    gtts,           \* _gtt_book
    states,         \* _symbols: a _SymbolState each
    session,        \* _session_date, -1 before the first tick
    tape,           \* what has traded today (environment)
    honest,         \* the tape at the last honest tick of an earlier minute, and of this one (history)
    took            \* what each order took of its last minute, and the volume shown (history)

paperVars == <<now, orders, gtts, states, session, tape, honest, took>>

None == -1
Today == now \div DayMinutes

Absent == [status |-> "absent", symbol |-> "none", type |-> "none", side |-> "none", qty |-> 0,
           price |-> 0, filled |-> 0, cancelled |-> 0, triggered |-> FALSE, placed |-> 0,
           key |-> None, spent |-> 0, gtt |-> "none"]
NoGtt == [status |-> "absent", symbol |-> "none", shape |-> "none", listed |-> "none"]
Fresh == [day |-> None, minute |-> None, cum |-> None, start |-> 0, running |-> 0,
          bar |-> 0, saw |-> FALSE, reset |-> FALSE]

PaperInit ==
    /\ now = 0 /\ session = None
    /\ orders = [o \in OrderIds |-> Absent] /\ gtts = [g \in GttIds |-> NoGtt]
    /\ states = [s \in Symbols |-> Fresh]
    /\ tape = [s \in Symbols |-> 0] /\ honest = [s \in Symbols |-> [before |-> None, latest |-> None]]
    /\ took = [o \in OrderIds |-> [minute |-> None, qty |-> 0, volume |-> 0]]

Max2(a, b) == IF a >= b THEN a ELSE b
Min2(a, b) == IF a <= b THEN a ELSE b

-----------------------------------------------------------------------------
(* _register *)
Registered(book, o, symbol, type, side, qty, price, gtt) ==
    [book EXCEPT ![o] =
        [status |-> "OPEN", symbol |-> symbol, type |-> type, side |-> side, qty |-> qty, price |-> price,
         filled |-> 0, cancelled |-> 0, triggered |-> FALSE, placed |-> now, key |-> None, spent |-> 0,
         gtt |-> gtt]]

(* place_order: booked, or rejected by the injected rejection.             *)
PlaceOrder ==
    /\ Cardinality({o \in OrderIds : orders[o].status # "absent" /\ orders[o].gtt = "none"}) < MaxPlaced
    /\ \E o \in OrderIds, s \in Symbols, type \in Types, side \in Sides, q \in Qtys, p \in Prices :
          /\ orders[o].status = "absent"
          /\ LET booked == Registered(orders, o, s, type, side, q, p, "none")
             IN orders' \in {booked, [booked EXCEPT ![o].status = "REJECTED"]}
    /\ UNCHANGED <<now, gtts, states, session, tape, honest, took>>

(* Mutant of the next definition: a fully filled order stays open.         *)
AmendedOpen(order, qty, price) == [order EXCEPT !.qty = qty, !.price = price]

(* modify_order, once the quantity is accepted; prices that do not parse   *)
(* have no caller.                                                         *)
Amended(order, qty, price) ==
    [order EXCEPT !.qty = qty, !.price = price,
                  !.status = IF order.filled >= qty THEN "COMPLETE" ELSE "OPEN"]

ModifyOrder(o) ==
    /\ orders[o].status = "OPEN"
    /\ \E q \in Qtys, p \in Prices :
          /\ q >= orders[o].filled
          /\ orders' = [orders EXCEPT ![o] = Amended(orders[o], q, p)]
    /\ UNCHANGED <<now, gtts, states, session, tape, honest, took>>

(* _terminate: what had filled stays filled, the rest is cancelled.        *)
Terminated(order, status) ==
    [order EXCEPT !.cancelled = order.qty - order.filled, !.status = status]

(* cancel_order: a stop past its trigger is not taken back.                *)
CancelOrder(o) ==
    /\ orders[o].status = "OPEN" /\ ~orders[o].triggered
    /\ orders' = [orders EXCEPT ![o] = Terminated(orders[o], "CANCELLED")]
    /\ UNCHANGED <<now, gtts, states, session, tape, honest, took>>

-----------------------------------------------------------------------------
(* place_gtt and modify_gtt: one trigger, or the two of an OCO; below the  *)
(* last price a trigger is a stop, else a target.  A modify may name       *)
(* another symbol; the id stays in the list of the one it was placed for.  *)
SetGtt(g) ==
    /\ gtts[g].status \in {"absent", "active"}
    /\ \E s \in Symbols, shape \in GttShapes :
          LET listed == IF gtts[g].status = "active" THEN gtts[g].listed ELSE s
          IN gtts' = [gtts EXCEPT ![g] =
                        [status |-> "active", symbol |-> s, shape |-> shape, listed |-> listed]]
    /\ UNCHANGED <<now, orders, states, session, tape, honest, took>>

DeleteGtt(g) ==
    /\ gtts[g].status \in {"active", "triggered", "failed"}
    /\ gtts' = [gtts EXCEPT ![g].status = "deleted"]
    /\ UNCHANGED <<now, orders, states, session, tape, honest, took>>

-----------------------------------------------------------------------------
DayOf(order) == order.placed \div DayMinutes

(* Mutant of the next definition: only the ticking symbol's orders lapse.  *)
LapsedOfSymbol(book, s) ==
    [o \in OrderIds |-> IF book[o].status = "OPEN" /\ DayOf(book[o]) < Today /\ book[o].symbol = s
                        THEN Terminated(book[o], "CANCELLED") ELSE book[o]]

(* _lapse_all: every order that rests from an earlier day.                 *)
Lapsed(book, s) ==
    [o \in OrderIds |-> IF book[o].status = "OPEN" /\ DayOf(book[o]) < Today
                        THEN Terminated(book[o], "CANCELLED") ELSE book[o]]

(* Where a new minute's volume is measured from: the high-water mark.      *)
MinuteFrom(st, cum) == IF st.cum # None THEN st.cum ELSE cum

(* on_tick, up to the matching: the day roll and the cumulative volume.    *)
Heard(st, cum) ==
    LET today == IF st.day = Today THEN st
                 ELSE [st EXCEPT !.day = Today, !.cum = None, !.minute = None, !.start = 0, !.running = 0]
        start == IF today.minute = now THEN today.start ELSE MinuteFrom(today, cum)
        mark == Max2(cum, today.cum)
    IN [today EXCEPT !.saw = @ \/ cum > 0, !.reset = today.cum # None /\ cum < today.cum,
                     !.minute = now, !.start = start, !.cum = mark, !.running = Max2(mark - start, 0)]

(* _effective_volume: None is a symbol that never reported any.            *)
EffectiveVolume(st) ==
    IF st.reset THEN 0
    ELSE IF st.running > 0 THEN st.running
    ELSE IF st.bar > 0 THEN st.bar
    ELSE IF st.saw THEN 0 ELSE None

Spent(order, st) == IF order.key = st.minute THEN order.spent ELSE 0

(* Mutant of the next definition: the share is taken anew on every tick.   *)
FillablePerTick(order, st) ==
    IF EffectiveVolume(st) = None THEN order.qty - order.filled
    ELSE Min2(order.qty - order.filled, EffectiveVolume(st) \div Share)

(* _fillable_qty *)
Fillable(order, st) ==
    IF EffectiveVolume(st) = None THEN order.qty - order.filled
    ELSE Max2(Min2(order.qty - order.filled, EffectiveVolume(st) \div Share - Spent(order, st)), 0)

Crossed(order, ltp) ==
    order.triggered \/ (order.side = "BUY" /\ ltp >= order.price) \/ (order.side = "SELL" /\ ltp <= order.price)

Through(order, ltp) ==
    \/ order.type = "MARKET"
    \/ order.type = "LIMIT" /\ (order.side = "BUY" => ltp < order.price) /\ (order.side = "SELL" => ltp > order.price)
    \/ order.type = "SL-M" /\ Crossed(order, ltp)

(* _match and, when a callable raises in it, _reject_internal.             *)
Matched(order, st, ltp, late, raises) ==
    LET hit == [order EXCEPT !.triggered = @ \/ order.type = "SL-M"]
        qty == Fillable(order, st)
        charged == IF EffectiveVolume(st) = None THEN hit
                   ELSE [hit EXCEPT !.key = st.minute, !.spent = Spent(order, st)]
        filled == [charged EXCEPT !.filled = @ + qty, !.spent = @ + qty,
                                  !.status = IF order.filled + qty >= order.qty THEN "COMPLETE" ELSE "OPEN"]
    IN IF late \/ ~Through(order, ltp) THEN order
       ELSE IF qty = 0 THEN charged
       ELSE IF raises THEN Terminated(charged, IF order.filled > 0 THEN "CANCELLED" ELSE "REJECTED")
       ELSE filled

Resting(book, s) == {o \in OrderIds : book[o].status = "OPEN" /\ book[o].symbol = s}

Hit(gtt, ltp) ==
    {t \in gtt.shape.triggers : IF t < gtt.shape.last THEN ltp <= t ELSE ltp >= t}

(* A leg is a LIMIT order at its trigger, unless it brings a price. *)
Leg(book, g, o, t) ==
    Registered(book, o, gtts[g].symbol, "LIMIT", gtts[g].shape.side, gtts[g].shape.qty, t, g)[o]

(* Mutant of the next definition: the postback raises before the mark.     *)
FiredAfterPostback(book, g, o, t, raises) ==
    [order |-> Leg(book, g, o, t), status |-> IF raises THEN "failed" ELSE "triggered"]

(* _fire_gtt_leg: booked, marked, and only then published; a leg that      *)
(* cannot be registered leaves nothing behind but a failed trigger.        *)
Fired(book, g, o, t, raises) ==
    IF raises THEN [order |-> book[o], status |-> "failed"]
    ELSE [order |-> Leg(book, g, o, t), status |-> "triggered"]

(* The triggers that a tick at ltp of symbol s hits: those in its list.    *)
Firing(s, ltp) == {g \in GttIds : gtts[g].status = "active" /\ gtts[g].listed = s /\ Hit(gtts[g], ltp) # {}}

(* _match_gtts: every trigger that is hit fires, or fails; at gives each   *)
(* the id of its leg, and at most one of the two legs of an OCO is booked. *)
MatchGtts(book, s, ltp) ==
    LET firing == Firing(s, ltp)
    IN \E at \in [firing -> {o \in OrderIds : book[o].status = "absent"}],
          hit \in [firing -> Prices], raising \in SUBSET firing :
         LET fire == [g \in firing |-> Fired(book, g, at[g], hit[g], g \in raising)]
         IN /\ \A g \in firing : hit[g] \in Hit(gtts[g], ltp)
            /\ \A g, h \in firing : at[g] = at[h] => g = h
            /\ orders' = [o \in OrderIds |-> IF \E g \in firing : at[g] = o
                                             THEN fire[CHOOSE g \in firing : at[g] = o].order ELSE book[o]]
            /\ gtts' = [g \in GttIds |-> IF g \in firing THEN [gtts[g] EXCEPT !.status = fire[g].status]
                                         ELSE gtts[g]]

(* The book that a tick matches: a first tick of a day lapses, before all. *)
Swept(s) == IF session # None /\ session < Today THEN Lapsed(orders, s) ELSE orders

MatchedBook(book, s, st, ltp, waiting, broken) ==
    [o \in OrderIds |-> IF o \in Resting(book, s)
                        THEN Matched(book[o], st, ltp, o \in waiting, o \in broken) ELSE book[o]]

(* What the orders have taken of this minute, and the most it showed.      *)
Tallied(book, matched, st) ==
    [o \in OrderIds |->
        LET got == matched[o].filled - book[o].filled
            minuted == IF took[o].minute = now THEN took[o] ELSE [minute |-> now, qty |-> 0, volume |-> 0]
        IN IF got = 0 \/ EffectiveVolume(st) = None THEN took[o]
           ELSE [minuted EXCEPT !.qty = @ + got, !.volume = Max2(@, EffectiveVolume(st))]]

(* The honest volume, or a restatement of one that was honest.             *)
Printed(s, n) == {tape[s] + n} \cup {c \in Restated : c < tape[s] + n /\ honest[s].latest # None}

HonestAfter(s, n, cum) ==
    [before |-> IF states[s].day # Today \/ states[s].minute # now THEN honest[s].latest ELSE honest[s].before,
     latest |-> IF cum = tape[s] + n THEN cum ELSE honest[s].latest]

Arrives(s, n, ltp, cum, waiting, broken) ==
    LET st == Heard(states[s], cum)
        matched == MatchedBook(Swept(s), s, st, ltp, waiting, broken)
    IN /\ tape[s] + n <= MaxTape[s]
       /\ session' = Max2(session, Today)
       /\ states' = [states EXCEPT ![s] = st]
       /\ tape' = [tape EXCEPT ![s] = @ + n]
       /\ honest' = [honest EXCEPT ![s] = HonestAfter(s, n, cum)]
       /\ took' = Tallied(Swept(s), matched, st)
       /\ MatchGtts(matched, s, ltp)
       /\ UNCHANGED now

(* on_tick: n more shares have traded; the tick prints the tape, or a      *)
(* restatement of it; an order may be waiting out its latency up to the    *)
(* minute after its own, and the callables of any of the others may raise. *)
OnTick(s) ==
    LET resting == Resting(Swept(s), s)
    IN \E n \in Trades, ltp \in Quotes, waiting \in SUBSET {o \in resting : Swept(s)[o].placed + 1 >= now} :
       \E broken \in SUBSET (resting \ waiting), cum \in Printed(s, n) :
          Arrives(s, n, ltp, cum, waiting, broken)

(* on_bar: the last closed minute's volume. *)
OnBar(s) ==
    /\ \E v \in BarVolumes : states' = [states EXCEPT ![s].bar = v]
    /\ states' # states
    /\ UNCHANGED <<now, orders, gtts, session, tape, honest, took>>

(* The clock; the tape starts again every day. *)
Minute ==
    /\ now < MaxMinute /\ now' = now + 1
    /\ LET rolls == (now + 1) \div DayMinutes > Today
       IN /\ tape' = [s \in Symbols |-> IF rolls THEN 0 ELSE tape[s]]
          /\ honest' = [s \in Symbols |-> IF rolls THEN [before |-> None, latest |-> None] ELSE honest[s]]
    /\ UNCHANGED <<orders, gtts, states, session, took>>

PaperNext ==
    \/ PlaceOrder \/ Minute
    \/ \E o \in OrderIds : ModifyOrder(o) \/ CancelOrder(o)
    \/ \E g \in GttIds : SetGtt(g) \/ DeleteGtt(g)
    \/ \E s \in Ticking : OnTick(s) \/ OnBar(s)

PaperSpec == PaperInit /\ [][PaperNext]_paperVars

-----------------------------------------------------------------------------
Outcome == [absent |-> "absent", OPEN |-> "open", COMPLETE |-> "complete",
            CANCELLED |-> "cancelled", REJECTED |-> "rejected"]

BookOf(o) == [status |-> Outcome[orders[o].status], qty |-> orders[o].qty,
              price |-> orders[o].price, filled_qty |-> orders[o].filled]
Book(o) == INSTANCE BrokerBook WITH book <- BookOf(o)

(* Whatever ticks, lapses and triggers do to it, each order of the paper   *)
(* broker lives as the broker the order management was checked against     *)
(* (the BrokerSurface that live and paper share).                          *)
ImplementsBroker ==
    /\ \A o \in OrderIds : Book(o)!Init
    /\ [][\A o \in OrderIds : [Book(o)!Next]_(BookOf(o))]_paperVars

(* A closed order accounts for its whole quantity, so no fill and no       *)
(* residual is lost on the frame that reports it (_terminate).             *)
QuantityAccounted ==
    \A o \in OrderIds :
        orders[o].status \in {"COMPLETE", "CANCELLED"} => orders[o].filled + orders[o].cancelled = orders[o].qty

(* No order takes more than its share of the volume that was shown in one  *)
(* minute, however many ticks the minute has (_fillable_qty).              *)
ShareHolds == \A o \in OrderIds : took[o].qty * Share <= took[o].volume

(* The volume orders are sized on never exceeds what traded since the last *)
(* honest print before the minute, through any restatement (on_tick).      *)
BaseNotInflated ==
    \A s \in Symbols : honest[s].before # None /\ states[s].minute = now =>
        states[s].running <= tape[s] - honest[s].before

(* A trigger has fired exactly when one order was booked for it, and a     *)
(* trigger that failed or waits has booked none (_fire_gtt_leg).           *)
OneLegPerTrigger ==
    \A g \in GttIds :
        LET legs == Cardinality({o \in OrderIds : orders[o].gtt = g})
        IN /\ gtts[g].status = "triggered" => legs = 1
           /\ gtts[g].status \in {"absent", "active", "failed"} => legs = 0

(* A trigger watches the symbol its leg trades.  Not so once a modify has  *)
(* named another one: "Replace an ACTIVE GTT's triggers/legs in place"     *)
(* (modify_gtt).                                                           *)
TriggerWatchesItsSymbol ==
    \A g \in GttIds : gtts[g].status = "active" => gtts[g].listed = gtts[g].symbol

(* When a tick shows a new day, no order of an earlier day rests on any    *)
(* symbol any more (_lapse_all).  Not so for the first tick the broker     *)
(* ever sees, which sweeps nothing.                                        *)
DayOrdersLapse ==
    [][session # None /\ session' > session =>
          \A o \in OrderIds : orders'[o].status = "OPEN" => DayOf(orders'[o]) >= session']_paperVars
=============================================================================
