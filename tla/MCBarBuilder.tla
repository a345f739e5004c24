---------------------------- MODULE MCBarBuilder ----------------------------
(***************************************************************************)
(* What becomes of the ticks, in two parts that share no variable: a       *)
(* behaviour is of the bars built from them, or of the raw ticks' files.   *)
(***************************************************************************)
EXTENDS BarBuilder

CONSTANTS LastDay, MaxTicks, MaxFaults, Retention           \* of the files

VARIABLES
    half,
    phase, engine, buffer, flush, job, disk, ticks, faults, written, gone

fileVars == <<phase, engine, buffer, flush, job, disk, ticks, faults, written, gone>>
tickVars == <<half, barVars, fileVars>>

Files == INSTANCE TickStore WITH now <- phase

ASSUME TicksAssumption == Files!TickAssumption

(* A low price with the larger volume, so that either order of two prints  *)
(* is a rise or a fall, and a widening one way or the other.               *)
MCPrints == {[price |-> 1, volume |-> 2], [price |-> 2, volume |-> 1]}

TicksInit == half \in {"bars", "files"} /\ BarInit /\ Files!Init

Stores(A) == half = "files" /\ A /\ UNCHANGED <<half, barVars>>

TicksNext ==
    \/ half = "bars" /\ BarNext /\ UNCHANGED <<half, fileVars>>
    \/ Stores(Files!Next)

TicksSpec ==
    /\ TicksInit /\ [][TicksNext]_tickVars
    /\ WF_tickVars(Stores(Files!Tick)) /\ WF_tickVars(Stores(Files!FlushEnds))
    /\ WF_tickVars(Stores(Files!JobRuns)) /\ WF_tickVars(Stores(Files!Process))

(* No written tick is lost to a compaction, a late flush or a crash, and   *)
(* rows doubled by an interrupted compaction are repaired: in the end each *)
(* is read once.                                                           *)
TicksReadOnce == []Files!TicksKept /\ Files!DuplicatesRepaired
=============================================================================
