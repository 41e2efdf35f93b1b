----------------------------- MODULE EpochInfo -----------------------------
(***************************************************************************)
(* The timer of x/epochs: the record kept for one identifier and what the  *)
(* first step of a block does to it.                                       *)
(***************************************************************************)
EXTENDS Integers

Unset == -1            \* the zero time

(* startTime, duration: the schedule; started, epoch, epochStart: the      *)
(* current epoch; startHeight: the block in which it began.                *)
EpochInfo ==
    [startTime : Int, duration : Nat, started : BOOLEAN, epoch : Nat,
     epochStart : Int, startHeight : Nat]

(* AddEpochInfo *)
AddEpochInfo(start, duration, t, h) ==
    [startTime |-> IF start = Unset THEN t ELSE start, duration |-> duration,
     started |-> FALSE, epoch |-> 0, epochStart |-> Unset, startHeight |-> h]

EpochEnd(e) == e.epochStart + e.duration

(* Export and import: AddEpochInfo keeps what was exported, but takes the  *)
(* height of the import as that of the epoch's start.                      *)
Imported(e, h) == [e EXCEPT !.startHeight = h]

(* What a block at time t does to the timer. *)
StartsCounting(e, t) == e.startTime <= t /\ ~e.started
Ends(e, t) == e.startTime <= t /\ e.started /\ EpochEnd(e) < t

Counting(e, h) ==
    [e EXCEPT !.started = TRUE, !.epoch = 1, !.epochStart = e.startTime, !.startHeight = h]

Tick(e, h) ==
    [e EXCEPT !.epoch = @ + 1, !.epochStart = EpochEnd(e), !.startHeight = h]
=============================================================================
