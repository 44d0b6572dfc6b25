---------------------------- MODULE LoopDetector ----------------------------
(***************************************************************************)
(* The sliding-window loop detector of                                     *)
(* runtime/src/reliability/loop_detector.rs.                               *)
(*                                                                         *)
(* A call is a tool name with its input; the code keeps a 64-bit hash of   *)
(* the two, which is taken to be injective.                                *)
(***************************************************************************)
EXTENDS Naturals, Sequences, FiniteSets

CONSTANTS
    Calls,              \* the calls an agent can make
    WindowSize,         \* config.window_size, any usize
    RepeatThreshold     \* config.repeat_threshold, any usize

ASSUME WindowAssumption == WindowSize \in Nat
ASSUME RepeatAssumption == RepeatThreshold \in Nat

VARIABLE window         \* VecDeque of the latest calls, oldest first

\* How often a call occurs in a sequence of calls.
Occurrences(call, seq) == Cardinality({i \in 1..Len(seq) : seq[i] = call})

\* Mutant: a loop needs one call more.
IsLoopingLate(w) ==
    \E i \in 1..Len(w) : Occurrences(w[i], w) > RepeatThreshold

\* is_looping returns a message.
IsLooping(w) ==
    \E i \in 1..Len(w) : Occurrences(w[i], w) >= RepeatThreshold

\* The oldest call makes room for the new one when the window is full.  With
\* window_size 0 there is nothing to pop from the empty window, and one call
\* is kept.
Recorded(w, call) ==
    LET room == IF Len(w) >= WindowSize /\ w # <<>> THEN Tail(w) ELSE w
    IN  Append(room, call)

-----------------------------------------------------------------------------

DetectorInit == window = <<>>

Record(call) == window' = Recorded(window, call)

ClearWindow == window' = <<>>

DetectorNext == (\E call \in Calls : Record(call)) \/ ClearWindow

DetectorSpec == DetectorInit /\ [][DetectorNext]_window

-----------------------------------------------------------------------------

Capacity == IF WindowSize = 0 THEN 1 ELSE WindowSize

\* Type invariant: the window never outgrows its capacity.
DetectorTypeOK ==
    /\ window \in Seq(Calls)
    /\ Len(window) <= Capacity
=============================================================================
