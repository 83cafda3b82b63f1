------------------------------ MODULE FrameTimes ------------------------------
(* diagnostics.cc: the window of recent frame times.  The buffer is a fixed  *)
(* array of zeros, so an index that is off shows as a zero or an old time.   *)
EXTENDS Naturals, Integers, Sequences, FiniteSetsExt

CONSTANTS
    Window,         \* kFrameWindow (60)
    Times,          \* frame times, in ms
    MaxFrames       \* bound: frames recorded

\* What is assumed of the constants.
FrameAssumption == Window \in Nat \ {0} /\ Times \subseteq Nat \ {0}

VARIABLE frames     \* recent, head, count, total; every time recorded

NoFrames == [recent |-> [i \in 0..(Window - 1) |-> 0], head |-> 0, count |-> 0,
             total |-> 0, recorded |-> <<>>]
Init == frames = NoFrames

RecordFrame(ms) ==
    /\ frames.total < MaxFrames
    /\ frames' = [recent |-> [frames.recent EXCEPT ![frames.head] = ms],
                  head |-> (frames.head + 1) % Window,
                  count |-> Min({frames.count + 1, Window}),
                  total |-> frames.total + 1,
                  recorded |-> Append(frames.recorded, ms)]
ResetForTesting == frames' = NoFrames
Next == (\E ms \in Times : RecordFrame(ms)) \/ ResetForTesting

\* Get(): the average is kept as a sum and a count.
HeadIsLastVariant == frames.recent[frames.head]
FrameLast == frames.recent[(frames.head + Window - 1) % Window]
FrameSum == MapThenSumSet(LAMBDA i : frames.recent[i], 0..(frames.count - 1))

-----------------------------------------------------------------------------
(* Properties. *)

\* The diagnostics are about the frames there were: the last one, and the
\* average over the last Window of them.
TimesAreRecent ==
    frames.recorded # <<>> =>
        LET newest == SubSeq(frames.recorded,
                             Max({0, Len(frames.recorded) - Window}) + 1,
                             Len(frames.recorded))
        IN  /\ FrameLast = newest[Len(newest)]
            /\ frames.count = Len(newest)
            /\ FrameSum = MapThenSumSet(LAMBDA i : newest[i], DOMAIN newest)

=============================================================================
