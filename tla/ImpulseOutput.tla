---------------------------- MODULE ImpulseOutput ----------------------------
(***************************************************************************)
(* entities/drivers/ImpulseOutput/ImpulseOutput.ts: an output pin that is  *)
(* raised for a time.  Requests made before the cycle of an impulse and    *)
(* its block time are over are refused, deferred, or make the impulse      *)
(* longer.                                                                 *)
(*                                                                         *)
(* A step is one macrotask: the promises of gpio.digitalWrite settle in    *)
(* steps of their own, and what reacts to them runs in the same step, in   *)
(* the order in which it began to wait.  The handle of the block timer is  *)
(* never stored, so that isBlocked() is always false and cancel() leaves   *)
(* such timers alone: the model has their number only.                     *)
(*                                                                         *)
(* The gpio device is external: a write it is given sets the pin when it   *)
(* is done, or fails and leaves it.                                        *)
(***************************************************************************)
EXTENDS Naturals, FiniteSets

CONSTANTS
    Modes,         \* block modes a driver may be configured with
    BlockTimes,    \* {TRUE, FALSE}: is there a block time
    MaxCalls,      \* bound: calls of impulse()
    MaxCancels,    \* bound: calls of cancel()
    MaxFailures    \* bound: writes that fail

ASSUME ModesAssumption == Modes \subseteq {"fixed", "defer", "increasing"}
ASSUME BlockTimesAssumption == BlockTimes \subseteq BOOLEAN
ASSUME BoundsAssumption == MaxCalls \in Nat /\ MaxCancels \in Nat /\ MaxFailures \in Nat

Calls == 1 .. MaxCalls

VARIABLES
    mode, blockTime,   \* props
    pin,               \* is the pin raised
    impulseTimeout,    \* is the timer of the impulse armed
    starting,          \* writingStartPromise: the calls that wait for it, or NotWriting
    awaiting,          \* how many impulseFinished() wait for the start to be written
    endWrites,         \* writes of the end under way
    writingEnd,        \* is writingEndPromise set
    blocks,            \* block timers that run
    deferredImpulse,
    deferred,          \* the calls that wait for deferredWritePromise
    calls,             \* [Calls -> what became of the call]
    made, cancels, failures,
    cut                \* history: "yes" when the cycle was cancelled or a write failed,
                       \* "early" when the start was being written and nobody waited for it

vars == <<mode, blockTime, pin, impulseTimeout, starting, awaiting, endWrites, writingEnd,
          blocks, deferredImpulse, deferred, calls, made, cancels, failures, cut>>
props == <<mode, blockTime>>
counters == <<made, cancels, failures>>

NotWriting == {0}
Outcomes == {"none", "waits", "deferred", "resolved", "rejected", "dropped"}

TypeOK ==
    /\ mode \in Modes /\ blockTime \in BlockTimes
    /\ pin \in BOOLEAN /\ impulseTimeout \in BOOLEAN /\ writingEnd \in BOOLEAN
    /\ starting \in (SUBSET Calls) \cup {NotWriting}
    /\ awaiting \in Nat /\ endWrites \in Nat /\ blocks \in Nat
    /\ deferredImpulse \in BOOLEAN /\ deferred \subseteq Calls
    /\ calls \in [Calls -> Outcomes]
    /\ made \in 0 .. MaxCalls /\ cancels \in 0 .. MaxCancels /\ failures \in 0 .. MaxFailures
    /\ cut \in {"no", "yes", "early"}

Init ==
    /\ mode \in Modes /\ blockTime \in BlockTimes
    /\ pin = FALSE /\ impulseTimeout = FALSE /\ starting = NotWriting
    /\ awaiting = 0 /\ endWrites = 0 /\ writingEnd = FALSE /\ blocks = 0
    /\ deferredImpulse = FALSE /\ deferred = {}
    /\ calls = [c \in Calls |-> "none"]
    /\ made = 0 /\ cancels = 0 /\ failures = 0 /\ cut = "no"

IsImpulseInProgress == impulseTimeout \/ writingEnd \/ starting # NotWriting

Settle(cs, how) == [c \in Calls |-> IF c \in cs THEN how ELSE calls[c]]

-----------------------------------------------------------------------------
(* Requests *)

\* doStartImpulse(): the timer is set before the write is under way.  cs are
\* the calls that are told of it.
StartImpulse(cs) ==
    /\ impulseTimeout' = TRUE
    /\ starting' = cs
    /\ calls' = Settle(cs, "waits")
    /\ cut' = "no"

\* impulse() when no cycle is in progress
Impulse ==
    /\ made < MaxCalls
    /\ made' = made + 1
    /\ ~IsImpulseInProgress
    /\ StartImpulse({made + 1})
    /\ UNCHANGED <<props, pin, awaiting, endWrites, writingEnd, blocks, deferredImpulse,
                   deferred, cancels, failures>>

\* impulse() of the mode "defer" when one is: setDeferredValue()
Defer ==
    /\ made < MaxCalls
    /\ made' = made + 1
    /\ IsImpulseInProgress
    /\ mode = "defer"
    /\ deferredImpulse' = TRUE
    /\ deferred' = deferred \cup {made + 1}
    /\ calls' = Settle({made + 1}, "deferred")
    /\ UNCHANGED <<props, pin, impulseTimeout, starting, awaiting, endWrites, writingEnd,
                   blocks, cancels, failures, cut>>

\* impulse() of the mode "increasing" before the end is being written: the
\* running timer is cleared and a new one set
Increase ==
    /\ made < MaxCalls
    /\ made' = made + 1
    /\ mode = "increasing"
    /\ IsImpulseInProgress /\ ~writingEnd
    /\ impulseTimeout' = TRUE
    /\ calls' = Settle({made + 1}, "resolved")
    /\ UNCHANGED <<props, pin, starting, awaiting, endWrites, writingEnd, blocks,
                   deferredImpulse, deferred, cancels, failures, cut>>

\* impulse() that is refused: its promise resolves and nothing happens
Refuse ==
    /\ made < MaxCalls
    /\ made' = made + 1
    /\ \/ mode = "fixed" /\ IsImpulseInProgress
       \/ mode = "increasing" /\ writingEnd
    /\ calls' = Settle({made + 1}, "resolved")
    /\ UNCHANGED <<props, pin, impulseTimeout, starting, awaiting, endWrites, writingEnd,
                   blocks, deferredImpulse, deferred, cancels, failures, cut>>

\* The timer of the impulse is gone: whose end is it?
CutShort == cut' = IF starting' # NotWriting /\ awaiting = 0 THEN "early" ELSE "yes"

\* cancel(): the timer of the impulse is cleared, writes go on
Cancel ==
    /\ cancels < MaxCancels
    /\ cancels' = cancels + 1
    /\ impulseTimeout' = FALSE
    /\ deferredImpulse' = FALSE
    /\ deferred' = {}
    /\ calls' = Settle(deferred, "dropped")
    /\ UNCHANGED <<props, pin, starting, awaiting, endWrites, writingEnd, blocks, made, failures>>
    /\ CutShort

-----------------------------------------------------------------------------
(* The cycle *)

\* The write of the start is done; each impulseFinished() that waited for it
\* goes on to write the end.
StartWritten ==
    /\ starting # NotWriting
    /\ starting' = NotWriting
    /\ pin' = TRUE
    /\ calls' = Settle(starting, "resolved")
    /\ awaiting' = 0
    /\ endWrites' = endWrites + awaiting
    /\ writingEnd' = (writingEnd \/ awaiting > 0)
    /\ UNCHANGED <<props, impulseTimeout, blocks, deferredImpulse, deferred, counters, cut>>

\* startBlocking() after an error, when nothing is deferred
BlockAgain(n) == blocks' = IF blockTime THEN blocks + n ELSE blocks

\* What handleError() does to the state before it starts blocking: the
\* deferred calls are rejected and the cycle is cancelled.  gone: the calls
\* that wait for the write itself.
Abandon(gone) ==
    /\ calls' = Settle(gone \cup deferred, "rejected")
    /\ impulseTimeout' = FALSE
    /\ deferredImpulse' = FALSE
    /\ deferred' = {}
    /\ CutShort

Fails == /\ failures < MaxFailures
         /\ failures' = failures + 1

\* The write of the start fails; those who waited for it give the end up.
StartFails ==
    /\ starting # NotWriting
    /\ Fails
    /\ starting' = NotWriting
    /\ awaiting' = 0
    /\ Abandon(starting)
    /\ BlockAgain(1)
    /\ UNCHANGED <<props, pin, endWrites, writingEnd, made, cancels>>

\* A mutant: while the start is being written the end is forgotten.
NoWaiter == 0

\* impulseFinished() waits for the start to be written.
OneMoreWaiter == awaiting + 1

\* The timer of the impulse fires while the start is still being written ...
FinishLater ==
    /\ impulseTimeout
    /\ starting # NotWriting
    /\ impulseTimeout' = FALSE
    /\ awaiting' = OneMoreWaiter
    /\ UNCHANGED <<props, pin, starting, endWrites, writingEnd, blocks, deferredImpulse,
                   deferred, calls, counters, cut>>

\* ... or afterwards: the end is written.
Finish ==
    /\ impulseTimeout
    /\ starting = NotWriting
    /\ impulseTimeout' = FALSE
    /\ endWrites' = endWrites + 1
    /\ writingEnd' = TRUE
    /\ UNCHANGED <<props, pin, starting, awaiting, blocks, deferredImpulse, deferred, calls,
                   counters, cut>>

\* startDeferred(): a deferred impulse starts, or is deferred again if one is
\* in progress (inProgress tells of that, after the step it is part of).
StartDeferred(inProgress) ==
    IF mode = "defer" /\ deferredImpulse /\ ~inProgress
    THEN StartImpulse(deferred) /\ deferredImpulse' = FALSE /\ deferred' = {}
    ELSE UNCHANGED <<impulseTimeout, starting, calls, deferredImpulse, deferred, cut>>

\* A mutant: without a block time the cycle ends there and then.
NothingDeferred(inProgress) ==
    UNCHANGED <<impulseTimeout, starting, calls, deferredImpulse, deferred, cut>>

\* startBlocking() without a block time goes on at once.
GoOn(inProgress) == StartDeferred(inProgress)

\* The write of the end is done; the first of several clears the promise.
EndWritten ==
    /\ endWrites > 0
    /\ endWrites' = endWrites - 1
    /\ writingEnd' = FALSE
    /\ pin' = FALSE
    /\ IF blockTime
       THEN /\ blocks' = blocks + 1
            /\ UNCHANGED <<impulseTimeout, starting, calls, deferredImpulse, deferred, cut>>
       ELSE /\ GoOn(impulseTimeout \/ starting # NotWriting)
            /\ UNCHANGED blocks
    /\ UNCHANGED <<props, awaiting, counters>>

\* The write of the end fails: blocking starts twice, by handleError() and
\* by what follows it.
EndFails ==
    /\ endWrites > 0
    /\ Fails
    /\ endWrites' = endWrites - 1
    /\ writingEnd' = FALSE
    /\ UNCHANGED <<props, pin, starting, awaiting, made, cancels>>
    /\ Abandon({})
    /\ BlockAgain(2)

\* A block timer fires.
BlockEnds ==
    /\ blocks > 0
    /\ blocks' = blocks - 1
    /\ StartDeferred(IsImpulseInProgress)
    /\ UNCHANGED <<props, pin, awaiting, endWrites, writingEnd, counters>>

Next ==
    \/ Impulse \/ Defer \/ Increase \/ Refuse \/ Cancel
    \/ StartWritten \/ StartFails \/ FinishLater \/ Finish
    \/ EndWritten \/ EndFails \/ BlockEnds

Spec == Init /\ [][Next]_vars

\* The device answers every write and timers fire.
FairSpec ==
    /\ Spec
    /\ WF_vars(StartWritten \/ StartFails)
    /\ WF_vars(EndWritten \/ EndFails)
    /\ WF_vars(FinishLater \/ Finish)
    /\ WF_vars(BlockEnds)

-----------------------------------------------------------------------------
(* Properties *)

\* Something is going to lower the pin.
EndIsComing == impulseTimeout \/ awaiting > 0 \/ endWrites > 0

\* A raised pin is not forgotten: while it is raised, or being raised, the
\* end of the impulse is on its way, in every mode and however slow the
\* device is.  Excepted is a cycle that cancel() or a failed write has cut:
\* its timer is gone and the pin may stay raised until the next impulse.
RaisedMeansEnds == (pin \/ starting # NotWriting) => (EndIsComing \/ cut # "no")

\* Calls that were deferred are not forgotten: the cycle or the block time
\* that will start their impulse is still under way, after failed writes and
\* cancellations too.  Excepted is the one cycle that was cut while its start
\* was being written (DeferredStart).
DeferredAreServed == deferred # {} => (EndIsComing \/ blocks > 0 \/ cut = "early")

\* The promise of every call that starts an impulse settles.  One that is
\* deferred, unless to a cycle that was cut early, starts its own impulse,
\* is rejected with a failed write, or is dropped by cancel().
CallsSettle ==
    \A c \in Calls :
        /\ calls[c] = "waits" ~> calls[c] \in {"resolved", "rejected"}
        /\ (calls[c] = "deferred" /\ cut # "early") ~> calls[c] # "deferred"

\* "Other requests make new impulse start after that" (ImpulseOutput.ts:48),
\* also those made after cancel().
DeferredStart == \A c \in Calls : calls[c] = "deferred" ~> calls[c] # "deferred"
=============================================================================
